SPECIFICATION Spec
CONSTANTS
  Names <- AnyName
  MaxLinks = 3
  MaxSteps = 15
  Requests <- Dotted
CHECK_DEADLOCK FALSE
INVARIANT NamedIsKept
