SPECIFICATION Spec
CONSTANTS
  Names <- AnyName
  MaxLinks = 3
  MaxSteps = 15
  Requests <- Straight
CHECK_DEADLOCK FALSE
INVARIANTS WritesStayInside StagedStay OmissionsAreSaid AddedLinksResolve
