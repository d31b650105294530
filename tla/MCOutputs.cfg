SPECIFICATION Spec
CONSTANTS
  p1 = p1
  p2 = p2
  p3 = p3
  Packs = {p1, p2, p3}
  Readers = {r}
  Blocks = 2
  Old = old
  Hole = hole
SYMMETRY PackSymmetry
CHECK_DEADLOCK FALSE
INVARIANTS
  ReaderSeesWhole
  NeverLooser
  SiblingsSwept
  NothingStaleIsMerged
