SPECIFICATION Spec
CONSTANTS
  app = app  liba = liba  libb = libb  foreign = foreign
  priv = priv  other = other  std = std
  x = x  y = y  z = z  p = p
  NoFile = NoFile  NoName = NoName  NoInterp = NoInterp
  Origin = Origin  Platform = Platform  Interp = Interp
  Files <- MCFiles  Binary <- app  Dirs <- MCDirs  Names <- MCNames
  PathNames = {p}  CachedNames = {x, y}
  PlatformDir <- priv  DefaultDirs <- MCDefaultDirs
  Sysroots <- MCSysroots
CHECK_DEADLOCK FALSE
INVARIANTS
  ResolutionIsExact GraphIsWhole
  BreadthFirst
PROPERTIES Terminates ImplementsClosure
