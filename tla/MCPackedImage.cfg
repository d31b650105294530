SPECIFICATION PackSpec
CONSTANTS
  app = app  liba = liba  libb = libb  priv = priv  ld = ld
  bin = bin  usrlib = usrlib  opt = opt  colon = colon  std = std
  app_ = app_  a = a  a1 = a1  b = b  p = p  o = o  ld_ = ld_
  NoFile = NoFile  NoName = NoName  NoInterp = NoInterp
  Origin = Origin  Platform = Platform  Interp = Interp
  Files <- MCFiles  Binary <- app  Dirs <- MCDirs  Names <- MCNames
  PathNames = {}  CachedNames = {a, a1, b, o, ld_}
  PlatformDir <- bin  DefaultDirs <- MCDefaultDirs
  Base <- MCBase  InterpDir <- std  InterpName <- ld_
  Sysroots <- PassingLayouts
CHECK_DEADLOCK FALSE
INVARIANTS PackedIsWhole PackedImageLoads HostRunsSoPacks SameLibraries
