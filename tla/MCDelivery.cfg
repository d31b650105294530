SPECIFICATION DeliverySpec
CONSTANTS
  Names = {"a", "b", "wh", "opq"}
  Archives <- AllArchives
  EntryCap = 2
  LayerCap = 2
  MaxLinks = 3
  NoName = "none"
  Trees <- MCTrees
  Configs <- MCConfigs
  Hides <- MCHides
  Sizes <- MCSizes
  MaxBuilds = 2
CHECK_DEADLOCK FALSE
INVARIANTS
  RoundTrip
  Reproducible
  HeldFitsArchive
  TreeIsOverlay
  ReportIsOfFinalImage
PROPERTY ReadingEnds
