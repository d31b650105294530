SPECIFICATION Spec
CONSTANTS
  bin = bin
  lib = lib
  nss = nss
  conf = conf
  tini = tini
  zone = zone
  status = status
  osrel = osrel
  var = var
  user = user
  Program = bin
  Libs <- MCLibs
  Modules <- MCModules
  Conf <- MCConf
  Extra <- MCExtra
  Locale = zone
  Records <- MCRecords
  OsRelease = osrel
  RecordDirs <- MCRecordDirs
  Elsewhere <- MCElsewhere
  Options <- MCOptions
  Scans <- MCScans
CHECK_DEADLOCK FALSE
INVARIANTS RecordsShipIfAsked PolicyIsKept GatesSawOutput StagedFilesShip SelectionsAnswered SignedIsPushed
