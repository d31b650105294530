SPECIFICATION Spec
CONSTANTS
  Packages <- MCPackages
  NameOf <- MCNameOf
  Files <- MCFiles
  Patterns = {"glob"}
  Merged = {"merged"}
  Unmerged = {"plain"}
  Conffiles = {"conf"}
  Bundle = "bundle"
  BundleName = "certs"
  Local = "local"
  Nobody = "nobody"
  Databases <- MCDatabases
  Backends <- MCBackends
  MaxChanges = 2
INVARIANTS
  CreditedOwned
  UnownedWasSeen
  RecordsMatchReport
CHECK_DEADLOCK FALSE
