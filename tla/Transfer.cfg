SPECIFICATION Spec
CONSTANTS
  None = None
  Restorers = {x1, x2}
  Runners = {x1, x2, cli}
  Keys = {k1}
  Versions = 3
  Through = 2
  Tables = 2
  LedgerPart = 2
  MaxRuns = 3
  MaxStops = 1
  MaxChanges = 2
  MaxBackups = 1
INVARIANTS
  DestinationSound
  BackupIsConsistent
PROPERTIES
  VerifiedIsBackup
SYMMETRY Restores
CHECK_DEADLOCK FALSE
