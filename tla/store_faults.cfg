SPECIFICATION FairSpec
CONSTANTS
  p1 = p1
  p2 = p2
  None = None
  Procs = {p1, p2}
  MaxId = 4
  Settings <- RestartsAndPowerCuts
  MaxFaults = 2
INVARIANTS
  TypeOK
  CurrentResolves
  BackupWasActive
  UndoneMeansUntouched
  RetainsActiveAndBackup
  RollbackCanBeRolledForward
PROPERTIES
  ImplementsActiveGeneration
  RetrySucceeds
