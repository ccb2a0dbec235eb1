SPECIFICATION Spec
CONSTANTS
  p1 = p1
  p2 = p2
  None = None
  Procs = {p1, p2}
  MaxId = 4
  Settings <- OnlyPublishers
  MaxFaults = 2
SYMMETRY Symmetry
INVARIANTS
  SwitchIsExclusive
  CandidateIsDebris
CHECK_DEADLOCK FALSE
