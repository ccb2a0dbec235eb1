SPECIFICATION Spec
CONSTANTS
  p1 = p1
  p2 = p2
  None = None
  Procs = {p1, p2}
  MaxId = 4
  Settings <- OnlyUndisturbedPublishers
  MaxFaults = 2
INVARIANTS
  PruneSparesPublications
CHECK_DEADLOCK FALSE
