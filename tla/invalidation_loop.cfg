SPECIFICATION FairSpec
CONSTANTS
  Names = {1, 2}
  s1 = s1
  s2 = s2
  Sources = {s1, s2}
  Contents = {c1, c2}
  Passes = {p1, p2}
  None = None
  MaxAttempts = 2
  Settings <- WatchedSources
INVARIANTS TypeOK NobodyForgotten
PROPERTIES Settles Converges
CHECK_DEADLOCK FALSE
