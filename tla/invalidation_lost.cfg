SPECIFICATION Spec
CONSTANTS
  Names = {1, 2}
  s1 = s1
  s2 = s2
  Sources = {s1, s2}
  Contents = {c1, c2}
  Passes = {p1}
  None = None
  MaxAttempts = 2
  Settings <- OnlyIndexed
INVARIANTS NoEditIsLost
CHECK_DEADLOCK FALSE
