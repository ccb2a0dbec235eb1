SPECIFICATION Spec
CONSTANTS
  r1 = r1
  r2 = r2
  f1 = f1
  x1 = x1
  a = a
  b = b
  None = None
  Profiles = {a, b}
  Readers = {r1, r2}
  Followers = {f1}
  Indexers = {x1}
  Follows <- FollowsFirst
  MaxId = 3
  MaxOpen = 1
  Settings <- RefusedOnly
INVARIANTS
  RefusalMeansServed
