SPECIFICATION ResyncSpec
CONSTANTS
  Servers = {s1, s2}
  NoServer = NoServer
  Repositories = {r1, r2}
  MaxCommit = 4
  NoCommit = 0
  TreeOf <- RevertTreeOf
  Torn = "torn"
  ResyncAttempts = 2
  MaxMoves = 2
  ResyncSettings <- RevertSettings
PROPERTY SkippedIsDescribed
CHECK_DEADLOCK FALSE
