SPECIFICATION ServerSpec
CONSTANTS
  Servers = {s1, s2}
  NoServer = NoServer
  Repositories = {r1, r2}
  MaxCommit = 4
  NoCommit = 0
  TreeOf <- MCTreeOf
  Torn = "torn"
  ResyncAttempts = 2
  MaxMoves = 2
  ResyncSettings <- MCResyncSettings
  MaxGeneration = 2
  MaxEdits = 2
  NoRecord = NoRecord
  FreshnessSettings <- MCFreshnessSettings
  Calls = {c1, c2}
  RestartLimit = 1
  MaxSessions = 4
  WorkerSettings <- MCWorkerSettings
  Hosts = {h1, h2}
  NoHost = NoHost
  Projects = {p, q}
  Languages = {go}
  Unregistered = None
  JobHistory = 1
  MaxOperations = 3
  IndexSettings <- MCIndexSettings
  TopFiles = {f}
  SubFiles = {g}
  Sub = Sub
  Contents = {1, 2}
  Absent = 0
  EventBuffer = 1
  BatchBuffer = 1
  WatchSettings <- MCWatchSettings
  Daemons = {d1, d2}
  UnitDaemon = d1
  Serves = {v1, v2}
  Ports = {7788, 49152, 49153}
  DefaultPort = 7788
  Nobody = Nobody
  Stranger = Stranger
  Stale = Stale
  StartLimit = 2
  DaemonSettings <- MCDaemonSettings
  lib = lib
  app = app
  Units = {lib, app}
  ProvidersOf <- MCProvidersOf
  Revisions = {1, 2}
  CacheSettings <- MCCacheSettings
  Updaters = {u1, u2}
  UpdateSettings <- MCUpdateSettings
  Profiles = {standard, work, lab}
  FirstProfile = standard
  Members = {m}
  Clients = {k1, k2}
  Missing = Missing
  Bare = Bare
  ProfileSettings <- MCProfileSettings
INVARIANTS
  ServerTypeOK
  FreshWasCompared
  ReadinessIsTold
  AnswersStayInTheirSession
  NothingOutlivesClose
  AcceptedIsPollable
  RegistryIsKept
  PendingCoversTheGap
  WatchFollowsTree
  FactsAreReproducible
  BundleSurvives
  ProfilesKeepTheirRegistry
PROPERTIES
  AbandonsOnlyRepeats
  ResyncSettles
  FreshnessSettles
  UpgradeIsWhole
  WorkerSettles
  ChangesReachTheConsumer
  DaemonRecovers
  UrlMovesOnlyIfTaken
CHECK_DEADLOCK FALSE
