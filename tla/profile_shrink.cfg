SPECIFICATION ProfileSpec
CONSTANTS
  Profiles = {standard, work}
  FirstProfile = standard
  Members = {m}
  Clients = {k1}
  Missing = Missing
  Bare = Bare
  ProfileSettings <- ShrinkingSettings
INVARIANT ProfilesKeepTheirRegistry
CHECK_DEADLOCK FALSE
