SPECIFICATION EndpointSpec
CONSTANTS
  Daemons = {d1, d2}
  UnitDaemon = d1
  Serves = {v1, v2}
  Ports = {7788, 49152, 49153}
  DefaultPort = 7788
  Nobody = Nobody
  Stranger = Stranger
  Stale = Stale
  StartLimit = 2
  DaemonSettings <- SecondDaemon
INVARIANT SocketImpliesEndpoint
CHECK_DEADLOCK FALSE
