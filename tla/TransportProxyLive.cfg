CONSTANTS
  a = a
  b = b
  Conns <- MCOneConn
  Listeners = {ipv4, ipv6}
  MaxConnections = 1
  BindAttempts = 2
SPECIFICATION FairSpec
PROPERTIES
  StopReachesAll
  ShutdownReturns
