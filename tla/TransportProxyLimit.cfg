CONSTANTS
  a = a
  b = b
  Conns <- MCConns
  Listeners = {ipv4, ipv6}
  MaxConnections = 1
  BindAttempts = 2
SYMMETRY MCSymmetry
SPECIFICATION Spec
INVARIANTS
  ConnectionLimit
