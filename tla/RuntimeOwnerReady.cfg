CONSTANTS
  w = w
  c = c
  o = o
  NoPid = NoPid
  Wrapper = w
  Outsiders = {o}
  Foreign = {}
  Members <- MCMembers
  Pids <- MCPortPids
  Sockets <- MCPortSockets
  Lines <- MCPortLines
  PipeLines = 2
SPECIFICATION Spec
PROPERTIES
  ReadyGates
  ImplementsContract
