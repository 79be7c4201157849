CONSTANTS
  w = w
  c = c
  o = o
  NoPid = NoPid
  Wrapper = w
  Outsiders = {}
  Foreign = {"foreign"}
  Members <- MCMembers
  Pids <- MCPids
  Sockets <- MCSockets
  Lines <- MCLines
  PipeLines = 2
SPECIFICATION Spec
INVARIANTS
  TypeOK
  SessionOutlivesJob
  CleanedIsReleased
  AlwaysRecoverable
  ReportIsEvidence
PROPERTIES
  MonitorFollowsProtocol
