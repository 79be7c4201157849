CONSTANTS
  w = w
  c = c
  o = o
  NoPid = NoPid
  Wrapper = w
  Outsiders = {}
  Foreign = {}
  Members <- MCAlone
  Pids <- MCAlonePids
  Sockets <- MCAloneSockets
  Lines <- MCAloneLines
  PipeLines = 2
SPECIFICATION Spec
INVARIANTS
  GracefulMeansControlObserved
