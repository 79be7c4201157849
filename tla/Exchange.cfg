CONSTANTS
  Requests <- MCRequests
  Responses <- MCResponses
  MaxRequestBody = 2
  MaxResponseBody = 4
  MaxDecodedBody = 3
  MaxCodings = 2
  MinRequestRate = 1
  MinResponseRate = 1
  RateWindow = 2
  IdleTimeout = 2
  TotalTimeout = 3
  MaxFrame = 2
  TokenUnits = 3
  Rate = 2
  BurstWindow = 1
  MaxHeaderBytes = 4
  MaxChunk = 3
  HeaderTimeout = 1
  UpstreamTimeout = 3
  TunnelIdle = 3
  Backlog = 3
  CopyBuffer = 2
  ProbeTicks = 3
SPECIFICATION FairSpec
INVARIANTS
  TypeOK
  UpstreamRequestClean
  BootstrapOnce
  AnswerEndsAdmission
  BrowserHeadSafe
  BodyAsAnnounced
  RateBound
  BusyTunnelLives
PROPERTIES
  ForwardedFaithfully
  ExchangeEnds
CHECK_DEADLOCK FALSE
