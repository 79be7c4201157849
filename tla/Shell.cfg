CONSTANT Drivers <- MCDrivers
SPECIFICATION FairSpec
INVARIANTS
  TypeOK
  SuccessIsClean
  NothingOutlivesExit
  HeldOrGone
  NoTrafficDuringForce
  VisibleIsAuthenticated
PROPERTIES
  RequestEnds
  StartupAnswered
