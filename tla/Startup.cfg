CONSTANTS
  Launches = {main, other}
  Main = main
  PackageNames = {"shiny"}
  RequiredPackages = {"shiny"}
  MaxPackages = 2
  MaxConstraints = 2
  CommandLineLimit = 30
  Words <- MCWords
  ValueUnits = {"bundle", "2", "x64", "bin", "o1", "o2", "p1", "r1", "r2", "r3", "c"}
  Manifests <- MCManifests
  AmbientBlocks <- MCAmbientBlocks
  Program <- MCProgram
  ArgumentLists <- MCArgumentLists
  SessionAttempts = 2
  MaxSwaps = 2
SPECIFICATION Spec
INVARIANTS
  TypeOK
  ResolvedInside
  ChildSeesExactly
  SecretAccounted
  RunsOnlyOwned
  EofWithTree
CHECK_DEADLOCK FALSE
