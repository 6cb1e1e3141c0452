CONSTANTS
  Calls = {c1, c2, c3}
  Keys = {k1, k2}
  NoKey = NoKey
  NoCall = NoCall
  Threads = 2
  StartupRecord = FALSE
SPECIFICATION DeploymentSpec
CHECK_DEADLOCK FALSE
INVARIANTS TypeOK ChainsLinked LogMatchesChains LoopRecordsUnderReadKey
  SteadyLogSortedVerifies
PROPERTIES ChainsAreHistories LoopLogIsRunsOfChains SteadyCallIsLogged
