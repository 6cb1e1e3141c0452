CONSTANTS
  Keys = {k1}
  NoKey = NoKey
  NoCall = NoCall
  Calls = {c1, c2, c3}
  Threads = 2
  StartupRecord = TRUE
SPECIFICATION SteadySpec
INVARIANT LogVerifiesEndToEnd
CHECK_DEADLOCK FALSE
SYMMETRY MCSymmetry
