CONSTANTS
  VUs = {u1, u2, u3}
  Calls = 2
SPECIFICATION FairSpec
CHECK_DEADLOCK FALSE
INVARIANTS TypeOK CallsAddUp
PROPERTIES GateIsBarrier ScenarioEnds
