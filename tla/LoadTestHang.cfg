CONSTANTS
  VUs = {u1, u2}
  Calls = 1
SPECIFICATION FairSpec
CHECK_DEADLOCK FALSE
PROPERTIES GateOpens
