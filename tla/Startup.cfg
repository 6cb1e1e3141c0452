CONSTANTS
  CommandLines <- MCCommandLines
  Environments <- MCEnvironments
  MaxStarts = 2
SPECIFICATION Spec
INVARIANTS TypeOK HttpAuthNeverWeaker ListenerIsAudited HttpCallsInstrumented
CHECK_DEADLOCK FALSE
