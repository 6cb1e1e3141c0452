CONSTANTS
  Requests = {r1, r2, r3}
  Tenants = {t1, t2}
  NoTenant = NoTenant
  NoSession = NoSession
  JwtReasons <- MCJwtReasons
  ProbeScopes = {NoTenant}
SPECIFICATION Spec
SYMMETRY MCSymmetry
CHECK_DEADLOCK FALSE
INVARIANTS TypeOK HandedOnRequestsCounted RefusalLedgersAgree OnlyAdmittedReachApp
  ToolCallsAccounted ScopedCallAttributed ReportedScopeIsAudited
