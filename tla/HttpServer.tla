----------------------------- MODULE HttpServer -----------------------------
(***************************************************************************)
(* The HTTP side of camt053-mcp: MetricsMiddleware around the bearer or    *)
(* OAuth middleware around the SDK's streamable-HTTP app, which hands tool *)
(* calls to the instrumented dispatcher.  Everything runs on one event     *)
(* loop, so a step is the code between two awaits.  A tool runs in a task  *)
(* of its own and may outlive the request that called it; any request may  *)
(* be cancelled while it waits.                                            *)
(***************************************************************************)
EXTENDS Naturals, FiniteSets, Bags

CONSTANTS Requests,    \* the HTTP requests
          Tenants,     \* values of the Camt053-Account header
          NoTenant,    \* no header, or an empty one
          NoSession,   \* no MCP session
          JwtReasons,  \* the reasons JWTVerifier.verify may refuse with
          ProbeScopes  \* bound on the headers of requests that are no MCP call

ASSUME TenantAssumption == NoTenant \notin Tenants /\ NoSession \notin Tenants \cup {NoTenant}
ASSUME RequestAssumption == NoSession \notin Requests /\ IsFiniteSet(Requests)
ASSUME ProbeAssumption == ProbeScopes \subseteq Tenants \cup {NoTenant}

VARIABLES
  authMode,         \* what build_http_app was given: "oauth" or "static"
  sdk,              \* the task a tool runs in: "session" (mcp 1.x) or "sender" (2.x)
  pc,               \* pc[r]: where request r is
  msg,              \* msg[r]: what it asks for, with its tenant header and session
  observed,         \* observed[r]: the status MetricsMiddleware noted for it
  contextTenant,    \* contextTenant[r]: _tenant_var in the task of r
  sessionTenant,    \* sessionTenant[r]: _tenant_var in the session task r started
  tool,             \* tool[r]: the tool call of r
  taskTenant,       \* taskTenant[r]: _tenant_var in the task that runs the tool
  reported,         \* reported[r]: the "tenant" field get_tenant_context returned
  httpRequests,     \* HTTP_REQUESTS, by path and status
  authFailures,     \* AUTH_FAILURES, by reason
  toolInvocations,  \* TOOL_INVOCATIONS, by tool and outcome
  audit             \* the audit records, with how often each was emitted

metrics == <<httpRequests, authFailures>>
tools   == <<tool, taskTenant, reported, toolInvocations>>
mode    == <<authMode, sdk>>
vars    == <<mode, pc, msg, observed, contextTenant, sessionTenant, tools, metrics, audit>>

Outcomes == {"success", "error", "exception"}

\* What a request that is authenticated may ask: a call of the MCP endpoint, or a probe of
\* any path, /metrics by a method that is no scrape, or a path with the well-known prefix.
Message ==
  [path : {"/mcp"}, kind : {"initialize"}, tenant : Tenants \cup {NoTenant},
   session : {NoSession}] \cup
  [path : {"/mcp"}, kind : {"list_entries", "get_tenant_context"},
   tenant : Tenants \cup {NoTenant}, session : Requests] \cup
  [path : {"/metrics", "well-known", "/favicon.ico"}, kind : {"probe"},
   tenant : ProbeScopes, session : {NoSession}]

\* The requests served before any authentication, which never look at a header.
Open(path, kind) == [path |-> path, kind |-> kind, tenant |-> NoTenant, session |-> NoSession]
Scrape   == Open("/metrics", "scrape")
Metadata == Open("well-known", "metadata")
NotYet   == Open("", "none")

\* The paths the counter tells apart.
KnownPaths == {"/mcp", "/metrics", "well-known"}
PathLabels == KnownPaths \cup {"other"}
NormalisePath(path) == IF path \in KnownPaths THEN path ELSE "other"

One(x) == SetToBag({x})
Entry(r, event, scope, info) == [req |-> r, event |-> event, scope |-> scope, info |-> info]

Init ==
  /\ authMode \in {"oauth", "static"}
  /\ sdk \in {"session", "sender"}
  /\ pc = [r \in Requests |-> "new"]
  /\ msg = [r \in Requests |-> NotYet]
  /\ observed = [r \in Requests |-> "500"]
  /\ contextTenant = [r \in Requests |-> NoTenant]
  /\ sessionTenant = [r \in Requests |-> NoSession]
  /\ tool = [r \in Requests |-> "none"]
  /\ taskTenant = [r \in Requests |-> NoTenant]
  /\ reported = [r \in Requests |-> NoSession]
  /\ httpRequests = EmptyBag
  /\ authFailures = EmptyBag
  /\ toolInvocations = EmptyBag
  /\ audit = EmptyBag
-----------------------------------------------------------------------------
(***************************************************************************)
(* MetricsMiddleware.__call__                                              *)
(***************************************************************************)
Goto(r, l) == pc' = [pc EXCEPT ![r] = l]

\* GET /metrics: the exposition is sent, and counted once it is.
ArriveScrape(r) ==
  /\ pc[r] = "new"
  /\ msg' = [msg EXCEPT ![r] = Scrape]
  /\ Goto(r, "scraping")
  /\ UNCHANGED <<mode, observed, contextTenant, sessionTenant, tools, metrics, audit>>

EndScrape(r) ==
  /\ pc[r] = "scraping"
  /\ observed' = [observed EXCEPT ![r] = "200"]
  /\ httpRequests' = httpRequests (+) One([path |-> "/metrics", status |-> "200"])
  /\ Goto(r, "done")
  /\ UNCHANGED <<mode, msg, contextTenant, sessionTenant, tools, authFailures, audit>>

\* counting_send: note the status, then forward.
Observe(r, status) == observed' = [observed EXCEPT ![r] = status]

\* Mutant: the count is taken on the way out of a request that succeeded only.
CountIfAnswered(r) ==
  httpRequests' = IF observed[r] = "500" THEN httpRequests
                  ELSE httpRequests (+) One([path |-> NormalisePath(msg[r].path), status |-> observed[r]])

\* The finally clause of __call__.
Count(r) ==
  httpRequests' = httpRequests (+) One([path |-> NormalisePath(msg[r].path), status |-> observed[r]])

\* Mutant: the auth middleware does not reset the context variable.
FinishWithoutReset(r) ==
  /\ pc[r] \in {"verifying", "replying", "inApp", "answering"}
  /\ Count(r)
  /\ Goto(r, "done")
  /\ UNCHANGED <<mode, msg, observed, contextTenant, sessionTenant, tools, authFailures, audit>>

\* The request is over, by its end, by an exception or by cancellation: the finally
\* clauses reset _tenant_var and count the request with the status noted.
Finish(r) ==
  /\ pc[r] \in {"verifying", "replying", "inApp", "answering"}
  /\ Count(r)
  /\ contextTenant' = [contextTenant EXCEPT ![r] = NoTenant]
  /\ Goto(r, "done")
  /\ UNCHANGED <<mode, msg, observed, sessionTenant, tools, authFailures, audit>>

\* A scrape that is cancelled before its response is out is not counted.
AbortScrape(r) ==
  /\ pc[r] = "scraping"
  /\ Goto(r, "done")
  /\ UNCHANGED <<mode, msg, observed, contextTenant, sessionTenant, tools, metrics, audit>>
-----------------------------------------------------------------------------
(***************************************************************************)
(* The auth middlewares.  A rejection is audited, counted by reason and    *)
(* answered without an await in between; so is an admission up to the app. *)
(***************************************************************************)
Asks(r, m) ==
  /\ pc[r] = "new"
  /\ m \in Message
  /\ m.session # NoSession => sessionTenant[m.session] # NoSession
  /\ msg' = [msg EXCEPT ![r] = m]

\* Mutant: a rejection is audited and answered, but not counted by reason.
RejectUncounted(r, m, reason, status) ==
  /\ audit' = audit (+) One(Entry(r, "http.request.rejected", m.tenant, reason))
  /\ UNCHANGED authFailures
  /\ Observe(r, status)
  /\ Goto(r, "replying")

\* Mutant: a refused credential is audited, then let through.
RejectAndContinue(r, m, reason, status) ==
  /\ audit' = audit (+) One(Entry(r, "http.request.rejected", m.tenant, reason))
  /\ authFailures' = authFailures (+) One(reason)
  /\ Observe(r, status)
  /\ Goto(r, "inApp")

Reject(r, m, reason, status) ==
  /\ audit' = audit (+) One(Entry(r, "http.request.rejected", m.tenant, reason))
  /\ authFailures' = authFailures (+) One(reason)
  /\ Observe(r, status)
  /\ Goto(r, "replying")

Admit(r, m) ==
  /\ audit' = audit (+) One(Entry(r, "http.request.authorized", m.tenant, "-"))
  /\ contextTenant' = [contextTenant EXCEPT ![r] = m.tenant]
  /\ Goto(r, "inApp")

\* BearerTokenMiddleware: compare_digest fails, or the header is missing.
ArriveStaticRejected(r, m) ==
  /\ authMode = "static"
  /\ Asks(r, m)
  /\ Reject(r, m, "invalid_static_token", "401")
  /\ UNCHANGED <<mode, contextTenant, sessionTenant, tools, httpRequests>>

ArriveStaticAdmitted(r, m) ==
  /\ authMode = "static"
  /\ Asks(r, m)
  /\ Admit(r, m)
  /\ UNCHANGED <<mode, observed, sessionTenant, tools, metrics>>

\* OAuthResourceMiddleware: a GET of the very metadata paths (RFC 9728) is answered
\* without authentication or audit.
ArriveWellKnown(r) ==
  /\ authMode = "oauth"
  /\ pc[r] = "new"
  /\ msg' = [msg EXCEPT ![r] = Metadata]
  /\ Observe(r, "200")
  /\ Goto(r, "replying")
  /\ UNCHANGED <<mode, contextTenant, sessionTenant, tools, metrics, audit>>

ArriveWithoutBearer(r, m) ==
  /\ authMode = "oauth"
  /\ Asks(r, m)
  /\ Reject(r, m, "missing_bearer", "401")
  /\ UNCHANGED <<mode, contextTenant, sessionTenant, tools, httpRequests>>

\* A bearer credential: verify suspends, it may have to fetch the JWKS.
ArriveWithBearer(r, m) ==
  /\ authMode = "oauth"
  /\ Asks(r, m)
  /\ Goto(r, "verifying")
  /\ UNCHANGED <<mode, observed, contextTenant, sessionTenant, tools, metrics, audit>>

VerifyRefused(r, reason) ==
  /\ pc[r] = "verifying"
  /\ Reject(r, msg[r], reason, IF reason = "insufficient_scope" THEN "403" ELSE "401")
  /\ UNCHANGED <<mode, msg, contextTenant, sessionTenant, tools, httpRequests>>

Verified(r) ==
  /\ pc[r] = "verifying"
  /\ Admit(r, msg[r])
  /\ UNCHANGED <<mode, msg, observed, sessionTenant, tools, metrics>>
-----------------------------------------------------------------------------
(***************************************************************************)
(* The SDK app (external).  initialize starts a session task, which copies *)
(* the context of the request that starts it.  A tool call runs in a task  *)
(* started from the session task (mcp 1.x) or in the sender's context.     *)
(***************************************************************************)
Initialize(r) ==
  /\ pc[r] = "inApp"
  /\ msg[r].kind = "initialize"
  /\ sessionTenant' = [sessionTenant EXCEPT ![r] = contextTenant[r]]
  /\ Observe(r, "200")
  /\ Goto(r, "answering")
  /\ UNCHANGED <<mode, msg, contextTenant, tools, metrics, audit>>

\* No route, no such session, a notification, or an Origin the SDK forbids: the app answers
\* without a tool.
AnswerDirectly(r, status) ==
  /\ pc[r] = "inApp"
  /\ Observe(r, status)
  /\ Goto(r, "answering")
  /\ UNCHANGED <<mode, msg, contextTenant, sessionTenant, tools, metrics, audit>>

\* The call reaches the dispatcher; the response (an event stream) starts.
StartTool(r) ==
  /\ pc[r] = "inApp"
  /\ msg[r].kind \in {"list_entries", "get_tenant_context"}
  /\ tool' = [tool EXCEPT ![r] = "running"]
  /\ taskTenant' = [taskTenant EXCEPT ![r] =
       IF sdk = "session" THEN sessionTenant[msg[r].session] ELSE contextTenant[r]]
  /\ Observe(r, "200")
  /\ Goto(r, "answering")
  /\ UNCHANGED <<mode, msg, contextTenant, sessionTenant, reported, toolInvocations,
                 metrics, audit>>

\* Mutant: the context variable is asked first.
CurrentTenantContextFirst(r) ==
  IF taskTenant[r] # NoTenant THEN taskTenant[r] ELSE msg[r].tenant

\* current_tenant: the request's header when there is one, else the context variable.
CurrentTenant(r) ==
  IF msg[r].tenant # NoTenant THEN msg[r].tenant ELSE taskTenant[r]

\* get_tenant_context audits the tenant and returns it.
ReportTenant(r) ==
  /\ tool[r] = "running"
  /\ msg[r].kind = "get_tenant_context"
  /\ reported[r] = NoSession
  /\ reported' = [reported EXCEPT ![r] = CurrentTenant(r)]
  /\ audit' = audit (+) One(Entry(r, "tool.get_tenant_context", CurrentTenant(r), "-"))
  /\ UNCHANGED <<mode, pc, msg, observed, contextTenant, sessionTenant, tool, taskTenant,
                 toolInvocations, metrics>>

\* Mutant: the record is written after the await, not in a finally clause.
RecordUnlessRaised(r, outcome) ==
  IF outcome = "exception" THEN UNCHANGED <<toolInvocations, audit>>
  ELSE /\ toolInvocations' = toolInvocations (+) One([tool |-> msg[r].kind, outcome |-> outcome])
       /\ audit' = audit (+) One(Entry(r, "tool.invoked", CurrentTenant(r), outcome))

\* Mutant: the record takes the tenant of the task instead of the request's.
RecordFromVariable(r, outcome) ==
  /\ toolInvocations' = toolInvocations (+) One([tool |-> msg[r].kind, outcome |-> outcome])
  /\ audit' = audit (+) One(Entry(r, "tool.invoked", taskTenant[r], outcome))

\* The finally clause of the instrumented call_tool.
RecordTool(r, outcome) ==
  /\ toolInvocations' = toolInvocations (+) One([tool |-> msg[r].kind, outcome |-> outcome])
  /\ audit' = audit (+) One(Entry(r, "tool.invoked", CurrentTenant(r), outcome))

\* The tool returns, raises or is cancelled ("exception" covers both).
EndTool(r, outcome) ==
  /\ tool[r] = "running"
  /\ outcome = "success" /\ msg[r].kind = "get_tenant_context" => reported[r] # NoSession
  /\ tool' = [tool EXCEPT ![r] = "ended"]
  /\ RecordTool(r, outcome)
  /\ UNCHANGED <<mode, pc, msg, observed, contextTenant, sessionTenant, taskTenant, reported,
                 metrics>>

AppStatuses == {"202", "403", "404"}

Next ==
  \E r \in Requests :
    \/ ArriveScrape(r) \/ EndScrape(r) \/ AbortScrape(r) \/ ArriveWellKnown(r)
    \/ \E m \in Message : \/ ArriveStaticRejected(r, m) \/ ArriveStaticAdmitted(r, m)
                          \/ ArriveWithoutBearer(r, m) \/ ArriveWithBearer(r, m)
    \/ \E reason \in JwtReasons : VerifyRefused(r, reason)
    \/ \E status \in AppStatuses : AnswerDirectly(r, status)
    \/ Verified(r) \/ Initialize(r) \/ StartTool(r) \/ ReportTenant(r)
    \/ \E outcome \in Outcomes : EndTool(r, outcome)
    \/ Finish(r)

Spec == Init /\ [][Next]_vars
-----------------------------------------------------------------------------
Statuses == {"200", "202", "401", "403", "404", "500"}
Scopes   == Tenants \cup {NoTenant}
Reasons  == JwtReasons \cup {"missing_bearer", "invalid_static_token"}
ToolKinds == {"list_entries", "get_tenant_context"}

\* The audit records r caused of the given events.
Records(r, events) == {e \in BagToSet(audit) : e.req = r /\ e.event \in events}

\* How often a bag holds x.
Copies(x, bag) == IF BagIn(x, bag) THEN bag[x] ELSE 0

\* Every variable has its type; a request that is over has no tenant left in its
\* context variable (the reset in the finally clause of both auth middlewares).
TypeOK ==
  /\ authMode \in {"oauth", "static"}
  /\ sdk \in {"session", "sender"}
  /\ pc \in [Requests -> {"new", "scraping", "verifying", "replying", "inApp",
                          "answering", "done"}]
  /\ msg \in [Requests -> Message \cup {Scrape, Metadata, NotYet}]
  /\ observed \in [Requests -> Statuses]
  /\ contextTenant \in [Requests -> Scopes]
  /\ sessionTenant \in [Requests -> Scopes \cup {NoSession}]
  /\ tool \in [Requests -> {"none", "running", "ended"}]
  /\ taskTenant \in [Requests -> Scopes]
  /\ reported \in [Requests -> Scopes \cup {NoSession}]
  /\ BagToSet(httpRequests) \subseteq [path : PathLabels, status : Statuses]
  /\ BagToSet(authFailures) \subseteq Reasons
  /\ BagToSet(toolInvocations) \subseteq [tool : ToolKinds, outcome : Outcomes]
  /\ \A r \in Requests : pc[r] = "done" => contextTenant[r] = NoTenant

\* The requests that are over and were for a path counted under the label p.
Over(p) == {r \in Requests : pc[r] = "done" /\ NormalisePath(msg[r].path) = p}

\* Every request that MetricsMiddleware hands on (whatever its path, /metrics asked for
\* by POST among them) is in HTTP_REQUESTS once when it is over, under its path and the
\* status it was answered with, 500 when it was not, however it ended: the finally clause
\* of __call__.  Besides them only the scrapes that were answered are counted.
HandedOnRequestsCounted ==
  \A p \in PathLabels, s \in Statuses :
    Copies([path |-> p, status |-> s], httpRequests) =
      Cardinality({r \in Over(p) : /\ observed[r] = s
                                   /\ msg[r].kind = "scrape" => observed[r] = "200"})

\* What the module's own documentation says of the counter: "every HTTP request that
\* reaches the transport" is in it (camt053_mcp/observability.py, lines 20 to 22).
EveryRequestCounted ==
  \A p \in PathLabels, s \in Statuses :
    Copies([path |-> p, status |-> s], httpRequests) =
      Cardinality({r \in Over(p) : observed[r] = s})

\* r was refused for one of these reasons, by the audit log.
RefusedFor(r, reasons) == \E e \in Records(r, {"http.request.rejected"}) : e.info \in reasons
ForbiddenByApp(r) == observed[r] = "403" /\ Records(r, {"http.request.authorized"}) # {}

\* Three ledgers of refusals agree: AUTH_FAILURES by reason, the rejected records of
\* the audit log, of which a request has one at most, and HTTP_REQUESTS, whose 401 under
\* each path are the refusals of that path that are over, and whose 403 are those for
\* want of a scope and what the app itself forbids a request that was let in.
RefusalLedgersAgree ==
  /\ \A reason \in Reasons :
       Copies(reason, authFailures) = Cardinality({r \in Requests : RefusedFor(r, {reason})})
  /\ \A r \in Requests : \A d, e \in Records(r, {"http.request.rejected"}) : d = e
  /\ \A p \in PathLabels :
       /\ Copies([path |-> p, status |-> "401"], httpRequests) =
            Cardinality({r \in Over(p) : RefusedFor(r, Reasons \ {"insufficient_scope"})})
       /\ Copies([path |-> p, status |-> "403"], httpRequests) =
            Cardinality({r \in Over(p) : \/ RefusedFor(r, {"insufficient_scope"})
                                         \/ ForbiddenByApp(r)})

\* Nothing of the app (a session, a tool, a tool's record) is reached by a request
\* without one authorized record and no rejected one before it.
OnlyAdmittedReachApp ==
  \A r \in Requests :
    (pc[r] \in {"inApp", "answering"} \/ tool[r] # "none" \/ sessionTenant[r] # NoSession)
      => /\ Copies(Entry(r, "http.request.authorized", msg[r].tenant, "-"), audit) = 1
         /\ Records(r, {"http.request.rejected"}) = {}

\* Every tool call that ended, by a result, an error, an exception or a cancellation
\* and whether or not its request is over, is in TOOL_INVOCATIONS once and in the
\* audit log once, with the same outcome.
ToolCallsAccounted ==
  /\ \A k \in ToolKinds, o \in Outcomes :
       Copies([tool |-> k, outcome |-> o], toolInvocations) =
         Cardinality({r \in Requests : msg[r].kind = k /\
           \E e \in Records(r, {"tool.invoked"}) : e.info = o})
  /\ \A r \in Requests : LET records == Records(r, {"tool.invoked"}) IN
       /\ Cardinality(records) = IF tool[r] = "ended" THEN 1 ELSE 0
       /\ \A e \in records : Copies(e, audit) = 1

\* A call that names its tenant is attributed to it, whichever request opened the
\* session and whichever task the tool runs in: in what get_tenant_context returns
\* and in the records of the tool (step 1 of current_tenant).
ScopedCallAttributed ==
  \A r \in Requests : msg[r].tenant # NoTenant =>
    /\ reported[r] \in {NoSession, msg[r].tenant}
    /\ \A e \in Records(r, {"tool.get_tenant_context", "tool.invoked"}) :
         e.scope = msg[r].tenant

\* What get_tenant_context returns is the scope the tool's own records carry, also
\* after the request that called it is over and its context variable was reset.
ReportedScopeIsAudited ==
  \A r \in Requests : reported[r] # NoSession =>
    \A e \in Records(r, {"tool.get_tenant_context", "tool.invoked"}) : e.scope = reported[r]
=============================================================================
