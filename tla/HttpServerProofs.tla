-------------------------- MODULE HttpServerProofs --------------------------
(***************************************************************************)
(* Proofs about HttpServer for any number of requests and tenants and any  *)
(* reasons of refusal: its type invariant, which requests reach the app,   *)
(* whom calls are attributed to, and the ledgers.                          *)
(***************************************************************************)
EXTENDS HttpServer, FiniteSetTheorems, TLAPS

\* How far a request is tells what it has done: its context variable is set while it is
\* in the app, a tool runs once it was there and reports its tenant once, and a caller's
\* session was started before.
Progress(r) ==
  /\ pc[r] \in {"new", "scraping", "verifying", "replying", "inApp"} => tool[r] = "none"
  /\ pc[r] \notin {"inApp", "answering"} => contextTenant[r] = NoTenant
  /\ pc[r] \in {"verifying", "inApp"} => msg[r] \in Message
  /\ tool[r] # "none" => msg[r].kind \in ToolKinds
  /\ reported[r] # NoSession => tool[r] # "none" /\ reported[r] = CurrentTenant(r)
  /\ msg[r].session # NoSession =>
       msg[r].session \in Requests /\ sessionTenant[msg[r].session] # NoSession

ProgressInv == \A r \in Requests : Progress(r)

\* The status a refusal is answered with.
Refusal(reason) == IF reason = "insufficient_scope" THEN "403" ELSE "401"

\* What a record in the audit log says of its request: a request is refused or admitted,
\* and the records of a tool carry the tenant current_tenant gives.
RecordOK(r, e) ==
  \/ /\ e = Entry(r, "http.request.rejected", msg[r].tenant, e.info)
     /\ e.info \in Reasons
     /\ pc[r] \in {"replying", "done"} /\ msg[r] \in Message
     /\ observed[r] = Refusal(e.info)
     /\ tool[r] = "none" /\ sessionTenant[r] = NoSession
  \/ /\ e = Entry(r, "http.request.authorized", msg[r].tenant, "-")
     /\ pc[r] \in {"inApp", "answering", "done"} /\ msg[r] \in Message
  \/ /\ e = Entry(r, "tool.get_tenant_context", CurrentTenant(r), "-")
     /\ reported[r] = CurrentTenant(r) /\ tool[r] # "none"
  \/ /\ e = Entry(r, "tool.invoked", CurrentTenant(r), e.info)
     /\ e.info \in Outcomes
     /\ tool[r] = "ended"

RecordInv ==
  \A e \in BagToSet(audit) : e.req \in Requests /\ audit[e] = 1 /\ RecordOK(e.req, e)

\* A request has one record of a kind, and has it when it got as far.
OnceInv ==
  /\ \A d, e \in BagToSet(audit) : d.req = e.req /\ d.event = e.event => d = e
  /\ \A r \in Requests :
       /\ pc[r] \in {"inApp", "answering"} \/ tool[r] # "none" \/ sessionTenant[r] # NoSession
            => Entry(r, "http.request.authorized", msg[r].tenant, "-") \in BagToSet(audit)
       /\ observed[r] = "401" => Records(r, {"http.request.rejected"}) # {}
       /\ observed[r] = "403" => \/ Records(r, {"http.request.rejected"}) # {}
                                 \/ Records(r, {"http.request.authorized"}) # {}
       /\ tool[r] = "ended" => Records(r, {"tool.invoked"}) # {}

\* The counters hold positive numbers, and each is the number of requests it is about.
CounterInv ==
  /\ IsABag(httpRequests) /\ IsABag(authFailures) /\ IsABag(toolInvocations)
  /\ \A reason \in Reasons :
       Copies(reason, authFailures) = Cardinality({r \in Requests : RefusedFor(r, {reason})})
  /\ \A k \in ToolKinds, o \in Outcomes :
       Copies([tool |-> k, outcome |-> o], toolInvocations) =
         Cardinality({r \in Requests : msg[r].kind = k /\
           \E e \in Records(r, {"tool.invoked"}) : e.info = o})

\* A request that is new, a scrape or in the app was not answered yet, and no scrape is
\* handed on.
Status(r) ==
  /\ pc[r] = "scraping" => msg[r] = Scrape
  /\ pc[r] \in {"new", "scraping", "verifying", "inApp"} => observed[r] = "500"
  /\ pc[r] \in {"verifying", "replying", "inApp", "answering"} => msg[r].kind # "scrape"

StatusInv == \A r \in Requests : Status(r)

HInv == TypeOK /\ ProgressInv /\ RecordInv /\ OnceInv /\ CounterInv /\ StatusInv
            /\ HandedOnRequestsCounted
-----------------------------------------------------------------------------
(***************************************************************************)
(* What the helpers do: the parts of a message, and a bag with one more.   *)
(***************************************************************************)
LEMMA MessageParts ==
  ASSUME NEW m \in Message
  PROVE  /\ m.path \in KnownPaths \cup {"/favicon.ico"}
         /\ m.kind \in ToolKinds \cup {"initialize", "probe"}
         /\ m.tenant \in Scopes
         /\ m.session \in Requests \cup {NoSession}
         /\ m.kind \in ToolKinds => m.session \in Requests
BY ProbeAssumption DEF Message, ToolKinds, Scopes, KnownPaths

LEMMA BagPlusOne ==
  ASSUME NEW b, NEW x
  PROVE  /\ BagToSet(b (+) One(x)) = BagToSet(b) \cup {x}
         /\ \A y \in BagToSet(b) : y # x => (b (+) One(x))[y] = b[y] + 0
         /\ x \notin BagToSet(b) => (b (+) One(x))[x] = 1
BY DEF BagToSet, One, SetToBag, (+)

LEMMA BagCounts ==
  ASSUME NEW b, NEW x, IsABag(b)
  PROVE  /\ IsABag(b (+) One(x))
         /\ BagToSet(b (+) One(x)) = BagToSet(b) \cup {x}
         /\ \A y : Copies(y, b) \in Nat
         /\ \A y : Copies(y, b (+) One(x)) = Copies(y, b) + (IF y = x THEN 1 ELSE 0)
BY DEF BagToSet, One, SetToBag, (+), Copies, BagIn, IsABag

-----------------------------------------------------------------------------
(***************************************************************************)
(* The type invariant.                                                     *)
(***************************************************************************)
Step(r) ==
  \/ ArriveScrape(r) \/ EndScrape(r) \/ AbortScrape(r) \/ ArriveWellKnown(r)
  \/ \E m \in Message : \/ ArriveStaticRejected(r, m) \/ ArriveStaticAdmitted(r, m)
                        \/ ArriveWithoutBearer(r, m) \/ ArriveWithBearer(r, m)
  \/ \E reason \in JwtReasons : VerifyRefused(r, reason)
  \/ \E status \in AppStatuses : AnswerDirectly(r, status)
  \/ Verified(r) \/ Initialize(r) \/ StartTool(r) \/ ReportTenant(r)
  \/ \E outcome \in Outcomes : EndTool(r, outcome)
  \/ Finish(r)

LEMMA ScopeIsNoSession == NoSession \notin Scopes
BY TenantAssumption DEF Scopes

\* What an action may write where: TypeOK in two parts, the functions of the requests
\* and the bags of the counters.
Messages == Message \cup {Scrape, Metadata, NotYet}

RequestTypes ==
  /\ authMode \in {"oauth", "static"}
  /\ sdk \in {"session", "sender"}
  /\ pc \in [Requests -> {"new", "scraping", "verifying", "replying", "inApp",
                          "answering", "done"}]
  /\ msg \in [Requests -> Messages]
  /\ observed \in [Requests -> Statuses]
  /\ contextTenant \in [Requests -> Scopes]
  /\ sessionTenant \in [Requests -> Scopes \cup {NoSession}]
  /\ tool \in [Requests -> {"none", "running", "ended"}]
  /\ taskTenant \in [Requests -> Scopes]
  /\ reported \in [Requests -> Scopes \cup {NoSession}]
  /\ \A r \in Requests : pc[r] = "done" => contextTenant[r] = NoTenant

CounterTypes ==
  /\ BagToSet(httpRequests) \subseteq [path : PathLabels, status : Statuses]
  /\ BagToSet(authFailures) \subseteq Reasons
  /\ BagToSet(toolInvocations) \subseteq [tool : ToolKinds, outcome : Outcomes]

LEMMA TypeParts == TypeOK <=> RequestTypes /\ CounterTypes
BY DEF TypeOK, RequestTypes, CounterTypes, Messages

LEMMA MessagesParts ==
  /\ {Scrape, Metadata, NotYet} \subseteq Messages
  /\ Message \subseteq Messages
  /\ \A m \in Messages : m.tenant \in Scopes /\ m.session \in Requests \cup {NoSession}
  /\ \A m \in {Scrape, Metadata, NotYet} : m.tenant = NoTenant /\ m.session = NoSession
  /\ Scrape.kind = "scrape" /\ Metadata.kind = "metadata" /\ NotYet.kind = "none"
  /\ Scrape.path = "/metrics"
<1>1. /\ \A m \in {Scrape, Metadata, NotYet} : m.tenant = NoTenant /\ m.session = NoSession
      /\ Scrape.kind = "scrape" /\ Metadata.kind = "metadata" /\ NotYet.kind = "none"
      /\ Scrape.path = "/metrics"
  BY DEF Scrape, Metadata, NotYet, Open
<1>2. {Scrape, Metadata, NotYet} \subseteq Messages /\ Message \subseteq Messages
  BY DEF Messages
<1>3. ASSUME NEW m \in Messages
      PROVE  m.tenant \in Scopes /\ m.session \in Requests \cup {NoSession}
  <2>1. CASE m \in Message
    BY <2>1, MessageParts
  <2>2. CASE m \in {Scrape, Metadata, NotYet}
    BY <2>2, <1>1 DEF Scopes
  <2> QED BY <2>1, <2>2 DEF Messages
<1> QED BY <1>1, <1>2, <1>3

\* The session of a request that asks for a tool was started.
LEMMA CallersSession ==
  ASSUME HInv, NEW r \in Requests, pc[r] = "inApp",
         msg[r].kind \in {"list_entries", "get_tenant_context"}
  PROVE  sessionTenant[msg[r].session] \in Scopes
<1>1. msg[r] \in Message
  BY DEF HInv, ProgressInv, Progress
<1>2. msg[r].session \in Requests
  BY <1>1, MessageParts DEF ToolKinds
<1>3. msg[r].session # NoSession
  BY <1>2, RequestAssumption
<1>4. sessionTenant[msg[r].session] # NoSession
  BY <1>3 DEF HInv, ProgressInv, Progress
<1>5. sessionTenant \in [Requests -> Scopes \cup {NoSession}]
  BY DEF HInv, TypeOK
<1> QED
  BY <1>2, <1>4, <1>5

LEMMA StepRequestTypes ==
  ASSUME HInv, NEW r \in Requests, Step(r)
  PROVE  RequestTypes'
<1> USE MessageParts, MessagesParts
    DEF HInv, RequestTypes, Goto, Observe, tools, metrics, mode, Statuses, AppStatuses
<1>0. RequestTypes
  BY TypeParts
<1>1. CASE ArriveScrape(r)
  BY <1>0, <1>1 DEF ArriveScrape
<1>2. CASE EndScrape(r)
  BY <1>0, <1>2 DEF EndScrape, ProgressInv, Progress
<1>3. CASE AbortScrape(r)
  BY <1>0, <1>3 DEF AbortScrape, ProgressInv, Progress
<1>4. CASE ArriveWellKnown(r)
  BY <1>0, <1>4 DEF ArriveWellKnown
<1>5. ASSUME NEW m \in Message, ArriveStaticRejected(r, m) PROVE RequestTypes'
  BY <1>0, <1>5 DEF ArriveStaticRejected, Reject, Asks
<1>6. ASSUME NEW m \in Message, ArriveStaticAdmitted(r, m) PROVE RequestTypes'
  BY <1>0, <1>6 DEF ArriveStaticAdmitted, Admit, Asks
<1>7. ASSUME NEW m \in Message, ArriveWithoutBearer(r, m) PROVE RequestTypes'
  BY <1>0, <1>7 DEF ArriveWithoutBearer, Reject, Asks
<1>8. ASSUME NEW m \in Message, ArriveWithBearer(r, m) PROVE RequestTypes'
  BY <1>0, <1>8 DEF ArriveWithBearer, Asks
<1>9. ASSUME NEW reason \in JwtReasons, VerifyRefused(r, reason) PROVE RequestTypes'
  BY <1>0, <1>9 DEF VerifyRefused, Reject
<1>10. ASSUME NEW status \in AppStatuses, AnswerDirectly(r, status) PROVE RequestTypes'
  BY <1>0, <1>10 DEF AnswerDirectly
<1>11. CASE Verified(r)
  BY <1>0, <1>11 DEF Verified, Admit, ProgressInv, Progress
<1>12. CASE Initialize(r)
  BY <1>0, <1>12 DEF Initialize
<1>13. CASE StartTool(r)
  BY <1>0, <1>13, CallersSession DEF StartTool
<1>14. CASE ReportTenant(r)
  BY <1>0, <1>14 DEF ReportTenant, CurrentTenant
<1>15. ASSUME NEW outcome \in Outcomes, EndTool(r, outcome) PROVE RequestTypes'
  BY <1>0, <1>15 DEF EndTool
<1>16. CASE Finish(r)
  BY <1>0, <1>16, NoTenant \in Scopes DEF Finish, Scopes
<1> QED
  BY <1>1, <1>2, <1>3, <1>4, <1>5, <1>6, <1>7, <1>8, <1>9, <1>10, <1>11, <1>12, <1>13,
     <1>14, <1>15, <1>16 DEF Step

-----------------------------------------------------------------------------
(***************************************************************************)
(* What a step does, told by what it leaves in the ledgers: it refuses its *)
(* request, admits it, reports its tenant, ends its tool, or none of them. *)
(***************************************************************************)
LEMMA OneRequest ==
  ASSUME HInv, NEW r \in Requests, Step(r), NEW q \in Requests, q # r
  PROVE  /\ pc'[q] = pc[q] /\ msg'[q] = msg[q] /\ observed'[q] = observed[q]
         /\ contextTenant'[q] = contextTenant[q] /\ sessionTenant'[q] = sessionTenant[q]
         /\ tool'[q] = tool[q] /\ taskTenant'[q] = taskTenant[q] /\ reported'[q] = reported[q]
<1>1. RequestTypes
  BY TypeParts DEF HInv
<1> QED
  BY <1>1 DEF Step, RequestTypes, Goto, Observe, tools, metrics, mode, ArriveScrape, EndScrape,
     AbortScrape, ArriveWellKnown, ArriveStaticRejected, ArriveStaticAdmitted,
     ArriveWithoutBearer, ArriveWithBearer, VerifyRefused, AnswerDirectly, Verified, Initialize,
     StartTool, ReportTenant, EndTool, Finish, Reject, Admit, Asks

\* A message whose session, if it names one, was started.
Answerable(m) == m \in Message /\ (m.session # NoSession => sessionTenant[m.session] # NoSession)

Refuses(r) ==
  /\ pc[r] \in {"new", "verifying"}
  /\ \E m \in Message, reason \in Reasons :
       Answerable(m) /\ Reject(r, m, reason, Refusal(reason)) /\ msg' = [msg EXCEPT ![r] = m]
  /\ UNCHANGED <<contextTenant, sessionTenant, tools, httpRequests>>

Admits(r) ==
  /\ pc[r] \in {"new", "verifying"}
  /\ \E m \in Message : Answerable(m) /\ Admit(r, m) /\ msg' = [msg EXCEPT ![r] = m]
  /\ UNCHANGED <<observed, sessionTenant, tools, metrics>>

\* The steps that write no record: how the request goes on.
Moves(r) ==
  /\ UNCHANGED <<audit, authFailures, toolInvocations, reported>>
  /\ pc[r] # "new" => msg'[r] = msg[r]
  /\ pc[r] # "done"
  /\ pc[r] \in {"replying", "answering"} => pc'[r] = "done"
  /\ pc[r] = "inApp" => pc'[r] \in {"answering", "done"}
  /\ pc[r] # "inApp" => /\ pc'[r] \notin {"inApp", "answering"}
                        /\ sessionTenant'[r] = sessionTenant[r]
                        /\ tool'[r] = tool[r] /\ taskTenant'[r] = taskTenant[r]
  /\ observed'[r] = "401" \/ pc[r] = "replying" => observed'[r] = observed[r]
  /\ observed'[r] = "403" => observed'[r] = observed[r] \/ pc[r] = "inApp"
  /\ tool'[r] # tool[r] => tool'[r] = "running" /\ msg[r].kind \in ToolKinds
  /\ contextTenant'[r] = IF pc'[r] = "done" THEN NoTenant ELSE contextTenant[r]
  /\ pc'[r] = "verifying" => msg'[r] \in Message
  /\ msg'[r].session # NoSession => msg'[r] = msg[r] \/ Answerable(msg'[r])
  /\ sessionTenant[r] # NoSession => sessionTenant'[r] # NoSession

LEMMA ActionKinds ==
  ASSUME HInv, NEW r \in Requests, Step(r)
  PROVE  \/ Refuses(r) \/ Admits(r) \/ ReportTenant(r)
         \/ \E outcome \in Outcomes : EndTool(r, outcome)
         \/ ArriveScrape(r) \/ EndScrape(r) \/ AbortScrape(r) \/ ArriveWellKnown(r)
         \/ \E m \in Message : ArriveWithBearer(r, m)
         \/ \E status \in AppStatuses : AnswerDirectly(r, status)
         \/ Initialize(r) \/ StartTool(r) \/ Finish(r)
<1>0. RequestTypes
  BY TypeParts DEF HInv
<1> USE <1>0 DEF HInv, RequestTypes, mode
<1>1. ASSUME pc[r] = "verifying"
       PROVE  /\ Answerable(msg[r]) /\ msg[r] \in Message
              /\ msg = [msg EXCEPT ![r] = msg[r]]
  BY <1>1 DEF Answerable, ProgressInv, Progress
<1>2. ASSUME NEW m \in Message, ArriveStaticRejected(r, m) PROVE Refuses(r)
  BY <1>2 DEF ArriveStaticRejected, Asks, Reasons, Refuses, Refusal, Answerable
<1>3. ASSUME NEW m \in Message, ArriveStaticAdmitted(r, m) PROVE Admits(r)
  BY <1>3 DEF ArriveStaticAdmitted, Asks, Admits, Answerable
<1>4. ASSUME NEW m \in Message, ArriveWithoutBearer(r, m) PROVE Refuses(r)
  BY <1>4 DEF ArriveWithoutBearer, Asks, Reasons, Refuses, Refusal, Answerable
<1>5. ASSUME NEW reason \in JwtReasons, VerifyRefused(r, reason) PROVE Refuses(r)
  BY <1>5, <1>1 DEF VerifyRefused, Reasons, Refuses, Refusal
<1>6. CASE Verified(r)
  BY <1>6, <1>1 DEF Verified, Admits
<1> QED
  BY <1>2, <1>3, <1>4, <1>5, <1>6 DEF Step

LEMMA StepKinds ==
  ASSUME HInv, NEW r \in Requests, Step(r)
  PROVE  \/ Refuses(r) \/ Admits(r) \/ Moves(r) \/ ReportTenant(r)
         \/ \E outcome \in Outcomes : EndTool(r, outcome)
<1>0. RequestTypes
  BY TypeParts DEF HInv
<1> USE <1>0, MessageParts, MessagesParts
    DEF HInv, RequestTypes, Goto, Observe, tools, metrics, mode
<1>1. CASE ArriveScrape(r)
  BY <1>1 DEF ArriveScrape, Moves, ProgressInv, Progress
<1>2. CASE EndScrape(r)
  BY <1>2 DEF EndScrape, Moves, ProgressInv, Progress
<1>3. CASE AbortScrape(r)
  BY <1>3 DEF AbortScrape, Moves, ProgressInv, Progress
<1>4. CASE ArriveWellKnown(r)
  BY <1>4 DEF ArriveWellKnown, Moves, ProgressInv, Progress
<1>5. ASSUME NEW m \in Message, ArriveWithBearer(r, m) PROVE Moves(r)
  BY <1>5 DEF ArriveWithBearer, Asks, Answerable, Moves, ProgressInv, Progress
<1>6. ASSUME NEW status \in AppStatuses, AnswerDirectly(r, status) PROVE Moves(r)
  BY <1>6 DEF AnswerDirectly, AppStatuses, Moves, ProgressInv, Progress
<1>7. CASE Initialize(r)
  <2>1. contextTenant[r] \in Scopes
    BY <1>0
  <2>2. contextTenant[r] # NoSession
    BY <2>1, ScopeIsNoSession
  <2> QED
    BY <1>7, <2>2 DEF Initialize, Moves
<1>8. CASE StartTool(r)
  BY <1>8 DEF StartTool, ToolKinds, Moves, ProgressInv, Progress
<1>9. CASE Finish(r)
  BY <1>9 DEF Finish, Moves, ProgressInv, Progress
<1> QED
  BY <1>1, <1>2, <1>3, <1>4, <1>5, <1>6, <1>7, <1>8, <1>9, ActionKinds

-----------------------------------------------------------------------------
(***************************************************************************)
(* How far the requests are, and what their records say.                   *)
(***************************************************************************)
LEMMA SessionsStay ==
  ASSUME HInv, NEW r \in Requests, Step(r), NEW q \in Requests, sessionTenant[q] # NoSession
  PROVE  sessionTenant'[q] # NoSession
<1>1. CASE q # r
  BY <1>1, OneRequest
<1>2. CASE q = r
  BY <1>2, StepKinds DEF Refuses, Admits, Moves, ReportTenant, EndTool
<1> QED BY <1>1, <1>2

\* The tenant of a call stays what it was when the tool was started.
LEMMA TenantStays ==
  ASSUME HInv, NEW r \in Requests, Step(r), NEW q \in Requests, tool[q] # "none"
  PROVE  CurrentTenant(q)' = CurrentTenant(q)
<1>1. CASE q # r
  BY <1>1, OneRequest DEF CurrentTenant
<1>2. CASE q = r
  <2>1. pc[r] \notin {"new", "scraping", "verifying", "replying", "inApp"}
    BY <1>2 DEF HInv, ProgressInv, Progress
  <2>2. msg'[r] = msg[r] /\ taskTenant'[r] = taskTenant[r]
    BY <2>1, StepKinds DEF Refuses, Admits, Moves, ReportTenant, EndTool, tools
  <2> QED BY <1>2, <2>2 DEF CurrentTenant
<1> QED BY <1>1, <1>2

LEMMA StepProgress ==
  ASSUME HInv, NEW r \in Requests, Step(r)
  PROVE  ProgressInv'
<1>0. Progress(r) /\ RequestTypes
  BY TypeParts DEF HInv, ProgressInv
<1>1. ASSUME NEW q \in Requests, q # r PROVE Progress(q)'
  <2>1. Progress(q)
    BY DEF HInv, ProgressInv
  <2>2. msg[q].session # NoSession => sessionTenant'[msg[q].session] # NoSession
    BY <2>1, SessionsStay DEF Progress
  <2>3. tool[q] # "none" => CurrentTenant(q)' = CurrentTenant(q)
    BY TenantStays
  <2> QED
    BY <1>1, <2>1, <2>2, <2>3, OneRequest DEF Progress
<1>2. msg[r].session # NoSession => sessionTenant'[msg[r].session] # NoSession
  BY <1>0, SessionsStay DEF Progress
<1>3. ASSUME NEW m \in Message, Answerable(m), m.session # NoSession
      PROVE  m.session \in Requests /\ sessionTenant'[m.session] # NoSession
  BY <1>3, MessageParts, SessionsStay DEF Answerable
<1>4. tool[r] # "none" => CurrentTenant(r)' = CurrentTenant(r)
  BY TenantStays
<1>5. ASSUME Refuses(r) PROVE Progress(r)'
  BY <1>0, <1>3, <1>5 DEF Refuses, Reject, Goto, tools, Progress, RequestTypes
<1>6. ASSUME Admits(r) PROVE Progress(r)'
  BY <1>0, <1>3, <1>6 DEF Admits, Admit, Goto, tools, Progress, RequestTypes
<1>7. ASSUME Moves(r) PROVE Progress(r)'
  BY <1>0, <1>2, <1>3, <1>4, <1>7, StepRequestTypes
     DEF Moves, Progress, RequestTypes, Answerable
<1>8. ASSUME ReportTenant(r) PROVE Progress(r)'
  BY <1>0, <1>2, <1>4, <1>8 DEF ReportTenant, Progress, RequestTypes
<1>9. ASSUME NEW outcome \in Outcomes, EndTool(r, outcome) PROVE Progress(r)'
  BY <1>0, <1>2, <1>4, <1>9 DEF EndTool, Progress, RequestTypes
<1> QED
  BY <1>1, <1>5, <1>6, <1>7, <1>8, <1>9, StepKinds DEF ProgressInv

\* A record stays true of its request.
LEMMA RecordsStay ==
  ASSUME HInv, NEW r \in Requests, Step(r), NEW e \in BagToSet(audit)
  PROVE  RecordOK(e.req, e)'
<1>0. e.req \in Requests /\ RecordOK(e.req, e) /\ RequestTypes /\ Progress(r)
  BY TypeParts DEF HInv, RecordInv, ProgressInv
<1>1. tool[e.req] # "none" => CurrentTenant(e.req)' = CurrentTenant(e.req)
  BY <1>0, TenantStays
<1>2. CASE e.req # r
  BY <1>0, <1>1, <1>2, OneRequest DEF RecordOK
<1>3. CASE e.req = r
  <2>1. CASE Refuses(r)
    BY <1>0, <1>3, <2>1 DEF Refuses, RecordOK, Progress
  <2>2. CASE Admits(r)
    BY <1>0, <1>3, <2>2 DEF Admits, RecordOK, Progress
  <2>3. CASE Moves(r)
    BY <1>0, <1>1, <1>3, <2>3 DEF Moves, RecordOK, Progress
  <2>4. CASE ReportTenant(r)
    BY <1>0, <1>1, <1>3, <2>4, ScopeIsNoSession DEF ReportTenant, RecordOK, Progress
  <2>5. ASSUME NEW outcome \in Outcomes, EndTool(r, outcome) PROVE RecordOK(r, e)'
    BY <1>0, <1>1, <1>3, <2>5 DEF EndTool, RecordOK, Progress
  <2> QED
    BY <1>3, <2>1, <2>2, <2>3, <2>4, <2>5, StepKinds
<1> QED
  BY <1>2, <1>3

\* The log with one record more: the first of its request of that kind.
NoRecord(r, event) == \A e \in BagToSet(audit) : ~(e.req = r /\ e.event = event)

LEMMA NewRecord ==
  ASSUME HInv, NEW r \in Requests, NEW event, NEW scope, NEW info, NoRecord(r, event),
         audit' = audit (+) One(Entry(r, event, scope, info))
  PROVE  /\ BagToSet(audit') = BagToSet(audit) \cup {Entry(r, event, scope, info)}
         /\ \A e \in BagToSet(audit') : audit'[e] = 1
         /\ \A q, ev : ev # event => Records(q, {ev})' = Records(q, {ev})
         /\ \A q : q # r => Records(q, {event})' = Records(q, {event})
         /\ Records(r, {event}) = {}
         /\ Records(r, {event})' = {Entry(r, event, scope, info)}
<1> DEFINE x == Entry(r, event, scope, info)
<1>1. x.req = r /\ x.event = event
  BY DEF Entry
<1>2. x \notin BagToSet(audit)
  BY <1>1 DEF NoRecord
<1>3. \A e \in BagToSet(audit) : audit[e] = 1
  BY DEF HInv, RecordInv
<1> HIDE DEF x
<1>4. audit' = audit (+) One(x)
  BY DEF x
<1>5. /\ BagToSet(audit') = BagToSet(audit) \cup {x}
      /\ \A e \in BagToSet(audit) : e # x => audit'[e] = audit[e] + 0
      /\ audit'[x] = 1
  BY <1>2, <1>4, BagPlusOne
<1>6. \A e \in BagToSet(audit') : audit'[e] = 1
  BY <1>2, <1>3, <1>5
<1>7. /\ \A q, ev : ev # event => Records(q, {ev})' = Records(q, {ev})
      /\ \A q : q # r => Records(q, {event})' = Records(q, {event})
      /\ Records(r, {event}) = {}
      /\ Records(r, {event})' = {x}
  BY <1>1, <1>5 DEF Records, NoRecord
<1> QED BY <1>5, <1>6, <1>7 DEF x

\* What the steps that write a record add to the log.
LEMMA RefusalRecord ==
  ASSUME HInv, NEW r \in Requests, pc[r] \in {"new", "verifying"}
  PROVE  NoRecord(r, "http.request.rejected") /\ NoRecord(r, "http.request.authorized")
BY DEF HInv, RecordInv, RecordOK, NoRecord, Entry

LEMMA ReportRecord ==
  ASSUME HInv, NEW r \in Requests, tool[r] = "running", reported[r] = NoSession
  PROVE  NoRecord(r, "tool.get_tenant_context")
<1>1. CurrentTenant(r) \in Scopes
  BY TypeParts, MessagesParts DEF HInv, RequestTypes, CurrentTenant
<1> QED
  BY <1>1, ScopeIsNoSession DEF HInv, RecordInv, RecordOK, NoRecord, Entry

LEMMA EndRecord ==
  ASSUME HInv, NEW r \in Requests, tool[r] = "running"
  PROVE  NoRecord(r, "tool.invoked")
BY DEF HInv, RecordInv, RecordOK, NoRecord, Entry

LEMMA StepRecords ==
  ASSUME HInv, NEW r \in Requests, Step(r)
  PROVE  RecordInv'
<1>0. RequestTypes /\ RecordInv /\ Progress(r)
  BY TypeParts DEF HInv, ProgressInv
<1>1. \A e \in BagToSet(audit) : RecordOK(e.req, e)'
  BY RecordsStay
<1>2. ASSUME NEW event, NEW scope, NEW info, NoRecord(r, event),
             audit' = audit (+) One(Entry(r, event, scope, info)),
             RecordOK(r, Entry(r, event, scope, info))'
      PROVE  RecordInv'
  <2>1. BagToSet(audit') = BagToSet(audit) \cup {Entry(r, event, scope, info)}
    BY <1>2, NewRecord
  <2>2. \A e \in BagToSet(audit') : audit'[e] = 1
    BY <1>2, NewRecord
  <2>3. Entry(r, event, scope, info).req = r
    BY DEF Entry
  <2> QED BY <1>0, <1>1, <1>2, <2>1, <2>2, <2>3 DEF RecordInv
<1>3. CASE Refuses(r)
  <2>1. PICK m \in Message, reason \in Reasons :
          Reject(r, m, reason, Refusal(reason)) /\ msg' = [msg EXCEPT ![r] = m]
    BY <1>3 DEF Refuses
  <2>2. sessionTenant[r] = NoSession
    BY <1>0, <1>3 DEF Refuses, HInv, OnceInv, RecordInv, RecordOK, Entry
  <2>3. RecordOK(r, Entry(r, "http.request.rejected", m.tenant, reason))'
    BY <1>0, <1>3, <2>1, <2>2 DEF Refuses, Reject, Goto, Observe, tools, RecordOK, Entry,
       RequestTypes, Progress
  <2> QED
    BY <1>2, <1>3, <2>1, <2>3, RefusalRecord DEF Refuses, Reject
<1>4. CASE Admits(r)
  <2>1. PICK m \in Message : Admit(r, m) /\ msg' = [msg EXCEPT ![r] = m]
    BY <1>4 DEF Admits
  <2>2. RecordOK(r, Entry(r, "http.request.authorized", m.tenant, "-"))'
    BY <1>0, <2>1 DEF Admit, Goto, RecordOK, RequestTypes
  <2> QED
    BY <1>2, <1>4, <2>1, <2>2, RefusalRecord DEF Admits, Admit
<1>5. CASE Moves(r)
  BY <1>0, <1>1, <1>5 DEF Moves, RecordInv
<1>6. CASE ReportTenant(r)
  <2> PICK scope : scope = CurrentTenant(r)
    OBVIOUS
  <2>1. CurrentTenant(r)' = CurrentTenant(r)
    BY <1>6 DEF ReportTenant, CurrentTenant
  <2>2. RecordOK(r, Entry(r, "tool.get_tenant_context", scope, "-"))'
    BY <1>0, <1>6, <2>1 DEF ReportTenant, RecordOK, RequestTypes
  <2> QED
    BY <1>2, <1>6, <2>2, ReportRecord DEF ReportTenant
<1>7. ASSUME NEW outcome \in Outcomes, EndTool(r, outcome) PROVE RecordInv'
  <2> PICK scope : scope = CurrentTenant(r)
    OBVIOUS
  <2>1. CurrentTenant(r)' = CurrentTenant(r)
    BY <1>7 DEF EndTool, CurrentTenant
  <2>2. RecordOK(r, Entry(r, "tool.invoked", scope, outcome))'
    BY <1>0, <1>7, <2>1 DEF EndTool, RecordOK, RequestTypes, Entry
  <2> QED
    BY <1>2, <1>7, <2>2, EndRecord DEF EndTool, RecordTool
<1> QED
  BY <1>3, <1>4, <1>5, <1>6, <1>7, StepKinds

\* The log only grows.
LEMMA LogGrows ==
  ASSUME HInv, NEW r \in Requests, Step(r)
  PROVE  BagToSet(audit) \subseteq BagToSet(audit')
<1>1. audit' = audit \/ \E x : audit' = audit (+) One(x)
  BY StepKinds DEF Refuses, Reject, Admits, Admit, Moves, ReportTenant, EndTool, RecordTool
<1> QED
  BY <1>1, BagPlusOne

LEMMA StepOnce ==
  ASSUME HInv, NEW r \in Requests, Step(r)
  PROVE  OnceInv'
<1> DEFINE admission(q) == Entry(q, "http.request.authorized", msg[q].tenant, "-")
           inside(q)    == pc[q] \in {"inApp", "answering"} \/ tool[q] # "none"
                             \/ sessionTenant[q] # NoSession
           owes(q)      == /\ observed[q] = "401" => Records(q, {"http.request.rejected"}) # {}
                           /\ observed[q] = "403" =>
                                \/ Records(q, {"http.request.rejected"}) # {}
                                \/ Records(q, {"http.request.authorized"}) # {}
                           /\ tool[q] = "ended" => Records(q, {"tool.invoked"}) # {}
<1>0. RequestTypes /\ OnceInv /\ Progress(r)
  BY TypeParts DEF HInv, ProgressInv
<1>1. \A q \in Requests : (inside(q) => admission(q) \in BagToSet(audit)) /\ owes(q)
  BY <1>0 DEF OnceInv
<1>2. pc[r] \in {"new", "verifying"} => ~inside(r)
  BY <1>1, RefusalRecord DEF NoRecord, Entry
<1>3. \A q, evs : Records(q, evs) \subseteq Records(q, evs)'
  BY LogGrows DEF Records
<1>4. \A q \in Requests \ {r} : (inside(q) => admission(q) \in BagToSet(audit))' /\ owes(q)'
  BY <1>1, <1>3, LogGrows, OneRequest
<1>5. ASSUME NEW event, NEW scope, NEW info, NoRecord(r, event),
             audit' = audit (+) One(Entry(r, event, scope, info))
      PROVE  /\ \A d, e \in BagToSet(audit') : d.req = e.req /\ d.event = e.event => d = e
             /\ Records(r, {event})' # {}
             /\ Entry(r, event, scope, info) \in BagToSet(audit')
  <2>1. /\ BagToSet(audit') = BagToSet(audit) \cup {Entry(r, event, scope, info)}
        /\ Records(r, {event})' = {Entry(r, event, scope, info)}
    BY <1>5, NewRecord
  <2>2. \A d, e \in BagToSet(audit) : d.req = e.req /\ d.event = e.event => d = e
    BY <1>0 DEF OnceInv
  <2>3. Entry(r, event, scope, info).req = r /\ Entry(r, event, scope, info).event = event
    BY DEF Entry
  <2>4. \A d, e \in BagToSet(audit') : d.req = e.req /\ d.event = e.event => d = e
    BY <1>5, <2>1, <2>2, <2>3 DEF NoRecord
  <2> QED
    BY <2>1, <2>4
<1>6. ASSUME Refuses(r)
      PROVE  /\ \A d, e \in BagToSet(audit') : d.req = e.req /\ d.event = e.event => d = e
             /\ (inside(r) => admission(r) \in BagToSet(audit))' /\ owes(r)'
  <2>1. PICK m \in Message, reason \in Reasons :
          Reject(r, m, reason, Refusal(reason)) /\ msg' = [msg EXCEPT ![r] = m]
    BY <1>6 DEF Refuses
  <2>2. ~inside(r)'
    BY <1>0, <1>2, <1>6, <2>1 DEF Refuses, Reject, Goto, tools, RequestTypes
  <2>3. tool'[r] # "ended"
    BY <2>2
  <2> QED
    BY <1>5, <1>6, <2>1, <2>2, <2>3, RefusalRecord DEF Refuses, Reject
<1>7. ASSUME Admits(r)
      PROVE  /\ \A d, e \in BagToSet(audit') : d.req = e.req /\ d.event = e.event => d = e
             /\ (inside(r) => admission(r) \in BagToSet(audit))' /\ owes(r)'
  <2>1. PICK m \in Message : Admit(r, m) /\ msg' = [msg EXCEPT ![r] = m]
    BY <1>7 DEF Admits
  <2>2. admission(r)' = Entry(r, "http.request.authorized", m.tenant, "-")
    BY <1>0, <2>1 DEF RequestTypes
  <2>3. owes(r)'
    BY <1>1, <1>3, <1>7 DEF Admits, tools
  <2> QED
    BY <1>5, <1>7, <2>1, <2>2, <2>3, RefusalRecord DEF Admits, Admit
<1>8. ASSUME Moves(r)
      PROVE  /\ \A d, e \in BagToSet(audit') : d.req = e.req /\ d.event = e.event => d = e
             /\ (inside(r) => admission(r) \in BagToSet(audit))' /\ owes(r)'
  <2>1. inside(r)' => inside(r) /\ msg'[r] = msg[r]
    BY <1>2, <1>8 DEF Moves
  <2>2. pc[r] = "inApp" => Records(r, {"http.request.authorized"}) # {}
    <3>1. pc[r] = "inApp" => admission(r) \in BagToSet(audit)
      BY <1>1
    <3>2. admission(r).req = r /\ admission(r).event = "http.request.authorized"
      BY DEF Entry
    <3> HIDE DEF admission
    <3> QED BY <3>1, <3>2 DEF Records
  <2>3. owes(r)'
    BY <1>1, <1>3, <1>8, <2>2 DEF Moves
  <2> QED
    BY <1>0, <1>1, <1>8, <2>1, <2>3 DEF Moves, OnceInv
<1>9. ASSUME ReportTenant(r)
      PROVE  /\ \A d, e \in BagToSet(audit') : d.req = e.req /\ d.event = e.event => d = e
             /\ (inside(r) => admission(r) \in BagToSet(audit))' /\ owes(r)'
  <2>1. admission(r)' = admission(r) /\ inside(r)' = inside(r)
    BY <1>9 DEF ReportTenant
  <2>2. owes(r)'
    BY <1>1, <1>3, <1>9 DEF ReportTenant
  <2> QED
    BY <1>1, <1>5, <1>9, <2>1, <2>2, LogGrows, ReportRecord DEF ReportTenant
<1>10. ASSUME NEW outcome \in Outcomes, EndTool(r, outcome)
       PROVE  /\ \A d, e \in BagToSet(audit') : d.req = e.req /\ d.event = e.event => d = e
              /\ (inside(r) => admission(r) \in BagToSet(audit))' /\ owes(r)'
  <2>1. admission(r)' = admission(r) /\ inside(r)
    BY <1>10 DEF EndTool
  <2>2. Records(r, {"tool.invoked"})' # {}
    BY <1>5, <1>10, EndRecord DEF EndTool, RecordTool
  <2>3. owes(r)'
    BY <1>1, <1>3, <1>10, <2>2 DEF EndTool
  <2> QED
    BY <1>1, <1>5, <1>10, <2>1, <2>3, LogGrows, EndRecord DEF EndTool, RecordTool
<1>11. /\ \A d, e \in BagToSet(audit') : d.req = e.req /\ d.event = e.event => d = e
       /\ (inside(r) => admission(r) \in BagToSet(audit))' /\ owes(r)'
  BY <1>6, <1>7, <1>8, <1>9, <1>10, StepKinds
<1>12. \A q \in Requests : (inside(q) => admission(q) \in BagToSet(audit))' /\ owes(q)'
  BY <1>4, <1>11
<1> QED
  BY <1>11, <1>12 DEF OnceInv

LEMMA StepStatus ==
  ASSUME HInv, NEW r \in Requests, Step(r)
  PROVE  StatusInv'
<1>0. RequestTypes /\ Status(r)
  BY TypeParts DEF HInv, StatusInv
<1>1. ASSUME NEW q \in Requests, q # r PROVE Status(q)'
  BY <1>1, OneRequest DEF HInv, StatusInv, Status
<1>2. Status(r)'
  <2> USE <1>0 DEF Status, RequestTypes, Goto, Observe, ToolKinds
  <2>1. CASE Refuses(r)
    BY <2>1, MessageParts DEF Refuses, Reject
  <2>2. CASE Admits(r)
    BY <2>2, MessageParts DEF Admits, Admit
  <2>3. CASE ReportTenant(r)
    BY <2>3 DEF ReportTenant
  <2>4. ASSUME NEW outcome \in Outcomes, EndTool(r, outcome) PROVE Status(r)'
    BY <2>4 DEF EndTool
  <2>5. CASE ArriveScrape(r) \/ EndScrape(r) \/ AbortScrape(r)
    BY <2>5, MessagesParts DEF ArriveScrape, EndScrape, AbortScrape
  <2>6. CASE ArriveWellKnown(r)
    BY <2>6, MessagesParts DEF ArriveWellKnown
  <2>7. ASSUME NEW m \in Message, ArriveWithBearer(r, m) PROVE Status(r)'
    BY <2>7, MessageParts DEF ArriveWithBearer, Asks
  <2>8. ASSUME NEW status \in AppStatuses, AnswerDirectly(r, status) PROVE Status(r)'
    BY <2>8 DEF AnswerDirectly
  <2>9. CASE Initialize(r) \/ StartTool(r)
    BY <2>9 DEF Initialize, StartTool
  <2>10. CASE Finish(r)
    BY <2>10 DEF Finish
  <2> HIDE DEF Status
  <2> QED
    BY <2>1, <2>2, <2>3, <2>4, <2>5, <2>6, <2>7, <2>8, <2>9, <2>10, ActionKinds
<1> QED
  BY <1>1, <1>2 DEF StatusInv
-----------------------------------------------------------------------------
(***************************************************************************)
(* The counters.                                                           *)
(***************************************************************************)
\* Steps that leave HTTP_REQUESTS and the requests that are over alone.
Keeps(r) ==
  /\ httpRequests' = httpRequests
  /\ \/ pc[r] # "done" /\ pc'[r] # "done"
     \/ pc'[r] = pc[r] /\ msg'[r] = msg[r] /\ observed'[r] = observed[r]

LEMMA CountKinds ==
  ASSUME HInv, NEW r \in Requests, Step(r)
  PROVE  EndScrape(r) \/ AbortScrape(r) \/ Finish(r) \/ Keeps(r)
<1>0. RequestTypes
  BY TypeParts DEF HInv
<1> USE <1>0 DEF Keeps, RequestTypes, Goto, Observe, metrics, tools
<1>1. CASE Refuses(r)
  BY <1>1 DEF Refuses, Reject
<1>2. CASE Admits(r)
  BY <1>2 DEF Admits, Admit
<1>3. CASE ReportTenant(r)
  BY <1>3 DEF ReportTenant
<1>4. ASSUME NEW outcome \in Outcomes, EndTool(r, outcome) PROVE Keeps(r)
  BY <1>4 DEF EndTool
<1>5. CASE ArriveScrape(r) \/ ArriveWellKnown(r)
  BY <1>5 DEF ArriveScrape, ArriveWellKnown
<1>6. ASSUME NEW m \in Message, ArriveWithBearer(r, m) PROVE Keeps(r)
  BY <1>6 DEF ArriveWithBearer, Asks
<1>7. ASSUME NEW status \in AppStatuses, AnswerDirectly(r, status) PROVE Keeps(r)
  BY <1>7 DEF AnswerDirectly
<1>8. CASE Initialize(r) \/ StartTool(r)
  BY <1>8 DEF Initialize, StartTool
<1> HIDE DEF Keeps
<1> QED
  BY <1>1, <1>2, <1>3, <1>4, <1>5, <1>6, <1>7, <1>8, ActionKinds

LEMMA ScrapeCount ==
  /\ [path |-> "/metrics", status |-> "200"] \in [path : PathLabels, status : Statuses]
  /\ \A r \in Requests : RequestTypes =>
       [path |-> NormalisePath(msg[r].path), status |-> observed[r]]
         \in [path : PathLabels, status : Statuses]
BY DEF PathLabels, KnownPaths, Statuses, NormalisePath, RequestTypes

LEMMA StepCounterTypes ==
  ASSUME HInv, NEW r \in Requests, Step(r)
  PROVE  CounterTypes'
<1>0. RequestTypes /\ CounterTypes /\ Progress(r)
  BY TypeParts DEF HInv, ProgressInv
<1>1. BagToSet(httpRequests') \subseteq [path : PathLabels, status : Statuses]
  <2> DEFINE Counted == [path : PathLabels, status : Statuses]
  <2>1. BagToSet(httpRequests) \subseteq Counted
    BY <1>0 DEF CounterTypes
  <2>2. httpRequests' = httpRequests \/ \E x \in Counted : httpRequests' = httpRequests (+) One(x)
    <3> HIDE DEF Counted
    <3>1. [path |-> "/metrics", status |-> "200"] \in Counted
      BY ScrapeCount DEF Counted
    <3>2. [path |-> NormalisePath(msg[r].path), status |-> observed[r]] \in Counted
      BY <1>0, ScrapeCount DEF Counted
    <3> QED
      BY <3>1, <3>2, CountKinds DEF EndScrape, AbortScrape, metrics, Finish, Count, Keeps
  <2> HIDE DEF Counted
  <2>3. BagToSet(httpRequests') \subseteq Counted
    BY <2>1, <2>2, BagPlusOne
  <2> QED BY <2>3 DEF Counted
<1>2. BagToSet(authFailures') \subseteq Reasons
  <2>1. BagToSet(authFailures) \subseteq Reasons
    BY <1>0 DEF CounterTypes
  <2>2. authFailures' = authFailures \/ \E x \in Reasons : authFailures' = authFailures (+) One(x)
    BY StepKinds DEF Refuses, Reject, Admits, Moves, ReportTenant, EndTool, metrics
  <2> QED BY <2>1, <2>2, BagPlusOne
<1>3. BagToSet(toolInvocations') \subseteq [tool : ToolKinds, outcome : Outcomes]
  <2>1. BagToSet(toolInvocations) \subseteq [tool : ToolKinds, outcome : Outcomes]
    BY <1>0 DEF CounterTypes
  <2>2. \/ toolInvocations' = toolInvocations
        \/ \E x \in [tool : ToolKinds, outcome : Outcomes] :
             toolInvocations' = toolInvocations (+) One(x)
    <3>1. CASE \E outcome \in Outcomes : EndTool(r, outcome)
      BY <1>0, <3>1 DEF EndTool, RecordTool, Progress
    <3> QED BY <3>1, StepKinds DEF Refuses, Admits, Moves, ReportTenant, tools
  <2> QED BY <2>1, <2>2, BagPlusOne
<1> QED
  BY <1>1, <1>2, <1>3 DEF CounterTypes

\* Counting: a set of requests gains r, or none.
LEMMA GainsOne ==
  ASSUME NEW S \in SUBSET Requests, NEW T \in SUBSET Requests, NEW r
  PROVE  /\ T = S => Cardinality(T) = Cardinality(S) + 0
         /\ r \notin S /\ T = S \cup {r} => Cardinality(T) = Cardinality(S) + 1
<1>1. IsFiniteSet(S) /\ Cardinality(S) \in Nat
  BY RequestAssumption, FS_Subset, FS_CardinalityType
<1> QED
  BY <1>1, FS_AddElement

LEMMA StepHandedOnCounted ==
  ASSUME HInv, NEW r \in Requests, Step(r)
  PROVE  HandedOnRequestsCounted'
<1> DEFINE over(q, p, s) == /\ pc[q] = "done" /\ NormalisePath(msg[q].path) = p
                            /\ observed[q] = s
                            /\ msg[q].kind = "scrape" => observed[q] = "200"
           Tally(p, s) == {q \in Requests : over(q, p, s)}
<1>0. RequestTypes /\ Status(r) /\ IsABag(httpRequests)
  BY TypeParts DEF HInv, StatusInv, CounterInv
<1> SUFFICES ASSUME NEW p \in PathLabels, NEW s \in Statuses
             PROVE  Copies([path |-> p, status |-> s], httpRequests') = Cardinality(Tally(p, s)')
  BY DEF HandedOnRequestsCounted, Over
<1> DEFINE c == [path |-> p, status |-> s]
<1>1. Copies(c, httpRequests) = Cardinality(Tally(p, s)) /\ Copies(c, httpRequests) \in Nat
  <2>1. Copies(c, httpRequests) = Cardinality(Tally(p, s))
    BY DEF HInv, HandedOnRequestsCounted, Over
  <2> QED BY <1>0, <2>1, BagCounts
<1>2. \A q \in Requests \ {r} : over(q, p, s)' <=> over(q, p, s)
  BY OneRequest
<1>3. ASSUME over(r, p, s)' <=> over(r, p, s), httpRequests' = httpRequests
      PROVE  Copies(c, httpRequests') = Cardinality(Tally(p, s)')
  BY <1>1, <1>2, <1>3
<1>4. ASSUME NEW x, httpRequests' = httpRequests (+) One(x), ~over(r, p, s),
             over(r, p, s)' <=> x = c
      PROVE  Copies(c, httpRequests') = Cardinality(Tally(p, s)')
  <2>1. Copies(c, httpRequests') = Copies(c, httpRequests) + (IF c = x THEN 1 ELSE 0)
    BY <1>0, <1>4, BagCounts
  <2>2. Tally(p, s)' = IF c = x THEN Tally(p, s) \cup {r} ELSE Tally(p, s)
    BY <1>2, <1>4
  <2>3. r \notin Tally(p, s) /\ Tally(p, s) \subseteq Requests /\ Tally(p, s)' \subseteq Requests
    BY <1>4
  <2> HIDE DEF Tally, over, c
  <2>4. Cardinality(Tally(p, s)') = Cardinality(Tally(p, s)) + (IF c = x THEN 1 ELSE 0)
    BY <2>2, <2>3, GainsOne
  <2> QED BY <1>1, <2>1, <2>4
<1>5. CASE EndScrape(r)
  <2>1. /\ httpRequests' = httpRequests (+) One([path |-> "/metrics", status |-> "200"])
        /\ ~over(r, p, s)
    BY <1>5 DEF EndScrape
  <2>2. pc'[r] = "done" /\ observed'[r] = "200" /\ msg'[r] = Scrape
    BY <1>0, <1>5 DEF EndScrape, Goto, RequestTypes, Status
  <2>3. NormalisePath(msg'[r].path) = "/metrics"
    BY <2>2, MessagesParts DEF NormalisePath, KnownPaths
  <2> QED BY <1>4, <2>1, <2>2, <2>3
<1>6. CASE AbortScrape(r)
  <2>1. httpRequests' = httpRequests /\ ~over(r, p, s)
    BY <1>6 DEF AbortScrape, metrics
  <2>2. observed'[r] = "500" /\ msg'[r] = Scrape
    BY <1>0, <1>6 DEF AbortScrape, Status
  <2>3. msg'[r].kind = "scrape"
    BY <2>2, MessagesParts
  <2> QED BY <1>3, <2>1, <2>2, <2>3
<1>7. CASE Finish(r)
  <2> PICK x : x = [path |-> NormalisePath(msg[r].path), status |-> observed[r]]
    OBVIOUS
  <2>1. httpRequests' = httpRequests (+) One(x) /\ ~over(r, p, s)
    BY <1>7 DEF Finish, Count
  <2>2. pc'[r] = "done" /\ observed'[r] = observed[r] /\ msg'[r] = msg[r]
    BY <1>0, <1>7 DEF Finish, Goto, RequestTypes
  <2>3. msg[r].kind # "scrape"
    BY <1>0, <1>7 DEF Finish, Status
  <2>4. over(r, p, s)' <=> x = c
    BY <2>2, <2>3
  <2> QED BY <1>4, <2>1, <2>4
<1>8. CASE Keeps(r)
  <2>1. over(r, p, s)' <=> over(r, p, s)
    BY <1>8 DEF Keeps
  <2> QED BY <1>3, <1>8, <2>1 DEF Keeps
<1> QED
  BY <1>5, <1>6, <1>7, <1>8, CountKinds

LEMMA StepCounters ==
  ASSUME HInv, NEW r \in Requests, Step(r)
  PROVE  CounterInv'
<1> DEFINE refused(q, reason) == \E e \in Records(q, {"http.request.rejected"}) : e.info \in {reason}
           Refused(reason) == {q \in Requests : refused(q, reason)}
           invoked(q, k, o) == msg[q].kind = k /\ \E e \in Records(q, {"tool.invoked"}) : e.info = o
           Invoked(k, o) == {q \in Requests : invoked(q, k, o)}
           call(k, o) == [tool |-> k, outcome |-> o]
<1> USE DEF RefusedFor
<1>0. RequestTypes /\ CounterInv /\ Progress(r)
  BY TypeParts DEF HInv, ProgressInv
<1>1. IsABag(httpRequests')
  <2>1. httpRequests' = httpRequests \/ \E x : httpRequests' = httpRequests (+) One(x)
    BY CountKinds DEF EndScrape, AbortScrape, Finish, Count, Keeps, metrics
  <2>2. IsABag(httpRequests)
    BY <1>0 DEF CounterInv
  <2> QED BY <2>1, <2>2, BagCounts
<1>2. ASSUME authFailures' = authFailures,
             \A q \in Requests : Records(q, {"http.request.rejected"})'
                                   = Records(q, {"http.request.rejected"})
      PROVE  /\ IsABag(authFailures')
             /\ \A reason \in Reasons :
                  Copies(reason, authFailures') = Cardinality(Refused(reason)')
  <2>1. \A reason \in Reasons : Refused(reason)' = Refused(reason)
    BY <1>2
  <2> QED BY <1>0, <1>2, <2>1 DEF CounterInv
<1>3. ASSUME toolInvocations' = toolInvocations, pc[r] # "new" => msg'[r] = msg[r],
             \A q \in Requests : Records(q, {"tool.invoked"})' = Records(q, {"tool.invoked"})
      PROVE  /\ IsABag(toolInvocations')
             /\ \A k \in ToolKinds, o \in Outcomes :
                  Copies(call(k, o), toolInvocations') = Cardinality(Invoked(k, o)')
  <2>1. pc[r] = "new" => Records(r, {"tool.invoked"}) = {}
    BY <1>0 DEF HInv, RecordInv, RecordOK, Entry, Records, Progress
  <2>2. \A k, o : \A q \in Requests : invoked(q, k, o)' <=> invoked(q, k, o)
    BY <1>3, <2>1, OneRequest
  <2>3. \A k \in ToolKinds, o \in Outcomes : Invoked(k, o)' = Invoked(k, o)
    BY <2>2
  <2> QED BY <1>0, <1>3, <2>3 DEF CounterInv
<1>4. CASE Refuses(r)
  <2>1. PICK m \in Message, why \in Reasons : Reject(r, m, why, Refusal(why))
    BY <1>4 DEF Refuses
  <2>2. NoRecord(r, "http.request.rejected")
    BY <1>4, RefusalRecord DEF Refuses
  <2> DEFINE x == Entry(r, "http.request.rejected", m.tenant, why)
  <2>3. /\ \A q, ev : ev # "http.request.rejected" => Records(q, {ev})' = Records(q, {ev})
        /\ \A q : q # r => Records(q, {"http.request.rejected"})'
                             = Records(q, {"http.request.rejected"})
        /\ Records(r, {"http.request.rejected"}) = {}
        /\ Records(r, {"http.request.rejected"})' = {x}
    <3>1. audit' = audit (+) One(x)
      BY <2>1 DEF Reject
    <3>2. BagToSet(audit') = BagToSet(audit) \cup {x}
      BY <3>1, BagPlusOne
    <3>3. x.req = r /\ x.event = "http.request.rejected"
      BY DEF Entry
    <3> HIDE DEF x
    <3> QED BY <2>2, <3>2, <3>3 DEF Records, NoRecord
  <2>4. x.info = why
    BY DEF Entry
  <2> HIDE DEF x
  <2>5. authFailures' = authFailures (+) One(why)
    BY <2>1 DEF Reject
  <2>6. ASSUME NEW reason \in Reasons
        PROVE  Copies(reason, authFailures') = Cardinality(Refused(reason)')
    <3>1. /\ Copies(reason, authFailures) = Cardinality(Refused(reason))
          /\ Copies(reason, authFailures') = Copies(reason, authFailures)
                                               + (IF reason = why THEN 1 ELSE 0)
      BY <1>0, <2>5, BagCounts DEF CounterInv
    <3>2. r \notin Refused(reason)
      BY <2>3
    <3>3. Refused(reason)' = IF reason = why THEN Refused(reason) \cup {r} ELSE Refused(reason)
      BY <2>3, <2>4
    <3>4. Refused(reason) \subseteq Requests /\ Refused(reason)' \subseteq Requests
      OBVIOUS
    <3> HIDE DEF Refused
    <3>5. Cardinality(Refused(reason)')
            = Cardinality(Refused(reason)) + (IF reason = why THEN 1 ELSE 0)
      BY <3>2, <3>3, <3>4, GainsOne
    <3> QED BY <3>1, <3>5
  <2>7. IsABag(authFailures')
    BY <1>0, <2>5, BagCounts DEF CounterInv
  <2>8. /\ toolInvocations' = toolInvocations
        /\ \A q \in Requests : Records(q, {"tool.invoked"})' = Records(q, {"tool.invoked"})
    BY <1>4, <2>3 DEF Refuses, tools
  <2>9. \A k, o : \A q \in Requests : invoked(q, k, o)' <=> invoked(q, k, o)
    <3>1. Records(r, {"tool.invoked"}) = {}
      BY <1>0, <1>4 DEF Refuses, HInv, RecordInv, RecordOK, Entry, Records, Progress
    <3> QED BY <2>8, <3>1, OneRequest
  <2>10. \A k \in ToolKinds, o \in Outcomes : Invoked(k, o)' = Invoked(k, o)
    BY <2>9
  <2> QED
    BY <1>0, <1>1, <2>6, <2>7, <2>8, <2>10 DEF CounterInv
<1>5. CASE Admits(r)
  <2>1. PICK m \in Message : Admit(r, m)
    BY <1>5 DEF Admits
  <2>2. \A q, ev : ev # "http.request.authorized" => Records(q, {ev})' = Records(q, {ev})
    <3> PICK scope : scope = m.tenant
      OBVIOUS
    <3>1. audit' = audit (+) One(Entry(r, "http.request.authorized", scope, "-"))
      BY <2>1 DEF Admit
    <3>2. BagToSet(audit') = BagToSet(audit) \cup {Entry(r, "http.request.authorized", scope, "-")}
      BY <3>1, BagPlusOne
    <3>3. Entry(r, "http.request.authorized", scope, "-").event = "http.request.authorized"
      BY DEF Entry
    <3> QED BY <3>2, <3>3 DEF Records
  <2>3. Records(r, {"tool.invoked"}) = {}
    BY <1>0, <1>5 DEF Admits, HInv, RecordInv, RecordOK, Entry, Records, Progress
  <2>4. \A k, o : \A q \in Requests : invoked(q, k, o)' <=> invoked(q, k, o)
    <3>1. \A q \in Requests : Records(q, {"tool.invoked"})' = Records(q, {"tool.invoked"})
      BY <2>2
    <3> QED BY <2>3, <3>1, OneRequest
  <2>5. \A k \in ToolKinds, o \in Outcomes : Invoked(k, o)' = Invoked(k, o)
    BY <2>4
  <2>6. authFailures' = authFailures /\ toolInvocations' = toolInvocations
    BY <1>5 DEF Admits, metrics, tools
  <2> QED
    BY <1>0, <1>1, <1>2, <2>2, <2>5, <2>6 DEF CounterInv
<1>6. CASE Moves(r)
  <2>1. \A q, evs : Records(q, evs)' = Records(q, evs)
    BY <1>6 DEF Moves, Records
  <2> QED
    BY <1>1, <1>2, <1>3, <1>6, <2>1 DEF Moves, CounterInv
<1>7. CASE ReportTenant(r)
  <2>1. \A q, ev : ev # "tool.get_tenant_context" => Records(q, {ev})' = Records(q, {ev})
    BY <1>7, NewRecord, ReportRecord DEF ReportTenant
  <2> QED
    BY <1>1, <1>2, <1>3, <1>7, <2>1 DEF ReportTenant, metrics, CounterInv
<1>8. ASSUME NEW outcome \in Outcomes, EndTool(r, outcome) PROVE CounterInv'
  <2> DEFINE x == Entry(r, "tool.invoked", CurrentTenant(r), outcome)
  <2>1. /\ \A q, ev : ev # "tool.invoked" => Records(q, {ev})' = Records(q, {ev})
        /\ \A q : q # r => Records(q, {"tool.invoked"})' = Records(q, {"tool.invoked"})
        /\ Records(r, {"tool.invoked"}) = {}
        /\ Records(r, {"tool.invoked"})' = {x}
    BY <1>8, NewRecord, EndRecord DEF EndTool, RecordTool
  <2>2. x.info = outcome
    BY DEF Entry
  <2> HIDE DEF x
  <2>3. PICK kind : kind = msg[r].kind
    OBVIOUS
  <2>4. toolInvocations' = toolInvocations (+) One(call(kind, outcome)) /\ msg' = msg
    BY <1>8, <2>3 DEF EndTool, RecordTool
  <2>5. ASSUME NEW k \in ToolKinds, NEW o \in Outcomes
        PROVE  Copies(call(k, o), toolInvocations') = Cardinality(Invoked(k, o)')
    <3> DEFINE gain == IF call(k, o) = call(kind, outcome) THEN 1 ELSE 0
    <3>1. /\ Copies(call(k, o), toolInvocations) = Cardinality(Invoked(k, o))
          /\ Copies(call(k, o), toolInvocations') = Copies(call(k, o), toolInvocations) + gain
      BY <1>0, <2>4, BagCounts DEF CounterInv
    <3>2. r \notin Invoked(k, o)
      BY <2>1
    <3>3. call(k, o) = call(kind, outcome) <=> k = kind /\ o = outcome
      OBVIOUS
    <3> HIDE DEF call
    <3>4. Invoked(k, o)' = IF call(k, o) = call(kind, outcome) THEN Invoked(k, o) \cup {r}
                           ELSE Invoked(k, o)
      BY <2>1, <2>2, <2>3, <2>4, <3>3
    <3>5. Invoked(k, o) \subseteq Requests /\ Invoked(k, o)' \subseteq Requests
      OBVIOUS
    <3> HIDE DEF Invoked
    <3>6. Cardinality(Invoked(k, o)') = Cardinality(Invoked(k, o)) + gain
      BY <3>2, <3>4, <3>5, GainsOne
    <3> QED BY <3>1, <3>6
  <2>6. IsABag(toolInvocations')
    BY <1>0, <2>4, BagCounts DEF CounterInv
  <2>7. authFailures' = authFailures
    BY <1>8 DEF EndTool, metrics
  <2> QED
    BY <1>1, <1>2, <2>1, <2>5, <2>6, <2>7 DEF CounterInv
<1> QED
  BY <1>4, <1>5, <1>6, <1>7, <1>8, StepKinds
-----------------------------------------------------------------------------
(***************************************************************************)
(* The inductive invariant, and what follows from it.                      *)
(***************************************************************************)
LEMMA NothingYet == /\ IsABag(EmptyBag) /\ BagToSet(EmptyBag) = {}
                    /\ \A x : Copies(x, EmptyBag) = 0
BY DEF EmptyBag, SetToBag, IsABag, BagToSet, Copies, BagIn

LEMMA HInit == Init => HInv
<1> SUFFICES ASSUME Init PROVE HInv
  OBVIOUS
<1> USE DEF Init
<1>1. RequestTypes
  BY MessagesParts DEF RequestTypes, Statuses, Scopes
<1>2. CounterTypes
  BY NothingYet DEF CounterTypes
<1>3. ProgressInv
  BY MessagesParts DEF ProgressInv, Progress
<1>4. RecordInv
  BY NothingYet DEF RecordInv
<1>5. OnceInv
  BY NothingYet DEF OnceInv
<1>6. StatusInv
  BY MessagesParts DEF StatusInv, Status
<1>7. \A r \in Requests : Records(r, {"http.request.rejected"}) = {}
                            /\ Records(r, {"tool.invoked"}) = {}
  BY NothingYet DEF Records
<1>8. Cardinality({}) = 0
  BY FS_EmptySet
<1>9. CounterInv
  <2>1. ASSUME NEW reason \in Reasons
        PROVE  Copies(reason, authFailures) =
                 Cardinality({r \in Requests : RefusedFor(r, {reason})})
    <3>1. {r \in Requests : RefusedFor(r, {reason})} = {}
      BY <1>7 DEF RefusedFor
    <3> QED BY <1>8, <3>1, NothingYet
  <2>2. ASSUME NEW k \in ToolKinds, NEW o \in Outcomes
        PROVE  Copies([tool |-> k, outcome |-> o], toolInvocations) =
                 Cardinality({r \in Requests : msg[r].kind = k /\
                   \E e \in Records(r, {"tool.invoked"}) : e.info = o})
    <3>1. {r \in Requests : msg[r].kind = k /\
             \E e \in Records(r, {"tool.invoked"}) : e.info = o} = {}
      BY <1>7
    <3> QED BY <1>8, <3>1, NothingYet
  <2> QED BY <2>1, <2>2, NothingYet DEF CounterInv
<1>10. HandedOnRequestsCounted
  <2> SUFFICES ASSUME NEW p \in PathLabels, NEW s \in Statuses
               PROVE  Copies([path |-> p, status |-> s], httpRequests) =
                        Cardinality({r \in Over(p) :
                          /\ observed[r] = s
                          /\ msg[r].kind = "scrape" => observed[r] = "200"})
    BY DEF HandedOnRequestsCounted
  <2>1. {r \in Over(p) : /\ observed[r] = s
                         /\ msg[r].kind = "scrape" => observed[r] = "200"} = {}
    BY DEF Over
  <2> QED BY <1>8, <2>1, NothingYet
<1> QED
  BY <1>1, <1>2, <1>3, <1>4, <1>5, <1>6, <1>9, <1>10, TypeParts DEF HInv

LEMMA HStep == HInv /\ [Next]_vars => HInv'
<1>1. ASSUME HInv, NEW r \in Requests, Step(r) PROVE HInv'
  <2>1. TypeOK'
    <3>1. RequestTypes' /\ CounterTypes'
      BY <1>1, StepRequestTypes, StepCounterTypes
    <3> QED BY <3>1 DEF TypeOK, RequestTypes, CounterTypes, Messages
  <2> QED
    BY <1>1, <2>1, StepProgress, StepRecords, StepOnce, StepCounters, StepStatus,
       StepHandedOnCounted DEF HInv
<1>2. ASSUME HInv, UNCHANGED vars PROVE HInv'
  <2> USE <1>2 DEF vars, mode, tools, metrics, HInv
  <2>1. TypeOK'
    BY DEF TypeOK
  <2>2. ProgressInv'
    BY DEF ProgressInv, Progress, CurrentTenant
  <2>3. RecordInv'
    BY DEF RecordInv, RecordOK, CurrentTenant
  <2>4. OnceInv'
    BY DEF OnceInv, Records
  <2>5. CounterInv'
    BY DEF CounterInv, Records, RefusedFor
  <2>6. StatusInv'
    BY DEF StatusInv, Status
  <2>7. HandedOnRequestsCounted'
    BY DEF HandedOnRequestsCounted, Over
  <2> QED
    BY <2>1, <2>2, <2>3, <2>4, <2>5, <2>6, <2>7
<1> QED
  BY <1>1, <1>2 DEF Next, Step

THEOREM HttpInvariance == Spec => []HInv
BY HInit, HStep, PTL DEF Spec

\* The type invariant of HttpServer: in particular no context variable keeps a tenant
\* once its request is over.
THEOREM HttpTypes == Spec => []TypeOK
<1>1. HInv => TypeOK
  BY DEF HInv
<1> QED BY <1>1, HttpInvariance, PTL

\* The finally clause of MetricsMiddleware: HTTP_REQUESTS is, by path and status, the
\* number of handed-on requests that are over and of scrapes that were answered.
THEOREM HandedOnCounted == Spec => []HandedOnRequestsCounted
<1>1. HInv => HandedOnRequestsCounted
  BY DEF HInv
<1> QED BY <1>1, HttpInvariance, PTL

\* The auth middlewares: what the app did, it did for a request with one authorized
\* record and no rejected one.
THEOREM AdmittedReachApp == Spec => []OnlyAdmittedReachApp
<1>1. HInv => OnlyAdmittedReachApp
  <2> SUFFICES ASSUME HInv, NEW r \in Requests,
                      pc[r] \in {"inApp", "answering"} \/ tool[r] # "none"
                        \/ sessionTenant[r] # NoSession
               PROVE  /\ Copies(Entry(r, "http.request.authorized", msg[r].tenant, "-"), audit) = 1
                      /\ Records(r, {"http.request.rejected"}) = {}
    BY DEF OnlyAdmittedReachApp
  <2> DEFINE x == Entry(r, "http.request.authorized", msg[r].tenant, "-")
  <2>1. x \in BagToSet(audit)
    BY DEF HInv, OnceInv
  <2> HIDE DEF x
  <2>2. audit[x] = 1
    BY <2>1 DEF HInv, RecordInv
  <2>3. Copies(x, audit) = 1
    BY <2>1, <2>2 DEF Copies, BagIn
  <2>4. Records(r, {"http.request.rejected"}) = {}
    BY DEF Records, HInv, RecordInv, RecordOK, Entry
  <2> QED BY <2>3, <2>4 DEF x
<1> QED BY <1>1, HttpInvariance, PTL

\* current_tenant and the dispatcher's finally clause: a call that names its tenant is
\* attributed to it.
THEOREM ScopedCalls == Spec => []ScopedCallAttributed
<1>1. HInv => ScopedCallAttributed
  <2> SUFFICES ASSUME HInv, NEW r \in Requests, msg[r].tenant # NoTenant
               PROVE  /\ reported[r] \in {NoSession, msg[r].tenant}
                      /\ \A e \in Records(r, {"tool.get_tenant_context", "tool.invoked"}) :
                           e.scope = msg[r].tenant
    BY DEF ScopedCallAttributed
  <2>1. CurrentTenant(r) = msg[r].tenant
    BY DEF CurrentTenant
  <2>2. reported[r] \in {NoSession, msg[r].tenant}
    BY <2>1 DEF HInv, ProgressInv, Progress
  <2>3. \A e \in Records(r, {"tool.get_tenant_context", "tool.invoked"}) :
          e.scope = CurrentTenant(r)
    BY DEF Records, HInv, RecordInv, RecordOK, Entry
  <2> QED BY <2>1, <2>2, <2>3
<1> QED BY <1>1, HttpInvariance, PTL

\* get_tenant_context and the dispatcher's finally clause: the scope a tool reported is
\* the scope of its records.
THEOREM ReportedScope == Spec => []ReportedScopeIsAudited
<1>1. HInv => ReportedScopeIsAudited
  <2> SUFFICES ASSUME HInv, NEW r \in Requests, reported[r] # NoSession
               PROVE  \A e \in Records(r, {"tool.get_tenant_context", "tool.invoked"}) :
                        e.scope = reported[r]
    BY DEF ReportedScopeIsAudited
  <2>1. reported[r] = CurrentTenant(r)
    BY DEF HInv, ProgressInv, Progress
  <2>2. \A e \in Records(r, {"tool.get_tenant_context", "tool.invoked"}) :
          e.scope = CurrentTenant(r)
    BY DEF Records, HInv, RecordInv, RecordOK, Entry
  <2> QED BY <2>1, <2>2
<1> QED BY <1>1, HttpInvariance, PTL

\* The dispatcher's finally clause: TOOL_INVOCATIONS and the audit log have each tool
\* call that ended, once.
THEOREM ToolCalls == Spec => []ToolCallsAccounted
<1>1. HInv => ToolCallsAccounted
  <2> SUFFICES ASSUME HInv PROVE ToolCallsAccounted
    OBVIOUS
  <2>1. ASSUME NEW r \in Requests
        PROVE  /\ Cardinality(Records(r, {"tool.invoked"})) = IF tool[r] = "ended" THEN 1 ELSE 0
               /\ \A e \in Records(r, {"tool.invoked"}) : Copies(e, audit) = 1
    <3>1. \A e \in Records(r, {"tool.invoked"}) : Copies(e, audit) = 1 /\ tool[r] = "ended"
      BY DEF Records, HInv, RecordInv, RecordOK, Entry, Copies, BagIn
    <3>2. \A d, e \in Records(r, {"tool.invoked"}) : d = e
      BY DEF Records, HInv, OnceInv
    <3>3. tool[r] = "ended" => Records(r, {"tool.invoked"}) # {}
      BY DEF HInv, OnceInv
    <3>4. CASE tool[r] = "ended"
      <4>1. PICK x : Records(r, {"tool.invoked"}) = {x}
        BY <3>2, <3>3, <3>4
      <4> QED BY <3>1, <3>4, <4>1, FS_Singleton
    <3>5. CASE tool[r] # "ended"
      <4>1. Records(r, {"tool.invoked"}) = {}
        BY <3>1, <3>5
      <4> QED BY <3>5, <4>1, FS_EmptySet
    <3> QED BY <3>4, <3>5
  <2>2. \A k \in ToolKinds, o \in Outcomes :
          Copies([tool |-> k, outcome |-> o], toolInvocations) =
            Cardinality({r \in Requests : msg[r].kind = k /\
              \E e \in Records(r, {"tool.invoked"}) : e.info = o})
    BY DEF HInv, CounterInv
  <2> QED BY <2>1, <2>2 DEF ToolCallsAccounted
<1> QED BY <1>1, HttpInvariance, PTL

\* The ledgers of refusals: AUTH_FAILURES, the rejected records and the 401 and 403 of
\* HTTP_REQUESTS agree, whatever the path and the way of authentication.
THEOREM RefusalLedgers == Spec => []RefusalLedgersAgree
<1>1. HInv => RefusalLedgersAgree
  <2> SUFFICES ASSUME HInv PROVE RefusalLedgersAgree
    OBVIOUS
  <2> DEFINE Tally(p, s) == {r \in Over(p) : /\ observed[r] = s
                                             /\ msg[r].kind = "scrape" => observed[r] = "200"}
             want == {"insufficient_scope"}
  <2>1. \A m \in Message : m.kind # "scrape"
    BY MessageParts DEF ToolKinds
  <2>2. ASSUME NEW r \in Requests
        PROVE  /\ RefusedFor(r, want) => observed[r] = "403" /\ msg[r].kind # "scrape"
               /\ RefusedFor(r, Reasons \ want) => observed[r] = "401" /\ msg[r].kind # "scrape"
               /\ ForbiddenByApp(r) => observed[r] = "403" /\ msg[r].kind # "scrape"
    <3>1. \A e \in Records(r, {"http.request.rejected"}) :
            observed[r] = Refusal(e.info) /\ msg[r] \in Message
      BY DEF Records, HInv, RecordInv, RecordOK, Entry
    <3>2. \A e \in Records(r, {"http.request.authorized"}) : msg[r] \in Message
      BY DEF Records, HInv, RecordInv, RecordOK, Entry
    <3> QED BY <2>1, <3>1, <3>2 DEF RefusedFor, ForbiddenByApp, Refusal
  <2>3. ASSUME NEW r \in Requests
        PROVE  /\ observed[r] = "401" => RefusedFor(r, Reasons \ want)
               /\ observed[r] = "403" => RefusedFor(r, want) \/ ForbiddenByApp(r)
    <3>1. \A e \in Records(r, {"http.request.rejected"}) :
            observed[r] = Refusal(e.info) /\ e.info \in Reasons
      BY DEF Records, HInv, RecordInv, RecordOK, Entry
    <3>2. /\ observed[r] = "401" => Records(r, {"http.request.rejected"}) # {}
          /\ observed[r] = "403" => \/ Records(r, {"http.request.rejected"}) # {}
                                    \/ Records(r, {"http.request.authorized"}) # {}
      BY DEF HInv, OnceInv
    <3> QED BY <3>1, <3>2 DEF RefusedFor, ForbiddenByApp, Refusal
  <2>4. ASSUME NEW p \in PathLabels
        PROVE  /\ Tally(p, "401") = {r \in Over(p) : RefusedFor(r, Reasons \ want)}
               /\ Tally(p, "403") = {r \in Over(p) : RefusedFor(r, want) \/ ForbiddenByApp(r)}
    <3>1. Over(p) \subseteq Requests
      BY DEF Over
    <3> QED BY <2>2, <2>3, <3>1
  <2>5. ASSUME NEW p \in PathLabels, NEW s \in {"401", "403"}
        PROVE  Copies([path |-> p, status |-> s], httpRequests) = Cardinality(Tally(p, s))
    <3>1. s \in Statuses
      BY DEF Statuses
    <3> QED BY <3>1 DEF HInv, HandedOnRequestsCounted
  <2>6. \A r \in Requests : \A d, e \in Records(r, {"http.request.rejected"}) : d = e
    BY DEF HInv, OnceInv, Records
  <2>7. \A reason \in Reasons :
          Copies(reason, authFailures) = Cardinality({r \in Requests : RefusedFor(r, {reason})})
    BY DEF HInv, CounterInv
  <2> QED BY <2>4, <2>5, <2>6, <2>7 DEF RefusalLedgersAgree
<1> QED BY <1>1, HttpInvariance, PTL
=============================================================================
