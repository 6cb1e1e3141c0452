--------------------------- MODULE StartupProofs ----------------------------
(***************************************************************************)
(* Proofs about Startup for every set of command lines and environments    *)
(* and any number of starts: a server that listens on --transport=http has *)
(* the authentication its environment asks for, its startup record is the  *)
(* last of the audit log, and its tool calls are instrumented.             *)
(***************************************************************************)
EXTENDS Startup, SequenceTheorems, TLAPS

\* The locations of run_http, and of those the ones behind the choice of the auth mode.
InRunHttp == pc \in {"parseBind", "readEnv", "audit", "listen"}
AppBuilt  == pc \in {"audit", "listen"} \/ Serving("http")

Traced == args.otel /\ env.otelExtra

\* Where the start is tells which transport it was asked for.
PathInv ==
  /\ InRunHttp => args.transport = "http"
  /\ pc = "transports" => args.transport # "http"

\* What run_http has settled stays as it was settled until the process ends.
AuthInv ==
  AppBuilt => /\ Resolve # "refused"
              /\ authMode = Resolve
              /\ middleware = <<"metrics", Resolve>>

WrapInv ==
  /\ pc = "main" => dispatcher = <<>>
  /\ pc \in {"parseBind", "readEnv"} => dispatcher = IF Traced THEN <<"tracing">> ELSE <<>>
  /\ AppBuilt => dispatcher = IF Traced THEN <<"metrics", "tracing">> ELSE <<"metrics">>
  /\ pc = "stopped" => dispatcher = <<>>

IInv == PathInv /\ AuthInv /\ WrapInv

\* The choice of the auth mode reads the environment only, in three cases.
LEMMA ResolveCases ==
  /\ Resolve \in {"refused", "oauth", "static-token"}
  /\ Resolve = "oauth" => Given("issuer") /\ Given("audience")
  /\ Resolve = "static-token" => HasToken /\ NoOAuth
BY DEF Resolve, Partial

\* Wrapping adds the wrapper outermost when it is not there.
LEMMA WrapNew ==
  ASSUME NEW w, dispatcher = <<>>
  PROVE  Wrap(w) = <<w>>
BY DEF Wrap

LEMMA WrapTraced ==
  ASSUME dispatcher = <<"tracing">>
  PROVE  Wrap("metrics") = <<"metrics", "tracing">>
<1>1. ~ \E i \in DOMAIN dispatcher : dispatcher[i] = "metrics"
  OBVIOUS
<1>2. Wrap("metrics") = <<"metrics">> \o <<"tracing">>
  BY <1>1 DEF Wrap
<1>3. <<"metrics">> \o <<"tracing">> = <<"metrics", "tracing">>
  <2> DEFINE s == <<"metrics">> \o <<"tracing">>
             t == <<"metrics", "tracing">>
             W == {"metrics", "tracing"}
  <2>1. s \in Seq(W) /\ t \in Seq(W)
    <3>1. <<"metrics">> \in Seq(W) /\ <<"tracing">> \in Seq(W)
      OBVIOUS
    <3>2. s \in Seq(W)
      BY <3>1, ConcatProperties
    <3>3. t \in Seq(W)
      OBVIOUS
    <3> QED
      BY <3>2, <3>3
  <2>2. Len(s) = 2 /\ Len(t) = 2
    OBVIOUS
  <2>3. s[1] = "metrics" /\ s[2] = "tracing" /\ t[1] = "metrics" /\ t[2] = "tracing"
    OBVIOUS
  <2>4. \A i \in 1 .. 2 : s[i] = t[i]
    BY <2>3
  <2> HIDE DEF s, t
  <2>5. s = t
    BY <2>1, <2>2, <2>4, SeqEqual
  <2> QED
    BY <2>5 DEF s, t
<1> QED
  BY <1>2, <1>3

\* The initial state, and every step of a start, keep the invariant of the choices: the
\* environment and the command line only change where the process begins and ends.
LEMMA InitIInv == Init => IInv
BY DEF Init, IInv, PathInv, AuthInv, WrapInv, InRunHttp, AppBuilt, Serving

LEMMA NextIInv == IInv /\ [Next]_vars => IInv'
<1> SUFFICES ASSUME IInv, [Next]_vars PROVE IInv'
  OBVIOUS
<1> USE DEF InRunHttp, AppBuilt, Serving
<1>1. CASE Start
  BY <1>1 DEF Start, Goto, IInv, PathInv, AuthInv, WrapInv
<1>2. CASE Stop
  BY <1>2 DEF Stop, Goto, IInv, PathInv, AuthInv, WrapInv
<1>3. CASE InitTracing
  <2>1. Wrap("tracing") = <<"tracing">>
    BY <1>3, WrapNew DEF InitTracing, IInv, WrapInv
  <2>2. PathInv' /\ AuthInv'
    BY <1>3 DEF InitTracing, Goto, IInv, PathInv, AuthInv
  <2>3. WrapInv'
    BY <1>3, <2>1 DEF InitTracing, Goto, IInv, WrapInv, Traced
  <2> QED
    BY <2>2, <2>3 DEF IInv
<1>4. CASE ParseBind
  <2>1. pc = "parseBind" /\ pc' = "readEnv"
        /\ UNCHANGED <<args, env, dispatcher, middleware, authMode>>
    BY <1>4 DEF ParseBind, Goto
  <2>2. PathInv' /\ AuthInv'
    BY <2>1 DEF IInv, PathInv, AuthInv
  <2>3. WrapInv'
    BY <2>1 DEF IInv, WrapInv, Traced
  <2> QED
    BY <2>2, <2>3 DEF IInv
<1>5. CASE BuildHttpApp
  <2>1. PathInv'
    BY <1>5 DEF BuildHttpApp, Goto, IInv, PathInv
  <2>2. Resolve' = Resolve
    BY <1>5 DEF BuildHttpApp, Resolve, Partial, NoOAuth, HasToken, Given
  <2>3. AuthInv'
    BY <1>5, <2>2 DEF BuildHttpApp, Goto, AuthInv
  <2>4. dispatcher = IF Traced THEN <<"tracing">> ELSE <<>>
    BY <1>5 DEF BuildHttpApp, IInv, WrapInv
  <2>5. Wrap("metrics") = IF Traced THEN <<"metrics", "tracing">> ELSE <<"metrics">>
    BY <2>4, WrapNew, WrapTraced
  <2>6. WrapInv'
    BY <1>5, <2>5 DEF BuildHttpApp, Goto, WrapInv, Traced
  <2> QED
    BY <2>1, <2>3, <2>6 DEF IInv
<1>6. ASSUME UNCHANGED <<args, env, dispatcher, middleware, authMode>>,
             AppBuilt' => AppBuilt,
             pc' \in {"listen", "serving"}, PathInv'
      PROVE  IInv'
  <2>1. Resolve' = Resolve /\ Traced' = Traced
    BY <1>6 DEF Resolve, Partial, NoOAuth, HasToken, Given, Traced
  <2> QED
    BY <1>6, <2>1 DEF IInv, AuthInv, WrapInv
<1>7. CASE AuditStarting
  BY <1>6, <1>7 DEF AuditStarting, Goto, IInv, PathInv
<1>8. CASE Listen
  BY <1>6, <1>8 DEF Listen, Goto, IInv, PathInv
<1>9. CASE RunTransport
  <2>1. pc = "transports" /\ pc' = "serving" /\ args.transport # "http"
        /\ UNCHANGED <<args, env, dispatcher, middleware, authMode>>
    BY <1>9 DEF RunTransport, Goto, IInv, PathInv
  <2>2. PathInv' /\ ~ AppBuilt'
    BY <2>1 DEF PathInv
  <2>3. AuthInv' /\ WrapInv'
    BY <2>1, <2>2 DEF AuthInv, WrapInv
  <2> QED
    BY <2>2, <2>3 DEF IInv
<1>10. CASE UNCHANGED vars
  <2>1. Resolve' = Resolve /\ Traced' = Traced
    BY <1>10 DEF vars, Resolve, Partial, NoOAuth, HasToken, Given, Traced
  <2> QED
    BY <1>10, <2>1 DEF vars, IInv, PathInv, AuthInv, WrapInv
<1> QED
  BY <1>1, <1>2, <1>3, <1>4, <1>5, <1>7, <1>8, <1>9, <1>10 DEF Next

THEOREM ChoicesInvariance == Spec => []IInv
BY InitIInv, NextIInv, PTL DEF Spec

\* For every set of command lines and environments, --transport=http serves with the
\* authentication the environment asks for and none weaker (run_http, from_env).
THEOREM AuthNeverWeaker == Spec => []HttpAuthNeverWeaker
<1>1. IInv => HttpAuthNeverWeaker
  BY ResolveCases DEF IInv, AuthInv, AppBuilt, HttpAuthNeverWeaker
<1> QED
  BY <1>1, ChoicesInvariance, PTL

\* Its tool calls pass the metrics wrapper, and the tracing wrapper inside of it when
\* tracing is on (instrument_tools, instrument_tracing).
THEOREM CallsInstrumented == Spec => []HttpCallsInstrumented
<1>1. IInv => HttpCallsInstrumented
  BY DEF IInv, WrapInv, AppBuilt, HttpCallsInstrumented, Traced
<1> QED
  BY <1>1, ChoicesInvariance, PTL
-----------------------------------------------------------------------------
(***************************************************************************)
(* The audit log: records are of starts, in order; the record of this      *)
(* start is not there before AuditStarting and is the last one afterwards. *)
(***************************************************************************)
Record == [start : Nat, bind : BindPorts, auth : {"oauth", "static-token"}]

Recorded ==
  /\ log # <<>>
  /\ log[Len(log)] = [start |-> starts, bind |-> args.bind.port, auth |-> authMode]

LogInv ==
  /\ starts \in Nat
  /\ log \in Seq(Record)
  /\ \A i \in DOMAIN log : log[i].start <= starts
  /\ \A i, j \in DOMAIN log : i < j => log[i].start < log[j].start
  /\ pc \in {"main", "parseBind", "readEnv", "audit"} =>
       \A i \in DOMAIN log : log[i].start < starts
  /\ pc \in {"readEnv", "audit"} => args.bind.port \in BindPorts
  /\ pc = "listen" \/ Serving("http") => Recorded
  /\ Serving("http") /\ args.bind.port # 0 => listener.port = args.bind.port

LEMMA InitLog == Init => LogInv
BY DEF Init, LogInv, Serving

LEMMA StartsAreNumbers ==
  ASSUME NEW l \in Seq(Record)
  PROVE  \A i \in DOMAIN l : l[i].start \in Nat
<1>1. TAKE i \in DOMAIN l
<1>2. i \in 1 .. Len(l)
  BY LenProperties
<1>3. l[i] \in Record
  BY <1>2, ElementOfSeq
<1> QED
  BY <1>3 DEF Record

\* A record of this start, appended to records of earlier ones, keeps the log in order.
LEMMA AppendInOrder ==
  ASSUME NEW l \in Seq(Record), NEW r \in Record,
         \A i \in DOMAIN l : l[i].start < r.start,
         \A i, j \in DOMAIN l : i < j => l[i].start < l[j].start
  PROVE  /\ Append(l, r) \in Seq(Record)
         /\ Append(l, r) # <<>>
         /\ Append(l, r)[Len(Append(l, r))] = r
         /\ \A i \in DOMAIN Append(l, r) : Append(l, r)[i].start <= r.start
         /\ \A i, j \in DOMAIN Append(l, r) :
              i < j => Append(l, r)[i].start < Append(l, r)[j].start
<1> DEFINE a == Append(l, r)
<1>1. a \in Seq(Record) /\ Len(a) = Len(l) + 1 /\ Len(l) \in Nat
      /\ DOMAIN a = 1 .. Len(l) + 1 /\ DOMAIN l = 1 .. Len(l)
  OBVIOUS
<1>2. a[Len(l) + 1] = r /\ \A i \in 1 .. Len(l) : a[i] = l[i]
  OBVIOUS
<1>3. r.start \in Nat /\ \A i \in 1 .. Len(l) : l[i].start \in Nat
  BY <1>1, StartsAreNumbers DEF Record
<1> HIDE DEF a
<1>4. a # <<>> /\ a[Len(a)] = r
  BY <1>1, <1>2
<1>5. ASSUME NEW i \in DOMAIN a PROVE a[i].start <= r.start
  <2>1. CASE i = Len(l) + 1
    BY <1>2, <1>3, <2>1
  <2>2. CASE i \in 1 .. Len(l)
    BY <1>1, <1>2, <1>3, <2>2
  <2> QED
    BY <1>1, <2>1, <2>2
<1>6. ASSUME NEW i \in DOMAIN a, NEW j \in DOMAIN a, i < j PROVE a[i].start < a[j].start
  <2>1. i \in 1 .. Len(l)
    BY <1>1, <1>6
  <2>2. CASE j = Len(l) + 1
    BY <1>1, <1>2, <2>1, <2>2
  <2>3. CASE j \in 1 .. Len(l)
    BY <1>1, <1>2, <1>6, <2>1, <2>3
  <2> QED
    BY <1>1, <2>2, <2>3
<1> QED
  BY <1>1, <1>4, <1>5, <1>6 DEF a

LEMMA NextLog == IInv /\ LogInv /\ [Next]_vars => LogInv'
<1> SUFFICES ASSUME IInv, LogInv, [Next]_vars PROVE LogInv'
  OBVIOUS
<1> USE DEF Serving
<1>1. CASE Start
  <2>1. starts' = starts + 1 /\ log' = log /\ pc' = "main"
    BY <1>1 DEF Start, Goto
  <2>2. \A i \in DOMAIN log : log[i].start \in Nat
    BY StartsAreNumbers DEF LogInv
  <2>3. \A i \in DOMAIN log : log[i].start < starts + 1
    BY <2>2 DEF LogInv
  <2> QED
    BY <2>1, <2>2, <2>3 DEF LogInv
<1>2. CASE Stop
  <2>1. pc' = "stopped" /\ starts' = starts /\ log' = log
    BY <1>2 DEF Stop, Goto
  <2> QED
    BY <2>1 DEF LogInv
<1>3. CASE InitTracing
  BY <1>3 DEF InitTracing, Goto, LogInv
<1>4. CASE ParseBind
  <2>1. pc = "parseBind" /\ pc' = "readEnv" /\ args.bind.port \in BindPorts
        /\ UNCHANGED <<starts, args, log>>
    BY <1>4 DEF ParseBind, Goto
  <2> QED
    BY <2>1 DEF LogInv
<1>5. CASE BuildHttpApp
  BY <1>5 DEF BuildHttpApp, Goto, LogInv
<1>6. CASE AuditStarting
  <2> DEFINE r == [start |-> starts, bind |-> args.bind.port, auth |-> authMode]
  <2>1. r \in Record /\ r.start = starts
    BY <1>6, ResolveCases DEF AuditStarting, IInv, AuthInv, AppBuilt, LogInv, Record
  <2>2. log' = Append(log, r) /\ pc' = "listen"
        /\ UNCHANGED <<starts, args, authMode, listener>>
    BY <1>6 DEF AuditStarting, Goto
  <2>3. \A i \in DOMAIN log : log[i].start < starts
    BY <1>6 DEF AuditStarting, LogInv
  <2> HIDE DEF r
  <2>4. /\ log' \in Seq(Record)
        /\ log' # <<>>
        /\ log'[Len(log')] = r
        /\ \A i \in DOMAIN log' : log'[i].start <= starts
        /\ \A i, j \in DOMAIN log' : i < j => log'[i].start < log'[j].start
    BY <2>1, <2>2, <2>3, AppendInOrder DEF LogInv
  <2>5. Recorded'
    BY <2>2, <2>4 DEF r, Recorded
  <2> QED
    BY <2>2, <2>4, <2>5 DEF LogInv
<1>7. CASE Listen
  <2>1. Recorded' = Recorded
    BY <1>7 DEF Listen, Recorded
  <2>2. pc = "listen" /\ pc' = "serving" /\ UNCHANGED <<starts, args, log>>
        /\ (args.bind.port # 0 => listener'.port = args.bind.port)
    BY <1>7 DEF Listen, Bindable, Goto, Tcp
  <2> QED
    BY <2>1, <2>2 DEF LogInv
<1>8. CASE RunTransport
  <2>1. pc' = "serving" /\ args' = args /\ args.transport # "http"
        /\ starts' = starts /\ log' = log
    BY <1>8 DEF RunTransport, Goto, IInv, PathInv
  <2> QED
    BY <2>1 DEF LogInv
<1>9. CASE UNCHANGED vars
  <2>1. Recorded' = Recorded
    BY <1>9 DEF vars, Recorded
  <2> QED
    BY <1>9, <2>1 DEF vars, LogInv
<1> QED
  BY <1>1, <1>2, <1>3, <1>4, <1>5, <1>6, <1>7, <1>8, <1>9 DEF Next

\* For every set of command lines and environments and any number of starts and kills,
\* a process that listens over --transport=http has written the last record of the audit
\* log, with its auth mode and the port it listens on (0 when the system chose it), and no
\* start has written two (run_http).
THEOREM StartAudited == Spec => []ListenerIsAudited
<1>1. IInv /\ LogInv => ListenerIsAudited
  BY DEF LogInv, Recorded, ListenerIsAudited
<1>2. Init => IInv /\ LogInv
  BY InitIInv, InitLog
<1>3. IInv /\ LogInv /\ [Next]_vars => (IInv /\ LogInv)'
  BY NextIInv, NextLog
<1> QED
  BY <1>1, <1>2, <1>3, PTL DEF Spec
-----------------------------------------------------------------------------
(***************************************************************************)
(* Type correctness: while a process runs it has a command line and an     *)
(* environment, and it is at least the first start.                        *)
(***************************************************************************)
TypeInv ==
  /\ TypeOK
  /\ pc # "stopped" => starts > 0 /\ args \in AllCommandLines /\ env \in AllEnvironments

\* What stays in its range when the log does not change.
Quiet ==
  /\ starts' \in 0 .. MaxStarts /\ starts \in Nat /\ starts' >= starts
  /\ log' = log

LEMMA QuietLog ==
  ASSUME TypeOK, Quiet
  PROVE  \A i \in DOMAIN log' : log'[i].start \in 1 .. starts'
BY DEF TypeOK, Quiet

LEMMA InitTypeInv == Init => TypeInv
BY StartsAssumption DEF Init, TypeInv, TypeOK, NoListener, Ports

LEMMA NextTypeInv == IInv /\ LogInv /\ TypeInv /\ [Next]_vars => TypeInv'
<1> SUFFICES ASSUME IInv, LogInv, TypeInv, [Next]_vars PROVE TypeInv'
  OBVIOUS
<1> USE StartsAssumption DEF TypeInv, Goto
<1>0. TypeOK /\ starts \in Nat
  BY DEF TypeOK
<1>1. ASSUME NEW a \in AllCommandLines
      PROVE  a.port \in Ports /\ a.bind.port \in Ports
  BY DEF AllCommandLines, Binds
<1>2. CASE Start
  <2>1. starts' = starts + 1 /\ starts' \in 0 .. MaxStarts /\ Quiet
    BY <1>0, <1>2 DEF Start, Quiet
  <2>2. args' \in AllCommandLines /\ env' \in AllEnvironments
    BY <1>2, InputsAssumption DEF Start
  <2> QED
    BY <1>0, <1>2, <2>1, <2>2, QuietLog DEF Start, TypeOK
<1>3. CASE Stop
  <2>1. Quiet
    BY <1>0, <1>3 DEF Stop, Quiet, TypeOK
  <2> QED
    BY <1>0, <1>3, <2>1, QuietLog DEF Stop, TypeOK, NoListener, Ports
<1>4. ASSUME pc # "stopped",
             pc' \in {"main", "parseBind", "readEnv", "audit", "listen", "serving",
                      "transports"},
             dispatcher' \in {<<>>, <<"tracing">>, <<"metrics">>, <<"metrics", "tracing">>},
             middleware' \in {<<>>, <<"metrics", "oauth">>, <<"metrics", "static-token">>},
             authMode' \in {"none", "oauth", "static-token"},
             listener'.on \in {"none", "stdio", "tcp"}, listener'.port \in Ports,
             UNCHANGED <<starts, args, env>>,
             \A i \in DOMAIN log' : log'[i].start \in 1 .. starts
      PROVE  TypeInv'
  BY <1>4 DEF TypeOK
<1>5. CASE InitTracing
  <2>1. dispatcher' \in {<<>>, <<"tracing">>}
    BY <1>5, WrapNew DEF InitTracing, IInv, WrapInv
  <2> QED
    BY <1>4, <1>5, <2>1 DEF InitTracing, TypeOK
<1>6. CASE ParseBind
  BY <1>4, <1>6 DEF ParseBind, TypeOK
<1>7. CASE BuildHttpApp
  <2>1. Resolve \in {"oauth", "static-token"}
    BY <1>7, ResolveCases DEF BuildHttpApp
  <2>2. dispatcher = IF Traced THEN <<"tracing">> ELSE <<>>
    BY <1>7 DEF BuildHttpApp, IInv, WrapInv
  <2>3. Wrap("metrics") \in {<<"metrics">>, <<"metrics", "tracing">>}
    BY <2>2, WrapNew, WrapTraced
  <2> QED
    BY <1>4, <1>7, <2>1, <2>3 DEF BuildHttpApp, TypeOK
<1>8. CASE AuditStarting
  <2> DEFINE r == [start |-> starts, bind |-> args.bind.port, auth |-> authMode]
  <2>1. pc = "audit" /\ pc' = "listen" /\ log' = Append(log, r)
        /\ UNCHANGED <<starts, args, env, dispatcher, middleware, authMode, listener>>
    BY <1>8 DEF AuditStarting
  <2>2. log \in Seq(Record) /\ r \in Record /\ r.start = starts
    BY <2>1, ResolveCases DEF IInv, AuthInv, AppBuilt, LogInv, Record
  <2>3. /\ DOMAIN log = 1 .. Len(log) /\ DOMAIN log' = 1 .. Len(log) + 1
        /\ Len(log) \in Nat /\ log'[Len(log) + 1] = r
        /\ \A i \in 1 .. Len(log) : log'[i] = log[i]
    BY <2>1, <2>2
  <2>4. starts \in 1 .. starts
    BY <1>0, <2>1
  <2> HIDE DEF r
  <2>5. \A i \in DOMAIN log' : log'[i].start \in 1 .. starts
    <3> TAKE i \in DOMAIN log'
    <3>1. CASE i \in 1 .. Len(log)
      BY <1>0, <2>3, <3>1 DEF TypeOK
    <3>2. CASE i = Len(log) + 1
      BY <2>2, <2>3, <2>4, <3>2
    <3> QED BY <2>3, <3>1, <3>2
  <2> QED
    BY <1>4, <2>1, <2>5 DEF TypeOK
<1>9. CASE Listen
  <2>1. args.bind.port \in Ports
    BY <1>1, <1>9 DEF Listen
  <2> QED
    BY <1>4, <1>9, <2>1 DEF Listen, Bindable, Tcp, TypeOK, Ports
<1>10. CASE RunTransport
  <2>1. args.port \in Ports
    BY <1>1, <1>10 DEF RunTransport
  <2> QED
    BY <1>4, <1>10, <2>1 DEF RunTransport, Tcp, TypeOK, Ports
<1>11. CASE UNCHANGED vars
  BY <1>11 DEF vars, TypeOK
<1> QED
  BY <1>2, <1>3, <1>5, <1>6, <1>7, <1>8, <1>9, <1>10, <1>11 DEF Next

\* Every variable keeps its range, and every record of the audit log is of a start that
\* took place, for every set of command lines and environments and any number of starts.
THEOREM StartupTypes == Spec => []TypeOK
<1>1. Init => IInv /\ LogInv /\ TypeInv
  BY InitIInv, InitLog, InitTypeInv
<1>2. IInv /\ LogInv /\ TypeInv /\ [Next]_vars => (IInv /\ LogInv /\ TypeInv)'
  BY NextIInv, NextLog, NextTypeInv
<1>3. TypeInv => TypeOK
  BY DEF TypeInv
<1> QED
  BY <1>1, <1>2, <1>3, PTL DEF Spec
=============================================================================
