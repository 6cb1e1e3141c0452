------------------------------- MODULE Startup ------------------------------
(***************************************************************************)
(* How camt053-mcp comes to serve: main of camt053_mcp/server.py, the two  *)
(* transport modules it chooses between, and the wrappers it puts around   *)
(* the tool dispatcher on the way.  A start may be refused or killed after *)
(* any step, and the supervisor starts the next one with an environment    *)
(* and a command line of its own.                                          *)
(***************************************************************************)
EXTENDS Naturals, Sequences

CONSTANTS CommandLines,   \* what the supervisor starts the program with
          Environments,   \* the environments it starts it in
          MaxStarts       \* bound on the number of starts

ASSUME StartsAssumption == MaxStarts \in Nat

VARIABLES
  starts,      \* how many times the program was started
  pc,          \* where the running start is
  args,        \* the parsed command line
  env,         \* the environment variables
  dispatcher,  \* the wrappers around ToolManager.call_tool, outermost first
  middleware,  \* the layers around the SDK's app, outermost first
  authMode,    \* what run_http settled on
  listener,    \* where the process accepts connections
  log          \* the http.server.starting records

vars == <<starts, pc, args, env, dispatcher, middleware, authMode, listener, log>>

Ports == {0, 1, 65535, 65536}

\* A bind text HOST:PORT: whether it has a colon and a host, whether int() accepts the
\* rest, and the number it is then.
Binds == [host : BOOLEAN, numeric : BOOLEAN, port : Ports]

\* One value of an environment variable: not set or empty, spaces only, or a text.
EnvValues == {"unset", "blank", "set"}

AllCommandLines ==
  [transport : {"stdio", "http", "streamable-http", "sse"}, bind : Binds, port : Ports,
   otel : BOOLEAN]
AllEnvironments ==
  [issuer : EnvValues, audience : EnvValues, jwksUrl : EnvValues, scopes : EnvValues,
   token : EnvValues, otelExtra : BOOLEAN]

ASSUME InputsAssumption ==
  CommandLines \subseteq AllCommandLines /\ Environments \subseteq AllEnvironments

NoEnv      == [issuer |-> "unset"]
NoArgs     == [transport |-> "none"]
NoListener == [on |-> "none", port |-> 0]
Tcp(port)  == [on |-> "tcp", port |-> port]

Init ==
  /\ starts = 0
  /\ pc = "stopped"
  /\ args = NoArgs
  /\ env = NoEnv
  /\ dispatcher = <<>>
  /\ middleware = <<>>
  /\ authMode = "none"
  /\ listener = NoListener
  /\ log = <<>>

Goto(l) == pc' = l
-----------------------------------------------------------------------------
\* A new process.
Start ==
  /\ pc = "stopped"
  /\ starts < MaxStarts
  /\ starts' = starts + 1
  /\ args' \in CommandLines
  /\ env' \in Environments
  /\ Goto("main")
  /\ UNCHANGED <<dispatcher, middleware, authMode, listener, log>>

\* The process ends, refused, killed or told to stop: nothing is left of it but its log.
Stop ==
  /\ pc # "stopped"
  /\ Goto("stopped")
  /\ args' = NoArgs
  /\ env' = NoEnv
  /\ dispatcher' = <<>>
  /\ middleware' = <<>>
  /\ authMode' = "none"
  /\ listener' = NoListener
  /\ UNCHANGED <<starts, log>>

\* Mutant: the new wrapper goes inside of the ones already there.
WrapInside(w) == Append(dispatcher, w)

\* wrapping manager.call_tool, at most once by each wrapper
Wrap(w) == IF \E i \in DOMAIN dispatcher : dispatcher[i] = w THEN dispatcher
           ELSE <<w>> \o dispatcher

\* main: --otel-endpoint turns tracing on when the extra is installed.
InitTracing ==
  /\ pc = "main"
  /\ dispatcher' = IF args.otel /\ env.otelExtra THEN Wrap("tracing") ELSE dispatcher
  /\ Goto(IF args.transport = "http" THEN "parseBind" ELSE "transports")
  /\ UNCHANGED <<starts, args, env, middleware, authMode, listener, log>>
-----------------------------------------------------------------------------
(***************************************************************************)
(* run_http of camt053_mcp/transport.py                                    *)
(***************************************************************************)
BindPorts == 0 .. 65535

ParseBind ==
  /\ pc = "parseBind"
  /\ args.bind.host
  /\ args.bind.numeric
  /\ args.bind.port \in BindPorts
  /\ Goto("readEnv")
  /\ UNCHANGED <<starts, args, env, dispatcher, middleware, authMode, listener, log>>

\* OAuthConfig.from_env strips the variables; the token is taken as it is.
Given(v) == env[v] = "set"
NoOAuth  == \A v \in {"issuer", "audience", "jwksUrl", "scopes"} : ~ Given(v)
Partial  == ~ NoOAuth /\ ~ (Given("issuer") /\ Given("audience"))
HasToken == env.token # "unset"

\* Mutant: a partial OAuth configuration counts as none.
ResolveLenient ==
  IF Given("issuer") /\ Given("audience") THEN "oauth"
  ELSE IF HasToken THEN "static-token" ELSE "refused"

Resolve ==
  IF Partial THEN "refused"
  ELSE IF ~ NoOAuth THEN "oauth"
  ELSE IF HasToken THEN "static-token" ELSE "refused"

\* from_env, the choice of the auth mode, and build_http_app.
BuildHttpApp ==
  /\ pc = "readEnv"
  /\ Resolve # "refused"
  /\ authMode' = Resolve
  /\ dispatcher' = Wrap("metrics")
  /\ middleware' = <<"metrics", Resolve>>
  /\ Goto("audit")
  /\ UNCHANGED <<starts, args, env, listener, log>>

\* Mutant: the server listens without the record.
ListenUnaudited ==
  /\ pc = "audit"
  /\ UNCHANGED log
  /\ Goto("listen")
  /\ UNCHANGED <<starts, args, env, dispatcher, middleware, authMode, listener>>

AuditStarting ==
  /\ pc = "audit"
  /\ log' = Append(log, [start |-> starts, bind |-> args.bind.port, auth |-> authMode])
  /\ Goto("listen")
  /\ UNCHANGED <<starts, args, env, dispatcher, middleware, authMode, listener>>

\* Port 0 asks the operating system (external) for any free port.
Bindable == IF args.bind.port = 0 THEN Ports \ {0, 65536} ELSE {args.bind.port}

\* uvicorn.run
Listen ==
  /\ pc = "listen"
  /\ \E port \in Bindable : listener' = Tcp(port)
  /\ Goto("serving")
  /\ UNCHANGED <<starts, args, env, dispatcher, middleware, authMode, log>>
-----------------------------------------------------------------------------
(***************************************************************************)
(* run of camt053_mcp/_transports.py: no authentication, no audit record   *)
(***************************************************************************)
TransportPorts == 1 .. 65535

\* The port is checked for stdio too.
RunTransport ==
  /\ pc = "transports"
  /\ args.port \in TransportPorts
  /\ listener' = IF args.transport = "stdio" THEN [on |-> "stdio", port |-> 0]
                 ELSE Tcp(args.port)
  /\ Goto("serving")
  /\ UNCHANGED <<starts, args, env, dispatcher, middleware, authMode, log>>

Next == Start \/ Stop \/ InitTracing \/ ParseBind \/ BuildHttpApp \/ AuditStarting \/ Listen
        \/ RunTransport

Spec == Init /\ [][Next]_vars
-----------------------------------------------------------------------------
TypeOK ==
  /\ starts \in 0 .. MaxStarts
  /\ pc \in {"stopped", "main", "parseBind", "readEnv", "audit", "listen", "serving",
             "transports"}
  /\ args \in AllCommandLines \cup {NoArgs}
  /\ env \in AllEnvironments \cup {NoEnv}
  /\ dispatcher \in {<<>>, <<"tracing">>, <<"metrics">>, <<"metrics", "tracing">>}
  /\ middleware \in {<<>>, <<"metrics", "oauth">>, <<"metrics", "static-token">>}
  /\ authMode \in {"none", "oauth", "static-token"}
  /\ listener.on \in {"none", "stdio", "tcp"} /\ listener.port \in Ports
  /\ \A i \in DOMAIN log : log[i].start \in 1 .. starts

Serving(t) == pc = "serving" /\ args.transport = t

\* --transport=http never serves without authentication, and never with a weaker one
\* than the environment asks for: the static token only opens a server whose environment
\* names no part of an OAuth configuration (the partial one is refused), and it does not
\* open one with OAuth.
HttpAuthNeverWeaker ==
  Serving("http") =>
    /\ authMode = "oauth" => Given("issuer") /\ Given("audience")
    /\ authMode = "static-token" => HasToken /\ NoOAuth
    /\ middleware = <<"metrics", authMode>>

\* The audit log tells what is reachable: while the process listens over HTTP, its last
\* record is of this very start, with its auth mode and the port it listens on, except
\* that a start asked for port 0 is recorded with 0 and not with the port it got; and no
\* start has two records.
ListenerIsAudited ==
  /\ Serving("http") =>
       /\ log # <<>>
       /\ log[Len(log)] = [start |-> starts,
                           bind |-> IF args.bind.port = 0 THEN 0 ELSE listener.port,
                           auth |-> authMode]
  /\ \A i, j \in DOMAIN log : i < j => log[i].start < log[j].start

\* A tool call that comes in over --transport=http is counted and audited first, and
\* traced inside of that when tracing is on.
HttpCallsInstrumented ==
  Serving("http") =>
    dispatcher = IF args.otel /\ env.otelExtra THEN <<"metrics", "tracing">> ELSE <<"metrics">>
=============================================================================
