------------------------------ MODULE LoadTest ------------------------------
(***************************************************************************)
(* The load benchmark, bench/load_test.py: main spawns the server and runs *)
(* one scenario after the other.  In a scenario a runner and its virtual   *)
(* users (VUs) share one event loop, so a step is the code between two     *)
(* awaits.  A VU catches httpx.HTTPError and RuntimeError; any other       *)
(* exception (httpx.InvalidURL, the OSError of a client without a file     *)
(* descriptor, the ValueError of a body that is not JSON) ends its task.   *)
(***************************************************************************)
EXTENDS Integers, Sequences, FiniteSets

CONSTANTS VUs,    \* the virtual users there may be
          Calls   \* tool calls per virtual user

ASSUME UsersAssumption == IsFiniteSet(VUs)
ASSUME CallsAssumption == Calls \in Nat \ {0}

VARIABLES
  users,     \* the VUs --sessions asks for
  server,    \* the benchmark server: "none" (to be spawned), "external" (--url), ...
  modes,     \* the scenarios still to run, the current one first
  runner,    \* where main and _run_scenario_async are
  pending,   \* gate._pending
  allReady,  \* gate._all_ready is set
  go,        \* gate._go is set
  vu,        \* vu[v]: where virtual user v is
  left,      \* left[v]: the calls it has not made yet
  ops,       \* len(latencies)
  errors,    \* sum(errors)
  results    \* the results of the scenarios that are over

gate  == <<pending, allReady, go>>
tally == <<ops, errors>>
vars  == <<users, server, modes, runner, gate, vu, left, tally, results>>

mode == Head(modes)

\* Mutant: one gate for every scenario.
ScenarioResetKeepingGate ==
  /\ UNCHANGED gate
  /\ vu' = [v \in VUs |-> "new"]
  /\ left' = [v \in VUs |-> Calls]
  /\ ops' = 0
  /\ errors' = 0

\* A new gate, new tasks and empty lists (_StartGate.__init__, _run_scenario_async).
ScenarioReset ==
  /\ pending' = Cardinality(users)
  /\ allReady' = FALSE
  /\ go' = FALSE
  /\ vu' = [v \in VUs |-> "new"]
  /\ left' = [v \in VUs |-> Calls]
  /\ ops' = 0
  /\ errors' = 0

Init ==
  /\ users \in SUBSET VUs
  /\ server \in {"none", "external"}
  /\ modes \in {<<"reuse">>, <<"fresh">>, <<"reuse", "fresh">>}
  /\ runner = IF server = "none" THEN "spawning" ELSE "gathering"
  /\ pending = Cardinality(users)
  /\ allReady = FALSE
  /\ go = FALSE
  /\ vu = [v \in VUs |-> "new"]
  /\ left = [v \in VUs |-> Calls]
  /\ ops = 0
  /\ errors = 0
  /\ results = <<>>
-----------------------------------------------------------------------------
\* _spawn_server: the port answers; or the process exits early, or does not answer
\* within 30 s and is terminated, and RuntimeError ends main.
Spawned ==
  /\ runner = "spawning"
  /\ server' = "up"
  /\ runner' = "gathering"
  /\ UNCHANGED <<users, modes, gate, vu, left, tally, results>>

SpawnFails ==
  /\ runner = "spawning"
  /\ server' = "terminated"
  /\ runner' = "raised"
  /\ UNCHANGED <<users, modes, gate, vu, left, tally, results>>

Running(v) == v \in users /\ runner \in {"gathering", "timing"}

Goto(v, l) == vu' = [vu EXCEPT ![v] = l]

\* Mutant: the gate opens for the last but one.
ReadyOneShort ==
  /\ pending' = pending - 1
  /\ allReady' = (allReady \/ pending' <= 1)
  /\ UNCHANGED go

\* _StartGate.ready
Ready ==
  /\ pending' = pending - 1
  /\ allReady' = (allReady \/ pending' <= 0)
  /\ UNCHANGED go

\* _vu_reuse and _vu_fresh up to their first await: a fresh VU is ready at once.
Start(v) ==
  /\ Running(v)
  /\ vu[v] = "new"
  /\ \/ mode = "reuse" /\ Goto(v, "opening") /\ UNCHANGED gate
     \/ mode = "fresh" /\ Goto(v, "waiting") /\ Ready
  /\ UNCHANGED <<users, server, modes, runner, left, tally, results>>

\* _initialize returned a session id.
Opened(v) ==
  /\ Running(v)
  /\ vu[v] = "opening"
  /\ Goto(v, "waiting")
  /\ Ready
  /\ UNCHANGED <<users, server, modes, runner, left, tally, results>>

\* Mutant: a failed handshake counts as one error.
NotOpenedCountsOne(v) ==
  /\ Running(v)
  /\ vu[v] = "opening"
  /\ Goto(v, "givingUp")
  /\ Ready
  /\ errors' = errors + 1
  /\ UNCHANGED <<users, server, modes, runner, left, ops, results>>

\* Mutant: the error path does not report to the gate.
NotOpenedUnready(v) ==
  /\ Running(v)
  /\ vu[v] = "opening"
  /\ Goto(v, "givingUp")
  /\ errors' = errors + Calls
  /\ UNCHANGED <<users, server, modes, runner, gate, left, ops, results>>

\* _initialize failed with an exception _vu_reuse catches: all its calls are lost.
NotOpened(v) ==
  /\ Running(v)
  /\ vu[v] = "opening"
  /\ Goto(v, "givingUp")
  /\ Ready
  /\ errors' = errors + Calls
  /\ UNCHANGED <<users, server, modes, runner, left, ops, results>>

\* Any other exception before ready(), from _client() or _initialize: the task is over.
DiesEarly(v) ==
  /\ Running(v)
  /\ vu[v] \in {"new", "opening"}
  /\ Goto(v, "diedEarly")
  /\ UNCHANGED <<users, server, modes, runner, gate, left, tally, results>>

\* await gate.wait() returns.
Pass(v) ==
  /\ Running(v)
  /\ go
  /\ \/ vu[v] = "waiting" /\ Goto(v, "calling")
     \/ vu[v] = "givingUp" /\ Goto(v, "done")
  /\ UNCHANGED <<users, server, modes, runner, gate, left, tally, results>>

\* One measured call ends; a VU that reuses its session then deletes it.
CallEnds(v) ==
  /\ Running(v)
  /\ vu[v] = "calling"
  /\ left' = [left EXCEPT ![v] = @ - 1]
  /\ Goto(v, IF left[v] > 1 THEN "calling" ELSE IF mode = "reuse" THEN "closing" ELSE "done")
  /\ \/ ops' = ops + 1 /\ UNCHANGED errors
     \/ errors' = errors + 1 /\ UNCHANGED ops
  /\ UNCHANGED <<users, server, modes, runner, gate, results>>

\* _end_session: httpx.HTTPError is suppressed.
Closed(v) ==
  /\ Running(v)
  /\ vu[v] = "closing"
  /\ Goto(v, "done")
  /\ UNCHANGED <<users, server, modes, runner, gate, left, tally, results>>

DiesLate(v) ==
  /\ Running(v)
  /\ vu[v] \in {"calling", "closing"}
  /\ Goto(v, "diedLate")
  /\ UNCHANGED <<users, server, modes, runner, gate, left, tally, results>>
-----------------------------------------------------------------------------
\* await gate.all_ready() returns; the clock starts; gate.go().
Fire ==
  /\ runner = "gathering"
  /\ allReady
  /\ go' = TRUE
  /\ runner' = "timing"
  /\ UNCHANGED <<users, server, modes, pending, allReady, vu, left, tally, results>>

\* The finally clause of main: the server it spawned is terminated.
StopServer == server' = IF server = "up" THEN "terminated" ELSE server

\* gather returns once every VU has; main goes on with the next scenario, or ends.
Gather ==
  /\ runner = "timing"
  /\ \A v \in users : vu[v] = "done"
  /\ results' = Append(results, [mode |-> mode, ops |-> ops, errors |-> errors])
  /\ modes' = Tail(modes)
  /\ \/ /\ Len(modes) > 1
        /\ runner' = "gathering"
        /\ ScenarioReset
        /\ UNCHANGED server
     \/ /\ Len(modes) = 1
        /\ runner' = "returned"
        /\ StopServer
        /\ UNCHANGED <<gate, vu, left, tally>>
  /\ UNCHANGED users

\* gather raises the first exception of a VU; asyncio.run cancels the others.
GatherRaises ==
  /\ runner = "timing"
  /\ \E v \in users : vu[v] = "diedLate"
  /\ runner' = "raised"
  /\ StopServer
  /\ UNCHANGED <<users, modes, gate, vu, left, tally, results>>

Advance(v) == Start(v) \/ Opened(v) \/ NotOpened(v) \/ Pass(v) \/ CallEnds(v) \/ Closed(v)

Next ==
  \/ Spawned \/ SpawnFails \/ Fire \/ Gather \/ GatherRaises
  \/ \E v \in users : Advance(v) \/ DiesEarly(v) \/ DiesLate(v)

Spec == Init /\ [][Next]_vars

(***************************************************************************)
(* The server answers or the request times out (httpx.Timeout(120.0)), and *)
(* the event loop resumes every coroutine whose await is over.             *)
(***************************************************************************)
Fairness ==
  /\ WF_vars(Spawned \/ SpawnFails)
  /\ WF_vars(Fire)
  /\ WF_vars(Gather \/ GatherRaises)
  /\ \A v \in VUs : WF_vars(v \in users /\ (Advance(v) \/ DiesEarly(v) \/ DiesLate(v)))

FairSpec == Spec /\ Fairness
-----------------------------------------------------------------------------
Early == {"new", "opening", "diedEarly"}
Passed == {"calling", "closing", "done", "diedLate"}

TypeOK ==
  /\ users \in SUBSET VUs
  /\ server \in {"none", "external", "up", "terminated"}
  /\ modes \in {<<"reuse">>, <<"fresh">>, <<"reuse", "fresh">>, <<>>}
  /\ runner \in {"spawning", "gathering", "timing", "returned", "raised"}
  /\ pending \in 0 .. Cardinality(users)
  /\ allReady \in BOOLEAN
  /\ go \in BOOLEAN
  /\ vu \in [VUs -> Early \cup Passed \cup {"waiting", "givingUp"}]
  /\ left \in [VUs -> 0 .. Calls]
  /\ ops \in Nat
  /\ errors \in Nat
  /\ results \in Seq([mode : {"reuse", "fresh"}, ops : Nat, errors : Nat])

(***************************************************************************)
(* The gate, a countdown and two events, is a barrier: it opens when every *)
(* VU has reported ready, in whatever order they start, succeed or give    *)
(* up, and no measured call is made before, so in reuse mode the timed     *)
(* window holds tool calls only (_StartGate).                              *)
(***************************************************************************)
GateBarrier == INSTANCE StartBarrier WITH
  parties <- users,
  arrived <- {v \in users : vu[v] \notin Early},
  open    <- go,
  passed  <- {v \in users : vu[v] \in Passed}

GateIsBarrier == GateBarrier!Spec

\* Every call a finished scenario was asked for is either a latency or an error, also
\* when whole VUs were lost in their handshake: the error rate has its true base.
CallsAddUp ==
  \A i \in DOMAIN results :
    results[i].ops + results[i].errors = Cardinality(users) * Calls

\* The runner waits for somebody who will never come.
Stranded == users = {} \/ \E v \in users : vu[v] = "diedEarly"

\* A scenario that begins ends, by its results or by an exception, unless a VU died
\* before it reported ready or there is none.
ScenarioEnds ==
  runner = "gathering" ~> (Stranded \/ runner \in {"returned", "raised"})

(***************************************************************************)
(* "The runner awaits all_ready, starts the wall clock, and calls go"      *)
(* (load_test.py, _StartGate): the gate of a scenario with VUs opens.      *)
(* False: a VU that dies before ready() is waited for without a bound.     *)
(***************************************************************************)
GateOpens == (runner = "gathering" /\ users # {}) ~> go
=============================================================================
