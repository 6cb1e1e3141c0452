--------------------------- MODULE LoadTestProofs ---------------------------
(***************************************************************************)
(* Proofs about LoadTest for any number of virtual users and calls: the    *)
(* countdown of the gate counts the users that are not ready, whichever    *)
(* way each of them goes, and so the gate is a barrier.                    *)
(***************************************************************************)
EXTENDS LoadTest, FiniteSetTheorems, TLAPS

Late == {v \in users : vu[v] \in Early}

\* The countdown is the number of users that are late.
CountInv ==
  /\ pending = Cardinality(Late)
  /\ allReady => pending = 0

\* Where the runner is tells whether the gate is open, and nobody is past a closed gate.
GateInv ==
  /\ go => allReady
  /\ runner \in {"spawning", "gathering"} => ~ go
  /\ runner = "timing" => go
  /\ \A v \in users : vu[v] \in Passed => go

\* There is a scenario to run while the runner runs, and a call to make before one ends.
WorkInv ==
  /\ runner \in {"spawning", "gathering", "timing"} => modes # <<>>
  /\ \A v \in VUs :
       /\ vu[v] \in {"new", "opening", "waiting"} => left[v] = Calls
       /\ vu[v] = "calling" => left[v] > 0

LInv == TypeOK /\ CountInv /\ GateInv /\ WorkInv

Places == Early \cup Passed \cup {"waiting", "givingUp"}

LEMMA LateFinite ==
  ASSUME users \in SUBSET VUs
  PROVE  /\ IsFiniteSet(users)
         /\ IsFiniteSet(Late)
         /\ Cardinality(users) \in Nat
         /\ Cardinality(Late) \in 0 .. Cardinality(users)
<1>1. IsFiniteSet(users)
  BY UsersAssumption, FS_Subset
<1>2. Late \in SUBSET users
  BY DEF Late
<1>3. /\ IsFiniteSet(Late)
      /\ Cardinality(Late) <= Cardinality(users)
  BY <1>1, <1>2, FS_Subset
<1>4. Cardinality(users) \in Nat /\ Cardinality(Late) \in Nat
  BY <1>1, <1>3, FS_CardinalityType
<1> QED
  BY <1>1, <1>3, <1>4

\* A user who reports ready was late, and the countdown stays right.
LEMMA CountsDown ==
  ASSUME TypeOK, CountInv, NEW v \in users, vu[v] \in Early,
         NEW l \in Places \ Early, Goto(v, l), Ready, users' = users
  PROVE  CountInv' /\ pending' \in 0 .. Cardinality(users) /\ allReady' \in BOOLEAN
<1>1. /\ users \in SUBSET VUs /\ vu \in [VUs -> Places]
      /\ pending \in Nat /\ allReady \in BOOLEAN
  <2>1. users \in SUBSET VUs /\ vu \in [VUs -> Places] /\ allReady \in BOOLEAN
    BY DEF TypeOK, Places
  <2> QED
    BY <2>1, LateFinite DEF CountInv
<1>2. Late' = Late \ {v}
  BY <1>1 DEF Late, Goto
<1>3. /\ Cardinality(Late') = Cardinality(Late) - 1
      /\ Cardinality(Late') \in Nat
      /\ Cardinality(Late) <= Cardinality(users)
      /\ Cardinality(users) \in Nat
  <2>1. v \in Late
    BY DEF Late
  <2>2. IsFiniteSet(Late) /\ Cardinality(Late) <= Cardinality(users) /\ Cardinality(users) \in Nat
    BY <1>1, LateFinite
  <2>3. IsFiniteSet(Late \ {v}) /\ Cardinality(Late \ {v}) = Cardinality(Late) - 1
    BY <2>1, <2>2, FS_RemoveElement
  <2>4. Cardinality(Late \ {v}) \in Nat
    BY <2>3, FS_CardinalityType
  <2> QED
    BY <1>2, <2>2, <2>3, <2>4
<1>4. /\ pending' = pending - 1
      /\ allReady' = (allReady \/ pending' <= 0)
      /\ pending = Cardinality(Late)
      /\ allReady => pending = 0
  BY DEF Ready, CountInv
<1>5. pending' = Cardinality(Late') /\ pending' \in Nat /\ pending' <= Cardinality(users)
  BY <1>1, <1>3, <1>4
<1>6. allReady' => pending' = 0
  BY <1>1, <1>3, <1>4, <1>5
<1> QED
  BY <1>1, <1>3, <1>4, <1>5, <1>6 DEF CountInv

\* Who moves without reporting ready leaves the countdown as it is.
LEMMA CountStays ==
  ASSUME TypeOK, CountInv, NEW v \in users, NEW l \in Places,
         (vu[v] \in Early) <=> (l \in Early), Goto(v, l),
         users' = users, pending' = pending, allReady' = allReady
  PROVE  CountInv'
<1>1. users \in SUBSET VUs /\ vu \in [VUs -> Places]
  BY DEF TypeOK, Places
<1>2. Late' = Late
  BY <1>1 DEF Late, Goto
<1> QED
  BY <1>2 DEF CountInv
-----------------------------------------------------------------------------
LEMMA NewScenario ==
  ASSUME users \in SUBSET VUs, users' = users, ScenarioReset
  PROVE  /\ CountInv' /\ pending' \in 0 .. Cardinality(users)
         /\ allReady' = FALSE /\ go' = FALSE
         /\ vu' \in [VUs -> Places] /\ left' \in [VUs -> 0 .. Calls]
         /\ ops' = 0 /\ errors' = 0
         /\ \A v \in VUs : vu'[v] = "new" /\ left'[v] = Calls
<1>1. Late' = users
  BY DEF ScenarioReset, Late, Early
<1>2. Cardinality(users) \in Nat
  BY LateFinite
<1>3. pending' = Cardinality(users) /\ allReady' = FALSE
  BY DEF ScenarioReset
<1>4. CountInv'
  BY <1>1, <1>3 DEF CountInv
<1>5. /\ go' = FALSE /\ ops' = 0 /\ errors' = 0
      /\ vu' = [v \in VUs |-> "new"]
      /\ left' = [v \in VUs |-> Calls]
  BY DEF ScenarioReset
<1> QED
  BY <1>2, <1>3, <1>4, <1>5, CallsAssumption DEF Places, Early

Modes == {<<"reuse">>, <<"fresh">>, <<"reuse", "fresh">>, <<>>}

LEMMA NextMode ==
  ASSUME modes \in Modes, modes # <<>>
  PROVE  /\ mode \in {"reuse", "fresh"}
         /\ Tail(modes) \in Modes
         /\ Len(modes) > 1 => Tail(modes) # <<>>
<1>1. CASE modes = <<"reuse">>
  BY <1>1 DEF mode, Modes
<1>2. CASE modes = <<"fresh">>
  BY <1>2 DEF mode, Modes
<1>3. CASE modes = <<"reuse", "fresh">>
  <2>1. Tail(modes) = <<"fresh">>
    BY <1>3
  <2> QED
    BY <1>3, <2>1 DEF mode, Modes
<1> QED
  BY <1>1, <1>2, <1>3 DEF Modes

LEMMA InitInv == Init => LInv
<1> SUFFICES ASSUME Init
             PROVE  LInv
  OBVIOUS
<1>1. Late = users
  BY DEF Init, Late, Early
<1>2. Cardinality(users) \in Nat
  BY LateFinite DEF Init
<1>3. TypeOK
  <2>1. results \in Seq([mode : {"reuse", "fresh"}, ops : Nat, errors : Nat])
    BY DEF Init
  <2>2. vu \in [VUs -> Early \cup Passed \cup {"waiting", "givingUp"}]
    BY DEF Init, Early
  <2>3. left \in [VUs -> 0 .. Calls]
    BY CallsAssumption DEF Init
  <2>4. /\ users \in SUBSET VUs
        /\ pending \in 0 .. Cardinality(users)
        /\ allReady \in BOOLEAN /\ go \in BOOLEAN /\ ops \in Nat /\ errors \in Nat
    <3>1. /\ users \in SUBSET VUs /\ pending = Cardinality(users)
          /\ allReady = FALSE /\ go = FALSE /\ ops = 0 /\ errors = 0
      BY Zenon DEF Init
    <3>2. allReady \in BOOLEAN /\ go \in BOOLEAN
      BY <3>1, Zenon
    <3>3. pending \in 0 .. Cardinality(users) /\ ops \in Nat /\ errors \in Nat
      BY <1>2, <3>1
    <3> QED
      BY <3>1, <3>2, <3>3, Zenon
  <2>5. /\ server \in {"none", "external", "up", "terminated"}
        /\ runner \in {"spawning", "gathering", "timing", "returned", "raised"}
        /\ modes \in {<<"reuse">>, <<"fresh">>, <<"reuse", "fresh">>, <<>>}
    BY DEF Init
  <2> QED
    BY <2>1, <2>2, <2>3, <2>4, <2>5 DEF TypeOK
<1>4. CountInv
  BY <1>1 DEF Init, CountInv
<1>5. GateInv
  BY DEF Init, GateInv, Passed
<1>6. WorkInv
  BY DEF Init, WorkInv
<1> QED
  BY <1>3, <1>4, <1>5, <1>6 DEF LInv

\* What a step of one virtual user changes: its place, and perhaps the countdown, its
\* calls and the tally.
MoveTypes(v, l) ==
  /\ UNCHANGED <<users, server, modes, runner, go, results>>
  /\ Goto(v, l)
  /\ pending' \in 0 .. Cardinality(users) /\ allReady' \in BOOLEAN
  /\ left' \in [VUs -> 0 .. Calls] /\ ops' \in Nat /\ errors' \in Nat

LEMMA MoveKeepsTypes ==
  ASSUME TypeOK, NEW v \in users, NEW l \in Places, MoveTypes(v, l)
  PROVE  TypeOK'
<1>1. vu' \in [VUs -> Places]
  BY DEF TypeOK, MoveTypes, Goto, Places
<1> QED
  BY <1>1 DEF TypeOK, MoveTypes, Places

\* What is common to the steps of the users: only somebody who passes needs the gate open.
LEMMA MoveKeeps ==
  ASSUME LInv, NEW v \in users, NEW l \in Places,
         Running(v), MoveTypes(v, l), CountInv',
         allReady => allReady',
         l \in Passed => go,
         l \in {"new", "opening", "waiting"} => left'[v] = Calls,
         l = "calling" => left'[v] > 0,
         \A w \in VUs : w # v => left'[w] = left[w]
  PROVE  LInv'
<1>1. TypeOK'
  BY MoveKeepsTypes DEF LInv
<1>2. users \in SUBSET VUs /\ vu \in [VUs -> Places]
  BY DEF LInv, TypeOK, Places
<1>3. /\ vu'[v] = l
      /\ \A w \in VUs : w # v => vu'[w] = vu[w]
      /\ users' = users /\ runner' = runner /\ go' = go /\ modes' = modes
  BY <1>2 DEF MoveTypes, Goto
<1>4. GateInv'
  BY <1>2, <1>3 DEF LInv, GateInv
<1>5. WorkInv'
  BY <1>2, <1>3 DEF LInv, WorkInv
<1> QED
  BY <1>1, <1>4, <1>5 DEF LInv

LEMMA VUSteps ==
  ASSUME LInv, NEW v \in users, Advance(v) \/ DiesEarly(v) \/ DiesLate(v)
  PROVE  LInv'
<1> USE DEF LInv
<1>0. /\ users \in SUBSET VUs /\ v \in VUs
      /\ vu \in [VUs -> Places] /\ left \in [VUs -> 0 .. Calls]
      /\ ops \in Nat /\ errors \in Nat /\ Calls \in Nat \ {0}
      /\ pending \in 0 .. Cardinality(users) /\ allReady \in BOOLEAN
  BY CallsAssumption DEF TypeOK, Places
<1>1. CASE Start(v) /\ mode = "reuse"
  <2>1. /\ Running(v) /\ vu[v] = "new" /\ Goto(v, "opening")
        /\ UNCHANGED <<users, server, modes, runner, gate, left, tally, results>>
    BY <1>1 DEF Start
  <2>2. MoveTypes(v, "opening")
    BY <1>0, <2>1 DEF MoveTypes, gate, tally
  <2>3. CountInv'
    BY <1>0, <2>1, CountStays DEF Places, Early, gate
  <2> QED
    BY <1>0, <2>1, <2>2, <2>3, MoveKeeps DEF Places, Early, Passed, WorkInv, gate
<1>2. CASE Start(v) /\ mode # "reuse"
  <2>1. /\ Running(v) /\ vu[v] = "new" /\ Goto(v, "waiting") /\ Ready
        /\ UNCHANGED <<users, server, modes, runner, left, tally, results>>
    BY <1>2 DEF Start
  <2>2. CountInv' /\ pending' \in 0 .. Cardinality(users) /\ allReady' \in BOOLEAN
    BY <2>1, CountsDown DEF Places, Early, Passed
  <2>3. MoveTypes(v, "waiting") /\ (allReady => allReady')
    BY <1>0, <2>1, <2>2 DEF MoveTypes, Ready, tally
  <2> QED
    BY <1>0, <2>1, <2>2, <2>3, MoveKeeps DEF Places, Passed, WorkInv
<1>3. CASE Opened(v)
  <2>1. /\ Running(v) /\ vu[v] = "opening" /\ Goto(v, "waiting") /\ Ready
        /\ UNCHANGED <<users, server, modes, runner, left, tally, results>>
    BY <1>3 DEF Opened
  <2>2. CountInv' /\ pending' \in 0 .. Cardinality(users) /\ allReady' \in BOOLEAN
    BY <2>1, CountsDown DEF Places, Early, Passed
  <2>3. MoveTypes(v, "waiting") /\ (allReady => allReady')
    BY <1>0, <2>1, <2>2 DEF MoveTypes, Ready, tally
  <2> QED
    BY <1>0, <2>1, <2>2, <2>3, MoveKeeps DEF Places, Passed, WorkInv
<1>4. CASE NotOpened(v)
  <2>1. /\ Running(v) /\ vu[v] = "opening" /\ Goto(v, "givingUp") /\ Ready
        /\ errors' = errors + Calls
        /\ UNCHANGED <<users, server, modes, runner, left, ops, results>>
    BY <1>4 DEF NotOpened
  <2>2. CountInv' /\ pending' \in 0 .. Cardinality(users) /\ allReady' \in BOOLEAN
    BY <2>1, CountsDown DEF Places, Early, Passed
  <2>3. MoveTypes(v, "givingUp") /\ (allReady => allReady')
    BY <1>0, <2>1, <2>2 DEF MoveTypes, Ready
  <2> QED
    BY <1>0, <2>1, <2>2, <2>3, MoveKeeps DEF Places, Passed, WorkInv
<1>5. CASE Pass(v)
  <2>1. PICK l \in {"calling", "done"} :
          /\ Running(v) /\ go /\ vu[v] \in {"waiting", "givingUp"} /\ Goto(v, l)
          /\ l = "calling" => vu[v] = "waiting"
          /\ UNCHANGED <<users, server, modes, runner, gate, left, tally, results>>
    BY <1>5 DEF Pass
  <2>2. MoveTypes(v, l)
    BY <1>0, <2>1 DEF MoveTypes, gate, tally
  <2>3. CountInv'
    BY <1>0, <2>1, CountStays DEF Places, Early, Passed, gate
  <2>4. l = "calling" => left'[v] > 0
    BY <1>0, <2>1 DEF WorkInv
  <2> QED
    BY <1>0, <2>1, <2>2, <2>3, <2>4, MoveKeeps DEF Places, Passed, gate
<1>6. CASE CallEnds(v)
  <2>1. PICK l \in {"calling", "closing", "done"} :
          /\ Running(v) /\ vu[v] = "calling" /\ Goto(v, l)
          /\ l = "calling" => left[v] > 1
          /\ left' = [left EXCEPT ![v] = left[v] - 1]
          /\ ops' \in Nat /\ errors' \in Nat
          /\ UNCHANGED <<users, server, modes, runner, gate, results>>
    BY <1>0, <1>6 DEF CallEnds
  <2>2. left[v] > 0 /\ go
    BY <1>0, <2>1 DEF WorkInv, GateInv, Passed
  <2>3. left' \in [VUs -> 0 .. Calls] /\ left'[v] = left[v] - 1
    BY <1>0, <2>1, <2>2
  <2>4. MoveTypes(v, l)
    BY <1>0, <2>1, <2>3 DEF MoveTypes, gate
  <2>5. CountInv'
    BY <1>0, <2>1, CountStays DEF Places, Early, Passed, gate
  <2>6. l = "calling" => left'[v] > 0
    BY <1>0, <2>1, <2>3
  <2>7. \A w \in VUs : w # v => left'[w] = left[w]
    BY <1>0, <2>1
  <2> QED
    BY <1>0, <2>1, <2>2, <2>4, <2>5, <2>6, <2>7, MoveKeeps DEF Places, Passed, gate
<1>7. CASE Closed(v) \/ DiesLate(v)
  <2>1. PICK l \in {"done", "diedLate"} :
          /\ Running(v) /\ vu[v] \in {"calling", "closing"} /\ Goto(v, l)
          /\ UNCHANGED <<users, server, modes, runner, gate, left, tally, results>>
    BY <1>7 DEF Closed, DiesLate
  <2>2. MoveTypes(v, l) /\ go
    BY <1>0, <2>1 DEF MoveTypes, gate, tally, GateInv, Passed
  <2>3. CountInv'
    BY <1>0, <2>1, CountStays DEF Places, Early, Passed, gate
  <2> QED
    BY <1>0, <2>1, <2>2, <2>3, MoveKeeps DEF Places, Passed, gate
<1>8. CASE DiesEarly(v)
  <2>1. /\ Running(v) /\ vu[v] \in {"new", "opening"} /\ Goto(v, "diedEarly")
        /\ UNCHANGED <<users, server, modes, runner, gate, left, tally, results>>
    BY <1>8 DEF DiesEarly
  <2>2. MoveTypes(v, "diedEarly")
    BY <1>0, <2>1 DEF MoveTypes, gate, tally
  <2>3. CountInv'
    BY <1>0, <2>1, CountStays DEF Places, Early, gate
  <2> QED
    BY <1>0, <2>1, <2>2, <2>3, MoveKeeps DEF Places, Early, Passed, gate
<1> QED
  BY <1>1, <1>2, <1>3, <1>4, <1>5, <1>6, <1>7, <1>8 DEF Advance, Closed, DiesLate

LEMMA RunnerSteps ==
  ASSUME LInv, Spawned \/ SpawnFails \/ Fire \/ Gather \/ GatherRaises
  PROVE  LInv'
<1> USE DEF LInv
<1>0. /\ users \in SUBSET VUs /\ modes \in Modes
      /\ server \in {"none", "external", "up", "terminated"}
      /\ results \in Seq([mode : {"reuse", "fresh"}, ops : Nat, errors : Nat])
      /\ ops \in Nat /\ errors \in Nat
  BY DEF TypeOK, Modes
<1>1. CASE Spawned \/ SpawnFails
  <2>1. /\ runner = "spawning"
        /\ runner' \in {"gathering", "raised"} /\ server' \in {"up", "terminated"}
        /\ UNCHANGED <<users, modes, pending, allReady, go, vu, left, ops, errors, results>>
    BY <1>1 DEF Spawned, SpawnFails, gate, tally
  <2>2. TypeOK'
    BY <2>1 DEF TypeOK
  <2>3. CountInv' /\ GateInv' /\ WorkInv'
    BY <2>1 DEF CountInv, GateInv, WorkInv, Late
  <2> QED
    BY <2>2, <2>3
<1>2. CASE Fire
  <2>1. /\ runner = "gathering" /\ allReady /\ go' = TRUE /\ runner' = "timing"
        /\ UNCHANGED <<users, server, modes, pending, allReady, vu, left, ops, errors, results>>
    BY <1>2 DEF Fire, tally
  <2>2. TypeOK'
    BY <2>1 DEF TypeOK
  <2>3. CountInv' /\ GateInv' /\ WorkInv'
    BY <2>1 DEF CountInv, GateInv, WorkInv, Late
  <2> QED
    BY <2>2, <2>3
<1>3. CASE GatherRaises
  <2>1. /\ runner = "timing" /\ runner' = "raised" /\ server' \in {server, "terminated"}
        /\ UNCHANGED <<users, modes, pending, allReady, go, vu, left, ops, errors, results>>
    BY <1>3 DEF GatherRaises, StopServer, gate, tally
  <2>2. TypeOK'
    BY <2>1 DEF TypeOK
  <2>3. CountInv' /\ GateInv' /\ WorkInv'
    BY <2>1 DEF CountInv, GateInv, WorkInv, Late
  <2> QED
    BY <2>2, <2>3
<1>4. CASE Gather
  <2>1. /\ runner = "timing" /\ users' = users
        /\ results' = Append(results, [mode |-> mode, ops |-> ops, errors |-> errors])
        /\ modes' = Tail(modes)
    BY <1>4 DEF Gather
  <2>2. /\ mode \in {"reuse", "fresh"}
        /\ modes' \in Modes
        /\ Len(modes) > 1 => modes' # <<>>
    BY <1>0, <2>1, NextMode DEF WorkInv
  <2>3. results' \in Seq([mode : {"reuse", "fresh"}, ops : Nat, errors : Nat])
    BY <1>0, <2>1, <2>2
  <2>4. CASE Len(modes) > 1 /\ runner' = "gathering" /\ ScenarioReset /\ UNCHANGED server
    <3>1. /\ CountInv' /\ pending' \in 0 .. Cardinality(users)
          /\ allReady' = FALSE /\ go' = FALSE
          /\ vu' \in [VUs -> Places] /\ left' \in [VUs -> 0 .. Calls]
          /\ ops' = 0 /\ errors' = 0
          /\ \A v \in VUs : vu'[v] = "new" /\ left'[v] = Calls
      BY <1>0, <2>1, <2>4, NewScenario
    <3>2. TypeOK'
      BY <1>0, <2>1, <2>2, <2>3, <2>4, <3>1 DEF TypeOK, Places, Modes
    <3>3. GateInv'
      BY <1>0, <2>1, <2>4, <3>1 DEF GateInv, Passed
    <3>4. WorkInv'
      BY <2>2, <2>4, <3>1 DEF WorkInv
    <3> QED
      BY <3>1, <3>2, <3>3, <3>4
  <2>5. CASE runner' = "returned" /\ StopServer /\ UNCHANGED <<gate, vu, left, tally>>
    <3>1. /\ runner' = "returned" /\ server' \in {server, "terminated"}
          /\ UNCHANGED <<pending, allReady, go, vu, left, ops, errors>>
      BY <2>5 DEF StopServer, gate, tally
    <3>2. TypeOK'
      BY <2>1, <2>2, <2>3, <3>1 DEF TypeOK, Modes
    <3>3. CountInv' /\ GateInv' /\ WorkInv'
      BY <2>1, <3>1 DEF CountInv, GateInv, WorkInv, Late
    <3> QED
      BY <3>2, <3>3
  <2> QED
    BY <1>4, <2>4, <2>5 DEF Gather
<1> QED
  BY <1>1, <1>2, <1>3, <1>4

LEMMA StepInv == LInv /\ [Next]_vars => LInv'
<1> SUFFICES ASSUME LInv, [Next]_vars
             PROVE  LInv'
  OBVIOUS
<1>1. CASE Spawned \/ SpawnFails \/ Fire \/ Gather \/ GatherRaises
  BY <1>1, RunnerSteps
<1>2. CASE \E v \in users : Advance(v) \/ DiesEarly(v) \/ DiesLate(v)
  BY <1>2, VUSteps
<1>3. CASE UNCHANGED vars
  <2>1. TypeOK'
    BY <1>3 DEF LInv, TypeOK, vars, gate, tally
  <2>2. CountInv' /\ GateInv' /\ WorkInv'
    BY <1>3 DEF LInv, CountInv, GateInv, WorkInv, Late, vars, gate, tally
  <2> QED
    BY <2>1, <2>2 DEF LInv
<1> QED
  BY <1>1, <1>2, <1>3 DEF Next

\* The countdown is right and the gate is kept, for any number of users and calls.
THEOREM GateInvariance == Spec => []LInv
<1> QED
  BY InitInv, StepInv, PTL DEF Spec

THEOREM LoadTestTypes == Spec => []TypeOK
<1>1. LInv => TypeOK
  BY DEF LInv
<1> QED
  BY <1>1, GateInvariance, PTL
-----------------------------------------------------------------------------
Arrived == {v \in users : vu[v] \notin Early}
Beyond  == {v \in users : vu[v] \in Passed}

\* The gate opens when nobody is late.
LEMMA NobodyLate ==
  ASSUME LInv, allReady
  PROVE  Arrived = users
<1>1. IsFiniteSet(Late) /\ Cardinality(Late) = 0
  BY LateFinite DEF LInv, CountInv, TypeOK
<1>2. Late = {}
  BY <1>1, FS_EmptySet
<1> QED
  BY <1>2 DEF Late, Arrived

LEMMA MovesMap ==
  ASSUME LInv, NEW v \in users, Advance(v) \/ DiesEarly(v) \/ DiesLate(v)
  PROVE  \/ GateBarrier!Arrive(v)
         \/ GateBarrier!Pass(v)
         \/ UNCHANGED <<users, Arrived, go, Beyond>>
<1>0. users \in SUBSET VUs /\ v \in VUs /\ vu \in [VUs -> Places]
  BY DEF LInv, TypeOK, Places
<1>1. PICK l \in Places : Goto(v, l) /\ users' = users /\ go' = go
  <2>1. CASE Advance(v)
    BY <2>1 DEF Advance, Start, Opened, NotOpened, Pass, CallEnds, Closed, Ready, gate,
                Places, Early, Passed
  <2>2. CASE DiesEarly(v) \/ DiesLate(v)
    BY <2>2 DEF DiesEarly, DiesLate, gate, Places, Early, Passed
  <2> QED
    BY <2>1, <2>2
<1>2. vu'[v] = l /\ \A w \in VUs : w # v => vu'[w] = vu[w]
  BY <1>0, <1>1 DEF Goto
<1>3. CASE vu[v] \in Early /\ l \in {"waiting", "givingUp"}
  <2>1. v \notin Arrived /\ Arrived' = Arrived \cup {v} /\ Beyond' = Beyond
    BY <1>0, <1>1, <1>2, <1>3 DEF Arrived, Beyond, Early, Passed
  <2> QED
    BY <1>1, <2>1 DEF GateBarrier!Arrive, Arrived, Beyond
<1>4. CASE vu[v] \in {"waiting", "givingUp"} /\ l \in Passed /\ go
  <2>1. v \in Arrived \ Beyond /\ Beyond' = Beyond \cup {v} /\ Arrived' = Arrived
    BY <1>0, <1>1, <1>2, <1>4 DEF Arrived, Beyond, Early, Passed
  <2> QED
    BY <1>1, <1>4, <2>1 DEF GateBarrier!Pass, Arrived, Beyond
<1>5. CASE (vu[v] \in Early /\ l \in Early) \/ (vu[v] \in Passed /\ l \in Passed)
  BY <1>0, <1>1, <1>2, <1>5 DEF Arrived, Beyond, Early, Passed
<1>6. \/ vu[v] \in Early /\ l \in {"waiting", "givingUp"} \cup Early
      \/ vu[v] \in {"waiting", "givingUp"} /\ l \in Passed /\ go
      \/ vu[v] \in Passed /\ l \in Passed
  <2>1. CASE Advance(v)
    BY <1>0, <1>2, <2>1 DEF Advance, Start, Opened, NotOpened, Pass, CallEnds, Closed, Goto, Early, Passed
  <2>2. CASE DiesEarly(v) \/ DiesLate(v)
    BY <1>0, <1>2, <2>2 DEF DiesEarly, DiesLate, Goto, Early, Passed
  <2> QED
    BY <2>1, <2>2
<1> QED
  BY <1>3, <1>4, <1>5, <1>6

\* The gate, a countdown and two events, is a barrier for any number of virtual users.
THEOREM GateImplementsBarrier == Spec => GateIsBarrier
<1>1. Init => GateBarrier!Init
  BY DEF Init, GateBarrier!Init, Early, Passed
<1>2. LInv /\ [Next]_vars => [GateBarrier!Next]_<<users, Arrived, go, Beyond>>
  <2> SUFFICES ASSUME LInv, [Next]_vars
               PROVE  GateBarrier!Next \/ UNCHANGED <<users, Arrived, go, Beyond>>
    OBVIOUS
  <2>1. CASE \E v \in users : Advance(v) \/ DiesEarly(v) \/ DiesLate(v)
    BY <2>1, MovesMap DEF GateBarrier!Next
  <2>2. CASE Fire
    <3>1. ~ go /\ allReady /\ go' = TRUE /\ UNCHANGED <<users, vu>>
      BY <2>2 DEF Fire, LInv, GateInv
    <3>2. Arrived = users /\ UNCHANGED <<Arrived, Beyond>>
      BY <3>1, NobodyLate DEF Arrived, Beyond
    <3> QED
      BY <3>1, <3>2 DEF GateBarrier!Next, GateBarrier!Open, Arrived, Beyond
  <2>3. CASE Gather /\ Len(modes) > 1
    <3>1. go /\ users' = users /\ go' = FALSE /\ vu' = [v \in VUs |-> "new"]
      BY <2>3 DEF Gather, ScenarioReset, LInv, GateInv
    <3>2. Arrived' = {} /\ Beyond' = {}
      BY <3>1 DEF Arrived, Beyond, Early, Passed, LInv, TypeOK
    <3> QED
      BY <3>1, <3>2 DEF GateBarrier!Next, GateBarrier!NewRound, Arrived, Beyond
  <2>4. CASE \/ Gather /\ ~ (Len(modes) > 1)
             \/ Spawned \/ SpawnFails \/ GatherRaises
             \/ UNCHANGED vars
    <3>1. UNCHANGED <<users, go, vu>>
      BY <2>4 DEF Gather, Spawned, SpawnFails, GatherRaises, vars, gate
    <3> QED
      BY <3>1 DEF Arrived, Beyond
  <2> QED
    BY <2>1, <2>2, <2>3, <2>4 DEF Next
<1>3. [][GateBarrier!Next]_<<users, Arrived, go, Beyond>>
        <=> [][GateBarrier!Next]_<<users, {v \in users : vu[v] \notin Early}, go,
                                  {v \in users : vu[v] \in Passed}>>
  BY DEF Arrived, Beyond
<1> QED
  BY <1>1, <1>2, <1>3, GateInvariance, PTL DEF Spec, GateIsBarrier, GateBarrier!Spec
-----------------------------------------------------------------------------
(***************************************************************************)
(* The tally.  A call is named by its user and its number, counted down    *)
(* as left is.  The calls accounted for are those that ended, and all of a *)
(* user who gave up or is done; there are as many as latencies and errors. *)
(***************************************************************************)
Accounted ==
  {call \in users \X (1 .. Calls) :
     vu[call[1]] \in {"givingUp", "done"} \/ left[call[1]] < call[2]}

TallyInv ==
  /\ IsFiniteSet(Accounted)
  /\ Cardinality(Accounted) = ops + errors
  /\ \A v \in VUs : /\ vu[v] = "givingUp" => left[v] = Calls
                    /\ vu[v] = "closing" => left[v] = 0
                    /\ vu[v] = "diedEarly" => left[v] = Calls

AInv == TallyInv /\ CallsAddUp

\* All calls of one user, and of all of them.
LEMMA CallCounts ==
  ASSUME users \in SUBSET VUs
  PROVE  /\ \A v : /\ IsFiniteSet({v} \X (1 .. Calls))
                   /\ Cardinality({v} \X (1 .. Calls)) = Calls
         /\ Cardinality(users \X (1 .. Calls)) = Cardinality(users) * Calls
<1>1. IsFiniteSet(users)
  BY LateFinite
<1>2. IsFiniteSet(1 .. Calls) /\ Cardinality(1 .. Calls) = Calls
  <2>1. Calls \in Nat /\ Calls \in Int /\ 1 \in Int /\ ~ (1 > Calls)
    BY CallsAssumption
  <2>2. /\ IsFiniteSet(1 .. Calls)
        /\ Cardinality(1 .. Calls) = IF 1 > Calls THEN 0 ELSE Calls - 1 + 1
    BY <2>1, FS_Interval
  <2> QED BY <2>1, <2>2
<1>3. ASSUME NEW v
      PROVE  /\ IsFiniteSet({v} \X (1 .. Calls))
             /\ Cardinality({v} \X (1 .. Calls)) = Calls
  <2>1. IsFiniteSet({v}) /\ Cardinality({v}) = 1
    BY FS_Singleton
  <2>2. /\ IsFiniteSet({v} \X (1 .. Calls))
        /\ Cardinality({v} \X (1 .. Calls)) = Cardinality({v}) * Cardinality(1 .. Calls)
    BY <1>2, <2>1, FS_Product
  <2> QED BY <1>2, <2>1, <2>2, CallsAssumption
<1>4. Cardinality(users \X (1 .. Calls)) = Cardinality(users) * Calls
  BY <1>1, <1>2, FS_Product
<1> QED
  BY <1>3, <1>4

\* A step that moves one user and accounts for no call.
LEMMA AccountedStays ==
  ASSUME LInv, TallyInv, NEW v \in users, NEW l \in Places, Goto(v, l),
         UNCHANGED <<users, left, ops, errors, results>>,
         l \in {"givingUp", "done"} => vu[v] = "givingUp" \/ left[v] = 0,
         vu[v] \in {"givingUp", "done"} => l \in {"givingUp", "done"},
         l \in {"givingUp", "diedEarly"} => left[v] = Calls,
         l = "closing" => left[v] = 0
  PROVE  TallyInv'
<1>1. /\ users \in SUBSET VUs /\ vu \in [VUs -> Places] /\ left \in [VUs -> 0 .. Calls]
      /\ Calls \in Nat
  BY CallsAssumption DEF LInv, TypeOK, Places
<1>2. vu'[v] = l /\ \A w \in VUs : w # v => vu'[w] = vu[w]
  BY <1>1 DEF Goto
<1>3. ASSUME NEW w \in users, NEW k \in 1 .. Calls
      PROVE  (vu'[w] \in {"givingUp", "done"} \/ left'[w] < k)
               <=> (vu[w] \in {"givingUp", "done"} \/ left[w] < k)
  BY <1>1, <1>2
<1>4. Accounted' = Accounted
  BY <1>3 DEF Accounted
<1> QED
  BY <1>1, <1>2, <1>4 DEF TallyInv

LEMMA VUTally ==
  ASSUME LInv, TallyInv, NEW v \in users, Advance(v) \/ DiesEarly(v) \/ DiesLate(v)
  PROVE  TallyInv'
<1>0. /\ users \in SUBSET VUs /\ v \in VUs /\ vu \in [VUs -> Places]
      /\ left \in [VUs -> 0 .. Calls] /\ Calls \in Nat \ {0}
      /\ ops \in Nat /\ errors \in Nat
      /\ IsFiniteSet(Accounted) /\ Cardinality(Accounted) = ops + errors
  BY CallsAssumption DEF LInv, TypeOK, Places, TallyInv
<1>1. CASE NotOpened(v)
  <2>1. /\ vu[v] = "opening" /\ vu' = [vu EXCEPT ![v] = "givingUp"]
        /\ errors' = errors + Calls /\ UNCHANGED <<users, left, ops, results>>
    BY <1>1 DEF NotOpened, Goto
  <2>2. left[v] = Calls
    BY <1>0, <2>1 DEF LInv, WorkInv
  <2>3. /\ Accounted' = Accounted \cup ({v} \X (1 .. Calls))
        /\ Accounted \cap ({v} \X (1 .. Calls)) = {}
    BY <1>0, <2>1, <2>2 DEF Accounted
  <2>4. IsFiniteSet({v} \X (1 .. Calls)) /\ Cardinality({v} \X (1 .. Calls)) = Calls
    BY <1>0, CallCounts
  <2>5. /\ IsFiniteSet(Accounted')
        /\ Cardinality(Accounted') = Cardinality(Accounted) + Calls - Cardinality({})
    BY <1>0, <2>3, <2>4, FS_Union
  <2>6. Cardinality({}) = 0
    BY FS_EmptySet
  <2>7. Cardinality(Accounted') = ops' + errors'
    BY <1>0, <2>1, <2>5, <2>6
  <2> QED
    BY <1>0, <2>1, <2>2, <2>5, <2>7 DEF TallyInv
<1>2. CASE CallEnds(v)
  <2>1. PICK l \in {"calling", "closing", "done"} :
          /\ vu[v] = "calling" /\ vu' = [vu EXCEPT ![v] = l]
          /\ left' = [left EXCEPT ![v] = left[v] - 1]
          /\ l = "calling" <=> left[v] > 1
          /\ UNCHANGED <<users, results>>
    BY <1>2 DEF CallEnds, Goto
  <2>2. left[v] \in 1 .. Calls /\ left'[v] = left[v] - 1 /\ vu'[v] = l
    BY <1>0, <2>1 DEF LInv, WorkInv
  <2>3. ops' + errors' = ops + errors + 1
    BY <1>0, <1>2 DEF CallEnds
  <2>4. ASSUME NEW w \in users, NEW k \in 1 .. Calls
        PROVE  (vu'[w] \in {"givingUp", "done"} \/ left'[w] < k)
                 <=> ((vu[w] \in {"givingUp", "done"} \/ left[w] < k)
                      \/ (w = v /\ k = left[v]))
    <3>1. CASE w = v
      BY <1>0, <2>1, <2>2, <3>1
    <3>2. CASE w # v
      BY <1>0, <2>1, <3>2
    <3> QED BY <3>1, <3>2
  <2>5. Accounted' = Accounted \cup {<<v, left[v]>>} /\ <<v, left[v]>> \notin Accounted
    <3>1. Accounted' = Accounted \cup {<<v, left[v]>>}
      BY <2>1, <2>2, <2>4 DEF Accounted
    <3>2. <<v, left[v]>> \notin Accounted
      BY <1>0, <2>1, <2>2 DEF Accounted
    <3> QED BY <3>1, <3>2
  <2>6. IsFiniteSet(Accounted') /\ Cardinality(Accounted') = Cardinality(Accounted) + 1
    BY <1>0, <2>5, FS_AddElement
  <2>7. \A w \in VUs : w # v => vu'[w] = vu[w] /\ left'[w] = left[w]
    BY <1>0, <2>1
  <2>8. l = "closing" => left'[v] = 0
    BY <2>1, <2>2
  <2> QED
    BY <1>0, <2>2, <2>3, <2>6, <2>7, <2>8 DEF TallyInv
<1>3. CASE Start(v) \/ Opened(v)
  <2>1. PICK l \in {"opening", "waiting"} :
          Goto(v, l) /\ vu[v] \in {"new", "opening"}
          /\ UNCHANGED <<users, left, ops, errors, results>>
    BY <1>3 DEF Start, Opened, tally
  <2> QED BY <2>1, AccountedStays DEF Places, Early
<1>4. CASE Pass(v)
  <2>1. PICK l \in {"calling", "done"} :
          /\ Goto(v, l) /\ vu[v] \in {"waiting", "givingUp"}
          /\ l = "done" <=> vu[v] = "givingUp"
          /\ UNCHANGED <<users, left, ops, errors, results>>
    BY <1>4 DEF Pass, tally
  <2> QED BY <2>1, AccountedStays DEF Places, Passed
<1>5. CASE Closed(v)
  <2>1. /\ Goto(v, "done") /\ vu[v] = "closing" /\ left[v] = 0
        /\ UNCHANGED <<users, left, ops, errors, results>>
    BY <1>0, <1>5 DEF Closed, tally, TallyInv
  <2> QED BY <2>1, AccountedStays DEF Places, Passed
<1>6. CASE DiesEarly(v)
  <2>1. /\ Goto(v, "diedEarly") /\ vu[v] \in {"new", "opening"} /\ left[v] = Calls
        /\ UNCHANGED <<users, left, ops, errors, results>>
    BY <1>0, <1>6 DEF DiesEarly, tally, LInv, WorkInv
  <2> QED BY <2>1, AccountedStays DEF Places, Early
<1>7. CASE DiesLate(v)
  <2>1. /\ Goto(v, "diedLate") /\ vu[v] \in {"calling", "closing"}
        /\ UNCHANGED <<users, left, ops, errors, results>>
    BY <1>7 DEF DiesLate, tally
  <2> QED BY <2>1, AccountedStays DEF Places, Passed
<1> QED
  BY <1>1, <1>2, <1>3, <1>4, <1>5, <1>6, <1>7 DEF Advance

\* When every user is done every call is accounted for.
LEMMA AllAccounted ==
  ASSUME LInv, TallyInv, \A v \in users : vu[v] = "done"
  PROVE  ops + errors = Cardinality(users) * Calls
<1>1. Accounted = users \X (1 .. Calls)
  BY DEF Accounted
<1> QED
  BY <1>1, CallCounts DEF TallyInv, LInv, TypeOK

LEMMA InitTally == Init => AInv
<1> SUFFICES ASSUME Init PROVE AInv
  OBVIOUS
<1>1. /\ users \in SUBSET VUs /\ vu = [v \in VUs |-> "new"] /\ left = [v \in VUs |-> Calls]
      /\ ops = 0 /\ errors = 0 /\ results = <<>>
  BY DEF Init
<1>2. Accounted = {}
  BY <1>1, CallsAssumption DEF Accounted
<1>3. TallyInv
  BY <1>1, <1>2, FS_EmptySet DEF TallyInv
<1>4. CallsAddUp
  BY <1>1 DEF CallsAddUp
<1> QED
  BY <1>3, <1>4 DEF AInv

LEMMA NextTally == LInv /\ AInv /\ [Next]_vars => AInv'
<1> SUFFICES ASSUME LInv, TallyInv, CallsAddUp, [Next]_vars PROVE AInv'
  BY DEF AInv
<1>0. users \in SUBSET VUs
  BY DEF LInv, TypeOK
<1>1. ASSUME UNCHANGED <<users, vu, left, ops, errors, results>> PROVE AInv'
  <2>1. Accounted' = Accounted
    BY <1>1 DEF Accounted
  <2> QED
    BY <1>1, <2>1 DEF AInv, TallyInv, CallsAddUp
<1>2. CASE Spawned \/ SpawnFails \/ Fire \/ GatherRaises \/ UNCHANGED vars
  BY <1>1, <1>2 DEF Spawned, SpawnFails, Fire, GatherRaises, vars, tally
<1>3. ASSUME NEW v \in users, Advance(v) \/ DiesEarly(v) \/ DiesLate(v) PROVE AInv'
  <2>1. UNCHANGED <<users, results>>
    BY <1>3 DEF Advance, Start, Opened, NotOpened, Pass, CallEnds, Closed, DiesEarly, DiesLate
  <2>2. CallsAddUp'
    BY <2>1 DEF CallsAddUp
  <2> QED BY <1>3, <2>2, VUTally DEF AInv
<1>4. CASE Gather
  <2>1. /\ \A v \in users : vu[v] = "done"
        /\ results' = Append(results, [mode |-> mode, ops |-> ops, errors |-> errors])
        /\ users' = users
    BY <1>4 DEF Gather
  <2>2. PICK r : r = [mode |-> mode, ops |-> ops, errors |-> errors]
    OBVIOUS
  <2>3. r.ops + r.errors = Cardinality(users) * Calls
    BY <2>1, <2>2, AllAccounted
  <2>4. /\ DOMAIN results = 1 .. Len(results) /\ DOMAIN results' = 1 .. Len(results) + 1
        /\ Len(results) \in Nat /\ results'[Len(results) + 1] = r
        /\ \A i \in 1 .. Len(results) : results'[i] = results[i]
    BY <2>1, <2>2 DEF LInv, TypeOK
  <2>5. CallsAddUp'
    <3> SUFFICES ASSUME NEW i \in 1 .. Len(results) + 1
                 PROVE  results'[i].ops + results'[i].errors = Cardinality(users) * Calls
      BY <2>1, <2>4 DEF CallsAddUp
    <3>1. CASE i \in 1 .. Len(results)
      BY <2>4, <3>1 DEF CallsAddUp
    <3>2. CASE i = Len(results) + 1
      BY <2>3, <2>4, <3>2
    <3> QED BY <2>4, <3>1, <3>2
  <2>6. CASE ScenarioReset
    <3>1. /\ vu' = [v \in VUs |-> "new"] /\ left' = [v \in VUs |-> Calls]
          /\ ops' = 0 /\ errors' = 0
      BY <2>6 DEF ScenarioReset
    <3>2. Accounted' = {}
      BY <1>0, <2>1, <3>1, CallsAssumption DEF Accounted
    <3>3. TallyInv'
      BY <3>1, <3>2, FS_EmptySet DEF TallyInv
    <3> QED BY <2>5, <3>3 DEF AInv
  <2>7. CASE UNCHANGED <<vu, left, tally>>
    <3>1. Accounted' = Accounted
      BY <2>1, <2>7 DEF Accounted
    <3>2. TallyInv'
      BY <2>7, <3>1 DEF TallyInv, tally
    <3> QED BY <2>5, <3>2 DEF AInv
  <2> QED BY <1>4, <2>6, <2>7 DEF Gather
<1> QED
  BY <1>2, <1>3, <1>4 DEF Next

\* Every call a finished scenario was asked for is a latency or an error, for any number
\* of virtual users and calls, also when users were lost in their handshake.
THEOREM TallyAddsUp == Spec => []CallsAddUp
<1>1. AInv => CallsAddUp
  BY DEF AInv
<1>2. Init => LInv /\ AInv
  BY InitInv, InitTally
<1>3. LInv /\ AInv /\ [Next]_vars => (LInv /\ AInv)'
  BY StepInv, NextTally
<1> QED
  BY <1>1, <1>2, <1>3, PTL DEF Spec
=============================================================================
