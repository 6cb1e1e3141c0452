-------------------------- MODULE AuditChainProofs --------------------------
(***************************************************************************)
(* Proofs about AuditChain for every set of calls and keys and any number  *)
(* of threads: type correctness, the linkage of every chain, and that the  *)
(* chains implement ChainHistory.                                          *)
(***************************************************************************)
EXTENDS AuditChain, TLAPS

(***************************************************************************)
(* The lock is held exactly by the call between Acquire and Release.       *)
(***************************************************************************)
Holding(c) == pc[c] \in {"readTail", "store", "release"}

LockInv == \A c \in Calls : Holding(c) => lock = c

\* What the holder read is still the length of the chain it is about to extend.
TailInv == \A c \in Calls : pc[c] = "store" => tail[c] = Len(events[chain[c]])

(***************************************************************************)
(* The chain a call may append to, and the current chain, were created;    *)
(* a call that may still create its chain has not done so.                 *)
(***************************************************************************)
ChainInv ==
  /\ stateChain # NoCall => secret[stateChain] # NoKey
  /\ \A c \in Calls : pc[c] \in {"acquire", "readTail", "store"} =>
       chain[c] \in Calls /\ secret[chain[c]] # NoKey
  /\ \A c \in Calls : pc[c] \in {"start", "checkChain", "checkKey", "newChain"} =>
       secret[c] = NoKey
  /\ \A c \in Calls : pc[c] \in {"checkChain", "checkKey", "newChain", "setKey"} =>
       key[c] # NoKey

IInv == TypeOK /\ LockInv /\ TailInv /\ ChainInv

(***************************************************************************)
(* What the proofs use of the next-state relation holds of every           *)
(* deployment: a call may begin whatever MayStart says, and a restarted    *)
(* process may or may not owe a startup record.                            *)
(***************************************************************************)
Begins(c) ==
  /\ pc[c] = "start"
  /\ key' = [key EXCEPT ![c] = envKey]
  /\ Goto(c, IF envKey = NoKey THEN "clearChain" ELSE "checkChain")
  /\ UNCHANGED <<envKey, state, lock, booted, chain, tail, out, secret, events, log>>

AnyRestart ==
  /\ stateChain' = NoCall
  /\ stateKey' = NoKey
  /\ lock' = NoCall
  /\ booted' \in BOOLEAN
  /\ pc' = [c \in Calls |-> IF Running(c) THEN "lost" ELSE pc[c]]
  /\ UNCHANGED <<envKey, local, secret, events, log>>

AnyStep(c) ==
  \/ Begins(c) \/ ClearChain(c) \/ ClearKey(c) \/ CheckChain(c)
  \/ CheckKey(c) \/ NewChain(c) \/ SetKey(c) \/ GetChain(c)
  \/ Acquire(c) \/ ReadTail(c) \/ Store(c) \/ Release(c) \/ Emit(c)

AnyNext == (\E c \in Calls : AnyStep(c)) \/ SetEnv \/ AnyRestart

LEMMA NextIsAny == Next => AnyNext
BY StartupAssumption
   DEF Next, Step, ReadKey, Restart, AnyNext, AnyStep, Begins, AnyRestart

-----------------------------------------------------------------------------
(***************************************************************************)
(* The type invariant: every step of audit_event, a key change and a       *)
(* restart keep every variable in its range.                               *)
(***************************************************************************)
LEMMA InitTypeOK == Init => TypeOK
BY CallsAssumption, KeysAssumption, StartupAssumption
   DEF Init, TypeOK, Locations, Plain, Record

LEMMA StepTypeOK ==
  ASSUME IInv, NEW c \in Calls, AnyStep(c)
  PROVE  TypeOK'
<1> USE DEF IInv, TypeOK, Goto, state, local
<1>1. CASE Begins(c)
  BY <1>1 DEF Begins, Locations
<1>2. CASE ClearChain(c)
  BY <1>2 DEF ClearChain, Locations
<1>3. CASE ClearKey(c)
  BY <1>3 DEF ClearKey, Locations
<1>4. CASE CheckChain(c)
  BY <1>4 DEF CheckChain, Locations
<1>5. CASE CheckKey(c)
  BY <1>5 DEF CheckKey, Locations
<1>6. CASE NewChain(c)
  BY <1>6 DEF NewChain, Locations
<1>7. CASE SetKey(c)
  BY <1>7 DEF SetKey, Locations
<1>8. CASE GetChain(c)
  BY <1>8 DEF GetChain, Locations
<1>9. CASE Acquire(c)
  BY <1>9 DEF Acquire, Locations
<1>10. CASE ReadTail(c)
  BY <1>10 DEF ReadTail, Locations
<1>11. CASE Store(c)
  <2> DEFINE h == chain[c]
             e == ChainEvent(h, c, tail[c])
  <2>1. h \in Calls /\ tail[c] = Len(events[h])
    BY <1>11 DEF Store, TailInv, ChainInv
  <2>2. tail[c] # 0 => events[h][tail[c]] \in Record
    BY <2>1
  <2>3. e \in Record
    BY <2>1, <2>2 DEF ChainEvent, Record
  <2>4. Append(events[h], e) \in Seq(Record)
    BY <2>1, <2>3
  <2> HIDE DEF e
  <2>5. events' \in [Calls -> Seq(Record)]
    BY <1>11, <2>1, <2>4 DEF Store, e
  <2>6. out' \in [Calls -> Record]
    BY <1>11, <2>3 DEF Store, e
  <2>7. pc' \in [Calls -> Locations]
    BY <1>11 DEF Store, Locations
  <2>8. QED
    BY <1>11, <2>5, <2>6, <2>7 DEF Store
<1>12. CASE Release(c)
  BY <1>12 DEF Release, Locations
<1>13. CASE Emit(c)
  BY <1>13 DEF Emit, Locations
<1>14. QED
  BY <1>1, <1>2, <1>3, <1>4, <1>5, <1>6, <1>7, <1>8, <1>9, <1>10, <1>11,
     <1>12, <1>13 DEF AnyStep

LEMMA NextTypeOK == IInv /\ [AnyNext]_vars => TypeOK'
<1> SUFFICES ASSUME IInv, [AnyNext]_vars PROVE TypeOK'
  OBVIOUS
<1>1. ASSUME NEW c \in Calls, AnyStep(c) PROVE TypeOK'
  BY <1>1, StepTypeOK
<1>2. CASE SetEnv
  BY <1>2 DEF SetEnv, IInv, TypeOK, state, local
<1>3. CASE AnyRestart
  BY <1>3 DEF AnyRestart, IInv, TypeOK, state, local, Locations
<1>4. CASE UNCHANGED vars
  BY <1>4 DEF vars, state, local, IInv, TypeOK
<1>5. QED
  BY <1>1, <1>2, <1>3, <1>4 DEF AnyNext

-----------------------------------------------------------------------------
(***************************************************************************)
(* The lock: only Acquire makes a call a holder, and only a free lock lets *)
(* it; a restart frees the lock and leaves no holder.                      *)
(***************************************************************************)
LEMMA NextLockInv == IInv /\ [AnyNext]_vars => LockInv'
<1> SUFFICES ASSUME IInv, [AnyNext]_vars PROVE LockInv'
  OBVIOUS
<1> USE DEF IInv, TypeOK, LockInv, Holding, Goto, state, local
<1>1. ASSUME NEW c \in Calls, AnyStep(c) PROVE LockInv'
  <2>1. CASE Acquire(c)
    BY <2>1, CallsAssumption DEF Acquire
  <2>2. CASE ReadTail(c)
    BY <2>2 DEF ReadTail
  <2>3. CASE Store(c)
    BY <2>3 DEF Store
  <2>4. CASE Release(c)
    BY <2>4, CallsAssumption DEF Release
  <2>5. CASE Begins(c) \/ ClearChain(c) \/ ClearKey(c) \/ CheckChain(c) \/ CheckKey(c)
    BY <2>5 DEF Begins, ClearChain, ClearKey, CheckChain, CheckKey
  <2>6. CASE NewChain(c) \/ SetKey(c) \/ GetChain(c) \/ Emit(c)
    BY <2>6 DEF NewChain, SetKey, GetChain, Emit
  <2>7. QED
    BY <1>1, <2>1, <2>2, <2>3, <2>4, <2>5, <2>6 DEF AnyStep
<1>2. CASE SetEnv
  BY <1>2 DEF SetEnv
<1>3. CASE AnyRestart
  BY <1>3 DEF AnyRestart, Running
<1>4. CASE UNCHANGED vars
  BY <1>4 DEF vars
<1>5. QED
  BY <1>1, <1>2, <1>3, <1>4 DEF AnyNext

(***************************************************************************)
(* The length a holder read stays right: only a holder extends a chain,    *)
(* and there is one holder.                                                *)
(***************************************************************************)
LEMMA NextTailInv == IInv /\ [AnyNext]_vars => TailInv'
<1> SUFFICES ASSUME IInv, [AnyNext]_vars PROVE TailInv'
  OBVIOUS
<1> USE DEF IInv, TypeOK, TailInv, Goto, state, local
<1>1. ASSUME NEW c \in Calls, AnyStep(c) PROVE TailInv'
  <2>1. CASE ReadTail(c)
    BY <2>1 DEF ReadTail
  <2>2. CASE Store(c)
    <3>1. \A d \in Calls \ {c} : pc[d] # "store"
      BY <2>2 DEF Store, LockInv, Holding
    <3>2. QED
      BY <2>2, <3>1 DEF Store
  <2>3. CASE Begins(c) \/ ClearChain(c) \/ ClearKey(c) \/ CheckChain(c) \/ CheckKey(c)
    BY <2>3 DEF Begins, ClearChain, ClearKey, CheckChain, CheckKey
  <2>4. CASE NewChain(c) \/ SetKey(c) \/ GetChain(c)
    BY <2>4 DEF NewChain, SetKey, GetChain
  <2>5. CASE Acquire(c) \/ Release(c) \/ Emit(c)
    BY <2>5 DEF Acquire, Release, Emit
  <2>6. QED
    BY <1>1, <2>1, <2>2, <2>3, <2>4, <2>5 DEF AnyStep
<1>2. CASE SetEnv
  BY <1>2 DEF SetEnv
<1>3. CASE AnyRestart
  BY <1>3 DEF AnyRestart, Running
<1>4. CASE UNCHANGED vars
  BY <1>4 DEF vars
<1>5. QED
  BY <1>1, <1>2, <1>3, <1>4 DEF AnyNext

(***************************************************************************)
(* Chains are created before they are used: the only step that makes a     *)
(* chain current gives it the key the call read, which is a key.           *)
(***************************************************************************)
LEMMA NextChainInv == IInv /\ [AnyNext]_vars => ChainInv'
<1> SUFFICES ASSUME IInv, [AnyNext]_vars PROVE ChainInv'
  OBVIOUS
<1> USE DEF IInv, TypeOK, ChainInv, Goto, state, local
<1>1. ASSUME NEW c \in Calls, AnyStep(c) PROVE ChainInv'
  <2>1. CASE Begins(c)
    BY <2>1 DEF Begins
  <2>2. CASE ClearChain(c) \/ ClearKey(c)
    BY <2>2 DEF ClearChain, ClearKey
  <2>3. CASE CheckChain(c) \/ CheckKey(c)
    BY <2>3 DEF CheckChain, CheckKey
  <2>4. CASE NewChain(c)
    BY <2>4 DEF NewChain
  <2>5. CASE SetKey(c)
    BY <2>5 DEF SetKey
  <2>6. CASE GetChain(c)
    BY <2>6 DEF GetChain
  <2>7. CASE Acquire(c) \/ ReadTail(c)
    BY <2>7 DEF Acquire, ReadTail
  <2>8. CASE Store(c) \/ Release(c) \/ Emit(c)
    BY <2>8 DEF Store, Release, Emit
  <2>9. QED
    BY <1>1, <2>1, <2>2, <2>3, <2>4, <2>5, <2>6, <2>7, <2>8 DEF AnyStep
<1>2. CASE SetEnv
  BY <1>2 DEF SetEnv
<1>3. CASE AnyRestart
  BY <1>3 DEF AnyRestart, Running
<1>4. CASE UNCHANGED vars
  BY <1>4 DEF vars
<1>5. QED
  BY <1>1, <1>2, <1>3, <1>4 DEF AnyNext

(***************************************************************************)
(* IInv is inductive.                                                      *)
(***************************************************************************)
LEMMA InitIInv == Init => IInv
<1>1. Init => LockInv /\ TailInv /\ ChainInv
  BY DEF Init, LockInv, Holding, TailInv, ChainInv
<1>2. QED
  BY <1>1, InitTypeOK DEF IInv

LEMMA NextIInv == IInv /\ [AnyNext]_vars => IInv'
BY NextTypeOK, NextLockInv, NextTailInv, NextChainInv DEF IInv

THEOREM Invariance == Spec => []IInv
<1>1. Init => IInv
  BY InitIInv
<1>2. IInv /\ [Next]_vars => IInv'
  BY NextIInv, NextIsAny
<1>3. QED
  BY <1>1, <1>2, PTL DEF Spec

(***************************************************************************)
(* Every variable of audit_event and _ChainState stays in its range.       *)
(***************************************************************************)
THEOREM TypeCorrect == Spec => []TypeOK
<1>1. IInv => TypeOK
  BY DEF IInv
<1>2. QED
  BY <1>1, Invariance, PTL

-----------------------------------------------------------------------------
(***************************************************************************)
(* The event Store appends is the next one of its chain: numbered with the *)
(* chain's length and linked to its last event.                            *)
(***************************************************************************)
LEMMA StoreExtends ==
  ASSUME IInv, NEW c \in Calls, Store(c)
  PROVE  /\ chain[c] \in Calls
         /\ events' = [events EXCEPT ![chain[c]] =
                         Append(@, ChainEvent(chain[c], c, Len(@)))]
BY DEF IInv, Store, TailInv, ChainInv, TypeOK

(***************************************************************************)
(* Every other step of audit_event, a key change and a restart leave the   *)
(* events of every chain as they are.                                      *)
(***************************************************************************)
LEMMA OnlyStoreExtends ==
  ASSUME [AnyNext]_vars, \A c \in Calls : ~ Store(c)
  PROVE  UNCHANGED events
<1>1. ASSUME NEW c \in Calls, AnyStep(c) PROVE UNCHANGED events
  BY <1>1 DEF AnyStep, Begins, ClearChain, ClearKey, CheckChain, CheckKey, NewChain,
     SetKey, GetChain, Acquire, ReadTail, Release, Emit, local
<1>2. QED
  BY <1>1 DEF AnyNext, SetEnv, AnyRestart, vars

(***************************************************************************)
(* Within every chain the events are numbered without a gap and linked,    *)
(* whatever the interleaving of the threads, the key changes and restarts. *)
(***************************************************************************)
LEMMA NextLinked == IInv /\ ChainsLinked /\ [AnyNext]_vars => ChainsLinked'
<1> SUFFICES ASSUME IInv, ChainsLinked, [AnyNext]_vars,
                    NEW h \in Calls, NEW i \in 1 .. Len(events'[h])
             PROVE  LinkedAt(h, i)'
  BY DEF ChainsLinked
<1>1. CASE UNCHANGED events
  BY <1>1 DEF ChainsLinked, LinkedAt
<1>2. ASSUME NEW c \in Calls, Store(c) PROVE LinkedAt(h, i)'
  <2> DEFINE n == Len(events[chain[c]])
  <2>1. events \in [Calls -> Seq(Record)] /\ chain[c] \in Calls
    BY <1>2, StoreExtends DEF IInv, TypeOK
  <2>2. CASE h # chain[c]
    <3>1. events'[h] = events[h]
      BY <1>2, <2>1, <2>2, StoreExtends
    <3>2. QED
      BY <3>1 DEF ChainsLinked, LinkedAt
  <2>3. CASE h = chain[c]
    <3>1. events'[h] = Append(events[h], ChainEvent(h, c, n))
      BY <1>2, <2>1, <2>3, StoreExtends
    <3>2. events[h] \in Seq(Record) /\ n = Len(events[h]) /\ n \in Nat
      BY <2>1, <2>3
    <3>3. i \in 1 .. n + 1
      BY <3>1, <3>2
    <3>4. CASE i = n + 1
      <4>1. events'[h][i] = ChainEvent(h, c, n)
        BY <3>1, <3>2, <3>4
      <4>2. n # 0 => events'[h][i - 1] = events[h][n]
        BY <3>1, <3>2, <3>4
      <4>3. QED
        BY <3>2, <3>4, <4>1, <4>2 DEF LinkedAt, ChainEvent
    <3>5. CASE i \in 1 .. n
      <4>1. events'[h][i] = events[h][i]
        BY <3>1, <3>2, <3>5
      <4>2. i # 1 => events'[h][i - 1] = events[h][i - 1]
        BY <3>1, <3>2, <3>5
      <4>3. LinkedAt(h, i)
        BY <3>2, <3>5 DEF ChainsLinked
      <4>4. QED
        BY <4>1, <4>2, <4>3 DEF LinkedAt
    <3>6. QED
      BY <3>2, <3>3, <3>4, <3>5
  <2>4. QED
    BY <2>2, <2>3
<1>3. QED
  BY <1>1, <1>2, OnlyStoreExtends

THEOREM Linkage == Spec => []ChainsLinked
<1>1. Init => ChainsLinked
  BY DEF Init, ChainsLinked
<1>2. IInv /\ ChainsLinked /\ [Next]_vars => ChainsLinked'
  BY NextLinked, NextIsAny
<1>3. QED
  BY <1>1, <1>2, Invariance, PTL DEF Spec

-----------------------------------------------------------------------------
(***************************************************************************)
(* The chains implement ChainHistory: NewChain creates a chain, Store      *)
(* extends one, and every other step leaves all chains alone.              *)
(***************************************************************************)
LEMMA NextHistory == IInv /\ [AnyNext]_vars => [History!Next]_(History!chainVars)
<1> SUFFICES ASSUME IInv, [AnyNext]_vars
             PROVE  [History!Next]_(History!chainVars)
  OBVIOUS
<1> USE DEF History!Next, History!chainVars
<1>1. ASSUME NEW c \in Calls, NewChain(c) PROVE History!Next
  <2>1. key[c] \in Keys /\ secret[c] = NoKey
    BY <1>1 DEF NewChain, IInv, TypeOK, ChainInv
  <2>2. History!Create(c, key[c])
    BY <1>1, <2>1 DEF NewChain, History!Create
  <2>3. QED
    BY <2>1, <2>2
<1>2. ASSUME NEW c \in Calls, Store(c) PROVE History!Next
  <2>1. chain[c] \in Calls /\ secret[chain[c]] # NoKey /\ UNCHANGED secret
    BY <1>2 DEF Store, IInv, ChainInv
  <2>2. events' = [events EXCEPT ![chain[c]] =
                     Append(@, History!NextEvent(chain[c], c, Len(@)))]
    BY <1>2, StoreExtends DEF ChainEvent, History!NextEvent, History!PrevOf
  <2>3. History!Extend(chain[c], c)
    BY <2>1, <2>2 DEF History!Extend
  <2>4. QED
    BY <2>1, <2>3
<1>3. ASSUME NEW c \in Calls, AnyStep(c), ~ NewChain(c), ~ Store(c)
      PROVE  UNCHANGED <<secret, events>>
  BY <1>3 DEF AnyStep, Begins, ClearChain, ClearKey, CheckChain, CheckKey, SetKey,
     GetChain, Acquire, ReadTail, Release, Emit
<1>4. CASE SetEnv \/ AnyRestart \/ UNCHANGED vars
  BY <1>4 DEF SetEnv, AnyRestart, vars
<1>5. QED
  BY <1>1, <1>2, <1>3, <1>4 DEF AnyNext

THEOREM Implementation == Spec => ChainsAreHistories
<1>1. Init => History!Init
  BY DEF Init, History!Init
<1>2. IInv /\ [Next]_vars => [History!Next]_(History!chainVars)
  BY NextHistory, NextIsAny
<1>3. QED
  BY <1>1, <1>2, Invariance, PTL DEF Spec, ChainsAreHistories, History!Spec
-----------------------------------------------------------------------------
(***************************************************************************)
(* The log.  A call's record is its own, and a chained one is the event    *)
(* its chain holds; the call of an event logs it when it gets there; a     *)
(* line is the record of a call that returned, and its only one.           *)
(***************************************************************************)
IsEvent(e) ==
  /\ e.chain \in Calls
  /\ e.sequence < Len(events[e.chain])
  /\ e = events[e.chain][e.sequence + 1]

OutInv ==
  \A c \in Calls :
    /\ out[c].call = c
    /\ out[c].chain # NoCall => IsEvent(out[c])
    /\ pc[c] \notin {"release", "emit", "done", "lost"} => out[c].chain = NoCall

Recorded(e) ==
  /\ pc[e.call] \in {"release", "emit", "done", "lost"}
  /\ pc[e.call] \in {"release", "emit"} => out[e.call] = e
  /\ pc[e.call] = "done" => \E i \in 1 .. Len(log) : log[i] = e

EventInv == \A h \in Calls : \A n \in 1 .. Len(events[h]) : Recorded(events[h][n])

LineInv ==
  /\ \A i \in 1 .. Len(log) : pc[log[i].call] = "done" /\ log[i] = out[log[i].call]
  /\ \A i, j \in 1 .. Len(log) : log[i].call = log[j].call => i = j

RInv == IInv /\ OutInv /\ EventInv /\ LineInv

(***************************************************************************)
(* A step of a call before its append leaves records, events and lines     *)
(* alone; the steps that do not are Store, Release and Emit.               *)
(***************************************************************************)
Before(c) ==
  /\ UNCHANGED <<out, events, log>>
  /\ pc[c] \notin {"store", "release", "emit", "done", "lost"}
  /\ pc'[c] \notin {"release", "done", "lost"}

LEMMA LogSteps ==
  ASSUME IInv, NEW c \in Calls, AnyStep(c)
  PROVE  /\ Before(c) \/ Store(c) \/ Release(c) \/ Emit(c)
         /\ \A d \in Calls : d # c => pc'[d] = pc[d] /\ out'[d] = out[d]
<1> USE DEF IInv, TypeOK, Before, Goto, state, local
<1>1. CASE Begins(c) \/ ClearChain(c) \/ ClearKey(c)
  BY <1>1 DEF Begins, ClearChain, ClearKey
<1>2. CASE CheckChain(c) \/ CheckKey(c) \/ NewChain(c)
  BY <1>2 DEF CheckChain, CheckKey, NewChain
<1>3. CASE SetKey(c) \/ GetChain(c) \/ Acquire(c)
  BY <1>3 DEF SetKey, GetChain, Acquire
<1>4. CASE ReadTail(c) \/ Release(c) \/ Emit(c)
  BY <1>4 DEF ReadTail, Release, Emit
<1>5. CASE Store(c)
  BY <1>5 DEF Store
<1> QED
  BY <1>1, <1>2, <1>3, <1>4, <1>5 DEF AnyStep

\* Events are never taken back or changed.
LEMMA EventsStay ==
  ASSUME IInv, [AnyNext]_vars, NEW h \in Calls, NEW n \in 1 .. Len(events[h])
  PROVE  n \in 1 .. Len(events'[h]) /\ events'[h][n] = events[h][n]
<1>1. CASE UNCHANGED events
  BY <1>1
<1>2. ASSUME NEW c \in Calls, Store(c)
      PROVE  n \in 1 .. Len(events'[h]) /\ events'[h][n] = events[h][n]
  <2>1. events \in [Calls -> Seq(Record)] /\ chain[c] \in Calls
    BY <1>2, StoreExtends DEF IInv, TypeOK
  <2>2. CASE h # chain[c]
    BY <1>2, <2>1, <2>2, StoreExtends
  <2>3. CASE h = chain[c]
    <3>1. events'[h] = Append(events[h], ChainEvent(h, c, Len(events[h])))
      BY <1>2, <2>1, <2>3, StoreExtends
    <3> QED
      BY <2>1, <3>1
  <2> QED
    BY <2>2, <2>3
<1> QED
  BY <1>1, <1>2, OnlyStoreExtends

\* What is stored is a record of a call.
LEMMA CallsOfRecords ==
  ASSUME IInv
  PROVE  /\ \A i \in 1 .. Len(log) : log[i] \in Record /\ log[i].call \in Calls
         /\ \A h \in Calls : \A n \in 1 .. Len(events[h]) :
              events[h][n] \in Record /\ events[h][n].call \in Calls
<1>1. \A e \in Record : e.call \in Calls
  BY DEF Record
<1>2. \A i \in 1 .. Len(log) : log[i] \in Record
  BY DEF IInv, TypeOK
<1>3. \A h \in Calls : \A n \in 1 .. Len(events[h]) : events[h][n] \in Record
  BY DEF IInv, TypeOK
<1> QED
  BY <1>1, <1>2, <1>3

LEMMA IsEventStays ==
  ASSUME IInv, [AnyNext]_vars, NEW e \in Record, IsEvent(e)
  PROVE  IsEvent(e)'
<1>1. e.chain \in Calls /\ e.sequence \in Nat /\ e.sequence + 1 \in 1 .. Len(events[e.chain])
  <2>1. e.sequence \in Nat
    BY DEF Record
  <2>2. e.chain \in Calls /\ e.sequence < Len(events[e.chain])
    BY DEF IsEvent
  <2>3. events[e.chain] \in Seq(Record)
    BY <2>2 DEF IInv, TypeOK
  <2>4. Len(events[e.chain]) \in Nat
    BY <2>3
  <2> QED
    BY <2>1, <2>2, <2>4
<1>2. /\ e.sequence + 1 \in 1 .. Len(events'[e.chain])
      /\ events'[e.chain][e.sequence + 1] = events[e.chain][e.sequence + 1]
  BY <1>1, EventsStay
<1>3. Len(events'[e.chain]) \in Nat
  BY <1>1, NextTypeOK DEF TypeOK
<1> QED
  BY <1>1, <1>2, <1>3 DEF IsEvent

\* What Store appends: the event, to the chain and to the call's record.
LEMMA Stored ==
  ASSUME IInv, NEW c \in Calls, Store(c)
  PROVE  \E e \in Record :
           /\ e.call = c /\ e.chain = chain[c] /\ e.sequence = Len(events[chain[c]])
           /\ chain[c] \in Calls
           /\ events' = [events EXCEPT ![chain[c]] = Append(@, e)]
           /\ out' = [out EXCEPT ![c] = e]
           /\ pc[c] = "store" /\ pc' = [pc EXCEPT ![c] = "release"] /\ log' = log
<1> DEFINE e == ChainEvent(chain[c], c, tail[c])
<1>1. chain[c] \in Calls /\ tail[c] = Len(events[chain[c]])
  BY DEF Store, IInv, TailInv, ChainInv
<1>2. e \in Record
  <2>1. events[chain[c]] \in Seq(Record)
    BY <1>1 DEF IInv, TypeOK
  <2>2. tail[c] # 0 => events[chain[c]][tail[c]] \in Record
    BY <1>1, <2>1
  <2> QED
    BY <1>1, <2>1, <2>2 DEF ChainEvent, Record
<1>3. e.call = c /\ e.chain = chain[c] /\ e.sequence = Len(events[chain[c]])
  BY <1>1 DEF ChainEvent
<1> HIDE DEF e
<1>4. /\ events' = [events EXCEPT ![chain[c]] = Append(@, e)]
      /\ out' = [out EXCEPT ![c] = e]
  BY DEF Store, e
<1> QED
  BY <1>1, <1>2, <1>3, <1>4 DEF Store, Goto

LEMMA StepOut ==
  ASSUME RInv, NEW c \in Calls, AnyStep(c)
  PROVE  OutInv'
<1>0. IInv /\ [AnyNext]_vars /\ TypeOK
  BY DEF RInv, IInv, AnyNext
<1>1. \A d \in Calls : \A e \in Record : out[d] = e /\ e.chain # NoCall => IsEvent(e)'
  BY <1>0, IsEventStays DEF RInv, OutInv
<1>2. ASSUME out' = out, pc[c] \in {"release", "emit"} \/ pc'[c] \notin {"done", "lost", "release"},
             pc[c] \in {"release", "emit"} => pc'[c] \in {"emit", "done"},
             pc[c] \notin {"done", "lost"}
      PROVE  OutInv'
  <2>1. \A d \in Calls : out'[d].chain # NoCall => IsEvent(out[d])'
    <3> TAKE d \in Calls
    <3>1. PICK e \in Record : out[d] = e
      BY <1>0 DEF TypeOK
    <3> QED BY <1>1, <1>2, <3>1
  <2>2. \A d \in Calls : out'[d].call = d
    BY <1>2 DEF RInv, OutInv
  <2>3. \A d \in Calls : pc'[d] \notin {"release", "emit", "done", "lost"}
                           => out'[d].chain = NoCall
    BY <1>0, <1>2, LogSteps DEF RInv, OutInv
  <2> QED BY <2>1, <2>2, <2>3 DEF OutInv
<1>3. CASE Before(c)
  BY <1>2, <1>3 DEF Before
<1>4. CASE Release(c) \/ Emit(c)
  BY <1>0, <1>2, <1>4 DEF Release, Emit, Goto, local, TypeOK
<1>5. CASE Store(c)
  <2>1. PICK e \in Record :
          /\ e.call = c /\ e.chain = chain[c] /\ e.sequence = Len(events[chain[c]])
          /\ chain[c] \in Calls
          /\ events' = [events EXCEPT ![chain[c]] = Append(@, e)]
          /\ out' = [out EXCEPT ![c] = e]
          /\ pc[c] = "store" /\ pc' = [pc EXCEPT ![c] = "release"]
    BY <1>0, <1>5, Stored
  <2>2. events'[chain[c]] = Append(events[chain[c]], e) /\ events[chain[c]] \in Seq(Record)
    BY <1>0, <2>1 DEF TypeOK
  <2>3. IsEvent(e)'
    BY <2>1, <2>2 DEF IsEvent
  <2>4. out'[c] = e /\ pc'[c] = "release"
    BY <1>0, <2>1 DEF TypeOK
  <2>5. \A d \in Calls \ {c} : out'[d] = out[d] /\ pc'[d] = pc[d]
    BY <1>0, LogSteps
  <2>6. ASSUME NEW d \in Calls, d # c PROVE out'[d].chain # NoCall => IsEvent(out[d])'
    <3>1. PICK f \in Record : out[d] = f /\ out'[d] = f
      BY <1>0, <2>5, <2>6 DEF TypeOK
    <3> QED BY <1>1, <3>1
  <2>7. IsEvent(out[c])'
    BY <2>3, <2>4
  <2> QED
    BY <2>1, <2>4, <2>5, <2>6, <2>7 DEF RInv, OutInv
<1> QED
  BY <1>0, <1>3, <1>4, <1>5, LogSteps

\* Emit writes one line.
LEMMA Emitted ==
  ASSUME RInv, NEW c \in Calls, Emit(c)
  PROVE  /\ Len(log') = Len(log) + 1 /\ Len(log) \in Nat
         /\ \A i \in 1 .. Len(log) : log'[i] = log[i]
         /\ log'[Len(log) + 1] = out[c] /\ out[c].call = c
         /\ out' = out /\ events' = events
         /\ pc[c] = "emit" /\ pc'[c] = "done"
<1>1. log \in Seq(Record) /\ out[c] \in Record /\ log' = Append(log, out[c])
  BY DEF Emit, RInv, IInv, TypeOK
<1>2. pc[c] = "emit" /\ pc'[c] = "done" /\ out' = out /\ events' = events
  BY DEF Emit, Goto, local, RInv, IInv, TypeOK
<1> QED
  BY <1>1, <1>2 DEF RInv, OutInv

LEMMA StepEvents ==
  ASSUME RInv, NEW c \in Calls, AnyStep(c)
  PROVE  EventInv'
<1>0. IInv /\ [AnyNext]_vars /\ TypeOK
  BY DEF RInv, IInv, AnyNext
<1>1. \A h \in Calls : \A n \in 1 .. Len(events[h]) :
        events[h][n] \in Record /\ Recorded(events[h][n])
  BY <1>0 DEF TypeOK, RInv, EventInv
<1>2. \A d \in Calls \ {c} : pc'[d] = pc[d] /\ out'[d] = out[d]
  BY <1>0, LogSteps
<1>3. CASE Before(c)
  <2>1. ASSUME NEW e \in Record, Recorded(e) PROVE Recorded(e)'
    <3>1. e.call \in Calls /\ e.call # c
      BY <1>3, <2>1 DEF Before, Recorded, Record
    <3> QED BY <1>2, <1>3, <2>1, <3>1 DEF Before, Recorded
  <2> QED BY <1>1, <1>3, <2>1 DEF Before, EventInv
<1>4. CASE Release(c)
  <2>1. pc[c] = "release" /\ pc'[c] = "emit" /\ UNCHANGED <<out, events, log>>
    BY <1>0, <1>4 DEF Release, Goto, local, TypeOK
  <2>2. ASSUME NEW e \in Record, Recorded(e) PROVE Recorded(e)'
    <3>1. e.call \in Calls
      BY DEF Record
    <3> QED BY <1>2, <2>1, <2>2, <3>1 DEF Recorded
  <2> QED BY <1>1, <2>1, <2>2 DEF EventInv
<1>5. CASE Emit(c)
  <2>1. /\ Len(log') = Len(log) + 1 /\ Len(log) \in Nat
        /\ \A i \in 1 .. Len(log) : log'[i] = log[i]
        /\ log'[Len(log) + 1] = out[c]
        /\ out' = out /\ events' = events
        /\ pc[c] = "emit" /\ pc'[c] = "done"
    BY <1>5, Emitted
  <2>2. ASSUME NEW e \in Record, Recorded(e) PROVE Recorded(e)'
    <3>1. e.call \in Calls
      BY DEF Record
    <3>2. (\E i \in 1 .. Len(log) : log[i] = e) => \E i \in 1 .. Len(log') : log'[i] = e
      <4> SUFFICES ASSUME NEW i \in 1 .. Len(log), log[i] = e
                   PROVE  \E j \in 1 .. Len(log') : log'[j] = e
        OBVIOUS
      <4>1. i \in 1 .. Len(log') /\ log'[i] = e
        BY <2>1
      <4> QED BY <4>1
    <3>3. CASE e.call = c
      <4>1. log'[Len(log) + 1] = e /\ Len(log) + 1 \in 1 .. Len(log')
        BY <2>1, <2>2, <3>3 DEF Recorded
      <4> QED BY <2>1, <3>3, <4>1 DEF Recorded
    <3>4. CASE e.call # c
      BY <1>2, <2>2, <3>1, <3>2, <3>4 DEF Recorded
    <3> QED BY <3>3, <3>4
  <2> QED BY <1>1, <2>1, <2>2 DEF EventInv
<1>6. CASE Store(c)
  <2>1. PICK x \in Record :
          /\ x.call = c /\ chain[c] \in Calls
          /\ events' = [events EXCEPT ![chain[c]] = Append(@, x)]
          /\ out' = [out EXCEPT ![c] = x]
          /\ pc[c] = "store" /\ pc' = [pc EXCEPT ![c] = "release"] /\ log' = log
    BY <1>0, <1>6, Stored
  <2>2. out'[c] = x /\ pc'[c] = "release"
    BY <1>0, <2>1 DEF TypeOK
  <2>3. ASSUME NEW e \in Record, Recorded(e) PROVE Recorded(e)'
    <3>1. e.call \in Calls /\ e.call # c
      BY <2>1, <2>3 DEF Recorded, Record
    <3> QED BY <1>2, <2>1, <2>3, <3>1 DEF Recorded
  <2>4. Recorded(x)'
    BY <2>1, <2>2 DEF Recorded
  <2>5. ASSUME NEW h \in Calls, NEW n \in 1 .. Len(events'[h])
        PROVE  \E e \in Record : e = events'[h][n] /\ Recorded(e)'
    <3>1. events[h] \in Seq(Record)
      BY <1>0 DEF TypeOK
    <3>2. CASE h # chain[c]
      <4>1. events'[h] = events[h]
        BY <1>0, <2>1, <3>2 DEF TypeOK
      <4>2. PICK e \in Record : e = events[h][n] /\ e = events'[h][n] /\ Recorded(e)
        BY <1>1, <4>1
      <4>3. Recorded(e)'
        BY <2>3, <4>2
      <4> QED BY <4>2, <4>3
    <3>3. CASE h = chain[c]
      <4>1. events'[h] = Append(events[h], x)
        BY <1>0, <2>1, <3>3 DEF TypeOK
      <4>2. CASE n \in 1 .. Len(events[h])
        <5>1. PICK e \in Record : e = events[h][n] /\ e = events'[h][n] /\ Recorded(e)
          BY <1>1, <3>1, <4>1, <4>2
        <5>2. Recorded(e)'
          BY <2>3, <5>1
        <5> QED BY <5>1, <5>2
      <4>3. CASE n = Len(events[h]) + 1
        <5>1. events'[h][n] = x
          BY <3>1, <4>1, <4>3
        <5> QED BY <2>4, <5>1
      <4> QED BY <3>1, <4>1, <4>2, <4>3
    <3> QED BY <3>2, <3>3
  <2>6. ASSUME NEW h \in Calls, NEW n \in 1 .. Len(events'[h])
        PROVE  Recorded(events[h][n])'
    <3>1. PICK e \in Record : e = events'[h][n] /\ Recorded(e)'
      BY <2>5
    <3> QED BY <3>1 DEF Recorded
  <2> QED BY <2>6 DEF EventInv
<1> QED
  BY <1>0, <1>3, <1>4, <1>5, <1>6, LogSteps

LEMMA StepLines ==
  ASSUME RInv, NEW c \in Calls, AnyStep(c)
  PROVE  LineInv'
<1>0. IInv /\ TypeOK
  BY DEF RInv, IInv
<1>1. \A d \in Calls \ {c} : pc'[d] = pc[d] /\ out'[d] = out[d]
  BY <1>0, LogSteps
<1>2. \A i \in 1 .. Len(log) : log[i].call \in Calls
  BY <1>0, CallsOfRecords
<1>3. CASE Before(c) \/ Store(c) \/ Release(c)
  <2>1. log' = log /\ pc[c] # "done"
    BY <1>3 DEF Before, Store, Release
  <2>2. \A i \in 1 .. Len(log) : log[i].call # c
    BY <2>1 DEF RInv, LineInv
  <2> QED
    BY <1>1, <1>2, <2>1, <2>2 DEF RInv, LineInv
<1>4. CASE Emit(c)
  <2>1. /\ Len(log') = Len(log) + 1 /\ Len(log) \in Nat
        /\ \A i \in 1 .. Len(log) : log'[i] = log[i]
        /\ log'[Len(log) + 1] = out[c] /\ out[c].call = c
        /\ out' = out /\ pc[c] = "emit" /\ pc'[c] = "done"
    BY <1>4, Emitted
  <2>2. \A i \in 1 .. Len(log) : log[i].call # c
    BY <2>1 DEF RInv, LineInv
  <2>3. ASSUME NEW i \in 1 .. Len(log')
        PROVE  pc'[log'[i].call] = "done" /\ log'[i] = out'[log'[i].call]
    <3>1. CASE i \in 1 .. Len(log)
      BY <1>1, <1>2, <2>1, <2>2, <3>1 DEF RInv, LineInv
    <3>2. CASE i = Len(log) + 1
      BY <2>1, <3>2
    <3> QED BY <2>1, <3>1, <3>2
  <2>4. ASSUME NEW i \in 1 .. Len(log'), NEW j \in 1 .. Len(log'), log'[i].call = log'[j].call
        PROVE  i = j
    <3>1. CASE i \in 1 .. Len(log) /\ j \in 1 .. Len(log)
      BY <2>1, <2>4, <3>1 DEF RInv, LineInv
    <3>2. CASE i \notin 1 .. Len(log) \/ j \notin 1 .. Len(log)
      <4>1. \A k \in 1 .. Len(log') : k \in 1 .. Len(log) \/ k = Len(log) + 1
        BY <2>1
      <4> QED BY <2>1, <2>2, <2>4, <3>2, <4>1
    <3> QED BY <3>1, <3>2
  <2> QED
    BY <2>3, <2>4 DEF LineInv
<1> QED
  BY <1>0, <1>3, <1>4, LogSteps

LEMMA NextRInv == RInv /\ [AnyNext]_vars => RInv'
<1> SUFFICES ASSUME RInv, [AnyNext]_vars PROVE RInv'
  OBVIOUS
<1>0. IInv'
  BY NextIInv DEF RInv
<1>1. ASSUME NEW c \in Calls, AnyStep(c) PROVE RInv'
  BY <1>0, <1>1, StepOut, StepEvents, StepLines DEF RInv
<1>2. CASE SetEnv \/ UNCHANGED vars
  BY <1>0, <1>2 DEF SetEnv, vars, local, RInv, OutInv, IsEvent, EventInv, Recorded, LineInv
<1>3. CASE AnyRestart
  <2>1. UNCHANGED <<out, events, log>>
    BY <1>3 DEF AnyRestart, local
  <2>2. \A c \in Calls : pc'[c] = IF Running(c) THEN "lost" ELSE pc[c]
    BY <1>3 DEF AnyRestart
  <2>3. OutInv'
    BY <2>1, <2>2 DEF RInv, OutInv, IsEvent, Running
  <2>4. \A h \in Calls : \A n \in 1 .. Len(events[h]) : events[h][n].call \in Calls
    BY CallsOfRecords DEF RInv
  <2>5. EventInv'
    BY <2>1, <2>2, <2>4 DEF RInv, EventInv, Recorded, Running
  <2>6. \A i \in 1 .. Len(log) : log[i].call \in Calls
    BY CallsOfRecords DEF RInv
  <2>7. LineInv'
    BY <2>1, <2>2, <2>6 DEF RInv, LineInv, Running
  <2> QED BY <1>0, <2>3, <2>5, <2>7 DEF RInv
<1> QED
  BY <1>1, <1>2, <1>3 DEF AnyNext

LEMMA InitRInv == Init => RInv
<1> SUFFICES ASSUME Init PROVE RInv
  OBVIOUS
<1>1. OutInv
  BY DEF Init, OutInv, Plain
<1>2. EventInv /\ LineInv
  BY DEF Init, EventInv, LineInv
<1> QED
  BY <1>1, <1>2, InitIInv DEF RInv

LEMMA LogMatches == RInv => LogMatchesChains
<1> SUFFICES ASSUME RInv PROVE LogMatchesChains
  OBVIOUS
<1>0. log \in Seq(Record) /\ events \in [Calls -> Seq(Record)]
  BY DEF RInv, IInv, TypeOK
<1>1. ASSUME NEW i \in DOMAIN log, log[i].chain # NoCall
      PROVE  /\ log[i].sequence < Len(events[log[i].chain])
             /\ log[i] = events[log[i].chain][log[i].sequence + 1]
  <2>1. log[i].call \in Calls /\ log[i] = out[log[i].call]
    BY <1>0, CallsOfRecords DEF RInv, LineInv
  <2>2. IsEvent(log[i])
    BY <1>1, <2>1 DEF RInv, OutInv
  <2> QED BY <2>2 DEF IsEvent
<1>2. \A i, j \in DOMAIN log : log[i].call = log[j].call => i = j
  BY <1>0 DEF RInv, LineInv
<1>3. ASSUME NEW h \in Calls, NEW n \in DOMAIN events[h]
      PROVE  \/ pc[events[h][n].call] \in {"release", "emit", "lost"}
             \/ \E i \in DOMAIN log : log[i] = events[h][n]
  <2>1. n \in 1 .. Len(events[h]) /\ DOMAIN log = 1 .. Len(log)
    BY <1>0
  <2>2. Recorded(events[h][n])
    BY <2>1 DEF RInv, EventInv
  <2> QED BY <2>1, <2>2 DEF Recorded
<1> QED
  BY <1>1, <1>2, <1>3 DEF LogMatchesChains

(***************************************************************************)
(* The log and the chains agree, for any number of threads and across key  *)
(* changes and restarts: audit_event logs what append returned.            *)
(***************************************************************************)
THEOREM LogAgrees == Spec => []LogMatchesChains
<1>1. RInv /\ [Next]_vars => RInv'
  BY NextRInv, NextIsAny
<1> QED
  BY <1>1, InitRInv, LogMatches, PTL DEF Spec
=============================================================================
