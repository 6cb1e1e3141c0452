----------------------- MODULE AuditDeploymentsProofs -----------------------
(***************************************************************************)
(* Proofs about AuditDeployments for every set of calls and keys: every    *)
(* deployment keeps what AuditChainProofs shows of a chain and its log;    *)
(* the event loop records under the key a call read and its log falls into *)
(* runs of chains; the steady process leaves one complete chain.           *)
(***************************************************************************)
EXTENDS AuditDeployments, AuditChainProofs, FiniteSetTheorems

(***************************************************************************)
(* The event loop.  One call runs at a time; the key the state remembers   *)
(* is the one its chain was created with; and unless a call is between its *)
(* append and its line, the last line is the last event of the chain.      *)
(***************************************************************************)
OneRunning == \A c, d \in Calls : Running(c) /\ Running(d) => c = d

Alone(c) == \A d \in Calls \ {c} : ~ Running(d)

\* The n-th event of chain h, if there is one, is the last line.
Written(h, n) == n = 0 \/ (log # <<>> /\ log[Len(log)] = events[h][n])

KeyRemembered ==
  stateChain # NoCall /\ (\A c \in Calls : pc[c] # "setKey")
    => stateKey = secret[stateChain]

ChainWritten ==
  stateChain # NoCall /\ (\A c \in Calls : pc[c] \notin {"release", "emit"})
    => Written(stateChain, Len(events[stateChain]))

OnlyCreatedExtended == \A h \in Calls : events[h] # <<>> => secret[h] # NoKey

UnderKey(c) ==
  IF key[c] = NoKey THEN out[c].chain = NoCall
                    ELSE out[c].chain # NoCall /\ secret[out[c].chain] = key[c]

\* What the call that runs knows of the state where it is.
LoopCall(c) ==
  /\ pc[c] \in {"clearChain", "clearKey"} => key[c] = NoKey
  /\ pc[c] = "clearKey" => stateChain = NoCall
  /\ pc[c] = "checkKey" => stateChain # NoCall
  /\ pc[c] \in {"setKey", "getChain"} => stateChain # NoCall /\ secret[stateChain] = key[c]
  /\ pc[c] \in {"acquire", "readTail", "store"} =>
       chain[c] = stateChain /\ stateChain # NoCall /\ secret[stateChain] = key[c]
  /\ pc[c] \in {"release", "emit"} =>
       /\ out[c].chain = stateChain
       /\ stateChain # NoCall => /\ Len(events[stateChain]) = out[c].sequence + 1
                                 /\ Written(stateChain, out[c].sequence)
  /\ pc[c] \in {"release", "emit", "done"} => UnderKey(c)

LoopInv ==
  /\ OneRunning
  /\ KeyRemembered
  /\ ChainWritten
  /\ OnlyCreatedExtended
  /\ \A c \in Calls : LoopCall(c)

\* A call of the event loop begins when no other runs.
LoopNext ==
  \/ \E c \in Calls : AnyStep(c) /\ Alone(c)
  \/ SetEnv
  \/ AnyRestart

LEMMA LoopNextIsAny == OneRunning /\ Loop!Next => LoopNext
<1> SUFFICES ASSUME OneRunning, Loop!Next PROVE LoopNext
  OBVIOUS
<1>1. CASE Loop!SetEnv \/ Loop!Restart
  BY <1>1 DEF Loop!SetEnv, Loop!Restart, Loop!state, Loop!local, Loop!Running,
     SetEnv, AnyRestart, state, local, Running, LoopNext
<1>2. ASSUME NEW c \in Calls, Loop!Step(c) PROVE LoopNext
  <2>1. AnyStep(c)
    BY <1>2 DEF Loop!Step, Loop!ReadKey, Loop!ClearChain, Loop!ClearKey,
       Loop!CheckChain, Loop!CheckKey, Loop!NewChain, Loop!SetKey, Loop!GetChain,
       Loop!Acquire, Loop!ReadTail, Loop!Store, Loop!Release, Loop!Emit, Loop!Goto,
       Loop!ChainEvent, Loop!state, Loop!local,
       AnyStep, Begins, ClearChain, ClearKey, CheckChain, CheckKey, NewChain,
       SetKey, GetChain, Acquire, ReadTail, Store, Release, Emit, Goto, ChainEvent,
       state, local
  <2>2. CASE Loop!ReadKey(c)
    <3> DEFINE S == {d \in Calls : Running(d)}
    <3>1. Cardinality(S) < 1
      BY <2>2 DEF Loop!Cardinality, Cardinality, Loop!ReadKey, Loop!MayStart, Loop!Running, Running
    <3>2. ASSUME NEW d \in S PROVE FALSE
      <4>1. S = {d}
        BY <3>2 DEF OneRunning
      <4> HIDE DEF S
      <4>2. Cardinality(S) = 1
        BY <4>1, FS_Singleton
      <4> QED BY <3>1, <4>2
    <3>3. Alone(c)
      BY <3>2 DEF Alone
    <3> QED BY <2>1, <3>3 DEF LoopNext
  <2>3. CASE ~ Loop!ReadKey(c)
    <3>1. Running(c)
      BY <1>2, <2>3 DEF Loop!Step, Loop!ClearChain, Loop!ClearKey, Loop!CheckChain,
         Loop!CheckKey, Loop!NewChain, Loop!SetKey, Loop!GetChain, Loop!Acquire,
         Loop!ReadTail, Loop!Store, Loop!Release, Loop!Emit, Running
    <3>2. Alone(c)
      BY <3>1 DEF OneRunning, Alone
    <3> QED BY <2>1, <3>2 DEF LoopNext
  <2> QED BY <2>2, <2>3
<1> QED
  BY <1>1, <1>2 DEF Loop!Next

(***************************************************************************)
(* What a step of one call leaves alone: the others keep their place, key, *)
(* chain and record; events and lines change in Store and Emit only, a     *)
(* chain is created by NewChain only, and it is the call's own.            *)
(***************************************************************************)
LEMMA OthersStay ==
  ASSUME IInv, NEW c \in Calls, AnyStep(c)
  PROVE  /\ envKey' = envKey
         /\ \A d \in Calls \ {c} : /\ pc'[d] = pc[d] /\ key'[d] = key[d]
                                   /\ chain'[d] = chain[d] /\ out'[d] = out[d]
         /\ \A h \in Calls \ {c} : secret'[h] = secret[h]
         /\ secret[c] # NoKey => secret'[c] = secret[c]
<1> USE DEF IInv, TypeOK, ChainInv, Goto, state, local
<1>1. CASE Begins(c) \/ ClearChain(c) \/ ClearKey(c)
  BY <1>1 DEF Begins, ClearChain, ClearKey
<1>2. CASE CheckChain(c) \/ CheckKey(c) \/ NewChain(c)
  BY <1>2 DEF CheckChain, CheckKey, NewChain
<1>3. CASE SetKey(c) \/ GetChain(c) \/ Acquire(c)
  BY <1>3 DEF SetKey, GetChain, Acquire
<1>4. CASE ReadTail(c) \/ Release(c) \/ Emit(c)
  BY <1>4 DEF ReadTail, Release, Emit
<1>5. CASE Store(c)
  BY <1>5 DEF Store
<1> QED
  BY <1>1, <1>2, <1>3, <1>4, <1>5 DEF AnyStep

\* No event is appended to a chain that was not created.
LEMMA StepCreated ==
  ASSUME IInv, OnlyCreatedExtended, NEW c \in Calls, AnyStep(c)
  PROVE  OnlyCreatedExtended'
<1>1. ASSUME NEW h \in Calls, secret[h] # NoKey PROVE secret'[h] # NoKey
  BY <1>1, OthersStay
<1>2. CASE Store(c)
  <2>1. \A h \in Calls : h # chain[c] => events'[h] = events[h]
    BY <1>2 DEF Store, IInv, TypeOK
  <2>2. secret[chain[c]] # NoKey /\ chain[c] \in Calls
    BY <1>2 DEF Store, IInv, ChainInv
  <2> QED BY <1>1, <2>1, <2>2 DEF OnlyCreatedExtended
<1>3. CASE events' = events
  BY <1>1, <1>3 DEF OnlyCreatedExtended
<1> QED
  BY <1>2, <1>3, LogSteps DEF Before, Release, Emit, local

\* A call that returned keeps the chain it recorded in.
LEMMA UnderKeyStays ==
  ASSUME RInv, NEW c \in Calls, AnyStep(c), NEW d \in Calls \ {c}, UnderKey(d)
  PROVE  UnderKey(d)'
<1>1. out[d] \in Record /\ key'[d] = key[d] /\ out'[d] = out[d]
  BY OthersStay DEF RInv, IInv, TypeOK
<1>2. out[d].chain \in Calls \cup {NoCall}
  BY <1>1 DEF Record
<1>3. \A h \in Calls : secret[h] # NoKey => secret'[h] = secret[h]
  BY OthersStay DEF RInv
<1> QED
  BY <1>1, <1>2, <1>3 DEF UnderKey

\* The state and the place after a step of the event loop, action by action.
LEMMA LoopStepInv ==
  ASSUME RInv, LoopInv, NEW c \in Calls, AnyStep(c), Alone(c)
  PROVE  LoopInv'
<1>0. /\ IInv /\ TypeOK /\ OutInv /\ KeyRemembered /\ ChainWritten
      /\ OnlyCreatedExtended /\ LoopCall(c)
      /\ \A d \in Calls \ {c} : pc[d] \in {"start", "done", "lost"}
  BY DEF RInv, IInv, LoopInv, Alone, Running
<1>1. /\ \A d \in Calls \ {c} : pc'[d] = pc[d]
      /\ envKey' = envKey
  BY <1>0, OthersStay
<1>2. OneRunning'
  BY <1>0, <1>1 DEF OneRunning, Running
<1>3. OnlyCreatedExtended'
  BY <1>0, StepCreated
<1>4. \A d \in Calls \ {c} : LoopCall(d)'
  <2> TAKE d \in Calls \ {c}
  <2>1. pc'[d] \in {"start", "done", "lost"} /\ (pc'[d] = "done" => UnderKey(d))
    BY <1>0, <1>1 DEF LoopInv, LoopCall
  <2>2. pc'[d] = "done" => UnderKey(d)'
    BY <2>1, UnderKeyStays
  <2> QED BY <2>1, <2>2 DEF LoopCall
<1> SUFFICES LoopCall(c)' /\ KeyRemembered' /\ ChainWritten'
  BY <1>2, <1>3, <1>4 DEF LoopInv
<1>5. CASE Begins(c) \/ ClearChain(c)
  BY <1>0, <1>1, <1>5 DEF Begins, ClearChain, TypeOK, Goto, state, local, LoopCall,
     KeyRemembered, ChainWritten, Written
<1>6. CASE ClearKey(c)
  BY <1>0, <1>1, <1>6 DEF ClearKey, OutInv, TypeOK, Goto, state, local, LoopCall,
     UnderKey, KeyRemembered, ChainWritten, Written
<1>7. CASE CheckChain(c) \/ CheckKey(c)
  BY <1>0, <1>1, <1>7 DEF CheckChain, CheckKey, TypeOK, Goto, state, local, LoopCall,
     KeyRemembered, ChainWritten, Written
<1>8. CASE NewChain(c)
  <2>1. events[c] = <<>> /\ stateChain' = c /\ secret'[c] = key[c]
    BY <1>0, <1>8 DEF NewChain, IInv, TypeOK, ChainInv, OnlyCreatedExtended
  <2>2. pc'[c] = "setKey" /\ events' = events /\ key' = key
    BY <1>0, <1>8 DEF NewChain, TypeOK, Goto, local
  <2>3. Written(c, Len(events[c]))'
    BY <2>1, <2>2 DEF Written
  <2>4. ChainWritten'
    BY <2>1, <2>3 DEF ChainWritten
  <2> QED
    BY <2>1, <2>2, <2>4, CallsAssumption DEF LoopCall, KeyRemembered
<1>9. CASE SetKey(c) \/ GetChain(c) \/ Acquire(c) \/ ReadTail(c)
  BY <1>0, <1>1, <1>9 DEF SetKey, GetChain, Acquire, ReadTail, TypeOK, Goto, state,
     local, LoopCall, KeyRemembered, ChainWritten, Written
<1>10. CASE Store(c)
  <2>1. PICK e \in Record :
          /\ e.call = c /\ e.chain = chain[c] /\ e.sequence = Len(events[chain[c]])
          /\ chain[c] \in Calls
          /\ events' = [events EXCEPT ![chain[c]] = Append(@, e)]
          /\ out' = [out EXCEPT ![c] = e]
          /\ pc[c] = "store" /\ pc' = [pc EXCEPT ![c] = "release"] /\ log' = log
    BY <1>0, <1>10, Stored
  <2>2. /\ chain[c] = stateChain /\ secret[stateChain] = key[c]
        /\ secret[stateChain] # NoKey /\ stateChain \in Calls /\ stateChain # NoCall
    BY <1>0, <2>1, CallsAssumption DEF LoopCall, IInv, ChainInv
  <2>3. stateChain' = stateChain /\ stateKey' = stateKey /\ secret' = secret /\ key' = key
    BY <1>10 DEF Store, state
  <2>4. pc'[c] = "release" /\ out'[c] = e
    BY <1>0, <2>1 DEF TypeOK
  <2>5. /\ events[stateChain] \in Seq(Record)
        /\ events'[stateChain] = Append(events[stateChain], e)
    BY <1>0, <2>1, <2>2 DEF TypeOK
  <2>6. Written(stateChain, Len(events[stateChain]))
    BY <1>0, <2>1, <2>2 DEF ChainWritten
  <2>7. Written(stateChain, Len(events[stateChain])) =>
          \/ Len(events[stateChain]) = 0
          \/ log' # <<>> /\ log'[Len(log')] = events'[stateChain][Len(events[stateChain])]
    BY <2>1, <2>5 DEF Written
  <2>8. Len(events'[stateChain']) = Len(events[stateChain]) + 1
    BY <2>3, <2>5
  <2>9. LoopCall(c)'
    BY <2>1, <2>2, <2>3, <2>4, <2>6, <2>7, <2>8 DEF LoopCall, Written, UnderKey
  <2>10. KeyRemembered'
    BY <1>0, <1>1, <2>1, <2>3, <2>4 DEF KeyRemembered
  <2>11. ChainWritten'
    BY <2>4 DEF ChainWritten
  <2> QED BY <2>9, <2>10, <2>11
<1>11. CASE Release(c)
  BY <1>0, <1>1, <1>11 DEF Release, TypeOK, Goto, state, local, LoopCall, UnderKey,
     KeyRemembered, ChainWritten, Written
<1>12. CASE Emit(c)
  <2>1. /\ Len(log') = Len(log) + 1 /\ Len(log) \in Nat
        /\ log'[Len(log) + 1] = out[c]
        /\ out' = out /\ events' = events
        /\ pc[c] = "emit" /\ pc'[c] = "done"
    BY <1>12, Emitted
  <2>2. UNCHANGED <<stateChain, stateKey, secret, key>>
    BY <1>12 DEF Emit, state, local
  <2>3. LoopCall(c)'
    BY <1>0, <2>1, <2>2 DEF LoopCall, UnderKey
  <2>4. KeyRemembered'
    BY <1>0, <1>1, <2>1, <2>2 DEF KeyRemembered
  <2>5. stateChain # NoCall => Written(stateChain, Len(events[stateChain]))'
    <3> SUFFICES ASSUME stateChain # NoCall
                 PROVE  Written(stateChain, Len(events[stateChain]))'
      OBVIOUS
    <3>1. out[c].chain = stateChain /\ Len(events[stateChain]) = out[c].sequence + 1
      BY <1>0, <2>1 DEF LoopCall
    <3>2. out[c] = events[stateChain][Len(events[stateChain])]
      BY <1>0, <3>1 DEF OutInv, IsEvent
    <3>3. log' # <<>>
      BY <2>1
    <3> QED BY <2>1, <2>2, <3>2, <3>3 DEF Written
  <2> QED BY <2>2, <2>3, <2>4, <2>5 DEF ChainWritten
<1> QED
  BY <1>5, <1>6, <1>7, <1>8, <1>9, <1>10, <1>11, <1>12 DEF AnyStep

LEMMA LoopNextInv == RInv /\ LoopInv /\ [LoopNext]_vars => LoopInv'
<1> SUFFICES ASSUME RInv, LoopInv, [LoopNext]_vars PROVE LoopInv'
  OBVIOUS
<1>1. ASSUME NEW c \in Calls, AnyStep(c), Alone(c) PROVE LoopInv'
  BY <1>1, LoopStepInv
<1>2. CASE SetEnv \/ UNCHANGED vars
  <2>1. UNCHANGED <<stateChain, stateKey, pc, key, chain, out, secret, events, log>>
    BY <1>2 DEF SetEnv, vars, state, local
  <2> QED
    BY <2>1 DEF LoopInv, OneRunning, Running, KeyRemembered, ChainWritten, Written,
       OnlyCreatedExtended, LoopCall, UnderKey
<1>3. CASE AnyRestart
  <2>1. /\ stateChain' = NoCall /\ UNCHANGED <<key, chain, out, secret, events, log>>
        /\ \A c \in Calls : /\ pc'[c] \in {"start", "done", "lost"}
                            /\ pc'[c] = "done" => pc[c] = "done"
    BY <1>3 DEF AnyRestart, local, Running
  <2>2. \A c \in Calls : LoopCall(c)'
    BY <2>1 DEF LoopInv, LoopCall, UnderKey
  <2> QED
    BY <2>1, <2>2 DEF LoopInv, OneRunning, Running, KeyRemembered, ChainWritten,
       OnlyCreatedExtended
<1> QED
  BY <1>1, <1>2, <1>3 DEF LoopNext

-----------------------------------------------------------------------------
(***************************************************************************)
(* The steady process.  The first call creates the one chain before any    *)
(* other begins; from the startup record on the state does not change, and *)
(* every call appends to that chain.                                       *)
(***************************************************************************)
Serving(c) == pc[c] \in {"getChain", "acquire", "readTail", "store", "release", "emit"}

SteadyCall(c) ==
  /\ pc[c] \notin {"clearChain", "clearKey", "lost"}
  /\ pc[c] # "start" => key[c] = envKey
  /\ pc[c] = "checkChain" /\ ~ booted => stateChain = NoCall
  /\ pc[c] = "checkKey" => booted
  /\ pc[c] = "newChain" => ~ booted /\ stateChain = NoCall
  /\ pc[c] = "setKey" => ~ booted /\ stateChain # NoCall
  /\ Serving(c) => stateChain # NoCall /\ stateKey = envKey
  /\ pc[c] \in {"acquire", "readTail", "store"} => chain[c] # NoCall
  /\ pc[c] \in {"release", "emit", "done"} => out[c].chain # NoCall

OneChain ==
  \A h \in Calls : secret[h] # NoKey => h = stateChain /\ secret[h] = envKey

Booting ==
  /\ booted => stateChain # NoCall /\ stateKey = envKey
  /\ ~ booted => OneRunning /\ \A c \in Calls : pc[c] # "done"
  /\ ~ booted /\ (\A c \in Calls : ~ Running(c)) => stateChain = NoCall

SteadyInv ==
  /\ envKey # NoKey
  /\ OneChain
  /\ OnlyCreatedExtended
  /\ Booting
  /\ \A c \in Calls : SteadyCall(c)

\* Until the startup record is out a call begins only when no other runs.
CallSteps ==
  \E c \in Calls : AnyStep(c) /\ (booted \/ Alone(c))

LEMMA SteadyNextIsAny == Booting /\ Steady!SteadyNext => CallSteps
<1> SUFFICES ASSUME Booting, NEW c \in Calls, Steady!Step(c)
             PROVE  AnyStep(c) /\ (booted \/ Alone(c))
  BY DEF Steady!SteadyNext, CallSteps
<1>1. AnyStep(c)
  BY DEF Steady!Step, Steady!ReadKey, Steady!ClearChain, Steady!ClearKey,
     Steady!CheckChain, Steady!CheckKey, Steady!NewChain, Steady!SetKey,
     Steady!GetChain, Steady!Acquire, Steady!ReadTail, Steady!Store, Steady!Release,
     Steady!Emit, Steady!Goto, Steady!ChainEvent, Steady!state, Steady!local,
     AnyStep, Begins, ClearChain, ClearKey, CheckChain, CheckKey, NewChain, SetKey,
     GetChain, Acquire, ReadTail, Store, Release, Emit, Goto, ChainEvent, state, local
<1>2. CASE Steady!ReadKey(c)
  BY <1>1, <1>2 DEF Steady!ReadKey, Steady!MayStart, Steady!Running, Running, Alone
<1>3. CASE ~ Steady!ReadKey(c)
  <2>1. Running(c)
    BY <1>3 DEF Steady!Step, Steady!ClearChain, Steady!ClearKey, Steady!CheckChain,
       Steady!CheckKey, Steady!NewChain, Steady!SetKey, Steady!GetChain,
       Steady!Acquire, Steady!ReadTail, Steady!Store, Steady!Release, Steady!Emit,
       Running
  <2> QED BY <1>1, <2>1 DEF Booting, OneRunning, Alone
<1> QED
  BY <1>1, <1>2, <1>3

\* A step that leaves the state alone keeps what the other calls know.
LEMMA SteadyOthers ==
  ASSUME IInv, NEW c \in Calls, AnyStep(c), UNCHANGED <<stateChain, stateKey, booted>>,
         NEW d \in Calls \ {c}, SteadyCall(d)
  PROVE  SteadyCall(d)'
BY OthersStay DEF SteadyCall, Serving

LEMMA SteadyStepInv ==
  ASSUME RInv, SteadyInv, NEW c \in Calls, AnyStep(c), booted \/ Alone(c)
  PROVE  SteadyInv'
<1>0. /\ IInv /\ TypeOK /\ OutInv /\ envKey # NoKey /\ OneChain /\ Booting
      /\ OnlyCreatedExtended /\ SteadyCall(c)
      /\ \A d \in Calls \ {c} : SteadyCall(d)
  BY DEF RInv, IInv, SteadyInv
<1>1. /\ \A d \in Calls \ {c} : /\ pc'[d] = pc[d] /\ key'[d] = key[d]
                                /\ chain'[d] = chain[d] /\ out'[d] = out[d]
      /\ envKey' = envKey
  BY <1>0, OthersStay
<1>2. OnlyCreatedExtended'
  BY <1>0, StepCreated
<1>3. ~ booted => \A d \in Calls \ {c} : pc[d] = "start"
  BY <1>0 DEF Alone, Running, Booting, SteadyCall
<1> SUFFICES OneChain' /\ Booting' /\ SteadyCall(c)' /\ \A d \in Calls \ {c} : SteadyCall(d)'
  BY <1>0, <1>1, <1>2 DEF SteadyInv
<1>4. ASSUME UNCHANGED <<stateChain, stateKey, booted>>
      PROVE  \A d \in Calls \ {c} : SteadyCall(d)'
  BY <1>0, <1>4, SteadyOthers
<1>5. ASSUME UNCHANGED <<stateChain, stateKey, booted, secret>>,
             ~ booted => pc'[c] # "done" /\ (Running(c)' \/ stateChain = NoCall)
      PROVE  OneChain' /\ Booting'
  <2>1. OneChain'
    BY <1>0, <1>1, <1>5 DEF OneChain
  <2>2. ~ booted => OneRunning' /\ \A d \in Calls : pc'[d] # "done"
    BY <1>1, <1>3, <1>5 DEF OneRunning, Running
  <2> QED BY <1>0, <1>1, <1>5, <2>1, <2>2 DEF Booting
<1>6. CASE Begins(c) \/ CheckChain(c) \/ CheckKey(c)
  <2>1. UNCHANGED <<stateChain, stateKey, booted, secret>>
    BY <1>6 DEF Begins, CheckChain, CheckKey, state, local
  <2>2. pc'[c] # "done" /\ Running(c)'
    BY <1>0, <1>6 DEF Begins, CheckChain, CheckKey, Goto, Running, TypeOK
  <2>3. SteadyCall(c)'
    BY <1>0, <1>3, <1>6 DEF Begins, CheckChain, CheckKey, Goto, TypeOK, state, local,
       SteadyCall, Serving, Booting, Running
  <2> QED BY <1>4, <1>5, <2>1, <2>2, <2>3
<1>7. CASE ClearChain(c) \/ ClearKey(c)
  BY <1>0, <1>7 DEF ClearChain, ClearKey, SteadyCall
<1>8. CASE NewChain(c)
  <2>1. /\ ~ booted /\ stateChain = NoCall /\ stateChain' = c /\ key[c] = envKey
        /\ secret' = [secret EXCEPT ![c] = key[c]] /\ pc'[c] = "setKey"
        /\ UNCHANGED <<booted, key>>
    BY <1>0, <1>8, CallsAssumption DEF NewChain, SteadyCall, TypeOK, Goto, local
  <2>2. \A h \in Calls : secret[h] = NoKey
    BY <1>0, <2>1, CallsAssumption DEF OneChain
  <2>3. OneChain'
    BY <1>0, <1>1, <2>1, <2>2 DEF OneChain, TypeOK
  <2>4. Booting'
    BY <1>1, <1>3, <2>1 DEF Booting, OneRunning, Running
  <2>5. SteadyCall(c)'
    BY <1>1, <2>1, CallsAssumption DEF SteadyCall, Serving
  <2>6. \A d \in Calls \ {c} : SteadyCall(d)'
    BY <1>1, <1>3, <2>1 DEF SteadyCall, Serving
  <2> QED BY <2>3, <2>4, <2>5, <2>6
<1>9. CASE SetKey(c)
  <2>1. /\ ~ booted /\ stateChain # NoCall /\ stateKey' = envKey /\ key[c] = envKey
        /\ pc'[c] = "getChain" /\ UNCHANGED <<booted, key, stateChain, secret>>
    BY <1>0, <1>9 DEF SetKey, SteadyCall, TypeOK, Goto, local
  <2>2. OneChain'
    BY <1>0, <1>1, <2>1 DEF OneChain
  <2>3. Booting'
    BY <1>1, <1>3, <2>1 DEF Booting, OneRunning, Running
  <2>4. SteadyCall(c)'
    BY <1>1, <2>1 DEF SteadyCall, Serving
  <2>5. \A d \in Calls \ {c} : SteadyCall(d)'
    BY <1>1, <1>3, <2>1 DEF SteadyCall, Serving
  <2> QED BY <2>2, <2>3, <2>4, <2>5
<1>10. CASE GetChain(c) \/ Acquire(c) \/ ReadTail(c) \/ Release(c)
  <2>1. UNCHANGED <<stateChain, stateKey, booted, secret>>
    BY <1>10 DEF GetChain, Acquire, ReadTail, Release, state, local
  <2>2. pc'[c] # "done" /\ Running(c)'
    BY <1>0, <1>10 DEF GetChain, Acquire, ReadTail, Release, Goto, Running, TypeOK
  <2>3. SteadyCall(c)'
    BY <1>0, <1>1, <1>10 DEF GetChain, Acquire, ReadTail, Release, Goto, TypeOK, state,
       local, SteadyCall, Serving
  <2> QED BY <1>4, <1>5, <2>1, <2>2, <2>3
<1>11. CASE Store(c)
  <2>1. PICK e \in Record :
          /\ e.chain = chain[c] /\ chain[c] \in Calls
          /\ out' = [out EXCEPT ![c] = e]
          /\ pc[c] = "store" /\ pc' = [pc EXCEPT ![c] = "release"]
    BY <1>0, <1>11, Stored
  <2>2. UNCHANGED <<stateChain, stateKey, booted, secret, key, chain>>
    BY <1>11 DEF Store, state
  <2>3. out'[c].chain # NoCall /\ pc'[c] = "release"
    BY <1>0, <2>1, CallsAssumption DEF TypeOK
  <2>4. SteadyCall(c)'
    BY <1>0, <1>1, <2>1, <2>2, <2>3 DEF SteadyCall, Serving
  <2>5. pc'[c] # "done" /\ Running(c)'
    BY <2>3 DEF Running
  <2> QED BY <1>4, <1>5, <2>2, <2>4, <2>5
<1>12. CASE Emit(c)
  <2>1. /\ UNCHANGED <<stateChain, stateKey, secret, key, chain, out>>
        /\ booted' = TRUE /\ pc[c] = "emit" /\ pc'[c] = "done"
    BY <1>0, <1>12 DEF Emit, TypeOK, Goto, state, local
  <2>2. stateChain # NoCall /\ stateKey = envKey
    BY <1>0, <2>1 DEF SteadyCall, Serving
  <2>3. OneChain'
    BY <1>0, <1>1, <2>1 DEF OneChain
  <2>4. Booting'
    BY <1>1, <2>1, <2>2 DEF Booting
  <2>5. SteadyCall(c)'
    BY <1>0, <1>1, <2>1 DEF SteadyCall, Serving
  <2>6. CASE booted
    <3>1. UNCHANGED <<stateChain, stateKey, booted>>
      BY <2>1, <2>6, <1>0 DEF TypeOK
    <3> QED BY <1>4, <2>3, <2>4, <2>5, <3>1
  <2>7. CASE ~ booted
    <3>1. \A d \in Calls \ {c} : SteadyCall(d)'
      BY <1>1, <1>3, <2>7 DEF SteadyCall, Serving
    <3> QED BY <2>3, <2>4, <2>5, <3>1
  <2> QED BY <2>6, <2>7
<1> QED
  BY <1>6, <1>7, <1>8, <1>9, <1>10, <1>11, <1>12 DEF AnyStep

LEMMA SteadyNextInv == RInv /\ SteadyInv /\ [CallSteps]_vars => SteadyInv'
<1> SUFFICES ASSUME RInv, SteadyInv, [CallSteps]_vars PROVE SteadyInv'
  OBVIOUS
<1>1. CASE CallSteps
  BY <1>1, SteadyStepInv DEF CallSteps
<1>2. CASE UNCHANGED vars
  <2>1. UNCHANGED <<envKey, stateChain, stateKey, booted, pc, key, chain, out, secret,
                    events>>
    BY <1>2 DEF vars, state, local
  <2> QED
    BY <2>1 DEF SteadyInv, OneChain, OnlyCreatedExtended, Booting, OneRunning, Running,
       SteadyCall, Serving
<1> QED
  BY <1>1, <1>2

-----------------------------------------------------------------------------
(***************************************************************************)
(* The deployments together.                                               *)
(***************************************************************************)
DInv ==
  /\ RInv
  /\ ChainsLinked
  /\ deployment = "loop" => LoopInv
  /\ deployment = "steady" => SteadyInv

LEMMA InitDInv == DeploymentInit => DInv
<1> SUFFICES ASSUME DeploymentInit PROVE DInv
  OBVIOUS
<1>1. /\ stateChain = NoCall /\ stateKey = NoKey /\ lock = NoCall /\ booted \in BOOLEAN
      /\ envKey \in Keys \cup {NoKey}
      /\ pc = [c \in Calls |-> "start"] /\ key = [c \in Calls |-> NoKey]
      /\ chain = [c \in Calls |-> NoCall] /\ tail = [c \in Calls |-> 0]
      /\ out = [c \in Calls |-> Plain(c)] /\ secret = [h \in Calls |-> NoKey]
      /\ events = [h \in Calls |-> <<>>] /\ log = <<>>
  BY StartupAssumption
     DEF DeploymentInit, Init, Loop!Init, Steady!SteadyInit, Steady!Init, Loop!Plain,
         Steady!Plain, Plain
<1>2. TypeOK
  BY <1>1 DEF TypeOK, Locations, Plain, Record
<1>3. RInv
  BY <1>1, <1>2 DEF RInv, IInv, LockInv, Holding, TailInv, ChainInv, OutInv, Plain,
     EventInv, LineInv
<1>4. ChainsLinked
  BY <1>1 DEF ChainsLinked
<1>5. LoopInv
  BY <1>1 DEF LoopInv, OneRunning, Running, KeyRemembered, ChainWritten,
     OnlyCreatedExtended, LoopCall
<1>6. deployment = "steady" => envKey # NoKey /\ ~ booted
  BY DEF DeploymentInit, Steady!SteadyInit, Steady!Init
<1>7. deployment = "steady" => SteadyInv
  BY <1>1, <1>6 DEF SteadyInv, OneChain, OnlyCreatedExtended, Booting, OneRunning,
     Running, SteadyCall, Serving
<1> QED
  BY <1>3, <1>4, <1>5, <1>7 DEF DInv

\* What a step of a deployment is, in the terms of AuditChainProofs.
LEMMA DeploymentSteps ==
  ASSUME DInv, [DeploymentNext]_deploymentVars
  PROVE  /\ deployment' = deployment
         /\ [AnyNext]_vars
         /\ deployment = "loop" => [LoopNext]_vars
         /\ deployment = "steady" => [CallSteps]_vars
<1>1. CASE UNCHANGED deploymentVars
  BY <1>1 DEF deploymentVars
<1>2. CASE deployment = "threads" /\ DeploymentNext
  BY <1>2, NextIsAny DEF DeploymentNext
<1>3. CASE deployment = "loop" /\ DeploymentNext
  <2>1. LoopNext /\ deployment' = deployment
    BY <1>3, LoopNextIsAny DEF DeploymentNext, DInv, LoopInv
  <2>2. LoopNext => AnyNext
    BY DEF LoopNext, AnyNext
  <2> QED BY <1>3, <2>1, <2>2
<1>4. CASE deployment = "steady" /\ DeploymentNext
  <2>1. CallSteps /\ deployment' = deployment
    BY <1>4, SteadyNextIsAny DEF DeploymentNext, DInv, SteadyInv
  <2>2. CallSteps => AnyNext
    BY DEF CallSteps, AnyNext
  <2> QED BY <1>4, <2>1, <2>2
<1> QED
  BY <1>1, <1>2, <1>3, <1>4 DEF DeploymentNext

LEMMA NextDInv == DInv /\ [DeploymentNext]_deploymentVars => DInv'
<1> SUFFICES ASSUME DInv, [DeploymentNext]_deploymentVars PROVE DInv'
  OBVIOUS
<1>1. /\ deployment' = deployment
      /\ [AnyNext]_vars
      /\ deployment = "loop" => [LoopNext]_vars
      /\ deployment = "steady" => [CallSteps]_vars
  BY DeploymentSteps
<1>2. RInv' /\ ChainsLinked'
  BY <1>1, NextRInv, NextLinked DEF DInv, RInv
<1>3. deployment = "loop" => LoopInv'
  BY <1>1, LoopNextInv DEF DInv
<1>4. deployment = "steady" => SteadyInv'
  BY <1>1, SteadyNextInv DEF DInv
<1> QED
  BY <1>1, <1>2, <1>3, <1>4 DEF DInv

THEOREM DeploymentInvariance == DeploymentSpec => []DInv
<1> QED
  BY InitDInv, NextDInv, PTL DEF DeploymentSpec

(***************************************************************************)
(* In every deployment every variable is in its range, every chain is      *)
(* linked and the log agrees with the chains.                              *)
(***************************************************************************)
THEOREM DeploymentsAgree == DeploymentSpec => [](TypeOK /\ ChainsLinked /\ LogMatchesChains)
<1>1. DInv => TypeOK /\ ChainsLinked /\ LogMatchesChains
  BY LogMatches DEF DInv, RInv, IInv
<1> QED
  BY <1>1, DeploymentInvariance, PTL

(***************************************************************************)
(* In every deployment the chains implement ChainHistory: whoever runs at  *)
(* once, a chain is created once and extended one event at a time.         *)
(***************************************************************************)
THEOREM DeploymentsImplement == DeploymentSpec => ChainsAreHistories
<1>1. DeploymentInit => History!Init
  BY DEF DeploymentInit, Init, Loop!Init, Steady!SteadyInit, Steady!Init, History!Init
<1>2. DInv /\ [DeploymentNext]_deploymentVars => [History!Next]_(History!chainVars)
  <2> SUFFICES ASSUME DInv, [DeploymentNext]_deploymentVars
               PROVE  [History!Next]_(History!chainVars)
    OBVIOUS
  <2>1. IInv /\ [AnyNext]_vars
    BY DeploymentSteps DEF DInv, RInv
  <2> QED
    BY <2>1, NextHistory
<1> QED
  BY <1>1, <1>2, DeploymentInvariance, PTL DEF DeploymentSpec, ChainsAreHistories, History!Spec

(***************************************************************************)
(* On the event loop a call records under the key it read.                 *)
(***************************************************************************)
THEOREM LoopRecords == DeploymentSpec => []LoopRecordsUnderReadKey
<1>1. DInv => LoopRecordsUnderReadKey
  BY DEF DInv, LoopInv, LoopCall, UnderKey, LoopRecordsUnderReadKey, RecordedUnderReadKey
<1> QED
  BY <1>1, DeploymentInvariance, PTL

(***************************************************************************)
(* The log of the event loop implements AuditLog: a line is written by     *)
(* Emit; one that is not plain is the last event of the current chain,     *)
(* which no line shows if it is the first, and else the last line precedes *)
(* it.                                                                     *)
(***************************************************************************)
LEMMA LoopWrites ==
  ASSUME RInv, ChainsLinked, LoopInv, LogMatchesChains, deployment = "loop",
         deployment' = deployment, NEW c \in Calls, Emit(c)
  PROVE  LoopLines!Write
<1>1. PICK e \in Record : e = out[c]
  BY DEF RInv, IInv, TypeOK
<1>2. /\ log \in Seq(Record) /\ log' = Append(log, e) /\ pc[c] = "emit" /\ e.call = c
      /\ e.chain # NoCall => IsEvent(e)
  BY <1>1 DEF Emit, RInv, IInv, TypeOK, OutInv
<1>3. Len(log) \in Nat /\ Len(log') = Len(log) + 1 /\ log'[Len(log) + 1] = e
  BY <1>2
<1>4. log' # <<>> /\ log'[Len(log')] = e
  BY <1>3
<1>5. e.sequence \in Nat /\ e.chain \in Calls \cup {NoCall}
  BY DEF Record
<1>6. ASSUME e.chain = NoCall PROVE LoopLines!Plain(e)
  BY <1>6 DEF LoopLines!Plain
<1>7. ASSUME e.chain # NoCall
      PROVE  LoopLines!Opens(e) \/ LoopLines!Continues(e)
  <2>1. PICK h \in Calls, n \in Nat : h = e.chain /\ n = e.sequence
    BY <1>5, <1>7
  <2>2. h = stateChain /\ Len(events[h]) = n + 1 /\ Written(h, n)
    BY <1>1, <1>2, <1>7, <2>1 DEF LoopInv, LoopCall
  <2>3. e = events[h][n + 1]
    BY <1>2, <1>7, <2>1 DEF IsEvent
  <2>4. n + 1 \in 1 .. Len(events[h]) /\ (n # 0 => n \in 1 .. Len(events[h]))
    BY <2>2
  <2>5. LinkedAt(h, n + 1) /\ (n # 0 => LinkedAt(h, n))
    BY <2>4 DEF ChainsLinked
  <2>6. e.prev = IF n = 0 THEN NoCall ELSE events[h][n].call
    BY <2>3, <2>5 DEF LinkedAt
  <2>7. CASE n = 0
    <3>1. ASSUME NEW i \in DOMAIN log, log[i].chain = h PROVE FALSE
      <4>1. i \in 1 .. Len(log)
        BY <1>2
      <4>2. PICK line \in Record : line = log[i]
        BY <1>2, <4>1
      <4>3. line.sequence \in Nat
        BY DEF Record
      <4>4. line.sequence < Len(events[h]) /\ line = events[h][line.sequence + 1]
        BY <1>7, <2>1, <3>1, <4>2 DEF LogMatchesChains
      <4>5. line.sequence = 0
        BY <2>2, <2>7, <4>3, <4>4
      <4>6. line = e
        BY <2>3, <2>7, <4>4, <4>5
      <4> QED BY <1>2, <4>1, <4>2, <4>6 DEF RInv, LineInv
    <3> QED BY <2>1, <2>6, <2>7, <3>1 DEF LoopLines!Opens
  <2>8. CASE n # 0
    <3>1. log # <<>> /\ log[Len(log)] = events[h][n]
      BY <2>2, <2>8 DEF Written
    <3>2. events[h][n].chain = h /\ events[h][n].sequence = n - 1
      BY <2>5, <2>8 DEF LinkedAt
    <3> QED BY <2>1, <2>6, <2>8, <3>1, <3>2 DEF LoopLines!Continues
  <2> QED BY <2>7, <2>8
<1> QED
  BY <1>2, <1>4, <1>6, <1>7 DEF LoopLines!Write

THEOREM LoopLogRuns == DeploymentSpec => LoopLogIsRunsOfChains
<1> DEFINE lines == IF deployment = "loop" THEN log ELSE <<>>
<1>1. DeploymentInit => LoopLines!Init
  BY DEF DeploymentInit, Loop!Init, LoopLines!Init
<1>2. DInv /\ [DeploymentNext]_deploymentVars => [LoopLines!Write]_lines
  <2> SUFFICES ASSUME DInv, [DeploymentNext]_deploymentVars PROVE [LoopLines!Write]_lines
    OBVIOUS
  <2>1. /\ deployment' = deployment
        /\ deployment = "loop" => [LoopNext]_vars
    BY DeploymentSteps
  <2>2. CASE deployment # "loop"
    BY <2>1, <2>2
  <2>3. CASE deployment = "loop"
    <3>1. ASSUME NEW c \in Calls, Emit(c) PROVE LoopLines!Write
      BY <2>1, <2>3, <3>1, LoopWrites, LogMatches DEF DInv
    <3>2. ASSUME NEW c \in Calls, AnyStep(c), ~ Emit(c) PROVE log' = log
      BY <3>2 DEF AnyStep, Begins, ClearChain, ClearKey, CheckChain, CheckKey, NewChain,
         SetKey, GetChain, Acquire, ReadTail, Store, Release
    <3>3. CASE SetEnv \/ AnyRestart \/ UNCHANGED vars
      <4>1. log' = log
        BY <3>3 DEF SetEnv, AnyRestart, vars
      <4> QED BY <2>1, <4>1
    <3>4. CASE \E c \in Calls : AnyStep(c)
      <4>1. LoopLines!Write \/ log' = log
        BY <3>1, <3>2, <3>4
      <4> QED BY <2>1, <4>1
    <3> QED BY <2>1, <2>3, <3>3, <3>4 DEF LoopNext
  <2> QED BY <2>2, <2>3
<1> QED
  BY <1>1, <1>2, DeploymentInvariance, PTL
     DEF DeploymentSpec, LoopLogIsRunsOfChains, LoopLines!Spec
-----------------------------------------------------------------------------
(***************************************************************************)
(* The steady log.  Every line is an event of the one chain; once nobody   *)
(* writes every event has its line, so there are at least as many lines as *)
(* events.                                                                 *)
(***************************************************************************)
LEMMA SteadyLines ==
  ASSUME RInv, LogMatchesChains, SteadyInv, NEW i \in 1 .. Len(log)
  PROVE  /\ stateChain \in Calls /\ secret[stateChain] = envKey
         /\ log[i].chain = stateChain /\ log[i].sequence \in Nat
         /\ log[i].sequence + 1 \in 1 .. Len(events[stateChain])
         /\ log[i] = events[stateChain][log[i].sequence + 1]
<1>1. PICK e \in Record : e = log[i]
  BY CallsOfRecords DEF RInv
<1>2. e.call \in Calls /\ e.chain \in Calls \cup {NoCall} /\ e.sequence \in Nat
  BY DEF Record
<1>3. pc[e.call] = "done" /\ e = out[e.call]
  BY <1>1 DEF RInv, LineInv
<1>4. e.chain # NoCall
  BY <1>2, <1>3 DEF SteadyInv, SteadyCall
<1>5. IsEvent(e)
  BY <1>2, <1>3, <1>4 DEF RInv, OutInv
<1>6. events[e.chain] \in Seq(Record) /\ e.sequence + 1 \in 1 .. Len(events[e.chain])
  BY <1>2, <1>5 DEF IsEvent, RInv, IInv, TypeOK
<1>7. events[e.chain] # <<>>
  BY <1>6
<1>8. e.chain = stateChain /\ secret[stateChain] = envKey
  BY <1>2, <1>4, <1>7 DEF SteadyInv, OneChain, OnlyCreatedExtended
<1> QED
  BY <1>1, <1>2, <1>4, <1>5, <1>6, <1>8 DEF IsEvent

LEMMA EventsAreLogged ==
  ASSUME RInv, SteadyInv, \A c \in Calls : ~ Running(c), NEW h \in Calls,
         NEW n \in 1 .. Len(events[h])
  PROVE  \E i \in 1 .. Len(log) : log[i] = events[h][n]
<1>1. events[h][n].call \in Calls
  BY CallsOfRecords DEF RInv
<1>2. pc[events[h][n].call] = "done"
  BY <1>1 DEF RInv, EventInv, Recorded, Running, SteadyInv, SteadyCall
<1> QED
  BY <1>2 DEF RInv, EventInv, Recorded

LEMMA EventsFit ==
  ASSUME RInv, ChainsLinked, SteadyInv, \A c \in Calls : ~ Running(c), NEW h \in Calls
  PROVE  Len(events[h]) <= Len(log)
<1> DEFINE S == 1 .. Len(events[h])
           T == 1 .. Len(log)
           f == [n \in S |-> CHOOSE i \in T : log[i] = events[h][n]]
<1>1. Len(events[h]) \in Nat /\ Len(log) \in Nat
  BY DEF RInv, IInv, TypeOK
<1>2. \A n \in S : f[n] \in T /\ log[f[n]] = events[h][n]
  BY EventsAreLogged
<1>3. ASSUME NEW n \in S, NEW m \in S, f[n] = f[m] PROVE n = m
  <2>1. events[h][n] = events[h][m]
    BY <1>2, <1>3
  <2>2. LinkedAt(h, n) /\ LinkedAt(h, m)
    BY DEF ChainsLinked
  <2>3. events[h][n].sequence = n - 1 /\ events[h][m].sequence = m - 1
    BY <2>2 DEF LinkedAt
  <2> QED BY <1>1, <2>1, <2>3
<1>4. f \in Injection(S, T)
  <2>1. f \in [S -> T]
    BY <1>2
  <2> HIDE DEF f
  <2> QED BY <1>3, <2>1 DEF Injection, IsInjective
<1>5. /\ IsFiniteSet(S) /\ Cardinality(S) = Len(events[h])
      /\ IsFiniteSet(T) /\ Cardinality(T) = Len(log)
  <2>1. \A k \in Nat : IsFiniteSet(1 .. k) /\ Cardinality(1 .. k) = k
    <3> TAKE k \in Nat
    <3>1. IsFiniteSet(1 .. k) /\ Cardinality(1 .. k) = IF 1 > k THEN 0 ELSE k - 1 + 1
      BY FS_Interval, 1 \in Int, k \in Int
    <3> QED BY <3>1
  <2> QED BY <1>1, <2>1
<1>6. Cardinality(S) <= Cardinality(T)
  BY <1>4, <1>5, FS_Injection
<1> QED
  BY <1>5, <1>6

THEOREM SteadySorted == DeploymentSpec => []SteadyLogSortedVerifies
<1>1. ASSUME RInv, ChainsLinked, LogMatchesChains, SteadyInv
      PROVE  SortedLogVerifies
  <2>1. log \in Seq(Record) /\ DOMAIN log = 1 .. Len(log)
    BY <1>1 DEF RInv, IInv, TypeOK
  <2>2. \A i \in 1 .. Len(log) :
          /\ stateChain \in Calls /\ secret[stateChain] = envKey
          /\ log[i].chain = stateChain /\ log[i].sequence \in Nat
          /\ log[i].sequence + 1 \in 1 .. Len(events[stateChain])
          /\ log[i] = events[stateChain][log[i].sequence + 1]
    BY <1>1, SteadyLines
  <2>3. ASSUME NEW i \in 1 .. Len(log), NEW j \in 1 .. Len(log),
               log[i].sequence = log[j].sequence
        PROVE  i = j
    <3>1. log[i] = log[j]
      BY <2>2, <2>3
    <3> QED BY <1>1, <3>1 DEF RInv, LineInv
  <2>4. ASSUME \A c \in Calls : ~ Running(c), NEW i \in 1 .. Len(log)
        PROVE  /\ log[i].chain # NoCall /\ secret[log[i].chain] = envKey
               /\ log[i].sequence < Len(log)
               /\ log[i].prev = NoCall <=> log[i].sequence = 0
               /\ \A j \in 1 .. Len(log) :
                    log[j].sequence + 1 = log[i].sequence => log[i].prev = log[j].call
    <3>1. PICK h \in Calls : h = stateChain
      BY <2>2
    <3>2. PICK n \in Nat : n = log[i].sequence
      BY <2>2
    <3>3. h # NoCall /\ secret[h] = envKey /\ log[i].chain = h
      BY <2>2, <3>1, CallsAssumption
    <3>4. n + 1 \in 1 .. Len(events[h]) /\ log[i] = events[h][n + 1]
      BY <2>2, <3>1, <3>2
    <3>5. Len(events[h]) <= Len(log) /\ Len(events[h]) \in Nat /\ Len(log) \in Nat
      BY <1>1, <2>4, EventsFit DEF RInv, IInv, TypeOK
    <3>6. log[i].prev = IF n = 0 THEN NoCall ELSE events[h][n].call
      <4>1. LinkedAt(h, n + 1)
        BY <1>1, <3>4 DEF ChainsLinked
      <4> QED BY <3>4, <4>1 DEF LinkedAt
    <3>7. n # 0 => events[h][n].call \in Calls
      BY <1>1, <3>4, <3>5, CallsOfRecords DEF RInv
    <3>8. ASSUME NEW j \in 1 .. Len(log), log[j].sequence + 1 = n
          PROVE  log[i].prev = log[j].call
      <4>1. log[j] = events[h][n]
        BY <2>2, <3>1, <3>8
      <4>2. n # 0
        BY <2>2, <3>8
      <4> QED BY <3>6, <4>1, <4>2
    <3>9. n < Len(log)
      BY <3>4, <3>5
    <3> QED
      BY <3>2, <3>3, <3>6, <3>7, <3>8, <3>9, CallsAssumption
  <2> QED
    BY <2>1, <2>3, <2>4 DEF SortedLogVerifies
<1>2. DInv => SteadyLogSortedVerifies
  BY <1>1, LogMatches DEF DInv, SteadyLogSortedVerifies
<1> QED
  BY <1>2, DeploymentInvariance, PTL
=============================================================================
