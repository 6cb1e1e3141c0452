----------------------------- MODULE AuditChain -----------------------------
(***************************************************************************)
(* The audit trail of camt053_mcp/auditing.py: every call of audit_event   *)
(* fetches the process-wide hash chain with _active_chain, appends its     *)
(* record to it under _chain_state.lock, and logs the result.  A call is a *)
(* process of its own; Threads bounds how many run at once (1 is the event *)
(* loop, more are worker threads).  Each read and each assignment of the   *)
(* shared _chain_state is a step, because _active_chain runs without the   *)
(* lock.  The environment variable may change, and the process may be      *)
(* killed and restarted, between any two steps.                            *)
(***************************************************************************)
EXTENDS Integers, Sequences, FiniteSets

CONSTANTS Calls,          \* the calls of audit_event
          Keys,           \* the values CAMT053_AUDIT_HMAC_KEY may have
          NoKey,          \* the variable unset or empty; _chain_state.key is None
          NoCall,         \* no chain (None), nobody holds the lock, prev_hash ""
          Threads,        \* how many calls may run at once
          StartupRecord   \* TRUE: the process logs one record before it serves
                          \* (run_http's http.server.starting)

ASSUME CallsAssumption   == NoCall \notin Calls
ASSUME KeysAssumption    == NoKey \notin Keys
ASSUME ThreadsAssumption == Threads \in Nat \ {0}
ASSUME StartupAssumption == StartupRecord \in BOOLEAN

VARIABLES
  envKey,     \* os.environ.get(AUDIT_HMAC_KEY_ENV)
  stateChain, \* _chain_state.chain, named by the call that created it
  stateKey,   \* _chain_state.key
  lock,       \* the call that holds _chain_state.lock
  booted,     \* the startup record is out
  pc,         \* pc[c]: where call c is
  key,        \* key[c]: the local `key` of _active_chain
  chain,      \* chain[c]: the local `chain` of audit_event
  tail,       \* tail[c]: the length HashChain.append read
  out,        \* out[c]: the record or chain event call c is going to log
  secret,     \* secret[h]: the secret of the chain call h created
  events,     \* events[h]: the events appended to that chain
  log         \* the lines of the camt053_mcp.audit logger

state == <<stateChain, stateKey>>
local == <<key, chain, tail, out>>
vars  == <<envKey, state, lock, booted, pc, local, secret, events, log>>

Locations == {"start", "clearChain", "clearKey", "checkChain", "checkKey",
              "newChain", "setKey", "getChain", "acquire", "readTail",
              "store", "release", "emit", "done", "lost"}

Running(c) == pc[c] \notin {"start", "done", "lost"}

\* A plain record carries no chain; a chain event names its chain and predecessor.
Plain(c) == [call |-> c, chain |-> NoCall, sequence |-> 0, prev |-> NoCall]

\* Mutant: the sequence number counted from minus one.
ChainEventOffByOne(h, c, n) ==
  [call |-> c, chain |-> h, sequence |-> n - 1,
   prev |-> IF n = 0 THEN NoCall ELSE events[h][n].call]

ChainEvent(h, c, n) ==
  [call |-> c, chain |-> h, sequence |-> n,
   prev |-> IF n = 0 THEN NoCall ELSE events[h][n].call]

Record == [call : Calls, chain : Calls \cup {NoCall}, sequence : Nat,
           prev : Calls \cup {NoCall}]

Goto(c, l) == pc' = [pc EXCEPT ![c] = l]

Init ==
  /\ envKey \in Keys \cup {NoKey}
  /\ stateChain = NoCall
  /\ stateKey = NoKey
  /\ lock = NoCall
  /\ booted = ~ StartupRecord
  /\ pc = [c \in Calls |-> "start"]
  /\ key = [c \in Calls |-> NoKey]
  /\ chain = [c \in Calls |-> NoCall]
  /\ tail = [c \in Calls |-> 0]
  /\ out = [c \in Calls |-> Plain(c)]
  /\ secret = [h \in Calls |-> NoKey]
  /\ events = [h \in Calls |-> <<>>]
  /\ log = <<>>
-----------------------------------------------------------------------------
(***************************************************************************)
(* _active_chain                                                           *)
(***************************************************************************)

\* Mutant: the server takes calls before the startup record is out.
MayStartUnbooted(c) == Cardinality({d \in Calls : Running(d)}) < Threads

\* A thread is free for call c, and the startup record does not overlap others.
MayStart(c) ==
  /\ Cardinality({d \in Calls : Running(d)}) < Threads
  /\ booted \/ \A d \in Calls : ~ Running(d)

\* Mutant: without a key the function returns at once and forgets no chain.
ReadKeyKeepingChain(c) ==
  /\ pc[c] = "start"
  /\ MayStart(c)
  /\ key' = [key EXCEPT ![c] = envKey]
  /\ Goto(c, IF envKey = NoKey THEN "emit" ELSE "checkChain")
  /\ UNCHANGED <<envKey, state, lock, booted, chain, tail, out, secret, events, log>>

\* key = os.environ.get(...); if not key: ... else: the test of the chain
ReadKey(c) ==
  /\ pc[c] = "start"
  /\ MayStart(c)
  /\ key' = [key EXCEPT ![c] = envKey]
  /\ Goto(c, IF envKey = NoKey THEN "clearChain" ELSE "checkChain")
  /\ UNCHANGED <<envKey, state, lock, booted, chain, tail, out, secret, events, log>>

ClearChain(c) ==
  /\ pc[c] = "clearChain"
  /\ stateChain' = NoCall
  /\ Goto(c, "clearKey")
  /\ UNCHANGED <<envKey, stateKey, lock, booted, local, secret, events, log>>

\* _chain_state.key = None; return None
ClearKey(c) ==
  /\ pc[c] = "clearKey"
  /\ stateKey' = NoKey
  /\ chain' = [chain EXCEPT ![c] = NoCall]
  /\ Goto(c, "emit")
  /\ UNCHANGED <<envKey, stateChain, lock, booted, key, tail, out, secret, events, log>>

CheckChain(c) ==
  /\ pc[c] = "checkChain"
  /\ Goto(c, IF stateChain = NoCall THEN "newChain" ELSE "checkKey")
  /\ UNCHANGED <<envKey, state, lock, booted, local, secret, events, log>>

\* Mutant: only the absence of a chain creates one, a changed key does not.
CheckKeyIgnored(c) ==
  /\ pc[c] = "checkKey"
  /\ Goto(c, "getChain")
  /\ UNCHANGED <<envKey, state, lock, booted, local, secret, events, log>>

CheckKey(c) ==
  /\ pc[c] = "checkKey"
  /\ Goto(c, IF stateKey # key[c] THEN "newChain" ELSE "getChain")
  /\ UNCHANGED <<envKey, state, lock, booted, local, secret, events, log>>

\* Mutant: a changed key re-keys the chain in place.
NewChainInPlace(c) ==
  LET h == IF stateChain = NoCall THEN c ELSE stateChain IN
    /\ pc[c] = "newChain"
    /\ secret' = [secret EXCEPT ![h] = key[c]]
    /\ stateChain' = h
    /\ Goto(c, "setKey")
    /\ UNCHANGED <<envKey, stateKey, lock, booted, local, events, log>>

\* _chain_state.chain = HashChain(secret=key)
NewChain(c) ==
  /\ pc[c] = "newChain"
  /\ secret' = [secret EXCEPT ![c] = key[c]]
  /\ stateChain' = c
  /\ Goto(c, "setKey")
  /\ UNCHANGED <<envKey, stateKey, lock, booted, local, events, log>>

SetKey(c) ==
  /\ pc[c] = "setKey"
  /\ stateKey' = key[c]
  /\ Goto(c, "getChain")
  /\ UNCHANGED <<envKey, stateChain, lock, booted, local, secret, events, log>>

\* return _chain_state.chain, which another thread may have replaced or cleared
GetChain(c) ==
  /\ pc[c] = "getChain"
  /\ chain' = [chain EXCEPT ![c] = stateChain]
  /\ Goto(c, IF stateChain = NoCall THEN "emit" ELSE "acquire")
  /\ UNCHANGED <<envKey, state, lock, booted, key, tail, out, secret, events, log>>
-----------------------------------------------------------------------------
(***************************************************************************)
(* audit_event: with lock: chain.append(...); then the log line            *)
(***************************************************************************)
\* Mutant: the append is not serialised.
AcquireWithoutWaiting(c) ==
  /\ pc[c] = "acquire"
  /\ lock' = c
  /\ Goto(c, "readTail")
  /\ UNCHANGED <<envKey, state, booted, local, secret, events, log>>

Acquire(c) ==
  /\ pc[c] = "acquire"
  /\ lock = NoCall
  /\ lock' = c
  /\ Goto(c, "readTail")
  /\ UNCHANGED <<envKey, state, booted, local, secret, events, log>>

\* HashChain.append reads the length and the last hmac ...
ReadTail(c) ==
  /\ pc[c] = "readTail"
  /\ tail' = [tail EXCEPT ![c] = Len(events[chain[c]])]
  /\ Goto(c, "store")
  /\ UNCHANGED <<envKey, state, lock, booted, key, chain, out, secret, events, log>>

\* ... and stores the event it built from them.
Store(c) ==
  LET e == ChainEvent(chain[c], c, tail[c]) IN
    /\ pc[c] = "store"
    /\ events' = [events EXCEPT ![chain[c]] = Append(@, e)]
    /\ out' = [out EXCEPT ![c] = e]
    /\ Goto(c, "release")
    /\ UNCHANGED <<envKey, state, lock, booted, key, chain, tail, secret, log>>

\* Mutant: an exit path that does not release the lock.
ReleaseForgotten(c) ==
  /\ pc[c] = "release"
  /\ Goto(c, "emit")
  /\ UNCHANGED <<envKey, state, lock, booted, local, secret, events, log>>

Release(c) ==
  /\ pc[c] = "release"
  /\ lock' = NoCall
  /\ Goto(c, "emit")
  /\ UNCHANGED <<envKey, state, booted, local, secret, events, log>>

\* Mutant: the line is logged only while its chain is still the current one.
EmitIfCurrent(c) ==
  /\ pc[c] = "emit"
  /\ log' = IF out[c].chain \in {NoCall, stateChain} THEN Append(log, out[c]) ELSE log
  /\ booted' = TRUE
  /\ Goto(c, "done")
  /\ UNCHANGED <<envKey, state, lock, local, secret, events>>

\* _audit_logger.info(...), outside the lock; the call returns
Emit(c) ==
  /\ pc[c] = "emit"
  /\ log' = Append(log, out[c])
  /\ booted' = TRUE
  /\ Goto(c, "done")
  /\ UNCHANGED <<envKey, state, lock, local, secret, events>>
-----------------------------------------------------------------------------
\* An operator sets, rotates or unsets the key of the running process.
SetEnv ==
  /\ \E k \in (Keys \cup {NoKey}) \ {envKey} : envKey' = k
  /\ UNCHANGED <<state, lock, booted, pc, local, secret, events, log>>

\* The process dies and a new one starts: _ChainState.__init__ again.  Calls
\* under way are lost; the log, which is not in the process, stays.
Restart ==
  /\ stateChain' = NoCall
  /\ stateKey' = NoKey
  /\ lock' = NoCall
  /\ booted' = ~ StartupRecord
  /\ pc' = [c \in Calls |-> IF Running(c) THEN "lost" ELSE pc[c]]
  /\ UNCHANGED <<envKey, local, secret, events, log>>

Step(c) ==
  \/ ReadKey(c) \/ ClearChain(c) \/ ClearKey(c) \/ CheckChain(c)
  \/ CheckKey(c) \/ NewChain(c) \/ SetKey(c) \/ GetChain(c)
  \/ Acquire(c) \/ ReadTail(c) \/ Store(c) \/ Release(c) \/ Emit(c)

Next ==
  \/ \E c \in Calls : Step(c)
  \/ SetEnv
  \/ Restart

Spec == Init /\ [][Next]_vars

(***************************************************************************)
(* The steady deployment: the key is set before the process starts and     *)
(* stays, and the process is not killed.  A thread that is running is      *)
(* scheduled again (weak fairness of every step after the first); nothing  *)
(* makes a call begin.                                                     *)
(***************************************************************************)
SteadyInit == Init /\ envKey # NoKey
SteadyNext == \E c \in Calls : Step(c)
SteadySpec ==
  /\ SteadyInit
  /\ [][SteadyNext]_vars
  /\ \A c \in Calls : WF_vars(Running(c) /\ Step(c))
-----------------------------------------------------------------------------
TypeOK ==
  /\ envKey \in Keys \cup {NoKey}
  /\ stateChain \in Calls \cup {NoCall}
  /\ stateKey \in Keys \cup {NoKey}
  /\ lock \in Calls \cup {NoCall}
  /\ booted \in BOOLEAN
  /\ pc \in [Calls -> Locations]
  /\ key \in [Calls -> Keys \cup {NoKey}]
  /\ chain \in [Calls -> Calls \cup {NoCall}]
  /\ tail \in [Calls -> Nat]
  /\ out \in [Calls -> Record]
  /\ secret \in [Calls -> Keys \cup {NoKey}]
  /\ events \in [Calls -> Seq(Record)]
  /\ log \in Seq(Record)

(***************************************************************************)
(* Safety.  ChainsLinked: within every chain object the events are         *)
(* numbered 0, 1, 2 ... and each is linked to the one before it, whatever  *)
(* the interleaving of the threads that append to it and however the key   *)
(* changes: what the comment on _ChainState asks of the lock.              *)
(***************************************************************************)
LinkedAt(h, i) ==
  events[h][i] = [call |-> events[h][i].call, chain |-> h, sequence |-> i - 1,
                  prev |-> IF i = 1 THEN NoCall ELSE events[h][i - 1].call]

ChainsLinked == \A h \in Calls : \A i \in 1 .. Len(events[h]) : LinkedAt(h, i)

(***************************************************************************)
(* The log and the chains agree: a chained line is the event its chain     *)
(* holds at that sequence, no call has two lines, and an appended event is *)
(* missing from the log only while its call is between the append and the  *)
(* log line, or was killed there (audit_event logs what append returned).  *)
(***************************************************************************)
LogMatchesChains ==
  /\ \A i \in DOMAIN log : log[i].chain # NoCall =>
       /\ log[i].sequence < Len(events[log[i].chain])
       /\ log[i] = events[log[i].chain][log[i].sequence + 1]
  /\ \A i, j \in DOMAIN log : log[i].call = log[j].call => i = j
  /\ \A h \in Calls : \A n \in DOMAIN events[h] :
       \/ pc[events[h][n].call] \in {"release", "emit", "lost"}
       \/ \E i \in DOMAIN log : log[i] = events[h][n]

(***************************************************************************)
(* A call records under the key it read: with a key it appends to a chain  *)
(* created with that very secret, without one it logs a plain record (the  *)
(* contract of _active_chain: "a changed key abandons the old chain and    *)
(* starts a new one").  True on one thread; two threads can break it.      *)
(***************************************************************************)
RecordedUnderReadKey ==
  \A c \in Calls : pc[c] = "done" =>
    IF key[c] = NoKey THEN out[c].chain = NoCall
                      ELSE /\ out[c].chain # NoCall
                           /\ secret[out[c].chain] = key[c]

(***************************************************************************)
(* Under a steady key and a startup record, the lines may be out of order  *)
(* but nothing else is wrong with them: no sequence number appears twice,  *)
(* and once nobody is writing, the lines in sequence order are one         *)
(* complete chain under the configured key.                                *)
(***************************************************************************)
SortedLogVerifies ==
  /\ \A i, j \in DOMAIN log : log[i].sequence = log[j].sequence => i = j
  /\ (\A c \in Calls : ~ Running(c)) =>
       \A i \in DOMAIN log :
         /\ log[i].chain # NoCall /\ secret[log[i].chain] = envKey
         /\ log[i].sequence < Len(log)
         /\ log[i].prev = NoCall <=> log[i].sequence = 0
         /\ \A j \in DOMAIN log :
              log[j].sequence + 1 = log[i].sequence => log[i].prev = log[j].call

(***************************************************************************)
(* "the whole log verifies end-to-end with verify_chain" (auditing.py,     *)
(* audit_event): the lines in the order they were written are one chain.   *)
(* False with two threads: the line is logged after the lock is released.  *)
(***************************************************************************)
LogVerifiesEndToEnd ==
  \A i \in DOMAIN log :
    /\ log[i].sequence = i - 1
    /\ log[i].prev = IF i = 1 THEN NoCall ELSE log[i - 1].call

(***************************************************************************)
(* The chains implement ChainHistory: append is atomic although it is two  *)
(* steps here, and a chain object is created once and only ever extended.  *)
(***************************************************************************)
History == INSTANCE ChainHistory

ChainsAreHistories == History!Spec

=============================================================================
