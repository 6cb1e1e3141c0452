---------------------------- MODULE ChainHistory ----------------------------
(***************************************************************************)
(* What the audit hash chain promises, whatever the number of threads      *)
(* that call audit_event: a chain is created once, under one secret, and   *)
(* from then on it only grows, one event at a time, each event numbered    *)
(* with the length of the chain it extends and linked to the event before  *)
(* it.  AuditChain, which takes the append apart into its steps, is shown  *)
(* to implement this module.                                               *)
(***************************************************************************)
EXTENDS Naturals, Sequences

CONSTANTS Calls,   \* the calls of audit_event; a chain is named by the call that creates it
          Keys,    \* the values CAMT053_AUDIT_HMAC_KEY may have
          NoKey,   \* the key of a chain that does not exist
          NoCall   \* the prev_hash "" of an event at sequence zero

VARIABLES secret,  \* secret[h]: the key chain h was created with
          events   \* events[h]: the events of chain h, oldest first

chainVars == <<secret, events>>

(***************************************************************************)
(* An event is identified by the call that appended it: prev names the     *)
(* call whose event it is linked to, as prev_hash names an hmac.           *)
(***************************************************************************)
Event == [call : Calls, chain : Calls, sequence : Nat, prev : Calls \cup {NoCall}]

PrevOf(es, n) == IF n = 0 THEN NoCall ELSE es[n].call

NextEvent(h, c, n) ==
  [call |-> c, chain |-> h, sequence |-> n, prev |-> PrevOf(events[h], n)]

Init ==
  /\ secret = [h \in Calls |-> NoKey]
  /\ events = [h \in Calls |-> <<>>]

Create(h, k) ==
  /\ secret[h] = NoKey
  /\ secret' = [secret EXCEPT ![h] = k]
  /\ UNCHANGED events

Extend(h, c) ==
  /\ secret[h] # NoKey
  /\ events' = [events EXCEPT ![h] = Append(@, NextEvent(h, c, Len(@)))]
  /\ UNCHANGED secret

Next ==
  \/ \E h \in Calls, k \in Keys : Create(h, k)
  \/ \E h, c \in Calls : Extend(h, c)

Spec == Init /\ [][Next]_chainVars
=============================================================================
