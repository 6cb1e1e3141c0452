------------------------------- MODULE Entries ------------------------------
(***************************************************************************)
(* The entries of a statement, as camt053.services.list_entries parses     *)
(* them: their texts are members of a small set, an amount is an integer   *)
(* number of minor units, "NaN" (which Python's Decimal takes) or neither,  *)
(* a date is a positive number.                                            *)
(***************************************************************************)
EXTENDS Integers, Sequences, FiniteSets

CONSTANTS Texts,      \* the texts of the fields
          NoText,     \* an empty or missing text
          NoAmount,   \* a missing or unparsable amount
          NaN         \* an amount that parses as not a number

ASSUME EntryAssumption ==
  NoText \notin Texts /\ NoAmount \notin Int /\ NaN \notin Int \cup {NoAmount}

Entry == [reference : Texts \cup {NoText},
          endToEndIds : {ids \in SUBSET Texts : IsFiniteSet(ids)},
          bookingDate : Nat, valueDate : Nat,
          amount : Int \cup {NoAmount, NaN}, indicator : {"CRDT", "DBIT", NoText},
          feeWord : BOOLEAN, hasReason : BOOLEAN,
          partyName : Texts \cup {NoText}, partyAccount : Texts \cup {NoText},
          currency : Texts \cup {NoText}]
-----------------------------------------------------------------------------
\* sorted(): the members of a finite set, each after those before it.
Sorted(S, before) ==
  [n \in 1 .. Cardinality(S) |->
     CHOOSE a \in S : Cardinality({b \in S : <<b, a>> \in before}) = n - 1]

Smaller(S) == {p \in S \X S : p[1] < p[2]}

\* Numbers in ascending order.
Ascending(S) == Sorted(S, Smaller(S))

\* Statement order: the entries at the positions.
EntriesAt(entries, I) ==
  [n \in 1 .. Cardinality(I) |-> entries[Ascending(I)[n]]]
=============================================================================
