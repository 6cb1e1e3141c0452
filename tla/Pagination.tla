----------------------------- MODULE Pagination -----------------------------
(***************************************************************************)
(* _paginate of camt053_mcp/server.py, the one function list_entries and   *)
(* filter_entries answer with.                                             *)
(***************************************************************************)
EXTENDS Integers, Sequences

CONSTANT NoLimit   \* limit=None

ASSUME NoLimitAssumption == NoLimit \notin Int

\* Mutant: the slice ends one entry late, as if offset + limit were inclusive.
SliceInclusive(entries, offset, limit) ==
  SubSeq(entries, offset + 1,
         IF offset + limit < Len(entries) THEN offset + limit + 1 ELSE Len(entries))

\* entries[offset : offset + limit] of two natural numbers: short or empty past the end.
Slice(entries, offset, limit) ==
  SubSeq(entries, offset + 1,
         IF offset + limit < Len(entries) THEN offset + limit ELSE Len(entries))

Paginate(entries, offset, limit) ==
  CASE offset < 0 -> [kind |-> "error"]
    [] offset >= 0 /\ limit # NoLimit /\ limit < 0 -> [kind |-> "error"]
    [] offset >= 0 /\ limit = NoLimit -> [kind |-> "list", entries |-> entries]
    [] offset >= 0 /\ limit # NoLimit /\ limit >= 0 ->
         [kind |-> "page", total |-> Len(entries), offset |-> offset, limit |-> limit,
          entries |-> Slice(entries, offset, limit)]
=============================================================================
