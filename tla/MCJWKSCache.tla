---------------------------- MODULE MCJWKSCache -----------------------------
(***************************************************************************)
(* Two lookups at once, two key ids, two published key sets, a clock that  *)
(* runs past one TTL, answers delayed by one tick at most.                 *)
(***************************************************************************)
EXTENDS JWKSCache, TLC

MCSymmetry == Permutations(Lookups) \cup Permutations(Kids)
=============================================================================
