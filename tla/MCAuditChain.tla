---------------------------- MODULE MCAuditChain ----------------------------
(***************************************************************************)
(* The instances of AuditChain that TLC checks.  Calls are interchangeable *)
(* and so are keys; the set of permutations is used by the runs that check *)
(* invariants only.                                                        *)
(***************************************************************************)
EXTENDS AuditChain, TLC

MCSymmetry == Permutations(Calls) \cup Permutations(Keys)
=============================================================================
