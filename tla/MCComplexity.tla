---------------------------- MODULE MCComplexity ----------------------------
(***************************************************************************)
(* Two functions of two names, so that they share a name or do not; two    *)
(* metrics, of which one, both or none is over its ceiling; and two values *)
(* over a ceiling, so that an excess can grow, shrink or go.               *)
(***************************************************************************)
EXTENDS Complexity, TLC

MCCeiling == [k \in Metrics |-> 0]

MCSymmetry == Permutations(Names) \cup Permutations(Metrics)
=============================================================================
