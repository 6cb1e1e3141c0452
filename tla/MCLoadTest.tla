----------------------------- MODULE MCLoadTest -----------------------------
(***************************************************************************)
(* Up to three virtual users and two calls each: enough for one to be late *)
(* at the gate while others wait, give up or die, and for a VU to fail     *)
(* between two calls.                                                      *)
(***************************************************************************)
EXTENDS LoadTest, TLC

MCSymmetry == Permutations(VUs)
=============================================================================
