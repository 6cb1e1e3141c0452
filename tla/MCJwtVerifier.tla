--------------------------- MODULE MCJwtVerifier ----------------------------
(***************************************************************************)
(* Two verifications at once and a clock that runs past one TTL.  One      *)
(* token names no key, so that by the published keys it has none, its own, *)
(* another's or several to be judged by, and expires on the way; one names *)
(* its key, is not valid yet at first and lacks a scope; and one cannot be *)
(* read.                                                                   *)
(***************************************************************************)
EXTENDS JwtVerifier, TLC

CONSTANTS k1, k2

Anonymous == [wellFormed |-> TRUE, kid |-> NoKid, signer |-> k1, algorithm |-> TRUE,
              complete |-> TRUE, nbf |-> 0, exp |-> 1, issuer |-> TRUE, audience |-> TRUE,
              scopes |-> TRUE]

MCTokens == {
  Anonymous,
  [Anonymous EXCEPT !.kid = k2, !.signer = k2, !.nbf = 2, !.exp = 9, !.scopes = FALSE],
  [Anonymous EXCEPT !.wellFormed = FALSE]}
=============================================================================
