---------------------------- MODULE MCHttpServer ----------------------------
(***************************************************************************)
(* Requests and tenants are interchangeable; two of the reasons verify may *)
(* give stand for all of them, the one answered 403 and one answered 401.  *)
(***************************************************************************)
EXTENDS HttpServer, TLC

MCJwtReasons == {"insufficient_scope", "invalid_signature"}
MCSymmetry   == Permutations(Requests) \cup Permutations(Tenants)
=============================================================================
