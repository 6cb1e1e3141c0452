------------------------------ MODULE MCStartup -----------------------------
(***************************************************************************)
(* Every environment, and the command lines that reach every check: each   *)
(* transport, binds with and without a host, and the ports at the bounds.  *)
(* Two starts, so that one follows a refused, a killed or a stopped one.   *)
(***************************************************************************)
EXTENDS Startup

MCBinds == {b \in Binds : b.port = 1 \/ (b.host /\ b.numeric)}

MCCommandLines ==
  {a \in AllCommandLines : /\ a.bind \in MCBinds
                           /\ a.transport = "http" => a.port = 1
                           /\ a.transport # "http" => a.bind = [host |-> TRUE, numeric |-> TRUE, port |-> 1]}

MCEnvironments == {e \in AllEnvironments : e.scopes # "blank" /\ e.jwksUrl # "blank"}
=============================================================================
