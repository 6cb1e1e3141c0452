---------------------------- MODULE StartBarrier ----------------------------
(***************************************************************************)
(* What the start gate of bench/load_test.py promises its users: the gate  *)
(* opens once every party has arrived, nobody passes it before, and a new  *)
(* round begins with a new gate.                                           *)
(***************************************************************************)
EXTENDS FiniteSets

VARIABLES parties,  \* who has to arrive
          arrived,  \* who has reported ready
          open,     \* the gate is open
          passed    \* who has gone on

Init ==
  /\ arrived = {}
  /\ open = FALSE
  /\ passed = {}

Arrive(p) ==
  /\ p \notin arrived
  /\ arrived' = arrived \cup {p}
  /\ UNCHANGED <<parties, open, passed>>

Open ==
  /\ ~ open
  /\ arrived = parties
  /\ open' = TRUE
  /\ UNCHANGED <<parties, arrived, passed>>

Pass(p) ==
  /\ open
  /\ p \in arrived \ passed
  /\ passed' = passed \cup {p}
  /\ UNCHANGED <<parties, arrived, open>>

\* Whoever has not passed by then gives up with the round.
NewRound ==
  /\ open
  /\ arrived' = {}
  /\ open' = FALSE
  /\ passed' = {}
  /\ UNCHANGED parties

Next == (\E p \in parties : Arrive(p) \/ Pass(p)) \/ Open \/ NewRound

Spec == Init /\ [][Next]_<<parties, arrived, open, passed>>
=============================================================================
