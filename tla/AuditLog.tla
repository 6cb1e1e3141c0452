------------------------------ MODULE AuditLog ------------------------------
(***************************************************************************)
(* What a reader of the camt053_mcp.audit log may rely on when one thread  *)
(* (the server's event loop) writes it: the lines are only appended, and   *)
(* they fall into runs, each of which verify_chain accepts on its own: a   *)
(* chained line either opens a chain nobody has seen, at sequence zero, or *)
(* continues the line directly above it.                                   *)
(***************************************************************************)
EXTENDS Naturals, Sequences

CONSTANTS NoCall   \* the chain of a line logged while chaining is off

VARIABLE log

Plain(line) == line.chain = NoCall

\* A line that starts a chain: sequence zero, no predecessor, a chain not in the log.
Opens(line) ==
  /\ line.sequence = 0
  /\ line.prev = NoCall
  /\ \A i \in DOMAIN log : log[i].chain # line.chain

\* A line that extends the chain of the line just above it.
Continues(line) ==
  /\ log # <<>>
  /\ LET last == log[Len(log)] IN
       /\ last.chain = line.chain
       /\ line.sequence = last.sequence + 1
       /\ line.prev = last.call

Init == log = <<>>

Write ==
  LET line == log'[Len(log')] IN
    /\ log' # <<>>
    /\ log' = Append(log, line)
    /\ Plain(line) \/ Opens(line) \/ Continues(line)

Spec == Init /\ [][Write]_log
=============================================================================
