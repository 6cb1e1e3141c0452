-------------------------- MODULE AuditDeployments --------------------------
(***************************************************************************)
(* AuditChain in the three deployments a claim of auditing.py is about: a  *)
(* pool of threads around rotation and restarts; the server's event loop,  *)
(* where audit_event runs without an await and so one call at a time; and  *)
(* three threads in a steady process, whose key is set and stays.          *)
(***************************************************************************)
EXTENDS MCAuditChain

VARIABLE deployment   \* which of the three this behaviour is

deploymentVars == <<vars, deployment>>

Loop   == INSTANCE AuditChain WITH Threads <- 1, StartupRecord <- FALSE
Steady == INSTANCE AuditChain WITH Threads <- 3, StartupRecord <- TRUE

DeploymentInit ==
  \/ deployment = "threads" /\ Init
  \/ deployment = "loop" /\ Loop!Init
  \/ deployment = "steady" /\ Steady!SteadyInit

DeploymentNext ==
  /\ UNCHANGED deployment
  /\ \/ deployment = "threads" /\ Next
     \/ deployment = "loop" /\ Loop!Next
     \/ deployment = "steady" /\ Steady!SteadyNext

\* A thread of the steady process that is running is scheduled again; nothing makes
\* a call begin.
SteadyStep(c) ==
  /\ deployment = "steady"
  /\ Running(c)
  /\ Step(c)
  /\ UNCHANGED deployment

DeploymentSpec ==
  /\ DeploymentInit
  /\ [][DeploymentNext]_deploymentVars
  /\ \A c \in Calls : WF_deploymentVars(SteadyStep(c))
-----------------------------------------------------------------------------
\* On the event loop a record is made under the key its call read, across rotation,
\* unsetting and restarts (_active_chain; false for a pool of threads).
LoopRecordsUnderReadKey == deployment = "loop" => RecordedUnderReadKey

\* On the event loop the log implements AuditLog: in the order of the file it falls
\* into runs of lines that verify_chain accepts, across rotation and restarts.
LoopLines == INSTANCE AuditLog WITH log <- IF deployment = "loop" THEN log ELSE <<>>
LoopLogIsRunsOfChains == LoopLines!Spec

\* In the steady process the lines may be out of order, but no sequence number is there
\* twice, and once nobody writes, the sorted lines are one complete chain.
SteadyLogSortedVerifies == deployment = "steady" => SortedLogVerifies

\* In the steady process a call of audit_event that begins returns, with its line in the
\* log: no thread waits for the lock for ever.
SteadyCallIsLogged ==
  \A c \in Calls :
    deployment = "steady" /\ Running(c) ~> \E i \in DOMAIN log : log[i].call = c
=============================================================================
