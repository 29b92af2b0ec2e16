---------------------------- MODULE DecisionDesk ----------------------------
(***************************************************************************)
(* The dashboard as its users see it deciding on land: evaluations           *)
(* (EvaluateJobs) and board sessions (BoardSessions) are threads of the same *)
(* worker processes and write to the same database.  A worker that dies      *)
(* takes the jobs and the sessions it hosts with it at once.                *)
(***************************************************************************)
EXTENDS EvaluateJobs, BoardSessions

vars == <<jobVars, sessionVars, workerVars>>

TypeOK == JobsTypeOK /\ SessionsTypeOK /\ WorkersTypeOK

Init == JobsInit /\ SessionsInit /\ WorkersInit

WorkerDies(w) == Killed /\ JobsDie(w) /\ SessionsDie(w)

Next ==
  \/ JobsNext /\ UNCHANGED sessionVars
  \/ SessionsNext /\ UNCHANGED jobVars
  \/ \E w \in Workers : WorkerDies(w)

Spec == Init /\ [][Next]_vars
FairSpec == Spec /\ JobsFair /\ SessionsFair
=============================================================================
