-------------------------- MODULE DashboardWorkers --------------------------
(***************************************************************************)
(* What the long-running jobs of the dashboard share: the uvicorn worker    *)
(* processes whose threads they are, and one Postgres.  A worker may die     *)
(* with all its threads and its memory; any single database call may fail.   *)
(* Both modules that extend this one (EvaluateJobs, BoardSessions) catch the *)
(* failure of each database call where it happens, log it and go on.         *)
(***************************************************************************)
EXTENDS Naturals

CONSTANTS
  Workers,     \* the uvicorn workers
  MaxFaults,   \* bound on failing database calls
  MaxCrashes   \* bound on deaths of workers

ASSUME WorkersAssumption ==
  /\ MaxFaults \in Nat
  /\ MaxCrashes \in Nat

VARIABLES
  faults,    \* database calls that have failed
  crashes    \* workers that have died and were replaced

workerVars == <<faults, crashes>>

WorkersTypeOK ==
  /\ faults \in 0..MaxFaults
  /\ crashes \in 0..MaxCrashes

WorkersInit ==
  /\ faults = 0
  /\ crashes = 0

\* A database call goes through, or raises and is swallowed.
Reached == UNCHANGED workerVars
Missed ==
  /\ faults < MaxFaults
  /\ faults' = faults + 1
  /\ UNCHANGED crashes

\* A worker is killed and replaced by one with the same name and empty memory.
Killed ==
  /\ crashes < MaxCrashes
  /\ crashes' = crashes + 1
  /\ UNCHANGED faults
=============================================================================
