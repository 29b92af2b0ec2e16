---------------------------- MODULE EvaluateJobs ----------------------------
(***************************************************************************)
(* The evaluation of a land parcel: src/crews/evaluate_pipeline.py.          *)
(*                                                                         *)
(* A job lives twice: as an object in the dictionary _jobs of the worker     *)
(* that took the request, and as a row of evaluate_jobs.  Its thread runs    *)
(* the stages one after the other and writes both before each of them; a     *)
(* poll is answered from the dictionary of the worker it happens to reach,   *)
(* and from the row when that worker does not know the job.  The dictionary  *)
(* and the row change under _jobs_lock, so that no poll of the same worker   *)
(* sees one without the other.                                              *)
(***************************************************************************)
EXTENDS DashboardWorkers

CONSTANTS
  Jobs,      \* evaluations the clients ask for
  Agents     \* the shareholder agents, no more than the four threads of their pool

VARIABLES
  owner,     \* the worker that took the request
  stage,     \* what the thread of a job is doing, or how it has ended
  mem,       \* status of the job in the dictionary of its owner
  row,       \* status of its row in evaluate_jobs
  lagging,   \* the last write to the row was lost (auxiliary)
  answered,  \* shareholders whose future is done
  entries,   \* shareholders with an entry in the results of the round
  deal,      \* the deals row of the job and its memo are stored
  told       \* the client's last answer

recordVars == <<owner, mem, row, lagging>>
roundVars == <<answered, entries>>
jobVars == <<recordVars, roundVars, stage, deal, told>>

Statuses == {"none", "pending", "running", "complete", "failed"}
Outcomes == {"complete", "failed"}
Stages == {"begin", "intel", "board", "memo", "brief", "round", "deal", "finish"}

\* The stage that follows one whose work may raise.
After == [intel |-> "board", board |-> "memo", memo |-> "brief", brief |-> "round"]

JobsTypeOK ==
  /\ owner \in [Jobs -> Workers]
  /\ stage \in [Jobs -> Stages \cup Outcomes \cup {"new", "dead"}]
  /\ mem \in [Jobs -> Statuses]
  /\ row \in [Jobs -> Statuses]
  /\ lagging \in [Jobs -> BOOLEAN]
  /\ answered \in [Jobs -> SUBSET Agents]
  /\ entries \in [Jobs -> SUBSET Agents]
  /\ deal \in [Jobs -> BOOLEAN]
  /\ told \in [Jobs -> Statuses]

JobsInit ==
  /\ owner \in [Jobs -> Workers]
  /\ stage = [j \in Jobs |-> "new"]
  /\ mem = [j \in Jobs |-> "none"]
  /\ row = [j \in Jobs |-> "none"]
  /\ lagging = [j \in Jobs |-> FALSE]
  /\ answered = [j \in Jobs |-> {}]
  /\ entries = [j \in Jobs |-> {}]
  /\ deal = [j \in Jobs |-> FALSE]
  /\ told = [j \in Jobs |-> "none"]

\* _periodic_cleanup: finished jobs of w that may be older than a day, when the
\* dictionary has grown beyond its maximum.
Stale(w) == {j \in Jobs : owner[j] = w /\ mem[j] \in Outcomes}
Without(gone) == [j \in Jobs |-> IF j \in gone THEN "none" ELSE mem[j]]

---------------------------------------------------------------------------
(* Writing a job *)

\* Mutant of Record: the row is written before the job is, from its old status.
RecordStale(j, status) ==
  /\ mem' = [mem EXCEPT ![j] = status]
  /\ \/ /\ Reached
        /\ row' = IF row[j] = "none" THEN row ELSE [row EXCEPT ![j] = mem[j]]
        /\ lagging' = IF row[j] = "none" THEN lagging ELSE [lagging EXCEPT ![j] = FALSE]
     \/ /\ Missed
        /\ UNCHANGED row
        /\ lagging' = [lagging EXCEPT ![j] = TRUE]

\* _update_job and the block that completes the job: the dictionary and then the row,
\* which the update finds only if its insertion went through.
Record(j, status) ==
  /\ mem' = [mem EXCEPT ![j] = status]
  /\ \/ /\ Reached
        /\ row' = IF row[j] = "none" THEN row ELSE [row EXCEPT ![j] = status]
        /\ lagging' = IF row[j] = "none" THEN lagging ELSE [lagging EXCEPT ![j] = FALSE]
     \/ /\ Missed
        /\ UNCHANGED row
        /\ lagging' = [lagging EXCEPT ![j] = TRUE]

\* start_evaluate: clean up, enter the job, insert its row, start its thread.
StartEvaluate(j) ==
  /\ stage[j] = "new"
  /\ \E gone \in SUBSET Stale(owner[j]) :
       mem' = [Without(gone) EXCEPT ![j] = "pending"]
  /\ \/ /\ Reached
        /\ row' = [row EXCEPT ![j] = "pending"]
        /\ UNCHANGED lagging
     \/ /\ Missed
        /\ UNCHANGED row
        /\ lagging' = [lagging EXCEPT ![j] = TRUE]
  /\ stage' = [stage EXCEPT ![j] = "begin"]
  /\ UNCHANGED <<owner, roundVars, deal, told>>

---------------------------------------------------------------------------
(* The thread of a job: _run_pipeline *)

\* Mutant of MoveTo: the job is reported complete before its deal is entered.
MoveToComplete(j, next) ==
  /\ stage' = [stage EXCEPT ![j] = next]
  /\ Record(j, IF next = "deal" THEN "complete" ELSE "running")
  /\ UNCHANGED <<owner, deal, told>>

MoveTo(j, next) ==
  /\ stage' = [stage EXCEPT ![j] = next]
  /\ Record(j, "running")
  /\ UNCHANGED <<owner, deal, told>>

BeginJob(j) ==
  /\ stage[j] = "begin"
  /\ MoveTo(j, "intel")
  /\ UNCHANGED roundVars

\* The intelligence modules, the board room, the memo and the brief.
StageReturns(j) ==
  /\ stage[j] \in DOMAIN After
  /\ MoveTo(j, After[stage[j]])
  /\ UNCHANGED roundVars

StageRaises(j) ==
  /\ stage[j] \in DOMAIN After
  /\ stage' = [stage EXCEPT ![j] = "failed"]
  /\ Record(j, "failed")
  /\ UNCHANGED <<owner, roundVars, deal, told>>

\* run_shareholder_round: the agents answer, or raise, in threads of their own;
\* as_completed hands their futures on.
AgentAnswers(j, a) ==
  /\ stage[j] = "round"
  /\ a \notin answered[j]
  /\ answered' = [answered EXCEPT ![j] = @ \cup {a}]
  /\ UNCHANGED <<recordVars, entries, stage, deal, told, workerVars>>

AgentCollected(j, a) ==
  /\ stage[j] = "round"
  /\ a \in answered[j] \ entries[j]
  /\ entries' = [entries EXCEPT ![j] = @ \cup {a}]
  /\ UNCHANGED <<recordVars, answered, stage, deal, told, workerVars>>

RoundReturns(j) ==
  /\ stage[j] = "round"
  /\ entries[j] = Agents
  /\ MoveTo(j, "deal")
  /\ UNCHANGED roundVars

\* Mutant of RoundTimesOut: shutdown(wait=True).
RoundWaits(j) ==
  /\ stage[j] = "round"
  /\ entries[j] # Agents
  /\ answered[j] = Agents
  /\ UNCHANGED roundVars
  /\ MoveTo(j, "deal")

\* After 90 seconds.  The handler of TimeoutError puts the specifications of the
\* futures that are not done into a set; they are dictionaries, so a single one makes
\* it raise and the round returns an empty list.  The threads are not waited for.
RoundTimesOut(j) ==
  /\ stage[j] = "round"
  /\ entries[j] # Agents
  /\ entries' = IF answered[j] = Agents THEN entries ELSE [entries EXCEPT ![j] = {}]
  /\ UNCHANGED answered
  /\ MoveTo(j, "deal")

\* Mutant of CreateDeal: the deal is entered before the investor brief is written.
CreateDealEarly(j) ==
  /\ stage[j] \in {"memo", "deal"}
  /\ stage' = [stage EXCEPT ![j] = IF @ = "memo" THEN "brief" ELSE "finish"]
  /\ deal' = [deal EXCEPT ![j] = TRUE]
  /\ UNCHANGED <<recordVars, roundVars, told, workerVars>>

\* _create_deal_entry: the deal and its memo in one transaction, or None.
CreateDeal(j) ==
  /\ stage[j] = "deal"
  /\ stage' = [stage EXCEPT ![j] = "finish"]
  /\ \/ deal' = [deal EXCEPT ![j] = TRUE]
     \/ UNCHANGED deal
  /\ UNCHANGED <<recordVars, roundVars, told, workerVars>>

Finish(j) ==
  /\ stage[j] = "finish"
  /\ stage' = [stage EXCEPT ![j] = "complete"]
  /\ Record(j, "complete")
  /\ UNCHANGED <<owner, roundVars, deal, told>>

---------------------------------------------------------------------------
(* Polls and deaths *)

\* get_evaluate_job on worker w: clean up, then the dictionary, then the row.  A
\* query that fails answers like a row that does not exist.
Poll(w, j) ==
  /\ stage[j] # "new"
  /\ \E gone \in SUBSET Stale(w) :
       /\ mem' = Without(gone)
       /\ \/ /\ owner[j] = w /\ mem'[j] # "none"
             /\ told' = [told EXCEPT ![j] = mem'[j]]
             /\ UNCHANGED workerVars
          \/ /\ ~(owner[j] = w /\ mem'[j] # "none")
             /\ \/ Reached /\ told' = [told EXCEPT ![j] = row[j]]
                \/ Missed /\ told' = [told EXCEPT ![j] = "none"]
  /\ UNCHANGED <<owner, row, lagging, roundVars, stage, deal>>

\* The part of the death of worker w that concerns its jobs.
JobsDie(w) ==
  /\ mem' = [j \in Jobs |-> IF owner[j] = w THEN "none" ELSE mem[j]]
  /\ stage' = [j \in Jobs |->
                 IF owner[j] = w /\ stage[j] \in Stages THEN "dead" ELSE stage[j]]
  /\ UNCHANGED <<owner, row, lagging, roundVars, deal, told>>

JobWorks(j) == BeginJob(j) \/ StageReturns(j) \/ StageRaises(j)
RoundWorks(j) == \/ \E a \in Agents : AgentCollected(j, a)
                 \/ RoundReturns(j) \/ RoundTimesOut(j)
JobCloses(j) == CreateDeal(j) \/ Finish(j)

JobsNext ==
  \/ \E j \in Jobs : \/ StartEvaluate(j) \/ JobWorks(j) \/ RoundWorks(j) \/ JobCloses(j)
                     \/ \E a \in Agents : AgentAnswers(j, a)
  \/ \E w \in Workers, j \in Jobs : Poll(w, j)

\* From the round on a job waits for nothing without a timeout: the threads run.  The
\* stages before it wait for language models without one.
JobsFair == \A j \in Jobs : WF_<<jobVars, workerVars>>(RoundWorks(j) \/ JobCloses(j))

---------------------------------------------------------------------------
(* Properties *)

\* The promise to the client.
outcome == [j \in Jobs |-> IF stage[j] \in Outcomes THEN stage[j] ELSE "none"]
Promised == INSTANCE JobPromise
KeepsPromise == Promised!Promise

Rank == [none |-> 0, pending |-> 1, running |-> 2, complete |-> 3, failed |-> 3]

\* A client that polls through any worker sees its job go back (complete and then
\* running, or found and then not) only if the last write to its row was lost, or if
\* the query behind this very answer failed.  (get_evaluate_job, _update_job)
StepsBackOnlyByFault ==
  [][\A j \in Jobs : Rank[told'[j]] < Rank[told[j]] => lagging[j] \/ faults' # faults]_<<jobVars, workerVars>>

\* A deal in the pipeline stems from an evaluation that is complete or about to be:
\* never from one that failed, and a client can learn of it unless the worker died or
\* the job's last write was lost.  (_create_deal_entry before the completing block)
DealHasJob ==
  \A j \in Jobs : deal[j] =>
    \/ stage[j] = "finish"
    \/ stage[j] = "dead" /\ crashes > 0
    \/ stage[j] = "complete" /\ (row[j] = "complete" \/ lagging[j])

\* Agents that never answer do not hold a job: once in the round it ends, unless its
\* worker dies.  (executor.shutdown(wait=False))
RoundEnds ==
  \A j \in Jobs : stage[j] = "round" ~> stage[j] \in {"complete", "dead"}
=============================================================================
