----------------------------- MODULE JobPromise -----------------------------
(***************************************************************************)
(* What POST /api/evaluate promises to the client that polls its job,       *)
(* src/crews/evaluate_pipeline.py: an outcome is decided at most once, and   *)
(* a client that hears an outcome hears the one that was decided, from       *)
(* whichever worker answers.  Progress may be reported late or not at all.   *)
(***************************************************************************)
CONSTANT Jobs

VARIABLES
  outcome,   \* what became of a job, "none" while nothing has
  told       \* the answer to the client's last poll

Outcomes == {"complete", "failed"}
Progress == {"none", "pending", "running"}

PromiseInit ==
  /\ outcome = [j \in Jobs |-> "none"]
  /\ told = [j \in Jobs |-> "none"]

Decide(j) ==
  /\ outcome[j] = "none"
  /\ \E o \in Outcomes : outcome' = [outcome EXCEPT ![j] = o]
  /\ UNCHANGED told

Tell(j) ==
  /\ \E answer \in Progress \cup ({outcome[j]} \cap Outcomes) :
       told' = [told EXCEPT ![j] = answer]
  /\ UNCHANGED outcome

PromiseNext == \E j \in Jobs : Decide(j) \/ Tell(j)

Promise == PromiseInit /\ [][PromiseNext]_<<outcome, told>>
=============================================================================
