------------------------- MODULE DecisionDeskProofs -------------------------
(***************************************************************************)
(* Proofs about the decision desk, for any number of workers, jobs, agents,  *)
(* sessions, heads, failing database calls and dying workers: its types,     *)
(* the promise its evaluations keep, and the safety of both of its parts.    *)
(* Jobs and sessions share no variable but those of DashboardWorkers, so     *)
(* there is one invariant for each, and the death of a worker is the one     *)
(* step that touches both.                                                  *)
(***************************************************************************)
EXTENDS DecisionDesk, TLAPS

USE WorkersAssumption DEF WorkersAssumption

---------------------------------------------------------------------------
(* Types *)

\* A database call, whether it goes through or fails, stays within the bounds.
LEMMA CallTyping ==
  ASSUME WorkersTypeOK, Reached \/ Missed
  PROVE  WorkersTypeOK'
  <1>1. CASE Reached
    BY <1>1 DEF Reached, workerVars, WorkersTypeOK
  <1>2. CASE Missed
    BY <1>2 DEF Missed, WorkersTypeOK
  <1>3. QED
    BY <1>1, <1>2

\* The stages whose work may raise, and what follows them.
LEMMA AfterStages ==
  \A s \in DOMAIN After : /\ s \in Stages
                          /\ s \notin {"begin", "round", "deal", "finish"}
                          /\ After[s] \in {"board", "memo", "brief", "round"}
  BY DEF After, Stages

\* What _update_job writes, in the dictionary and the row, keeps its type.
LEMMA RecordTyping ==
  ASSUME JobsTypeOK, WorkersTypeOK, NEW j \in Jobs, NEW status \in Statuses,
         Record(j, status)
  PROVE  /\ mem' \in [Jobs -> Statuses]
         /\ row' \in [Jobs -> Statuses]
         /\ lagging' \in [Jobs -> BOOLEAN]
         /\ WorkersTypeOK'
  <1>1. WorkersTypeOK'
    BY CallTyping DEF Record
  <1>2. mem' \in [Jobs -> Statuses] /\ row' \in [Jobs -> Statuses]
    BY DEF Record, JobsTypeOK
  <1>3. lagging' \in [Jobs -> BOOLEAN]
    BY DEF Record, JobsTypeOK
  <1>4. QED
    BY <1>1, <1>2, <1>3

\* So does a move to another stage.
LEMMA MoveToTyping ==
  ASSUME JobsTypeOK, WorkersTypeOK, NEW j \in Jobs, NEW next \in Stages,
         MoveTo(j, next), entries' \in [Jobs -> SUBSET Agents], UNCHANGED answered
  PROVE  JobsTypeOK' /\ WorkersTypeOK'
  <1>1. /\ mem' \in [Jobs -> Statuses]
        /\ row' \in [Jobs -> Statuses]
        /\ lagging' \in [Jobs -> BOOLEAN]
        /\ WorkersTypeOK'
    BY RecordTyping DEF MoveTo, Statuses
  <1>2. QED
    BY <1>1 DEF MoveTo, JobsTypeOK

\* No step of a job leaves the types.
LEMMA JobsTyping ==
  ASSUME JobsTypeOK, WorkersTypeOK, JobsNext
  PROVE  JobsTypeOK' /\ WorkersTypeOK'
  <1>1. ASSUME NEW j \in Jobs, StartEvaluate(j) PROVE JobsTypeOK' /\ WorkersTypeOK'
    <2>1. WorkersTypeOK'
      BY <1>1, CallTyping DEF StartEvaluate
    <2>2. mem' \in [Jobs -> Statuses]
      BY <1>1 DEF StartEvaluate, Without, JobsTypeOK, Statuses
    <2>3. row' \in [Jobs -> Statuses]
      BY <1>1 DEF StartEvaluate, JobsTypeOK, Statuses
    <2>4. lagging' \in [Jobs -> BOOLEAN]
      BY <1>1 DEF StartEvaluate, JobsTypeOK
    <2>5. stage' \in [Jobs -> Stages \cup Outcomes \cup {"new", "dead"}]
      BY <1>1 DEF StartEvaluate, JobsTypeOK, Stages
    <2>6. QED
      BY <1>1, <2>1, <2>2, <2>3, <2>4, <2>5 DEF StartEvaluate, roundVars, JobsTypeOK
  <1>2. ASSUME NEW j \in Jobs, BeginJob(j) PROVE JobsTypeOK' /\ WorkersTypeOK'
    <2>1. "intel" \in Stages
      BY DEF Stages
    <2>2. entries' \in [Jobs -> SUBSET Agents] /\ UNCHANGED answered
      BY <1>2 DEF BeginJob, roundVars, JobsTypeOK
    <2>3. QED
      BY <1>2, <2>1, <2>2, MoveToTyping DEF BeginJob
  <1>3. ASSUME NEW j \in Jobs, StageReturns(j) PROVE JobsTypeOK' /\ WorkersTypeOK'
    <2>1. After[stage[j]] \in Stages
      BY <1>3, AfterStages DEF StageReturns, Stages
    <2>2. entries' \in [Jobs -> SUBSET Agents] /\ UNCHANGED answered
      BY <1>3 DEF StageReturns, roundVars, JobsTypeOK
    <2>3. QED
      BY <1>3, <2>1, <2>2, MoveToTyping DEF StageReturns
  <1>4. ASSUME NEW j \in Jobs, StageRaises(j) PROVE JobsTypeOK' /\ WorkersTypeOK'
    <2>1. /\ mem' \in [Jobs -> Statuses]
          /\ row' \in [Jobs -> Statuses]
          /\ lagging' \in [Jobs -> BOOLEAN]
          /\ WorkersTypeOK'
      BY <1>4, RecordTyping DEF StageRaises, Statuses
    <2>2. QED
      BY <1>4, <2>1 DEF StageRaises, roundVars, JobsTypeOK, Outcomes
  <1>5. ASSUME NEW j \in Jobs, NEW a \in Agents, AgentAnswers(j, a) \/ AgentCollected(j, a)
        PROVE  JobsTypeOK' /\ WorkersTypeOK'
    BY <1>5 DEF AgentAnswers, AgentCollected, recordVars, workerVars, JobsTypeOK, WorkersTypeOK
  <1>6. ASSUME NEW j \in Jobs, RoundReturns(j) \/ RoundTimesOut(j)
        PROVE  JobsTypeOK' /\ WorkersTypeOK'
    <2>1. "deal" \in Stages
      BY DEF Stages
    <2>2. entries' \in [Jobs -> SUBSET Agents] /\ UNCHANGED answered
      BY <1>6 DEF RoundReturns, RoundTimesOut, roundVars, JobsTypeOK
    <2>3. MoveTo(j, "deal")
      BY <1>6 DEF RoundReturns, RoundTimesOut
    <2>4. QED
      BY <2>1, <2>2, <2>3, MoveToTyping
  <1>7. ASSUME NEW j \in Jobs, CreateDeal(j) PROVE JobsTypeOK' /\ WorkersTypeOK'
    BY <1>7 DEF CreateDeal, recordVars, roundVars, workerVars, JobsTypeOK, WorkersTypeOK, Stages
  <1>8. ASSUME NEW j \in Jobs, Finish(j) PROVE JobsTypeOK' /\ WorkersTypeOK'
    <2>1. /\ mem' \in [Jobs -> Statuses]
          /\ row' \in [Jobs -> Statuses]
          /\ lagging' \in [Jobs -> BOOLEAN]
          /\ WorkersTypeOK'
      BY <1>8, RecordTyping DEF Finish, Statuses
    <2>2. QED
      BY <1>8, <2>1 DEF Finish, roundVars, JobsTypeOK, Outcomes
  <1>9. ASSUME NEW w \in Workers, NEW j \in Jobs, Poll(w, j) PROVE JobsTypeOK' /\ WorkersTypeOK'
    <2>1. mem' \in [Jobs -> Statuses]
      BY <1>9 DEF Poll, Without, JobsTypeOK, Statuses
    <2>2. told' \in [Jobs -> Statuses] /\ WorkersTypeOK'
      BY <1>9, <2>1 DEF Poll, Reached, Missed, workerVars, JobsTypeOK, WorkersTypeOK, Statuses
    <2>3. QED
      BY <1>9, <2>1, <2>2 DEF Poll, roundVars, JobsTypeOK
  <1>10. QED
    BY <1>1, <1>2, <1>3, <1>4, <1>5, <1>6, <1>7, <1>8, <1>9
       DEF JobsNext, JobWorks, RoundWorks, JobCloses

\* No step of a session leaves the types.
LEMMA SessionsTyping ==
  ASSUME SessionsTypeOK, WorkersTypeOK, SessionsNext
  PROVE  SessionsTypeOK' /\ WorkersTypeOK'
  <1> USE DEF SessionsTypeOK, Working, Ended, GoTo, headVars
  <1>0. ASSUME UNCHANGED workerVars PROVE WorkersTypeOK'
    BY <1>0 DEF workerVars, WorkersTypeOK
  <1>1. ASSUME NEW s \in Sessions, CreateSession(s) \/ Activate(s) \/ Decompose(s)
        PROVE  SessionsTypeOK' /\ WorkersTypeOK'
    <2>1. WorkersTypeOK'
      BY <1>1, <1>0, CallTyping DEF CreateSession, Activate, Decompose
    <2>2. SessionsTypeOK'
      BY <1>1 DEF CreateSession, Activate, Decompose
    <2>3. QED
      BY <2>1, <2>2
  <1>2. ASSUME NEW s \in Sessions, NEW h \in Heads, HeadReplies(s, h) \/ KeepResponse(s, h)
        PROVE  SessionsTypeOK' /\ WorkersTypeOK'
    <2>1. WorkersTypeOK'
      BY <1>2, <1>0, CallTyping DEF HeadReplies, KeepResponse
    <2>2. SessionsTypeOK'
      BY <1>2 DEF HeadReplies, KeepResponse
    <2>3. QED
      BY <2>1, <2>2
  <1>3. ASSUME NEW s \in Sessions, HeadsTimeOut(s) \/ HeadsReturn(s)
        PROVE  SessionsTypeOK' /\ WorkersTypeOK'
    <2>1. WorkersTypeOK'
      BY <1>3, <1>0, CallTyping DEF HeadsTimeOut, HeadsReturn
    <2>2. SessionsTypeOK'
      BY <1>3 DEF HeadsTimeOut, HeadsReturn
    <2>3. QED
      BY <2>1, <2>2
  <1>4. ASSUME NEW s \in Sessions, CompleteSession(s) \/ SessionRaises(s)
        PROVE  SessionsTypeOK' /\ WorkersTypeOK'
    <2>1. WorkersTypeOK'
      BY <1>4, <1>0, CallTyping DEF CompleteSession, SessionRaises, WriteEnd
    <2>2. SessionsTypeOK'
      BY <1>4 DEF CompleteSession, SessionRaises, WriteEnd
    <2>3. QED
      BY <2>1, <2>2
  <1>5. ASSUME NEW s \in Sessions, EnterVerdict(s) \/ SessionAges(s)
        PROVE  SessionsTypeOK' /\ WorkersTypeOK'
    <2>1. WorkersTypeOK'
      BY <1>5, <1>0, CallTyping DEF EnterVerdict, SessionAges
    <2>2. SessionsTypeOK'
      BY <1>5 DEF EnterVerdict, SessionAges
    <2>3. QED
      BY <2>1, <2>2
  <1>6. ASSUME RecoverStuck
        PROVE  SessionsTypeOK' /\ WorkersTypeOK'
    <2>1. WorkersTypeOK'
      BY <1>6, <1>0, CallTyping DEF RecoverStuck, Stuck
    <2>2. SessionsTypeOK'
      BY <1>6 DEF RecoverStuck, Stuck
    <2>3. QED
      BY <2>1, <2>2
  <1>7. QED
    BY <1>1, <1>2, <1>3, <1>4, <1>5, <1>6 DEF SessionsNext

\* The death of a worker leaves no type either.
LEMMA DyingTyping ==
  ASSUME TypeOK, NEW w \in Workers, WorkerDies(w)
  PROVE  TypeOK'
  BY DEF TypeOK, WorkerDies, Killed, JobsDie, SessionsDie, JobsTypeOK, SessionsTypeOK,
         WorkersTypeOK, Statuses, Stages, Working, roundVars, headVars

\* The types of the decision desk.
THEOREM TypeCorrect == Spec => []TypeOK
  <1>1. Init => TypeOK
    BY DEF Init, JobsInit, SessionsInit, WorkersInit, TypeOK, JobsTypeOK, SessionsTypeOK,
           WorkersTypeOK, Statuses
  <1>2. TypeOK /\ [Next]_vars => TypeOK'
    <2>1. ASSUME TypeOK, JobsNext, UNCHANGED sessionVars PROVE TypeOK'
      BY <2>1, JobsTyping DEF TypeOK, SessionsTypeOK, sessionVars, headVars
    <2>2. ASSUME TypeOK, SessionsNext, UNCHANGED jobVars PROVE TypeOK'
      BY <2>2, SessionsTyping DEF TypeOK, JobsTypeOK, jobVars, recordVars, roundVars
    <2>3. ASSUME TypeOK, UNCHANGED vars PROVE TypeOK'
      BY <2>3 DEF TypeOK, JobsTypeOK, SessionsTypeOK, WorkersTypeOK, vars, jobVars, recordVars,
                  roundVars, sessionVars, headVars, workerVars
    <2>4. QED
      BY <2>1, <2>2, <2>3, DyingTyping DEF Next
  <1>3. QED
    BY <1>1, <1>2, PTL DEF Spec

---------------------------------------------------------------------------
(* Board sessions *)

\* What the thread of a session knows of its row.  Between its two writes the row can
\* only have been failed by the hourly job; after the last one it is complete, or the
\* write was lost.
RowFollowsThread(s) ==
  /\ thread[s] \in {"new", "refused"} => session[s] = "none"
  /\ thread[s] = "activate" => session[s] = "pending"
  /\ thread[s] \in {"decompose", "heads", "extract"} /\ session[s] \in Ended =>
       recovered[s] /\ session[s] = "failed"
  /\ thread[s] = "journal" => session[s] = "complete" \/ lost[s]

JournalFollowsThread(s) ==
  journal[s] => thread[s] = "done" /\ (session[s] = "complete" \/ lost[s])

SessionsInv == \A s \in Sessions : RowFollowsThread(s) /\ JournalFollowsThread(s)

\* Every step of a session keeps the invariant.
LEMMA SessionsInvStep ==
  ASSUME SessionsTypeOK, SessionsInv, SessionsNext
  PROVE  SessionsInv'
  <1> USE DEF SessionsTypeOK, SessionsInv, RowFollowsThread, JournalFollowsThread,
              Working, Ended, GoTo, headVars
  <1>1. ASSUME NEW s \in Sessions, CreateSession(s) PROVE SessionsInv'
    BY <1>1 DEF CreateSession
  <1>2. ASSUME NEW s \in Sessions, Activate(s) PROVE SessionsInv'
    BY <1>2 DEF Activate
  <1>3. ASSUME NEW s \in Sessions, Decompose(s) PROVE SessionsInv'
    BY <1>3 DEF Decompose
  <1>4. ASSUME NEW s \in Sessions, NEW h \in Heads, HeadReplies(s, h) \/ KeepResponse(s, h) PROVE SessionsInv'
    BY <1>4 DEF HeadReplies, KeepResponse
  <1>5. ASSUME NEW s \in Sessions, HeadsTimeOut(s) \/ HeadsReturn(s) PROVE SessionsInv'
    BY <1>5 DEF HeadsTimeOut, HeadsReturn
  <1>6. ASSUME NEW s \in Sessions, CompleteSession(s) PROVE SessionsInv'
    BY <1>6 DEF CompleteSession, WriteEnd
  <1>7. ASSUME NEW s \in Sessions, SessionRaises(s) PROVE SessionsInv'
    BY <1>7 DEF SessionRaises, WriteEnd
  <1>8. ASSUME NEW s \in Sessions, EnterVerdict(s) PROVE SessionsInv'
    BY <1>8 DEF EnterVerdict
  <1>9. ASSUME NEW s \in Sessions, SessionAges(s) PROVE SessionsInv'
    BY <1>9 DEF SessionAges
  <1>10. ASSUME RecoverStuck PROVE SessionsInv'
    BY <1>10 DEF RecoverStuck, Stuck
  <1>11. QED
    BY <1>1, <1>2, <1>3, <1>4, <1>5, <1>6, <1>7, <1>8, <1>9, <1>10 DEF SessionsNext

\* So does the death of its worker.
LEMMA SessionsInvDeath ==
  ASSUME SessionsTypeOK, SessionsInv, NEW w \in Workers, SessionsDie(w)
  PROVE  SessionsInv'
  BY DEF SessionsDie, SessionsTypeOK, SessionsInv, RowFollowsThread, JournalFollowsThread,
         Working, Ended

\* The row and the journal of a session follow its thread.
THEOREM SessionsInvariant == Spec => []SessionsInv
  <1>1. Init => SessionsInv
    BY DEF Init, SessionsInit, SessionsInv, RowFollowsThread, JournalFollowsThread
  <1>2. TypeOK /\ SessionsInv /\ [Next]_vars => SessionsInv'
    <2>1. ASSUME SessionsInv, UNCHANGED sessionVars PROVE SessionsInv'
      BY <2>1 DEF sessionVars, headVars, SessionsInv, RowFollowsThread, JournalFollowsThread
    <2>2. QED
      BY <2>1, SessionsInvStep, SessionsInvDeath DEF Next, WorkerDies, TypeOK, vars
  <1>3. QED
    BY <1>1, <1>2, TypeCorrect, PTL DEF Spec

\* A verdict in the journal belongs to a complete session, or one whose last write was
\* lost.
THEOREM VerdictsHaveSessions == Spec => []VerdictHasSession
  <1>1. SessionsInv => VerdictHasSession
    BY DEF SessionsInv, JournalFollowsThread, VerdictHasSession
  <1>2. QED
    BY <1>1, SessionsInvariant, PTL

\* An ended session changes only from failed by the hourly job to complete by the last
\* write of its own thread.
THEOREM EndsAreFinal == Spec => EndIsFinal
  <1>1. TypeOK /\ SessionsInv /\ [Next]_vars =>
          [\A s \in Sessions :
             session[s] \in Ended /\ session'[s] # session[s] =>
               /\ recovered[s] /\ session[s] = "failed"
               /\ thread[s] = "extract"
               /\ session'[s] = "complete"]_<<sessionVars, workerVars>>
    <2> SUFFICES ASSUME TypeOK, SessionsInv, [Next]_vars, NEW s \in Sessions,
                        session[s] \in Ended, session'[s] # session[s]
                 PROVE  /\ recovered[s] /\ session[s] = "failed"
                        /\ thread[s] = "extract"
                        /\ session'[s] = "complete"
      OBVIOUS
    <2>1. SessionsNext
      BY DEF Next, WorkerDies, SessionsDie, vars, sessionVars
    <2>2. RowFollowsThread(s)
      BY DEF SessionsInv
    <2>3. SessionsTypeOK
      BY DEF TypeOK
    <2>4. ~RecoverStuck
      BY <2>3 DEF RecoverStuck, Stuck, Ended, SessionsTypeOK
    <2>5. CASE \E r \in Sessions : CreateSession(r) \/ Activate(r)
      BY <2>2, <2>3, <2>5 DEF CreateSession, Activate, RowFollowsThread, Ended, SessionsTypeOK
    <2>6. CASE \E r \in Sessions : CompleteSession(r) \/ SessionRaises(r)
      BY <2>2, <2>3, <2>6 DEF CompleteSession, SessionRaises, WriteEnd, RowFollowsThread, Ended,
                              SessionsTypeOK
    <2>7. QED
      BY <2>1, <2>4, <2>5, <2>6
         DEF SessionsNext, Decompose, HeadReplies, KeepResponse, HeadsTimeOut, HeadsReturn,
             EnterVerdict, SessionAges
  <1>2. QED
    BY <1>1, TypeCorrect, SessionsInvariant, PTL DEF Spec, EndIsFinal

---------------------------------------------------------------------------
(* Evaluations *)

\* The record of a job in memory, its row and what the client was told never run ahead
\* of the thread: an outcome that any of them shows is how the thread ended.
ShownIsDecided(j) ==
  /\ mem[j] \in Outcomes => stage[j] = mem[j]
  /\ row[j] \in Outcomes => stage[j] = row[j]
  /\ told[j] \in Outcomes => stage[j] = told[j]
  /\ stage[j] = "new" => mem[j] = "none" /\ row[j] = "none" /\ told[j] = "none"

\* Unless its last write was lost, the row is where the dictionary is, and no client has
\* heard more.
RowIsCurrent(j) ==
  ~lagging[j] =>
    /\ stage[j] # "new" => row[j] # "none"
    /\ mem[j] # "none" => row[j] = mem[j]
    /\ Rank[told[j]] <= Rank[row[j]]
    /\ stage[j] = "complete" => row[j] = "complete"

DealFollowsStage(j) ==
  /\ deal[j] => stage[j] \in {"finish", "complete", "dead"}
  /\ stage[j] = "dead" => crashes > 0

JobsInv == \A j \in Jobs : ShownIsDecided(j) /\ RowIsCurrent(j) /\ DealFollowsStage(j)

\* No step of a job takes back a death.
LEMMA CrashesStay ==
  ASSUME WorkersTypeOK, JobsNext
  PROVE  crashes' = crashes
  BY DEF JobsNext, JobWorks, RoundWorks, JobCloses, StartEvaluate, BeginJob, StageReturns,
         StageRaises, AgentAnswers, AgentCollected, RoundReturns, RoundTimesOut, CreateDeal,
         Finish, Poll, MoveTo, Record, Reached, Missed, workerVars

\* Every step of a job keeps the invariant.
LEMMA JobsInvStep ==
  ASSUME JobsTypeOK, WorkersTypeOK, JobsInv, JobsNext
  PROVE  JobsInv'
  <1> USE DEF JobsTypeOK, JobsInv, ShownIsDecided, RowIsCurrent, DealFollowsStage,
              Statuses, Outcomes, Stages, Rank, roundVars
  <1>0. crashes' = crashes
    BY CrashesStay
  <1>1. ASSUME NEW j \in Jobs, StartEvaluate(j) PROVE JobsInv'
    BY <1>1, <1>0 DEF StartEvaluate, Without, Stale
  <1>2. ASSUME NEW j \in Jobs, BeginJob(j) PROVE JobsInv'
    BY <1>2, <1>0 DEF BeginJob, MoveTo, Record
  <1>3. ASSUME NEW j \in Jobs, StageReturns(j) PROVE JobsInv'
    <2>1. stage[j] \in Stages /\ stage[j] \notin {"begin", "round", "deal", "finish"}
      BY <1>3, AfterStages DEF StageReturns
    <2>2. After[stage[j]] \in {"board", "memo", "brief", "round"}
      BY <1>3, AfterStages DEF StageReturns
    <2>3. QED
      BY <1>3, <1>0, <2>1, <2>2 DEF StageReturns, MoveTo, Record
  <1>4. ASSUME NEW j \in Jobs, StageRaises(j) PROVE JobsInv'
    <2>1. stage[j] \in Stages /\ stage[j] \notin {"begin", "round", "deal", "finish"}
      BY <1>4, AfterStages DEF StageRaises
    <2>2. After[stage[j]] \in {"board", "memo", "brief", "round"}
      BY <1>4, AfterStages DEF StageRaises
    <2>3. QED
      BY <1>4, <1>0, <2>1, <2>2 DEF StageRaises, Record
  <1>5. ASSUME NEW j \in Jobs, NEW a \in Agents, AgentAnswers(j, a) \/ AgentCollected(j, a) PROVE JobsInv'
    BY <1>5, <1>0 DEF AgentAnswers, AgentCollected, recordVars
  <1>6. ASSUME NEW j \in Jobs, RoundReturns(j) \/ RoundTimesOut(j) PROVE JobsInv'
    BY <1>6, <1>0 DEF RoundReturns, RoundTimesOut, MoveTo, Record
  <1>7. ASSUME NEW j \in Jobs, CreateDeal(j) PROVE JobsInv'
    BY <1>7, <1>0 DEF CreateDeal, recordVars
  <1>8. ASSUME NEW j \in Jobs, Finish(j) PROVE JobsInv'
    BY <1>8, <1>0 DEF Finish, Record
  <1>9. ASSUME NEW w \in Workers, NEW j \in Jobs, Poll(w, j) PROVE JobsInv'
    BY <1>9, <1>0 DEF Poll, Without, Stale
  <1>10. QED
    BY <1>1, <1>2, <1>3, <1>4, <1>5, <1>6, <1>7, <1>8, <1>9 DEF JobsNext, JobWorks, RoundWorks, JobCloses

\* So does the death of its worker.
LEMMA JobsInvDeath ==
  ASSUME JobsTypeOK, WorkersTypeOK, JobsInv, NEW w \in Workers, Killed, JobsDie(w)
  PROVE  JobsInv'
  BY DEF JobsDie, Killed, JobsTypeOK, WorkersTypeOK, JobsInv, ShownIsDecided, RowIsCurrent,
         DealFollowsStage, Statuses, Outcomes, Stages, Rank

\* What is shown has been decided, the row lags only after a lost write, and the deal
\* follows the stage.
THEOREM JobsInvariant == Spec => []JobsInv
  <1>1. Init => JobsInv
    BY DEF Init, JobsInit, JobsInv, ShownIsDecided, RowIsCurrent, DealFollowsStage, Outcomes, Rank
  <1>2. TypeOK /\ JobsInv /\ [Next]_vars => JobsInv'
    <2>1. ASSUME JobsInv, UNCHANGED <<jobVars, crashes>> PROVE JobsInv'
      BY <2>1 DEF jobVars, recordVars, JobsInv, ShownIsDecided, RowIsCurrent, DealFollowsStage
    <2>2. ASSUME TypeOK, SessionsNext, UNCHANGED jobVars, JobsInv PROVE JobsInv'
      <3>1. crashes' = crashes
        BY <2>2 DEF SessionsNext, CreateSession, Activate, Decompose, HeadReplies, KeepResponse,
                    HeadsTimeOut, HeadsReturn, CompleteSession, SessionRaises, WriteEnd,
                    EnterVerdict, SessionAges, RecoverStuck, Reached, Missed, workerVars
      <3>2. QED
        BY <2>1, <2>2, <3>1
    <2>3. QED
      BY <2>1, <2>2, JobsInvStep, JobsInvDeath DEF Next, WorkerDies, TypeOK, vars, workerVars
  <1>3. QED
    BY <1>1, <1>2, TypeCorrect, PTL DEF Spec

\* A deal belongs to an evaluation that is complete or about to be, and can be heard of.
THEOREM DealsHaveJobs == Spec => []DealHasJob
  <1>1. JobsInv => DealHasJob
    BY DEF JobsInv, RowIsCurrent, DealFollowsStage, DealHasJob
  <1>2. QED
    BY <1>1, JobsInvariant, PTL

\* A client sees its job go back only after a lost write or by a failing query.
THEOREM StepsBackNeedFaults == Spec => StepsBackOnlyByFault
  <1>1. TypeOK /\ JobsInv /\ [Next]_vars =>
          [\A j \in Jobs : Rank[told'[j]] < Rank[told[j]] =>
             lagging[j] \/ faults' # faults]_<<jobVars, workerVars>>
    <2> SUFFICES ASSUME TypeOK, JobsInv, [Next]_vars, NEW j \in Jobs,
                        Rank[told'[j]] < Rank[told[j]], ~lagging[j]
                 PROVE  faults' # faults
      OBVIOUS
    <2>1. told' # told /\ JobsTypeOK /\ WorkersTypeOK /\ RowIsCurrent(j)
      BY DEF TypeOK, JobsInv, JobsTypeOK, Rank, Statuses
    <2>2. PICK w \in Workers, k \in Jobs : Poll(w, k)
      BY <2>1 DEF Next, WorkerDies, JobsDie, vars, jobVars, JobsNext, JobWorks, RoundWorks,
                  JobCloses, StartEvaluate, BeginJob, StageReturns, StageRaises, AgentAnswers,
                  AgentCollected, RoundReturns, RoundTimesOut, CreateDeal, Finish, MoveTo
    <2>3. k = j
      BY <2>1, <2>2 DEF Poll, JobsTypeOK, Rank, Statuses
    <2>4. told'[j] # row[j]
      BY <2>1 DEF RowIsCurrent, JobsTypeOK, Rank, Statuses
    <2>5. ASSUME mem'[j] # "none" PROVE told'[j] # mem'[j]
      BY <2>1, <2>2, <2>4, <2>5 DEF Poll, Without, RowIsCurrent, JobsTypeOK
    <2>6. Missed
      BY <2>1, <2>2, <2>3, <2>4, <2>5 DEF Poll, JobsTypeOK
    <2>7. QED
      BY <2>1, <2>6 DEF Missed, WorkersTypeOK
  <1>2. QED
    BY <1>1, TypeCorrect, JobsInvariant, PTL DEF Spec, StepsBackOnlyByFault

---------------------------------------------------------------------------
(* The promise to the client *)

\* An answer that the promise allows.
LEMMA TellSteps ==
  ASSUME JobsTypeOK, JobsInv, NEW w \in Workers, NEW j \in Jobs, Poll(w, j)
  PROVE  Promised!Tell(j)
  <1>1. \/ told' = [told EXCEPT ![j] = mem[j]]
        \/ told' = [told EXCEPT ![j] = row[j]]
        \/ told' = [told EXCEPT ![j] = "none"]
    BY DEF Poll, Without, JobsTypeOK
  <1>2. \A answer \in {mem[j], row[j], "none"} :
          answer \in Promised!Progress \cup ({outcome[j]} \cap Promised!Outcomes)
    BY DEF JobsTypeOK, JobsInv, ShownIsDecided, Statuses, Outcomes, Promised!Progress,
           Promised!Outcomes, outcome
  <1>3. UNCHANGED outcome
    BY DEF Poll, outcome
  <1>4. QED
    BY <1>1, <1>2, <1>3 DEF Promised!Tell

\* Reaching the end of the pipeline is the decision.
LEMMA DecideSteps ==
  ASSUME JobsTypeOK, NEW j \in Jobs, NEW o \in Outcomes, stage[j] \notin Outcomes,
         stage' = [stage EXCEPT ![j] = o], UNCHANGED told
  PROVE  Promised!Decide(j)
  <1>1. outcome[j] = "none"
    BY DEF outcome
  <1>2. outcome' = [outcome EXCEPT ![j] = o]
    BY DEF outcome, JobsTypeOK, Outcomes
  <1>3. QED
    BY <1>1, <1>2 DEF Promised!Decide, Promised!Outcomes, Outcomes

\* A job that moves on within its pipeline has decided nothing.
LEMMA WorkSteps ==
  ASSUME JobsTypeOK, NEW j \in Jobs, NEW next \in Stages, stage[j] \notin Outcomes,
         stage' = [stage EXCEPT ![j] = next], UNCHANGED told
  PROVE  UNCHANGED <<outcome, told>>
  <1>1. next \notin Outcomes
    BY DEF Stages, Outcomes
  <1>2. \A k \in Jobs : (stage'[k] \in Outcomes) = (stage[k] \in Outcomes)
                        /\ (stage[k] \in Outcomes => stage'[k] = stage[k])
    BY <1>1 DEF JobsTypeOK
  <1>3. QED
    BY <1>2 DEF outcome

\* The evaluation pipeline implements the promise.
THEOREM PromiseIsKept == Spec => KeepsPromise
  <1>1. Init => Promised!PromiseInit
    BY DEF Init, JobsInit, Promised!PromiseInit, outcome, Outcomes
  <1>2. TypeOK /\ JobsInv /\ [Next]_vars => [Promised!PromiseNext]_<<outcome, told>>
    <2> SUFFICES ASSUME TypeOK, JobsInv, [Next]_vars
                 PROVE  (\E j \in Jobs : Promised!Decide(j) \/ Promised!Tell(j))
                        \/ UNCHANGED <<outcome, told>>
      BY DEF Promised!PromiseNext
    <2> USE DEF TypeOK
    <2>1. CASE UNCHANGED <<stage, told>>
      BY <2>1 DEF outcome
    <2>2. ASSUME NEW w \in Workers, NEW j \in Jobs, Poll(w, j) PROVE Promised!Tell(j)
      BY <2>2, TellSteps
    <2>3. ASSUME NEW j \in Jobs, StageRaises(j) \/ Finish(j) PROVE Promised!Decide(j)
      <3>1. stage[j] \notin Outcomes
        BY <2>3, AfterStages DEF StageRaises, Finish, Outcomes, Stages
      <3>2. \E o \in Outcomes : stage' = [stage EXCEPT ![j] = o]
        BY <2>3 DEF StageRaises, Finish, Outcomes
      <3>3. UNCHANGED told
        BY <2>3 DEF StageRaises, Finish
      <3>4. QED
        BY <3>1, <3>2, <3>3, DecideSteps
    <2>4. ASSUME NEW j \in Jobs,
                 StartEvaluate(j) \/ BeginJob(j) \/ StageReturns(j) \/ RoundReturns(j)
                   \/ RoundTimesOut(j) \/ CreateDeal(j)
          PROVE  UNCHANGED <<outcome, told>>
      <3>1. stage[j] \notin Outcomes
        BY <2>4, AfterStages DEF StartEvaluate, BeginJob, StageReturns, RoundReturns,
           RoundTimesOut, CreateDeal, Outcomes, Stages
      <3>2. \E next \in Stages : stage' = [stage EXCEPT ![j] = next]
        BY <2>4, AfterStages DEF StartEvaluate, BeginJob, StageReturns, RoundReturns,
           RoundTimesOut, CreateDeal, MoveTo, Stages
      <3>3. UNCHANGED told
        BY <2>4 DEF StartEvaluate, BeginJob, StageReturns, RoundReturns, RoundTimesOut,
           CreateDeal, MoveTo
      <3>4. QED
        BY <3>1, <3>2, <3>3, WorkSteps
    <2>5. ASSUME NEW j \in Jobs, NEW a \in Agents, AgentAnswers(j, a) \/ AgentCollected(j, a)
          PROVE  UNCHANGED <<outcome, told>>
      BY <2>5 DEF AgentAnswers, AgentCollected, outcome
    <2>6. ASSUME NEW w \in Workers, WorkerDies(w) PROVE UNCHANGED <<outcome, told>>
      <3>1. \A k \in Jobs : (stage'[k] \in Outcomes) = (stage[k] \in Outcomes)
                            /\ (stage[k] \in Outcomes => stage'[k] = stage[k])
        BY <2>6 DEF WorkerDies, JobsDie, JobsTypeOK, Stages, Outcomes
      <3>2. QED
        BY <2>6, <3>1 DEF WorkerDies, JobsDie, outcome
    <2>7. CASE JobsNext
      BY <2>2, <2>3, <2>4, <2>5, <2>7 DEF JobsNext, JobWorks, RoundWorks, JobCloses
    <2>8. QED
      BY <2>1, <2>6, <2>7 DEF Next, vars, jobVars
  <1>3. QED
    BY <1>1, <1>2, TypeCorrect, JobsInvariant, PTL DEF Spec, KeepsPromise, Promised!Promise

---------------------------------------------------------------------------
(* What the promise means to a client *)

\* A client that has heard an outcome never hears another one, and the job it belongs to
\* does nothing any more.
OutcomeIsFinal ==
  [][\A j \in Jobs : told[j] \in Outcomes =>
       outcome'[j] = told[j] /\ (told'[j] \in Outcomes => told'[j] = told[j])]_<<outcome, told>>

\* Heard outcomes have been decided.
Heard == \A j \in Jobs : told[j] \in Outcomes => outcome[j] = told[j]

\* A step that the promise allows takes no decision back and tells of none that was not
\* taken.
LEMMA PromiseSteps ==
  ASSUME Heard, Promised!PromiseNext \/ UNCHANGED <<outcome, told>>
  PROVE  /\ Heard'
         /\ \A j \in Jobs : told[j] \in Outcomes =>
              outcome'[j] = told[j] /\ (told'[j] \in Outcomes => told'[j] = told[j])
  <1> USE DEF Heard, Outcomes, Promised!Outcomes, Promised!Progress
  <1>1. ASSUME NEW k \in Jobs, Promised!Decide(k)
        PROVE  told' = told /\ \A j \in Jobs : outcome[j] # "none" => outcome'[j] = outcome[j]
    <2>1. \A j \in Jobs : outcome'[j] = outcome[j] \/ j = k
      BY <1>1 DEF Promised!Decide, outcome
    <2>2. QED
      BY <1>1, <2>1 DEF Promised!Decide
  <1>2. ASSUME NEW k \in Jobs, Promised!Tell(k)
        PROVE  /\ outcome' = outcome
               /\ \A j \in Jobs : told'[j] \in Outcomes =>
                    told'[j] = told[j] \/ told'[j] = outcome[j]
    BY <1>2 DEF Promised!Tell
  <1>3. QED
    BY <1>1, <1>2 DEF Promised!PromiseNext

\* An outcome that a client has heard, from whichever worker, stands: a consequence of
\* the promise alone.
THEOREM OutcomesStand == Spec => []Heard /\ OutcomeIsFinal
  <1>1. Promised!PromiseInit => Heard
    BY DEF Promised!PromiseInit, Heard, Outcomes
  <1>2. Heard /\ [Promised!PromiseNext]_<<outcome, told>> => Heard'
    BY PromiseSteps
  <1>3. Heard /\ [Promised!PromiseNext]_<<outcome, told>> =>
          [\A j \in Jobs : told[j] \in Outcomes =>
             outcome'[j] = told[j]
             /\ (told'[j] \in Outcomes => told'[j] = told[j])]_<<outcome, told>>
    BY PromiseSteps
  <1>4. QED
    BY <1>1, <1>2, <1>3, PromiseIsKept, PTL DEF KeepsPromise, Promised!Promise, OutcomeIsFinal

---------------------------------------------------------------------------
(* Jobs and sessions go forward: the safety halves of RoundEnds and ActiveEnds *)

Place == [new |-> 0, begin |-> 1, intel |-> 2, board |-> 3, memo |-> 4, brief |-> 5,
          round |-> 6, deal |-> 7, finish |-> 8, complete |-> 9, failed |-> 9, dead |-> 9]

\* The thread of a job never comes back to a stage that it has left.  Within the round no
\* entry is dropped, and each step of the collecting thread adds one or ends the round:
\* it takes no more of them than there are agents, whether they answer or not.
\* (_run_pipeline, run_shareholder_round)
JobGoesForward ==
  [][\A j \in Jobs :
       /\ stage'[j] = stage[j] \/ Place[stage[j]] < Place[stage'[j]]
       /\ stage[j] = "round" /\ stage'[j] = "round" => entries[j] \subseteq entries'[j]
       /\ RoundWorks(j) => entries'[j] # entries[j] \/ stage'[j] = "deal"]_vars

\* What a step does to the place of a job and to the entries of its round.
LEMMA JobSteps ==
  ASSUME JobsTypeOK, WorkersTypeOK, Next \/ UNCHANGED vars, NEW j \in Jobs
  PROVE  /\ stage'[j] = stage[j] \/ Place[stage[j]] < Place[stage'[j]]
         /\ stage'[j] = "round" /\ stage[j] = "round" => entries[j] \subseteq entries'[j]
  <1> USE DEF JobsTypeOK
  <1>1. ASSUME NEW k \in Jobs, StartEvaluate(k) \/ BeginJob(k) \/ StageRaises(k)
        PROVE  /\ stage'[j] = stage[j] \/ Place[stage[j]] < Place[stage'[j]]
               /\ entries' = entries
    <2>1. entries' = entries
      BY <1>1 DEF StartEvaluate, BeginJob, StageRaises, roundVars
    <2>2. k # j => stage'[j] = stage[j]
      BY <1>1 DEF StartEvaluate, BeginJob, StageRaises, MoveTo
    <2>3. Place[stage[k]] < Place[stage'[k]]
      BY <1>1, AfterStages DEF StartEvaluate, BeginJob, StageRaises, MoveTo, Place, After
    <2>4. QED
      BY <2>1, <2>2, <2>3
  <1>2. ASSUME NEW k \in Jobs, StageReturns(k)
        PROVE  /\ stage'[j] = stage[j] \/ Place[stage[j]] < Place[stage'[j]]
               /\ entries' = entries
    BY <1>2 DEF StageReturns, MoveTo, After, Place, roundVars
  <1>3. ASSUME NEW k \in Jobs,
               RoundReturns(k) \/ RoundTimesOut(k) \/ CreateDeal(k) \/ Finish(k)
        PROVE  /\ stage'[j] = stage[j] \/ Place[stage[j]] < Place[stage'[j]]
               /\ stage'[j] = "round" => entries'[j] = entries[j]
    BY <1>3 DEF RoundReturns, RoundTimesOut, CreateDeal, Finish, MoveTo, Place, roundVars
  <1>4. ASSUME NEW k \in Jobs, NEW a \in Agents, AgentAnswers(k, a) \/ AgentCollected(k, a)
        PROVE  stage' = stage /\ entries[j] \subseteq entries'[j]
    BY <1>4 DEF AgentAnswers, AgentCollected
  <1>5. ASSUME \/ \E w \in Workers, k \in Jobs : Poll(w, k)
               \/ SessionsNext /\ UNCHANGED jobVars
               \/ UNCHANGED vars
        PROVE  UNCHANGED <<stage, entries>>
    BY <1>5 DEF Poll, vars, jobVars, roundVars
  <1>6. ASSUME NEW w \in Workers, WorkerDies(w)
        PROVE  /\ stage'[j] = stage[j] \/ Place[stage[j]] < Place[stage'[j]]
               /\ entries' = entries
    BY <1>6 DEF WorkerDies, JobsDie, Stages, Place, roundVars
  <1>7. QED
    BY <1>1, <1>2, <1>3, <1>4, <1>5, <1>6 DEF Next, JobsNext, JobWorks, RoundWorks, JobCloses

\* What RoundEnds adds is that the collecting thread runs at all.
THEOREM JobsGoForward == Spec => JobGoesForward
  <1>1. TypeOK /\ [Next]_vars =>
          [\A j \in Jobs :
             /\ stage'[j] = stage[j] \/ Place[stage[j]] < Place[stage'[j]]
             /\ stage[j] = "round" /\ stage'[j] = "round" => entries[j] \subseteq entries'[j]
             /\ RoundWorks(j) => entries'[j] # entries[j] \/ stage'[j] = "deal"]_vars
    <2> SUFFICES ASSUME TypeOK, [Next]_vars, NEW j \in Jobs
                 PROVE  /\ stage'[j] = stage[j] \/ Place[stage[j]] < Place[stage'[j]]
                        /\ stage[j] = "round" /\ stage'[j] = "round" =>
                             entries[j] \subseteq entries'[j]
                        /\ RoundWorks(j) => entries'[j] # entries[j] \/ stage'[j] = "deal"
      OBVIOUS
    <2>1. RoundWorks(j) => entries'[j] # entries[j] \/ stage'[j] = "deal"
      BY DEF TypeOK, JobsTypeOK, RoundWorks, AgentCollected, RoundReturns, RoundTimesOut, MoveTo
    <2>2. QED
      BY <2>1, JobSteps DEF TypeOK
  <1>2. QED
    BY <1>1, TypeCorrect, PTL DEF Spec, JobGoesForward

Phase == [none |-> 0, pending |-> 1, active |-> 2, complete |-> 3, failed |-> 3]

\* The status of a session never goes back, although thread and hourly job write it
\* without looking: none that has ended becomes active again.  A session that is old
\* stays old, and the hourly job ends every active one it finds.
\* (_update_session_row, recover_stuck_board_sessions)
SessionGoesForward ==
  [][\A s \in Sessions :
       /\ Phase[session[s]] <= Phase[session'[s]]
       /\ old[s] => old'[s]
       /\ RecoverStuck /\ session[s] = "active" /\ old[s] => session'[s] = "failed"]_vars

\* What a step does to the row of a session.
LEMMA SessionSteps ==
  ASSUME SessionsTypeOK, SessionsInv, Next \/ UNCHANGED vars, NEW s \in Sessions
  PROVE  Phase[session[s]] <= Phase[session'[s]] /\ (old[s] => old'[s])
  <1> USE DEF SessionsTypeOK, Phase, Ended
  <1>1. RowFollowsThread(s)
    BY DEF SessionsInv
  <1>2. ASSUME NEW r \in Sessions, CreateSession(r) \/ Activate(r)
        PROVE  Phase[session[s]] <= Phase[session'[s]] /\ old' = old
    BY <1>1, <1>2 DEF CreateSession, Activate, RowFollowsThread
  <1>3. ASSUME NEW r \in Sessions, CompleteSession(r) \/ SessionRaises(r)
        PROVE  Phase[session[s]] <= Phase[session'[s]] /\ old' = old
    BY <1>3 DEF CompleteSession, SessionRaises, WriteEnd
  <1>4. ASSUME NEW r \in Sessions, SessionAges(r)
        PROVE  session' = session /\ (old[s] => old'[s])
    BY <1>4 DEF SessionAges
  <1>5. ASSUME RecoverStuck PROVE Phase[session[s]] <= Phase[session'[s]] /\ old' = old
    BY <1>5 DEF RecoverStuck, Stuck
  <1>6. ASSUME \/ \E r \in Sessions : \/ Decompose(r) \/ HeadsTimeOut(r) \/ HeadsReturn(r)
                                      \/ EnterVerdict(r)
                                      \/ \E h \in Heads : HeadReplies(r, h) \/ KeepResponse(r, h)
               \/ \E w \in Workers : WorkerDies(w)
               \/ JobsNext /\ UNCHANGED sessionVars
               \/ UNCHANGED vars
        PROVE  UNCHANGED <<session, old>>
    BY <1>6 DEF Decompose, HeadsTimeOut, HeadsReturn, EnterVerdict, HeadReplies, KeepResponse,
                WorkerDies, SessionsDie, sessionVars, vars
  <1>7. \A x \in Ended \cup {"none", "pending", "active"} : Phase[x] \in Nat
    OBVIOUS
  <1>8. QED
    BY <1>2, <1>3, <1>4, <1>5, <1>6, <1>7 DEF Next, SessionsNext

\* What ActiveEnds adds is that time passes and that the hourly job runs.
THEOREM SessionsGoForward == Spec => SessionGoesForward
  <1>1. TypeOK /\ SessionsInv /\ [Next]_vars =>
          [\A s \in Sessions :
             /\ Phase[session[s]] <= Phase[session'[s]]
             /\ old[s] => old'[s]
             /\ RecoverStuck /\ session[s] = "active" /\ old[s] => session'[s] = "failed"]_vars
    <2> SUFFICES ASSUME TypeOK, SessionsInv, [Next]_vars, NEW s \in Sessions
                 PROVE  /\ Phase[session[s]] <= Phase[session'[s]]
                        /\ old[s] => old'[s]
                        /\ RecoverStuck /\ session[s] = "active" /\ old[s] =>
                             session'[s] = "failed"
      OBVIOUS
    <2>1. RecoverStuck /\ session[s] = "active" /\ old[s] => session'[s] = "failed"
      BY DEF RecoverStuck, Stuck
    <2>2. QED
      BY <2>1, SessionSteps DEF TypeOK
  <1>2. QED
    BY <1>1, TypeCorrect, SessionsInvariant, PTL DEF Spec, SessionGoesForward

---------------------------------------------------------------------------
(* A database that answers *)

\* Nothing was lost on the way to the database.
NothingLost ==
  /\ faults = 0
  /\ \A j \in Jobs : ~lagging[j]
  /\ \A s \in Sessions : ~lost[s]

\* Only a failing call loses a write.
LEMMA LossStep ==
  ASSUME MaxFaults = 0, TypeOK, NothingLost, [Next]_vars
  PROVE  NothingLost'
  <1> USE DEF NothingLost, TypeOK, JobsTypeOK, SessionsTypeOK
  <1>0. ~Missed
    BY DEF Missed
  <1>1. ASSUME NEW j \in Jobs, JobWorks(j) \/ RoundReturns(j) \/ RoundTimesOut(j) \/ Finish(j)
        PROVE  faults' = faults /\ \A k \in Jobs : ~lagging'[k]
    BY <1>0, <1>1 DEF JobWorks, BeginJob, StageReturns, StageRaises, RoundReturns, RoundTimesOut,
                      Finish, MoveTo, Record, Reached, workerVars
  <1>2. ASSUME NEW j \in Jobs, StartEvaluate(j) \/ CreateDeal(j)
        PROVE  UNCHANGED <<faults, lagging>>
    BY <1>0, <1>2 DEF StartEvaluate, CreateDeal, Reached, workerVars, recordVars
  <1>3. ASSUME NEW j \in Jobs, NEW a \in Agents, AgentAnswers(j, a) \/ AgentCollected(j, a)
        PROVE  UNCHANGED <<faults, lagging>>
    BY <1>3 DEF AgentAnswers, AgentCollected, workerVars, recordVars
  <1>4. ASSUME NEW w \in Workers, NEW j \in Jobs, Poll(w, j) PROVE UNCHANGED <<faults, lagging>>
    BY <1>0, <1>4 DEF Poll, Reached, workerVars
  <1>5. ASSUME JobsNext PROVE faults' = faults /\ \A k \in Jobs : ~lagging'[k]
    BY <1>1, <1>2, <1>3, <1>4, <1>5 DEF JobsNext, JobWorks, RoundWorks, JobCloses
  <1>6. ASSUME NEW s \in Sessions, CompleteSession(s) \/ SessionRaises(s)
        PROVE  UNCHANGED <<faults, lost>>
    BY <1>0, <1>6 DEF CompleteSession, SessionRaises, WriteEnd, Reached, workerVars
  <1>7. ASSUME NEW s \in Sessions, CreateSession(s) \/ Activate(s) \/ EnterVerdict(s)
        PROVE  UNCHANGED <<faults, lost>>
    BY <1>0, <1>7 DEF CreateSession, Activate, EnterVerdict, Reached, workerVars
  <1>8. ASSUME \/ RecoverStuck
               \/ \E s \in Sessions : \/ Decompose(s) \/ HeadsTimeOut(s) \/ HeadsReturn(s)
                                      \/ SessionAges(s)
                                      \/ \E h \in Heads : HeadReplies(s, h) \/ KeepResponse(s, h)
        PROVE  UNCHANGED <<faults, lost>>
    BY <1>8 DEF RecoverStuck, Decompose, HeadsTimeOut, HeadsReturn, SessionAges, HeadReplies,
                KeepResponse, workerVars
  <1>9. ASSUME SessionsNext PROVE UNCHANGED <<faults, lost>>
    BY <1>6, <1>7, <1>8, <1>9 DEF SessionsNext
  <1>10. ASSUME NEW w \in Workers, WorkerDies(w) PROVE UNCHANGED <<faults, lagging, lost>>
    BY <1>10 DEF WorkerDies, Killed, JobsDie, SessionsDie
  <1>11. QED
    BY <1>5, <1>9, <1>10 DEF Next, vars, jobVars, recordVars, sessionVars, workerVars

\* A poll by way of any worker hears at least what the one before heard.
ToldGoesForward == [][\A j \in Jobs : ~(Rank[told'[j]] < Rank[told[j]])]_<<jobVars, workerVars>>

\* What clients and the journal say of the rows.
RowsTell ==
  /\ \A s \in Sessions : journal[s] => session[s] = "complete"
  /\ \A j \in Jobs : deal[j] => \/ stage[j] = "finish"
                                \/ stage[j] = "dead" /\ crashes > 0
                                \/ stage[j] = "complete" /\ row[j] = "complete"

\* While the database answers, no client sees its job go back, whichever workers answer and
\* however many of them die; every verdict has its complete session, and every deal its
\* evaluation.  Of all that may go wrong only failing statements can break this.
THEOREM DatabaseIsEnough ==
  ASSUME MaxFaults = 0
  PROVE  Spec => ToldGoesForward /\ []RowsTell
  <1>1. Init => NothingLost
    BY DEF Init, JobsInit, SessionsInit, WorkersInit, NothingLost
  <1>2. TypeOK /\ NothingLost /\ [Next]_vars => NothingLost'
    BY LossStep
  <1>3. NothingLost /\ NothingLost'
          /\ [\A j \in Jobs : Rank[told'[j]] < Rank[told[j]] =>
                lagging[j] \/ faults' # faults]_<<jobVars, workerVars>>
        => [\A j \in Jobs : ~(Rank[told'[j]] < Rank[told[j]])]_<<jobVars, workerVars>>
    BY DEF NothingLost
  <1>4. NothingLost /\ VerdictHasSession /\ DealHasJob => RowsTell
    BY DEF NothingLost, VerdictHasSession, DealHasJob, RowsTell
  <1>5. Spec => []NothingLost
    BY <1>1, <1>2, TypeCorrect, PTL DEF Spec
  <1>6. QED
    BY <1>3, <1>4, <1>5, StepsBackNeedFaults, VerdictsHaveSessions, DealsHaveJobs, PTL
       DEF StepsBackOnlyByFault, ToldGoesForward
=============================================================================
