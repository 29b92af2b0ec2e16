---------------------------- MODULE BoardSessions ----------------------------
(***************************************************************************)
(* The board room: src/crews/board_room.py, and the hourly job that cleans   *)
(* up after it, recover_stuck_board_sessions of                             *)
(* src/config/scheduler/maintenance_jobs.py, which runs in another process.  *)
(*                                                                         *)
(* A session is a row of board_sessions and a thread of the worker that took *)
(* the request.  The thread asks five department heads in parallel, stores   *)
(* what they say and enters the verdict in the decision journal.            *)
(***************************************************************************)
EXTENDS DashboardWorkers

CONSTANTS
  Sessions,    \* sessions the clients ask for
  Heads        \* the department heads, as many as their pool has threads

VARIABLES
  host,        \* the worker that took the request
  thread,      \* what the thread of a session does next, or how it has ended
  session,     \* the status in the row
  replied,     \* heads whose future is done
  responses,   \* heads whose response is kept
  late,        \* the 90 seconds are over
  old,         \* the row is older than 30 minutes
  journal,     \* the decision journal has an entry for the session
  lost,        \* the write of the final status was lost (auxiliary)
  recovered    \* the hourly job has failed the session (auxiliary)

headVars == <<replied, responses, late>>
sessionVars == <<host, thread, session, headVars, old, journal, lost, recovered>>

Ended == {"complete", "failed"}
Working == {"activate", "decompose", "heads", "extract", "journal"}

SessionsTypeOK ==
  /\ host \in [Sessions -> Workers]
  /\ thread \in [Sessions -> Working \cup {"new", "refused", "done", "dead"}]
  /\ session \in [Sessions -> Ended \cup {"none", "pending", "active"}]
  /\ replied \in [Sessions -> SUBSET Heads]
  /\ responses \in [Sessions -> SUBSET Heads]
  /\ late \in [Sessions -> BOOLEAN]
  /\ old \in [Sessions -> BOOLEAN]
  /\ journal \in [Sessions -> BOOLEAN]
  /\ lost \in [Sessions -> BOOLEAN]
  /\ recovered \in [Sessions -> BOOLEAN]

SessionsInit ==
  /\ host \in [Sessions -> Workers]
  /\ thread = [s \in Sessions |-> "new"]
  /\ session = [s \in Sessions |-> "none"]
  /\ replied = [s \in Sessions |-> {}]
  /\ responses = [s \in Sessions |-> {}]
  /\ late = [s \in Sessions |-> FALSE]
  /\ old = [s \in Sessions |-> FALSE]
  /\ journal = [s \in Sessions |-> FALSE]
  /\ lost = [s \in Sessions |-> FALSE]
  /\ recovered = [s \in Sessions |-> FALSE]

---------------------------------------------------------------------------
(* The request: run_board_session *)

\* Mutant of CreateSession: the status of the answer is the status of the row.
CreateSessionAnswered(s) ==
  /\ thread[s] = "new"
  /\ Reached
  /\ session' = [session EXCEPT ![s] = "error"]
  /\ thread' = [thread EXCEPT ![s] = "refused"]
  /\ UNCHANGED <<host, headVars, old, journal, lost, recovered>>

CreateSession(s) ==
  /\ thread[s] = "new"
  /\ \/ /\ Reached
        /\ session' = [session EXCEPT ![s] = "pending"]
        /\ thread' = [thread EXCEPT ![s] = "activate"]
     \/ /\ Missed
        /\ UNCHANGED session
        /\ thread' = [thread EXCEPT ![s] = "refused"]
  /\ UNCHANGED <<host, headVars, old, journal, lost, recovered>>

---------------------------------------------------------------------------
(* The thread: _run_board_session_bg *)

GoTo(s, next) == thread' = [thread EXCEPT ![s] = next]

\* _update_session_row to "active": its result is not looked at.
Activate(s) ==
  /\ thread[s] = "activate"
  /\ GoTo(s, "decompose")
  /\ \/ Reached /\ session' = [session EXCEPT ![s] = "active"]
     \/ Missed /\ UNCHANGED session
  /\ UNCHANGED <<host, headVars, old, journal, lost, recovered>>

Decompose(s) ==
  /\ thread[s] = "decompose"
  /\ GoTo(s, "heads")
  /\ UNCHANGED <<host, session, headVars, old, journal, lost, recovered, workerVars>>

\* A head answers or raises, in a thread of its own.
HeadReplies(s, h) ==
  /\ thread[s] = "heads"
  /\ h \notin replied[s]
  /\ replied' = [replied EXCEPT ![s] = @ \cup {h}]
  /\ UNCHANGED <<host, thread, session, responses, late, old, journal, lost, recovered, workerVars>>

KeepResponse(s, h) ==
  /\ thread[s] = "heads"
  /\ ~late[s]
  /\ h \in replied[s] \ responses[s]
  /\ responses' = [responses EXCEPT ![s] = @ \cup {h}]
  /\ UNCHANGED <<host, thread, session, replied, late, old, journal, lost, recovered, workerVars>>

\* as_completed gives up; cancel() does not touch futures that run already, and there
\* is a thread for each of them.
HeadsTimeOut(s) ==
  /\ thread[s] = "heads"
  /\ ~late[s]
  /\ responses[s] # Heads
  /\ late' = [late EXCEPT ![s] = TRUE]
  /\ UNCHANGED <<host, thread, session, replied, responses, old, journal, lost, recovered, workerVars>>

\* The end of the with statement waits for the threads of all heads, late or not.
HeadsReturn(s) ==
  /\ thread[s] = "heads"
  /\ replied[s] = Heads
  /\ late[s] \/ responses[s] = Heads
  /\ GoTo(s, "extract")
  /\ UNCHANGED <<host, session, headVars, old, journal, lost, recovered, workerVars>>

\* _update_session_row with a final status, whatever the row says by now.
WriteEnd(s, status) ==
  /\ \/ /\ Reached
        /\ session' = [session EXCEPT ![s] = status]
        /\ UNCHANGED lost
     \/ /\ Missed
        /\ UNCHANGED session
        /\ lost' = [lost EXCEPT ![s] = TRUE]
  /\ UNCHANGED <<host, headVars, old, journal, recovered>>

\* Mutant of CompleteSession: the verdict is entered before the row is complete.
CompleteAfterJournal(s) ==
  /\ thread[s] = "extract"
  /\ GoTo(s, "journal")
  /\ journal' = [journal EXCEPT ![s] = TRUE]
  /\ UNCHANGED <<host, session, headVars, old, lost, recovered, workerVars>>

CompleteSession(s) ==
  /\ thread[s] = "extract"
  /\ GoTo(s, "journal")
  /\ WriteEnd(s, "complete")

\* An exception between the two writes.
SessionRaises(s) ==
  /\ thread[s] \in {"decompose", "extract"}
  /\ GoTo(s, "done")
  /\ WriteEnd(s, "failed")

\* create_entry, for a verdict that is one; the message to Telegram before it and the
\* note after it keep nothing.
EnterVerdict(s) ==
  /\ thread[s] = "journal"
  /\ GoTo(s, "done")
  /\ \/ Reached /\ journal' \in {journal, [journal EXCEPT ![s] = TRUE]}
     \/ Missed /\ UNCHANGED journal
  /\ UNCHANGED <<host, session, headVars, old, lost, recovered>>

---------------------------------------------------------------------------
(* Time, the hourly job and deaths *)

\* 30 minutes since created_at.
SessionAges(s) ==
  /\ session[s] # "none"
  /\ ~old[s]
  /\ old' = [old EXCEPT ![s] = TRUE]
  /\ UNCHANGED <<host, thread, session, headVars, journal, lost, recovered, workerVars>>

Stuck == {s \in Sessions : session[s] = "active" /\ old[s]}

\* Mutant of RecoverStuck: the age alone decides.
RecoverAnyOld ==
  /\ \E s \in Sessions : session[s] # "none" /\ old[s]
  /\ session' = [s \in Sessions |-> IF session[s] # "none" /\ old[s] THEN "failed" ELSE session[s]]
  /\ recovered' = [s \in Sessions |-> recovered[s] \/ s \in Stuck]
  /\ UNCHANGED <<host, thread, headVars, old, journal, lost, workerVars>>

\* Mutant of RecoverStuck: only sessions whose heads have timed out.
RecoverLate ==
  /\ \E s \in Stuck : late[s]
  /\ session' = [s \in Sessions |-> IF s \in Stuck /\ late[s] THEN "failed" ELSE session[s]]
  /\ recovered' = [s \in Sessions |-> recovered[s] \/ (s \in Stuck /\ late[s])]
  /\ UNCHANGED <<host, thread, headVars, old, journal, lost, workerVars>>

\* recover_stuck_board_sessions: one UPDATE; it does not ask whether the thread lives.
RecoverStuck ==
  /\ Stuck # {}
  /\ session' = [s \in Sessions |-> IF s \in Stuck THEN "failed" ELSE session[s]]
  /\ recovered' = [s \in Sessions |-> recovered[s] \/ s \in Stuck]
  /\ UNCHANGED <<host, thread, headVars, old, journal, lost, workerVars>>

\* The part of the death of worker w that concerns its sessions.
SessionsDie(w) ==
  /\ thread' = [s \in Sessions |->
                  IF host[s] = w /\ thread[s] \in Working THEN "dead" ELSE thread[s]]
  /\ UNCHANGED <<host, session, headVars, old, journal, lost, recovered>>

SessionsNext ==
  \/ \E s \in Sessions :
       \/ CreateSession(s) \/ Activate(s) \/ Decompose(s)
       \/ HeadsTimeOut(s) \/ HeadsReturn(s)
       \/ CompleteSession(s) \/ SessionRaises(s) \/ EnterVerdict(s) \/ SessionAges(s)
       \/ \E h \in Heads : HeadReplies(s, h) \/ KeepResponse(s, h)
  \/ RecoverStuck

\* Time passes and the scheduler fires its hourly job.  Nothing is assumed of the
\* heads or of the threads of the dashboard.
SessionsFair ==
  /\ \A s \in Sessions : WF_<<sessionVars, workerVars>>(SessionAges(s))
  /\ WF_<<sessionVars, workerVars>>(RecoverStuck)

---------------------------------------------------------------------------
(* Properties *)

\* A session that has ended stays as it ended, unless the hourly job failed it while
\* its thread was still at work: only that thread can still change the row, in its one
\* last write.  (recover_stuck_board_sessions and _update_session_row have no common
\* guard.)
EndIsFinal ==
  [][\A s \in Sessions :
       session[s] \in Ended /\ session'[s] # session[s] =>
         /\ recovered[s] /\ session[s] = "failed"
         /\ thread[s] = "extract"
         /\ session'[s] = "complete"]_<<sessionVars, workerVars>>

\* A verdict in the journal belongs to a session that is complete, unless the write
\* that should have completed it was lost: _run_board_session_bg does not look at the
\* result of that write.
VerdictHasSession ==
  \A s \in Sessions : journal[s] => session[s] = "complete" \/ lost[s]

\* Whatever happens to the worker or to the heads, an active session ends.
ActiveEnds ==
  \A s \in Sessions : session[s] = "active" ~> session[s] \in Ended
=============================================================================
