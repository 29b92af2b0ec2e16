--------------------------- MODULE PoolWatchProofs ---------------------------
(***************************************************************************)
(* Proofs about the watch over the connection pool, for any number of        *)
(* threads, connections and failing statements: its types, that one message  *)
(* is tried for each rise of the flag, and when a check keeps silent.       *)
(***************************************************************************)
EXTENDS PoolWatch, TLAPS

USE PoolAssumption DEF PoolAssumption

---------------------------------------------------------------------------
(* Types *)

\* Only the holder of the lock works on the alert, so no step leaves the types.
LEMMA TypeStep ==
  ASSUME TypeOK, [Next]_vars
  PROVE  TypeOK'
  <1> USE DEF TypeOK, GoTo, Outside, Asking, Checking, Events, alertVars, watchVars, notes
  <1>1. ASSUME NEW t \in Threads, Checkout(t) PROVE TypeOK'
    BY <1>1 DEF Checkout
  <1>2. ASSUME NEW t \in Threads, CheckoutTimesOut(t) PROVE TypeOK'
    BY <1>2 DEF CheckoutTimesOut, vars
  <1>3. ASSUME NEW t \in Threads, ReadFlag(t) PROVE TypeOK'
    BY <1>3 DEF ReadFlag
  <1>4. ASSUME NEW t \in Threads, Count(t) PROVE TypeOK'
    BY <1>4 DEF Count
  <1>5. ASSUME NEW t \in Threads, ClearFlag(t) PROVE TypeOK'
    BY <1>5 DEF ClearFlag
  <1>6. ASSUME NEW t \in Threads, TakeLock(t) PROVE TypeOK'
    BY <1>6 DEF TakeLock
  <1>7. ASSUME NEW t \in Threads, Return(t) PROVE TypeOK'
    BY <1>7 DEF Return
  <1>8. ASSUME NEW t \in Threads, Connect(t) PROVE TypeOK'
    BY <1>8 DEF Connect
  <1>9. ASSUME NEW t \in Threads, Answered(t) PROVE TypeOK'
    <2>1. at[t] \in DOMAIN After /\ After[at[t]] \in {"again", "deliver"} /\ holder = t
      BY <1>9 DEF Answered, After
    <2>2. PICK next \in {"again", "deliver", "raise"} : at' = [at EXCEPT ![t] = next]
      BY <1>9, <2>1 DEF Answered
    <2>3. /\ at' \in [Threads -> Outside \cup Checking]
          /\ \A u \in Threads : at'[u] \in Checking => holder' = u
      BY <1>9, <2>1, <2>2 DEF Answered
    <2>4. check' \subseteq Events
      BY <1>9 DEF Answered
    <2>5. QED
      BY <1>9, <2>3, <2>4 DEF Answered
  <1>10. ASSUME NEW t \in Threads, Unanswered(t) PROVE TypeOK'
    <2>1. at[t] \in DOMAIN After /\ After[at[t]] \in {"again", "deliver"} /\ holder = t
      BY <1>10 DEF Unanswered, After
    <2>2. PICK next \in {"again", "deliver", "raise"} : at' = [at EXCEPT ![t] = next]
      BY <1>10, <2>1 DEF Unanswered
    <2>3. faults' \in 0..MaxFaults
      BY <1>10 DEF Unanswered, Unreachable
    <2>4. /\ at' \in [Threads -> Outside \cup Checking]
          /\ \A u \in Threads : at'[u] \in Checking => holder' = u
      BY <1>10, <2>1, <2>2 DEF Unanswered
    <2>5. check' \subseteq Events
      BY <1>10 DEF Unanswered
    <2>6. QED
      BY <1>10, <2>3, <2>4, <2>5 DEF Unanswered
  <1>11. ASSUME NEW t \in Threads, Deliver(t) PROVE TypeOK'
    BY <1>11 DEF Deliver
  <1>12. ASSUME NEW t \in Threads, LogAlert(t) PROVE TypeOK'
    <2>1. faults' \in 0..MaxFaults /\ alerts' \subseteq {Key, Title} /\ holder = t
      BY <1>12 DEF LogAlert, Unreachable
    <2>2. QED
      BY <1>12, <2>1 DEF LogAlert
  <1>13. ASSUME NEW t \in Threads, RaiseFlag(t) PROVE TypeOK'
    BY <1>13 DEF RaiseFlag
  <1>14. CASE FourHoursPass
    BY <1>14 DEF FourHoursPass
  <1>15. CASE UNCHANGED vars
    BY <1>15 DEF vars
  <1>16. QED
    BY <1>1, <1>2, <1>3, <1>4, <1>5, <1>6, <1>7, <1>8, <1>9, <1>10, <1>11, <1>12, <1>13,
       <1>14, <1>15 DEF Next, Use, Work

\* The types of the watch, and that the lock excludes.
THEOREM TypeCorrect == Spec => []TypeOK
  <1>1. Init => TypeOK
    <2> SUFFICES ASSUME Init PROVE TypeOK
      OBVIOUS
    <2>1. \A t \in Threads : at[t] = "idle"
      BY DEF Init
    <2>2. faults \in 0..MaxFaults /\ sent \in Nat
      BY DEF Init
    <2>3. QED
      BY <2>1, <2>2 DEF Init, TypeOK, Outside, Checking, Asking
  <1>2. QED
    BY <1>1, TypeStep, PTL DEF Spec

---------------------------------------------------------------------------
(* Messages *)

\* A check that has sent nothing yet has found the flag down, and nobody raises it but
\* the check itself.  A message that was tried has raised the flag or is about to.
MessageInv ==
  /\ \A t \in Threads : at[t] \in Asking \cup {"deliver"} => sent = 0 /\ ~exhausted
  /\ sent = 0 \/ sent = 1
  /\ sent = 1 => exhausted \/ \E t \in Threads : at[t] \in {"log", "raise"}

\* Every step keeps the invariant of the messages.
LEMMA MessageStep ==
  ASSUME TypeOK, MessageInv, [Next]_vars
  PROVE  MessageInv'
  <1> USE DEF TypeOK, MessageInv, GoTo, Asking, Checking, alertVars, watchVars, notes
  <1>1. ASSUME NEW t \in Threads, Checkout(t) PROVE MessageInv'
    BY <1>1 DEF Checkout
  <1>2. ASSUME NEW t \in Threads, CheckoutTimesOut(t) PROVE MessageInv'
    BY <1>2 DEF CheckoutTimesOut, vars
  <1>3. ASSUME NEW t \in Threads, ReadFlag(t) PROVE MessageInv'
    BY <1>3 DEF ReadFlag
  <1>4. ASSUME NEW t \in Threads, Count(t) PROVE MessageInv'
    BY <1>4 DEF Count
  <1>5. ASSUME NEW t \in Threads, ClearFlag(t) PROVE MessageInv'
    BY <1>5 DEF ClearFlag
  <1>6. ASSUME NEW t \in Threads, TakeLock(t) PROVE MessageInv'
    <2>1. \A u \in Threads : at[u] \notin {"log", "raise"}
      BY <1>6 DEF TakeLock
    <2>2. ~exhausted => sent = 0
      BY <2>1
    <2>3. QED
      BY <1>6, <2>2 DEF TakeLock
  <1>7. ASSUME NEW t \in Threads, Return(t) PROVE MessageInv'
    BY <1>7 DEF Return
  <1>8. ASSUME NEW t \in Threads, Connect(t) PROVE MessageInv'
    BY <1>8 DEF Connect
  <1>9. ASSUME NEW t \in Threads, Answered(t) PROVE MessageInv'
    BY <1>9 DEF Answered, After
  <1>10. ASSUME NEW t \in Threads, Unanswered(t) PROVE MessageInv'
    BY <1>10 DEF Unanswered, After
  <1>11. ASSUME NEW t \in Threads, Deliver(t) PROVE MessageInv'
    BY <1>11 DEF Deliver
  <1>12. ASSUME NEW t \in Threads, LogAlert(t) PROVE MessageInv'
    BY <1>12 DEF LogAlert
  <1>13. ASSUME NEW t \in Threads, RaiseFlag(t) PROVE MessageInv'
    BY <1>13 DEF RaiseFlag
  <1>14. CASE FourHoursPass
    BY <1>14 DEF FourHoursPass
  <1>15. CASE UNCHANGED vars
    BY <1>15 DEF vars
  <1>16. QED
    BY <1>1, <1>2, <1>3, <1>4, <1>5, <1>6, <1>7, <1>8, <1>9, <1>10, <1>11, <1>12, <1>13,
       <1>14, <1>15 DEF Next, Use, Work

\* One message is tried until the flag is lowered, whoever finds the pool full.
THEOREM OneMessage == Spec => []AlertedOnce
  <1>1. Init => MessageInv
    BY DEF Init, MessageInv, Asking
  <1>2. TypeOK /\ MessageInv /\ [Next]_vars => MessageInv'
    BY MessageStep
  <1>3. MessageInv => AlertedOnce
    BY DEF MessageInv, AlertedOnce
  <1>4. QED
    BY <1>1, <1>2, <1>3, TypeCorrect, PTL DEF Spec

---------------------------------------------------------------------------
(* Silence *)

\* A check ends without a message only if one of its queries went unanswered.
\* (AlertSuppressor.suppress)
SilenceIsBlind ==
  \A t \in Threads : at[t] = "raise" => check \cap {"tried", "blind"} # {}

\* What a check can do against an empty pool: unless one of its queries gets a
\* connection after all, it sends nothing, because its first question has made the
\* memory answer its second one.  (suppress is called by _check_pool_exhaustion and
\* again by send_ops_alert, in four hours at the most)
AlertNeedsConnection ==
  \A t \in Threads : at[t] = "deliver" => check \cap {"answered", "aged"} # {}

\* No row carries the name of the alert, so only the memory can suppress it; and the
\* memory is sure to do so the second time when the first query went unanswered.
SilenceInv ==
  /\ Key \notin alerts
  /\ \A t \in Threads : at[t] = "log" => "tried" \in check
  /\ \A t \in Threads : at[t] = "again" => remembered \/ check \cap {"answered", "aged"} # {}
  /\ SilenceIsBlind
  /\ AlertNeedsConnection

\* Every step keeps the invariant of the silence.
LEMMA SilenceStep ==
  ASSUME TypeOK, SilenceInv, [Next]_vars
  PROVE  SilenceInv'
  <1> USE DEF TypeOK, SilenceInv, SilenceIsBlind, AlertNeedsConnection, GoTo, Asking, Checking,
              alertVars, watchVars, notes
  <1>1. ASSUME NEW t \in Threads, Checkout(t) PROVE SilenceInv'
    BY <1>1 DEF Checkout
  <1>2. ASSUME NEW t \in Threads, CheckoutTimesOut(t) PROVE SilenceInv'
    BY <1>2 DEF CheckoutTimesOut, vars
  <1>3. ASSUME NEW t \in Threads, ReadFlag(t) PROVE SilenceInv'
    BY <1>3 DEF ReadFlag
  <1>4. ASSUME NEW t \in Threads, Count(t) PROVE SilenceInv'
    BY <1>4 DEF Count
  <1>5. ASSUME NEW t \in Threads, ClearFlag(t) PROVE SilenceInv'
    BY <1>5 DEF ClearFlag
  <1>6. ASSUME NEW t \in Threads, TakeLock(t) PROVE SilenceInv'
    BY <1>6 DEF TakeLock
  <1>7. ASSUME NEW t \in Threads, Return(t) PROVE SilenceInv'
    BY <1>7 DEF Return
  <1>8. ASSUME NEW t \in Threads, Connect(t) PROVE SilenceInv'
    BY <1>8 DEF Connect
  <1>9. ASSUME NEW t \in Threads, Answered(t) PROVE SilenceInv'
    BY <1>9 DEF Answered, After
  <1>10. ASSUME NEW t \in Threads, Unanswered(t) PROVE SilenceInv'
    BY <1>10 DEF Unanswered, After
  <1>11. ASSUME NEW t \in Threads, Deliver(t) PROVE SilenceInv'
    BY <1>11 DEF Deliver
  <1>12. ASSUME NEW t \in Threads, LogAlert(t) PROVE SilenceInv'
    BY <1>12 DEF LogAlert, Key, Title
  <1>13. ASSUME NEW t \in Threads, RaiseFlag(t) PROVE SilenceInv'
    BY <1>13 DEF RaiseFlag
  <1>14. CASE FourHoursPass
    BY <1>14 DEF FourHoursPass
  <1>15. CASE UNCHANGED vars
    BY <1>15 DEF vars
  <1>16. QED
    BY <1>1, <1>2, <1>3, <1>4, <1>5, <1>6, <1>7, <1>8, <1>9, <1>10, <1>11, <1>12, <1>13,
       <1>14, <1>15 DEF Next, Use, Work

\* The invariant of the silence holds throughout.
LEMMA SilenceInvariant == Spec => []SilenceInv
  <1>1. Init => SilenceInv
    BY DEF Init, SilenceInv, SilenceIsBlind, AlertNeedsConnection
  <1>2. TypeOK /\ SilenceInv /\ [Next]_vars => SilenceInv'
    BY SilenceStep
  <1>3. QED
    BY <1>1, <1>2, TypeCorrect, PTL DEF Spec

\* A check that sends nothing had a query without an answer.
THEOREM SilenceHasCause == Spec => []SilenceIsBlind
  BY SilenceInvariant, PTL DEF SilenceInv

\* A check that sends something had a connection for a query, or lasted hours.
THEOREM AlertsNeedConnections == Spec => []AlertNeedsConnection
  BY SilenceInvariant, PTL DEF SilenceInv

---------------------------------------------------------------------------
(* The lock: the safety half of LockIsReleased *)

\* Whoever holds the lock is at work on an alert, with the flag down, and the second
\* connection is the holder's.  So a thread that waits for the lock never waits for one
\* that waits itself, be it for the lock or for its turn to use its connection.
HolderWorks ==
  /\ \A t \in Threads : holder = t => at[t] \in Checking
  /\ holder \in Threads => ~exhausted
  /\ second => \E t \in Threads : at[t] \in Asking \cup {"log"}

\* Every step keeps the holder at work.
LEMMA HolderStep ==
  ASSUME TypeOK, HolderWorks, [Next]_vars
  PROVE  HolderWorks'
  <1> USE DEF TypeOK, HolderWorks, GoTo, Asking, Checking, alertVars, watchVars, notes
  <1>1. ASSUME NEW t \in Threads, Checkout(t) PROVE HolderWorks'
    BY <1>1 DEF Checkout
  <1>2. ASSUME NEW t \in Threads, CheckoutTimesOut(t) PROVE HolderWorks'
    BY <1>2 DEF CheckoutTimesOut, vars
  <1>3. ASSUME NEW t \in Threads, ReadFlag(t) PROVE HolderWorks'
    BY <1>3 DEF ReadFlag
  <1>4. ASSUME NEW t \in Threads, Count(t) PROVE HolderWorks'
    BY <1>4 DEF Count
  <1>5. ASSUME NEW t \in Threads, ClearFlag(t) PROVE HolderWorks'
    BY <1>5 DEF ClearFlag
  <1>6. ASSUME NEW t \in Threads, TakeLock(t) PROVE HolderWorks'
    <2>1. ~second
      BY <1>6 DEF TakeLock
    <2>2. QED
      BY <1>6, <2>1 DEF TakeLock
  <1>7. ASSUME NEW t \in Threads, Return(t) PROVE HolderWorks'
    BY <1>7 DEF Return
  <1>8. ASSUME NEW t \in Threads, Connect(t) PROVE HolderWorks'
    BY <1>8 DEF Connect
  <1>9. ASSUME NEW t \in Threads, Answered(t) PROVE HolderWorks'
    BY <1>9 DEF Answered, After
  <1>10. ASSUME NEW t \in Threads, Unanswered(t) PROVE HolderWorks'
    BY <1>10 DEF Unanswered, After
  <1>11. ASSUME NEW t \in Threads, Deliver(t) PROVE HolderWorks'
    BY <1>11 DEF Deliver
  <1>12. ASSUME NEW t \in Threads, LogAlert(t) PROVE HolderWorks'
    BY <1>12 DEF LogAlert
  <1>13. ASSUME NEW t \in Threads, RaiseFlag(t) PROVE HolderWorks'
    <2>1. ~second
      BY <1>13 DEF RaiseFlag
    <2>2. QED
      BY <1>13, <2>1 DEF RaiseFlag
  <1>14. CASE FourHoursPass
    BY <1>14 DEF FourHoursPass
  <1>15. CASE UNCHANGED vars
    BY <1>15 DEF vars
  <1>16. QED
    BY <1>1, <1>2, <1>3, <1>4, <1>5, <1>6, <1>7, <1>8, <1>9, <1>10, <1>11, <1>12, <1>13,
       <1>14, <1>15 DEF Next, Use, Work

\* The lock is held only while an alert is worked on.
THEOREM HoldersWork == Spec => []HolderWorks
  <1>1. Init => HolderWorks
    <2>1. Init => holder \notin Threads /\ ~second
      BY DEF Init
    <2>2. QED
      BY <2>1 DEF HolderWorks
  <1>2. TypeOK /\ HolderWorks /\ [Next]_vars => HolderWorks'
    BY HolderStep
  <1>3. QED
    BY <1>1, <1>2, TypeCorrect, PTL DEF Spec

\* The steps a holder has in front of it: each statement needs a connection first.
Ahead == [first |-> 6, again |-> 4, deliver |-> 3, log |-> 1, raise |-> 0]
StepsLeft(t) ==
  Ahead[at[t]] + (IF second \/ at[t] \notin Asking \cup {"log"} THEN 0 ELSE 1)

\* Each step of the holder gives the lock back or brings it nearer to that; nothing else,
\* and above all no other thread, takes the lock from it or sets it back.  A check is
\* over after eight steps, whatever fails and however full the pool is.
CheckGoesForward ==
  [][\A t \in Threads : holder = t =>
       \/ Work(t) /\ holder' = Nobody
       \/ Work(t) /\ holder' = t /\ StepsLeft(t)' < StepsLeft(t)
       \/ ~Work(t) /\ holder' = t /\ StepsLeft(t)' = StepsLeft(t)]_vars

\* The work of the holder is the only step that touches the lock, the holder's place and
\* the second connection.
LEMMA OthersStand ==
  ASSUME TypeOK, HolderWorks, [Next]_vars, NEW t \in Threads, holder = t, ~Work(t)
  PROVE  UNCHANGED <<holder, at[t], second>>
  <1>1. at[t] \in Checking /\ \A u \in Threads \ {t} : at[u] \notin Checking
    BY DEF TypeOK, HolderWorks
  <1>2. ASSUME NEW u \in Threads, Use(u) PROVE u # t /\ UNCHANGED <<holder, at[t], second>>
    <2>1. at[u] \in Outside /\ holder # Nobody
      BY <1>2 DEF Use, Checkout, CheckoutTimesOut, ReadFlag, Count, ClearFlag, TakeLock, Return,
                  Outside
    <2>2. u # t
      BY <1>1, <2>1 DEF Outside, Checking, Asking
    <2>3. QED
      BY <1>2, <2>1, <2>2 DEF Use, Checkout, CheckoutTimesOut, ReadFlag, Count, ClearFlag,
                              TakeLock, Return, GoTo, TypeOK, vars, watchVars
  <1>3. ASSUME NEW u \in Threads, Work(u) PROVE u = t
    BY <1>1, <1>3 DEF Work, Connect, Answered, Unanswered, Deliver, LogAlert, RaiseFlag, Checking,
                      Asking
  <1>4. FourHoursPass \/ UNCHANGED vars => UNCHANGED <<holder, at[t], second>>
    BY DEF FourHoursPass, vars, watchVars
  <1>5. QED
    BY <1>2, <1>3, <1>4 DEF Next

\* The work of the holder brings the end of the check nearer.
LEMMA WorkCounts ==
  ASSUME TypeOK, NEW t \in Threads, holder = t, Work(t)
  PROVE  holder' = Nobody \/ (holder' = t /\ StepsLeft(t)' < StepsLeft(t))
  <1> USE DEF TypeOK, StepsLeft, Ahead, GoTo, Asking
  <1>1. ASSUME Connect(t) PROVE holder' = t /\ StepsLeft(t)' < StepsLeft(t)
    BY <1>1 DEF Connect
  <1>2. ASSUME Answered(t) \/ Unanswered(t) PROVE holder' = t /\ StepsLeft(t)' < StepsLeft(t)
    <2>1. at[t] \in DOMAIN After /\ (at'[t] = "raise" \/ at'[t] = After[at[t]])
      BY <1>2 DEF Answered, Unanswered, After
    <2>2. holder' = t /\ ~second'
      BY <1>2 DEF Answered, Unanswered
    <2>3. QED
      BY <2>1, <2>2 DEF After
  <1>3. ASSUME Deliver(t) \/ LogAlert(t) PROVE holder' = t /\ StepsLeft(t)' < StepsLeft(t)
    BY <1>3 DEF Deliver, LogAlert
  <1>4. ASSUME RaiseFlag(t) PROVE holder' = Nobody
    BY <1>4 DEF RaiseFlag
  <1> HIDE DEF TypeOK, StepsLeft, Ahead, GoTo, Asking
  <1>5. QED
    BY <1>1, <1>2, <1>3, <1>4 DEF Work

\* What LockIsReleased adds is that the holder takes its steps.
THEOREM ChecksGoForward == Spec => CheckGoesForward
  <1>1. TypeOK /\ HolderWorks /\ [Next]_vars =>
          [\A t \in Threads : holder = t =>
             \/ Work(t) /\ holder' = Nobody
             \/ Work(t) /\ holder' = t /\ StepsLeft(t)' < StepsLeft(t)
             \/ ~Work(t) /\ holder' = t /\ StepsLeft(t)' = StepsLeft(t)]_vars
    <2> SUFFICES ASSUME TypeOK, HolderWorks, [Next]_vars, NEW t \in Threads, holder = t
                 PROVE  \/ Work(t) /\ holder' = Nobody
                        \/ Work(t) /\ holder' = t /\ StepsLeft(t)' < StepsLeft(t)
                        \/ ~Work(t) /\ holder' = t /\ StepsLeft(t)' = StepsLeft(t)
      OBVIOUS
    <2>1. ~Work(t) => UNCHANGED <<holder, at[t], second>>
      BY OthersStand
    <2>2. UNCHANGED <<at[t], second>> => StepsLeft(t)' = StepsLeft(t)
      BY DEF StepsLeft
    <2>3. QED
      BY <2>1, <2>2, WorkCounts
  <1>2. QED
    BY <1>1, TypeCorrect, HoldersWork, PTL DEF Spec, CheckGoesForward

---------------------------------------------------------------------------
(* One alert for the life of a process *)

\* The flag is up, and no thread has seen it down and is still to act on that.
Latched == exhausted /\ \A t \in Threads : at[t] \notin {"count", "clear"}

\* From then on the flag stays up, no thread looks at the pool any more and no message is
\* tried, however often the pool empties and fills again: _check_pool_exhaustion returns
\* at its first line, before the branch that would lower the flag.
SilentForGood == [][Latched => Latched' /\ sent' = sent]_vars

\* A step from such a state leads to another one.
LEMMA LatchedStep ==
  ASSUME TypeOK, HolderWorks, Latched, [Next]_vars
  PROVE  Latched' /\ sent' = sent
  <1> USE DEF TypeOK, Latched, GoTo, alertVars, watchVars, notes
  <1>1. \A t \in Threads : at[t] \notin Checking
    BY DEF HolderWorks
  <1>2. ASSUME NEW t \in Threads, Work(t) PROVE FALSE
    BY <1>1, <1>2 DEF Work, Connect, Answered, Unanswered, Deliver, LogAlert, RaiseFlag, Checking,
                      Asking
  <1>3. ASSUME NEW t \in Threads, Use(t) PROVE Latched' /\ sent' = sent
    BY <1>3 DEF Use, Checkout, CheckoutTimesOut, ReadFlag, Count, ClearFlag, TakeLock, Return, vars
  <1>4. FourHoursPass \/ UNCHANGED vars => Latched' /\ sent' = sent
    BY DEF FourHoursPass, vars
  <1>5. QED
    BY <1>2, <1>3, <1>4 DEF Next

\* A process whose flag is up with no thread in between has sent its last alert.
THEOREM LatchIsPermanent == Spec => SilentForGood /\ [](Latched => []Latched)
  <1>1. TypeOK /\ HolderWorks /\ [Next]_vars => [Latched => Latched' /\ sent' = sent]_vars
    BY LatchedStep
  <1>2. TypeOK /\ HolderWorks /\ Latched /\ [Next]_vars => Latched'
    BY LatchedStep
  <1>3. QED
    BY <1>1, <1>2, TypeCorrect, HoldersWork, PTL DEF Spec, SilentForGood
=============================================================================
