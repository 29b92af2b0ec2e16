------------------------------ MODULE PoolWatch ------------------------------
(***************************************************************************)
(* The watch over the connection pool of one process: _check_pool_exhaustion *)
(* of src/utils/db.py, a listener that runs on every checkout, with the      *)
(* alert it sends through AlertSuppressor, send_ops_alert, send and          *)
(* _log_alert of src/utils/discord_notifier.py.                             *)
(*                                                                         *)
(* The thread that takes the last connection asks, under a lock, whether the *)
(* alert was sent lately.  That is a query, for which it needs another       *)
(* connection of the pool that has none left, while threads that wait for    *)
(* the lock keep theirs.                                                    *)
(***************************************************************************)
EXTENDS Naturals, FiniteSets

CONSTANTS
  Threads,     \* the threads of the process that use the database
  Nobody,      \* the holder of a free lock
  Capacity,    \* pool_size + max_overflow
  MaxFaults    \* bound on failing statements

ASSUME PoolAssumption ==
  /\ Nobody \notin Threads
  /\ Capacity \in Nat \ {0}
  /\ MaxFaults \in Nat

VARIABLES
  at,          \* what a thread does next
  holder,      \* the thread that holds _pool_exhaustion_lock
  exhausted,   \* _pool_is_exhausted
  second,      \* the holder has a second connection, for its own statement
  remembered,  \* _IN_MEMORY has the alert, and from the last four hours
  alerts,      \* titles of the rows of alerts from the last four hours
  faults,      \* statements that have failed
  check,       \* what has happened in the check of the holder (auxiliary)
  sent,        \* messages tried since the flag was last lowered (auxiliary)
  recent       \* a message was tried in the last four hours (auxiliary)

watchVars == <<at, holder, exhausted, second>>
alertVars == <<remembered, alerts, faults>>
notes == <<check, sent, recent>>
vars == <<watchVars, alertVars, notes>>

\* The alert's name, and the title send_ops_alert gives its row.
Key == "db_pool_exhausted"
Title == "sign and db_pool_exhausted"

\* Before the lock and after it, and under the lock.
Outside == {"idle", "flag", "count", "clear", "lock", "using"}
Asking == {"first", "again"}
Checking == Asking \cup {"deliver", "log", "raise"}
Events == {"answered", "blind", "tried", "aged"}

TypeOK ==
  /\ at \in [Threads -> Outside \cup Checking]
  /\ holder \in Threads \cup {Nobody}
  /\ \A t \in Threads : at[t] \in Checking => holder = t
  /\ exhausted \in BOOLEAN
  /\ second \in BOOLEAN
  /\ remembered \in BOOLEAN
  /\ alerts \subseteq {Key, Title}
  /\ faults \in 0..MaxFaults
  /\ check \subseteq Events
  /\ sent \in Nat
  /\ recent \in BOOLEAN

Init ==
  /\ at = [t \in Threads |-> "idle"]
  /\ holder = Nobody
  /\ exhausted = FALSE
  /\ second = FALSE
  /\ remembered = FALSE
  /\ alerts = {}
  /\ faults = 0
  /\ check = {}
  /\ sent = 0
  /\ recent = FALSE

GoTo(t, next) == at' = [at EXCEPT ![t] = next]

\* pool.checkedout()
CheckedOut == Cardinality({t \in Threads : at[t] # "idle"}) + (IF second THEN 1 ELSE 0)
Full == CheckedOut >= Capacity

---------------------------------------------------------------------------
(* A thread takes a connection; the listener runs before it can use it *)

Checkout(t) ==
  /\ at[t] = "idle"
  /\ ~Full
  /\ GoTo(t, "flag")
  /\ UNCHANGED <<holder, exhausted, second, alertVars, notes>>

\* After pool_timeout, 30 seconds, the caller is told and goes without.
CheckoutTimesOut(t) ==
  /\ at[t] = "idle"
  /\ Full
  /\ UNCHANGED vars

ReadFlag(t) ==
  /\ at[t] = "flag"
  /\ GoTo(t, IF exhausted THEN "using" ELSE "count")
  /\ UNCHANGED <<holder, exhausted, second, alertVars, notes>>

Count(t) ==
  /\ at[t] = "count"
  /\ GoTo(t, IF Full THEN "lock" ELSE "clear")
  /\ UNCHANGED <<holder, exhausted, second, alertVars, notes>>

\* The else branch.  The flag was down when this thread read it: the branch lowers it
\* only when another thread has raised it since.
ClearFlag(t) ==
  /\ at[t] = "clear"
  /\ exhausted' = FALSE
  /\ sent' = IF exhausted THEN 0 ELSE sent
  /\ GoTo(t, "using")
  /\ UNCHANGED <<holder, second, alertVars, check, recent>>

\* Mutant of TakeLock: the flag is not read again under the lock.
TakeLockBlindly(t) ==
  /\ at[t] = "lock"
  /\ holder = Nobody
  /\ holder' = t
  /\ GoTo(t, "first")
  /\ check' = {}
  /\ UNCHANGED <<exhausted, second, alertVars, sent, recent>>

\* Mutant of TakeLock: there is no lock.
TakeNoLock(t) ==
  /\ at[t] = "lock"
  /\ holder' = IF exhausted THEN Nobody ELSE t
  /\ GoTo(t, IF exhausted THEN "using" ELSE "first")
  /\ check' = {}
  /\ UNCHANGED <<exhausted, second, alertVars, sent, recent>>

\* A thread that finds the flag up lets the lock go at once.
TakeLock(t) ==
  /\ at[t] = "lock"
  /\ holder = Nobody
  /\ holder' = IF exhausted THEN Nobody ELSE t
  /\ GoTo(t, IF exhausted THEN "using" ELSE "first")
  /\ check' = {}
  /\ UNCHANGED <<exhausted, second, alertVars, sent, recent>>

Return(t) ==
  /\ at[t] = "using"
  /\ GoTo(t, "idle")
  /\ UNCHANGED <<holder, exhausted, second, alertVars, notes>>

---------------------------------------------------------------------------
(* The check of the holder: suppress, then send_ops_alert, which suppresses again *)

\* Where a holder goes that is not to be suppressed.
After == [first |-> "again", again |-> "deliver"]

\* Mutant of Connect: no _exhaustion_local, the listener asks for the lock once more.
ConnectUnguarded(t) ==
  /\ at[t] \in Asking \cup {"log"}
  /\ ~second /\ ~Full
  /\ second' = TRUE
  /\ GoTo(t, IF CheckedOut + 1 >= Capacity THEN "lock" ELSE at[t])
  /\ UNCHANGED <<holder, exhausted, alertVars, notes>>

\* The listener runs for this checkout too, and returns: the thread is marked active.
Connect(t) ==
  /\ at[t] \in Asking \cup {"log"}
  /\ ~second /\ ~Full
  /\ second' = TRUE
  /\ UNCHANGED <<at, holder, exhausted, alertVars, notes>>

\* Is there a row with the name of the alert for its title?
Answered(t) ==
  /\ at[t] \in Asking
  /\ second
  /\ second' = FALSE
  /\ check' = check \cup {"answered"}
  /\ GoTo(t, IF Key \in alerts THEN "raise" ELSE After[at[t]])
  /\ UNCHANGED <<holder, exhausted, alertVars, sent, recent>>

\* No connection within 30 seconds, or the database fails.
Unreachable ==
  \/ ~second /\ Full /\ UNCHANGED faults
  \/ faults < MaxFaults /\ faults' = faults + 1

\* The memory answers instead, and remembers the alert, which is not sent yet.
Unanswered(t) ==
  /\ at[t] \in Asking
  /\ Unreachable
  /\ second' = FALSE
  /\ check' = check \cup {"blind"}
  /\ remembered' = TRUE
  /\ GoTo(t, IF remembered THEN "raise" ELSE After[at[t]])
  /\ UNCHANGED <<holder, exhausted, alerts, sent, recent>>

\* send, which posts the message, fails to, or finds no webhook configured.
Deliver(t) ==
  /\ at[t] = "deliver"
  /\ check' = check \cup {"tried"}
  /\ sent' = sent + 1
  /\ recent' = TRUE
  /\ GoTo(t, "log")
  /\ UNCHANGED <<holder, exhausted, second, alertVars>>

\* _log_alert, in each of these cases.
LogAlert(t) ==
  /\ at[t] = "log"
  /\ \/ second /\ alerts' = alerts \cup {Title} /\ UNCHANGED faults
     \/ Unreachable /\ UNCHANGED alerts
  /\ second' = FALSE
  /\ GoTo(t, "raise")
  /\ UNCHANGED <<holder, exhausted, remembered, notes>>

RaiseFlag(t) ==
  /\ at[t] = "raise"
  /\ exhausted' = TRUE
  /\ holder' = Nobody
  /\ GoTo(t, "using")
  /\ UNCHANGED <<second, alertVars, notes>>

FourHoursPass ==
  /\ remembered \/ recent \/ alerts # {}
  /\ remembered' = FALSE
  /\ recent' = FALSE
  /\ alerts' = {}
  /\ check' = check \cup {"aged"}
  /\ UNCHANGED <<watchVars, faults, sent>>

Use(t) == \/ Checkout(t) \/ CheckoutTimesOut(t) \/ ReadFlag(t) \/ Count(t)
          \/ ClearFlag(t) \/ TakeLock(t) \/ Return(t)
Work(t) == \/ Connect(t) \/ Answered(t) \/ Unanswered(t)
           \/ Deliver(t) \/ LogAlert(t) \/ RaiseFlag(t)

Next == FourHoursPass \/ \E t \in Threads : Use(t) \/ Work(t)

Spec == Init /\ [][Next]_vars

\* The thread that holds the lock runs: a statement answers or fails, a wait for a
\* connection ends after pool_timeout, the webhook after five seconds.
FairSpec == Spec /\ \A t \in Threads : WF_vars(Work(t))

---------------------------------------------------------------------------
(* Properties *)

\* The lock, for which threads wait with a connection in their hands, is always given
\* back: the holder's own checkouts do not bring it to the lock again, and an empty
\* pool holds it up for a while only.  (_exhaustion_local, pool_timeout)
LockIsReleased == \A t \in Threads : holder = t ~> holder # t

\* However many threads find the pool full at once, one message is tried until the
\* flag has been lowered again.  (the second look at _pool_is_exhausted)
AlertedOnce == sent <= 1

\* A check is over without a message, and none was tried in the four hours before it.
Silent == ~recent /\ \E t \in Threads : at[t] = "raise" /\ "tried" \notin check

\* A message is about to be sent although one was tried in the last four hours.
Repeated == recent /\ \E t \in Threads : at[t] = "deliver"

\* "Fire Discord alert when pool is fully saturated. Uses AlertSuppressor for dedup
\* (4-hour cooldown ...)" (docstring of _check_pool_exhaustion): that a full pool is
\* announced, or at least that announcements keep to the cooldown.
AlertPromise == []~Silent \/ []~Repeated
=============================================================================
