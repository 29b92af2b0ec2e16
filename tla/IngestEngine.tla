---------------------------- MODULE IngestEngine ----------------------------
(***************************************************************************)
(* The unified ingest engine of src/ingest/engine.py.                       *)
(*                                                                         *)
(* run_all submits one task per (plugin, market) to a thread pool.  A task  *)
(* scrapes its source with retries, then takes the scraped records one at a *)
(* time through the market check, the duplicate check (the bounded          *)
(* in-memory cache, then ingest_log), the plugin's validation, the writer   *)
(* and the audit row in ingest_log.  The cache, the cancel flag and the run *)
(* lock live in the process and are lost by a crash; the target tables and  *)
(* ingest_log live in PostgreSQL and survive it.                            *)
(*                                                                         *)
(* A record is reduced to the SHA-256 of its data and the market it names.  *)
(* The hash is computed from the data alone, so the validity of the data    *)
(* and the kind of table it goes to are attributes of the hash.             *)
(* Data of two hashes that share a conflict key, where the newer replaces   *)
(* the older, is left out: every hash has a row of its own.                 *)
(***************************************************************************)
EXTENDS Integers, Sequences, FiniteSets

CONSTANTS
  Callers,      \* threads that call run_all on the engine
  NoCaller,     \* the run lock is free
  Tasks,        \* the (plugin, market) pairs one run submits
  Position,     \* Position[t]: place of t in the order of submission
  Markets,      \* the canonical markets
  NoMarket,     \* market of a record that names none
  MarketOf,     \* MarketOf[t]: the normalised market of task t
  Hashes,       \* the raw_hash values
  Feeds,        \* Feeds[t]: the lists of records the plugin of t may return
  Valid,        \* hashes of data that plugin.validate accepts
  Routed,       \* hashes of data that fit a table: it exists and has a column for each key
  PlainInsert,  \* hashes of data bound for a table without a conflict target
  Unique,       \* those among them whose table has a unique constraint nevertheless
  MaxWorkers,   \* max_workers of the thread pool
  CacheMax,     \* dedup_cache_size
  MaxRecords,   \* _MAX_RECORDS_PER_PLUGIN
  MaxRetries,   \* max_retries of _run_plugin
  MaxFaults,    \* bound on failed database operations and lost replies
  MaxCrashes    \* bound on crashes of the process

Record  == [hash : Hashes, market : Markets \cup {NoMarket}]
Outcome == {"success", "validation_error", "write_error"}
Counter == {"written", "deduped", "failed"}
Row     == [hash : Hashes, status : Outcome]

ASSUME IngestAssumption ==
  /\ NoCaller \notin Callers
  /\ NoMarket \notin Markets
  /\ IsFiniteSet(Tasks) /\ IsFiniteSet(Hashes)
  /\ Position \in [Tasks -> Nat]
  /\ MarketOf \in [Tasks -> Markets]
  /\ DOMAIN Feeds = Tasks
  /\ \A t \in Tasks : Feeds[t] \subseteq Seq(Record)
  /\ Valid \subseteq Hashes
  /\ Routed \subseteq Hashes
  /\ PlainInsert \subseteq Hashes
  /\ Unique \subseteq PlainInsert
  /\ MaxWorkers \in Nat \ {0}
  /\ CacheMax \in Nat
  /\ MaxRecords \in Nat
  /\ MaxRetries \in Nat
  /\ MaxFaults \in Nat
  /\ MaxCrashes \in Nat

VARIABLES
  runLock,      \* the caller that holds _run_lock, or NoCaller
  callerPc,     \* where each caller is in run_all
  cancelled,    \* _ShutdownFlag._cancelled
  seen,         \* _DedupCache._seen
  pc,           \* where each task is in _run_plugin; an Outcome: about to insert
                \*   the audit row with that status
  attempt,      \* scrape attempts a task has used up
  todo,         \* records a task has still to settle; the first is in hand
  scraped,      \* stats.records_scraped
  tally,        \* written, deduped and failed of a task
  status,       \* stats.status
  log,          \* the rows of ingest_log
  copies,       \* copies[h]: rows the target table holds for the data of h
  faults,       \* database faults so far (bounded by MaxFaults)
  crashes,      \* crashes so far (bounded by MaxCrashes)
  cancelAsked,  \* history: cancel() was called while the current run held the lock
  unaudited,    \* history: hashes whose audit row was lost
  overlooked    \* history: hashes let past the duplicate check unexamined

engineVars == <<runLock, callerPc, cancelled, cancelAsked>>
taskVars   == <<pc, attempt, todo, scraped, tally, status>>
storeVars  == <<log, copies>>
budgetVars == <<faults, crashes>>
historyVars == <<unaudited, overlooked>>
vars == <<engineVars, seen, taskVars, storeVars, budgetVars, historyVars>>

Idle    == {"out", "queued", "finished"}
Working == {"scrape", "record", "recall", "lookup", "validate", "write"} \cup Outcome

\* The record task t has in hand.
Hash(t)   == Head(todo[t]).hash
Logged    == {row.hash : row \in log}
NoTally   == [field \in Counter |-> 0]

TypeOK ==
  /\ runLock \in Callers \cup {NoCaller}
  /\ callerPc \in [Callers -> {"idle", "seed", "begin", "await"}]
  /\ cancelled \in BOOLEAN
  /\ seen \subseteq Hashes
  /\ pc \in [Tasks -> Idle \cup Working]
  /\ attempt \in [Tasks -> 0..MaxRetries]
  /\ todo \in [Tasks -> Seq(Record)]
  /\ scraped \in [Tasks -> Nat]
  /\ tally \in [Tasks -> [Counter -> Nat]]
  /\ status \in [Tasks -> {"pending", "success", "partial", "failed", "cancelled"}]
  /\ log \subseteq Row
  /\ copies \in [Hashes -> Nat]
  /\ faults \in 0..MaxFaults
  /\ crashes \in 0..MaxCrashes
  /\ cancelAsked \in BOOLEAN
  /\ unaudited \subseteq Hashes
  /\ overlooked \subseteq Hashes

Init ==
  /\ runLock = NoCaller
  /\ callerPc = [c \in Callers |-> "idle"]
  /\ cancelled = FALSE
  /\ seen = {}
  /\ pc = [t \in Tasks |-> "out"]
  /\ attempt = [t \in Tasks |-> 0]
  /\ todo = [t \in Tasks |-> <<>>]
  /\ scraped = [t \in Tasks |-> 0]
  /\ tally = [t \in Tasks |-> NoTally]
  /\ status = [t \in Tasks |-> "pending"]
  /\ log = {}
  /\ copies = [h \in Hashes |-> 0]
  /\ faults = 0
  /\ crashes = 0
  /\ cancelAsked = FALSE
  /\ unaudited = {}
  /\ overlooked = {}

\* No task is left: what a task kept in its locals and its stats is gone.
ForgetTasks ==
  /\ pc' = [t \in Tasks |-> "out"]
  /\ attempt' = [t \in Tasks |-> 0]
  /\ todo' = [t \in Tasks |-> <<>>]
  /\ scraped' = [t \in Tasks |-> 0]
  /\ tally' = [t \in Tasks |-> NoTally]
  /\ status' = [t \in Tasks |-> "pending"]

Fault == faults < MaxFaults /\ faults' = faults + 1 /\ UNCHANGED crashes

---------------------------------------------------------------------------
(* run_all *)

\* Mutant of Acquire: run_all without the lock.
AcquireUnlocked(c) ==
  /\ callerPc[c] = "idle"
  /\ runLock' = c
  /\ callerPc' = [callerPc EXCEPT ![c] = "seed"]
  /\ UNCHANGED <<cancelled, cancelAsked, seen, taskVars, storeVars, budgetVars, historyVars>>

\* Mutant of Acquire: the flag is reset before the lock is tried.
AcquireResets(c) ==
  /\ callerPc[c] = "idle"
  /\ cancelled' = FALSE
  /\ IF runLock = NoCaller
       THEN runLock' = c /\ callerPc' = [callerPc EXCEPT ![c] = "seed"]
       ELSE UNCHANGED <<runLock, callerPc>>
  /\ UNCHANGED <<cancelAsked, seen, taskVars, storeVars, budgetVars, historyVars>>

\* _run_lock.acquire(blocking=False).  A caller that finds the lock taken gets
\* an empty report back and changes nothing, so it takes no step here.
Acquire(c) ==
  /\ callerPc[c] = "idle"
  /\ runLock = NoCaller
  /\ runLock' = c
  /\ callerPc' = [callerPc EXCEPT ![c] = "seed"]
  /\ UNCHANGED <<cancelled, cancelAsked, seen, taskVars, storeVars, budgetVars, historyVars>>

\* _seed_from_db: the hashes of the rows of the last 24 hours, as many as the
\* cache has room for; none when the query fails.  Which rows are that young
\* is left open.
Seed(c) ==
  /\ callerPc[c] = "seed"
  /\ \E recent \in SUBSET Logged :
        /\ recent \subseteq seen \/ Cardinality(seen \cup recent) <= CacheMax
        /\ seen' = seen \cup recent
  /\ callerPc' = [callerPc EXCEPT ![c] = "begin"]
  /\ UNCHANGED <<runLock, cancelled, cancelAsked, taskVars, storeVars, budgetVars, historyVars>>

\* _shutdown.reset(), then every task is submitted to the pool.
Begin(c) ==
  /\ callerPc[c] = "begin"
  /\ cancelled' = FALSE
  /\ callerPc' = [callerPc EXCEPT ![c] = "await"]
  /\ pc' = [t \in Tasks |-> "queued"]
  /\ UNCHANGED <<runLock, cancelAsked, seen, attempt, todo, scraped, tally, status,
                 storeVars, budgetVars, historyVars>>

\* as_completed has yielded every future: the run lock is released.
Return(c) ==
  /\ callerPc[c] = "await"
  /\ \A t \in Tasks : pc[t] = "finished"
  /\ callerPc' = [callerPc EXCEPT ![c] = "idle"]
  /\ runLock' = NoCaller
  /\ ForgetTasks
  /\ cancelAsked' = FALSE
  /\ UNCHANGED <<cancelled, seen, storeVars, budgetVars, historyVars>>

\* cancel(), from a signal handler or a watchdog thread, at any moment.
Cancel ==
  /\ cancelled' = TRUE
  /\ cancelAsked' = (runLock # NoCaller)
  /\ UNCHANGED <<runLock, callerPc, seen, taskVars, storeVars, budgetVars, historyVars>>

---------------------------------------------------------------------------
(* _run_plugin: the scrape *)

Busy == {t \in Tasks : pc[t] \in Working}

\* The pool starts tasks in the order of submission, MaxWorkers at a time.
Start(t) ==
  /\ pc[t] = "queued"
  /\ \A u \in Tasks : Position[u] < Position[t] => pc[u] # "queued"
  /\ Cardinality(Busy) < MaxWorkers
  /\ pc' = [pc EXCEPT ![t] = "scrape"]
  /\ UNCHANGED <<engineVars, seen, attempt, todo, scraped, tally, status,
                 storeVars, budgetVars, historyVars>>

\* A task ends with the given status.
Finish(t, s) ==
  /\ pc' = [pc EXCEPT ![t] = "finished"]
  /\ status' = [status EXCEPT ![t] = s]
  /\ UNCHANGED <<engineVars, seen, attempt, todo, scraped, tally,
                 storeVars, budgetVars, historyVars>>

ScrapeCancelled(t) == pc[t] = "scrape" /\ cancelled /\ Finish(t, "cancelled")

\* plugin.run returned: the list is cut at MaxRecords.  The retry loop is over and
\* its counter with it.  The plugin touches nothing of the engine, so the check of the
\* flag and the answer are one step: a cancellation in between comes after both.
ScrapeReturns(t) ==
  /\ pc[t] = "scrape"
  /\ ~cancelled
  /\ \E records \in Feeds[t] :
       LET kept == SubSeq(records, 1, IF Len(records) > MaxRecords THEN MaxRecords
                                                                   ELSE Len(records))
       IN  /\ todo' = [todo EXCEPT ![t] = kept]
           /\ scraped' = [scraped EXCEPT ![t] = Len(kept)]
  /\ pc' = [pc EXCEPT ![t] = "record"]
  /\ attempt' = [attempt EXCEPT ![t] = 0]
  /\ UNCHANGED <<engineVars, seen, tally, status,
                 storeVars, budgetVars, historyVars>>

\* Mutant of ScrapeRetries: one attempt too many.
ScrapeRetriesOnceMore(t) ==
  /\ pc[t] = "scrape"
  /\ ~cancelled
  /\ attempt[t] <= MaxRetries
  /\ attempt' = [attempt EXCEPT ![t] = @ + 1]
  /\ UNCHANGED <<engineVars, seen, pc, todo, scraped, tally, status,
                 storeVars, budgetVars, historyVars>>

\* plugin.run raised with attempts left: back off and try again.
ScrapeRetries(t) ==
  /\ pc[t] = "scrape"
  /\ ~cancelled
  /\ attempt[t] < MaxRetries
  /\ attempt' = [attempt EXCEPT ![t] = @ + 1]
  /\ UNCHANGED <<engineVars, seen, pc, todo, scraped, tally, status,
                 storeVars, budgetVars, historyVars>>

\* Mutant of ScrapeExhausted: the last failure starts the attempts over.
ScrapeStartsOver(t) ==
  /\ pc[t] = "scrape"
  /\ ~cancelled
  /\ attempt[t] = MaxRetries
  /\ attempt' = [attempt EXCEPT ![t] = 0]
  /\ UNCHANGED <<engineVars, seen, pc, todo, scraped, tally, status,
                 storeVars, budgetVars, historyVars>>

\* The last attempt failed too.
ScrapeExhausted(t) ==
  /\ pc[t] = "scrape"
  /\ ~cancelled
  /\ attempt[t] = MaxRetries
  /\ Finish(t, "failed")

---------------------------------------------------------------------------
(* _run_plugin: one record *)

\* What becomes of the record in hand: the field of the tally it is counted in.
Count(t, field) == tally' = [tally EXCEPT ![t][field] = @ + 1]

\* The record in hand is settled; the loop goes on with the next one.
NextRecord(t) ==
  /\ todo' = [todo EXCEPT ![t] = Tail(@)]
  /\ pc' = [pc EXCEPT ![t] = "record"]

\* The task goes on to insert an audit row with the given status.
Report(t, result) ==
  /\ pc' = [pc EXCEPT ![t] = result]
  /\ UNCHANGED todo

Mismatched(t) == Head(todo[t]).market \notin {NoMarket, MarketOf[t]}

StopAtRecord(t) ==
  /\ pc[t] = "record"
  /\ todo[t] # <<>>
  /\ cancelled
  /\ Finish(t, "cancelled")

\* A record of another market is counted as failed and audited under its hash,
\* before the duplicate check.
RejectMarket(t) ==
  /\ pc[t] = "record"
  /\ todo[t] # <<>>
  /\ ~cancelled
  /\ Mismatched(t)
  /\ Count(t, "failed")
  /\ Report(t, "validation_error")
  /\ UNCHANGED <<engineVars, seen, attempt, scraped, status, storeVars, budgetVars, historyVars>>

\* The record passes the market check and the rate limiter.
AcceptRecord(t) ==
  /\ pc[t] = "record"
  /\ todo[t] # <<>>
  /\ ~cancelled
  /\ ~Mismatched(t)
  /\ pc' = [pc EXCEPT ![t] = "recall"]
  /\ UNCHANGED <<engineVars, seen, attempt, todo, scraped, tally, status,
                 storeVars, budgetVars, historyVars>>

\* The loop is over: partial when a record failed.
Complete(t) ==
  /\ pc[t] = "record"
  /\ todo[t] = <<>>
  /\ Finish(t, IF tally[t]["failed"] = 0 THEN "success" ELSE "partial")

\* _DedupCache.check_and_add knows the hash.
RecallHit(t) ==
  /\ pc[t] = "recall"
  /\ Hash(t) \in seen
  /\ Count(t, "deduped")
  /\ NextRecord(t)
  /\ UNCHANGED <<engineVars, seen, attempt, scraped, status,
                 storeVars, budgetVars, historyVars>>

\* Mutant of RecallMiss: checked but not added under the same lock.
RecallMissForgets(t) ==
  /\ pc[t] = "recall"
  /\ Hash(t) \notin seen
  /\ pc' = [pc EXCEPT ![t] = "lookup"]
  /\ UNCHANGED <<engineVars, seen, attempt, todo, scraped, tally, status,
                 storeVars, budgetVars, historyVars>>

\* check_and_add stores an unknown hash, unless the cache is full: then the hash
\* goes on to the lookup without being remembered.
RecallMiss(t) ==
  /\ pc[t] = "recall"
  /\ Hash(t) \notin seen
  /\ IF Cardinality(seen) < CacheMax
       THEN seen' = seen \cup {Hash(t)} /\ UNCHANGED overlooked
       ELSE overlooked' = overlooked \cup {Hash(t)} /\ UNCHANGED seen
  /\ pc' = [pc EXCEPT ![t] = "lookup"]
  /\ UNCHANGED <<engineVars, attempt, todo, scraped, tally, status,
                 storeVars, budgetVars, unaudited>>

\* Mutant of LookupHit: the duplicate is skipped without being counted.
LookupHitUncounted(t) ==
  /\ pc[t] = "lookup"
  /\ Hash(t) \in Logged
  /\ NextRecord(t)
  /\ UNCHANGED <<engineVars, seen, attempt, scraped, tally, status,
                 storeVars, budgetVars, historyVars>>

\* SELECT 1 FROM ingest_log WHERE raw_hash = :h finds a row, of whatever status.
LookupHit(t) ==
  /\ pc[t] = "lookup"
  /\ Hash(t) \in Logged
  /\ Count(t, "deduped")
  /\ NextRecord(t)
  /\ UNCHANGED <<engineVars, seen, attempt, scraped, status,
                 storeVars, budgetVars, historyVars>>

LookupMiss(t) ==
  /\ pc[t] = "lookup"
  /\ Hash(t) \notin Logged
  /\ pc' = [pc EXCEPT ![t] = "validate"]
  /\ UNCHANGED <<engineVars, seen, attempt, todo, scraped, tally, status,
                 storeVars, budgetVars, historyVars>>

\* Mutant of LookupFails: a failed query counts as a duplicate.
LookupFailsClosed(t) ==
  /\ pc[t] = "lookup"
  /\ Fault
  /\ Count(t, "deduped")
  /\ NextRecord(t)
  /\ UNCHANGED <<engineVars, seen, attempt, scraped, status, storeVars, historyVars>>

\* The query raised: _is_duplicate answers False.
LookupFails(t) ==
  /\ pc[t] = "lookup"
  /\ Fault
  /\ overlooked' = overlooked \cup {Hash(t)}
  /\ pc' = [pc EXCEPT ![t] = "validate"]
  /\ UNCHANGED <<engineVars, seen, attempt, todo, scraped, tally, status,
                 storeVars, unaudited>>

Accept(t) ==
  /\ pc[t] = "validate"
  /\ Hash(t) \in Valid
  /\ pc' = [pc EXCEPT ![t] = "write"]
  /\ UNCHANGED <<engineVars, seen, attempt, todo, scraped, tally, status,
                 storeVars, budgetVars, historyVars>>

Reject(t) ==
  /\ pc[t] = "validate"
  /\ Hash(t) \notin Valid
  /\ Count(t, "failed")
  /\ Report(t, "validation_error")
  /\ UNCHANGED <<engineVars, seen, attempt, scraped, status, storeVars, budgetVars, historyVars>>

---------------------------------------------------------------------------
(* IngestWriter.write and _log_ingest *)

\* A table with a conflict target updates the row in place; a table without one
\* gets another row.
Upsert(h) == copies' = [copies EXCEPT ![h] = IF h \in PlainInsert THEN @ + 1 ELSE 1]

\* The statement has a table it fits and meets no row it may not repeat.
Insertable(h) == h \in Routed /\ (h \in Unique => copies[h] = 0)

WriteSucceeds(t) ==
  /\ pc[t] = "write"
  /\ Insertable(Hash(t))
  /\ Upsert(Hash(t))
  /\ Count(t, "written")
  /\ Report(t, "success")
  /\ UNCHANGED <<engineVars, seen, attempt, scraped, status, log, budgetVars, historyVars>>

\* Mutant of WriteFails: the error is swallowed and success is reported.
WriteFailsSilently(t) ==
  /\ pc[t] = "write"
  /\ Hash(t) \in Routed
  /\ Fault
  /\ Count(t, "written")
  /\ Report(t, "success")
  /\ UNCHANGED <<engineVars, seen, attempt, scraped, status, storeVars, historyVars>>

\* No table for the entity type, a key without a column (as in all records of the Form 17
\* plugin), or a violated unique constraint: write returns False without any fault of the
\* database.
WriteRefused(t) ==
  /\ pc[t] = "write"
  /\ ~Insertable(Hash(t))
  /\ Count(t, "failed")
  /\ Report(t, "write_error")
  /\ UNCHANGED <<engineVars, seen, attempt, scraped, status, storeVars, budgetVars, historyVars>>

\* The statement raised: rolled back to the savepoint, write returns False.
WriteFails(t) ==
  /\ pc[t] = "write"
  /\ Hash(t) \in Routed
  /\ Fault
  /\ Count(t, "failed")
  /\ Report(t, "write_error")
  /\ UNCHANGED <<engineVars, seen, attempt, scraped, status, storeVars, historyVars>>

\* The commit took effect but its reply was lost: write returns False all the same.
WriteUnacknowledged(t) ==
  /\ pc[t] = "write"
  /\ Insertable(Hash(t))
  /\ Fault
  /\ Upsert(Hash(t))
  /\ Count(t, "failed")
  /\ Report(t, "write_error")
  /\ UNCHANGED <<engineVars, seen, attempt, scraped, status, log, historyVars>>

LogRow(t) ==
  /\ pc[t] \in Outcome
  /\ log' = log \cup {[hash |-> Hash(t), status |-> pc[t]]}
  /\ NextRecord(t)
  /\ UNCHANGED <<engineVars, seen, attempt, scraped, tally, status, copies,
                 budgetVars, historyVars>>

\* _log_ingest is best-effort: a failed insert is swallowed and the loop goes on.
LogRowLost(t) ==
  /\ pc[t] \in Outcome
  /\ Fault
  /\ unaudited' = unaudited \cup {Hash(t)}
  /\ NextRecord(t)
  /\ UNCHANGED <<engineVars, seen, attempt, scraped, tally, status, storeVars,
                 overlooked>>

---------------------------------------------------------------------------
\* The process dies, or the next scheduled job builds a new engine: everything
\* in memory is gone.  A record that was written but not yet audited is left so.
Crash ==
  /\ crashes < MaxCrashes
  /\ crashes' = crashes + 1
  /\ runLock' = NoCaller
  /\ callerPc' = [c \in Callers |-> "idle"]
  /\ cancelled' = FALSE
  /\ cancelAsked' = FALSE
  /\ seen' = {}
  /\ ForgetTasks
  /\ unaudited' = unaudited \cup
       {Hash(t) : t \in {u \in Tasks : pc[u] \in {"success", "write_error"}}}
  /\ UNCHANGED <<storeVars, faults, overlooked>>

Run(c) == Seed(c) \/ Begin(c) \/ Return(c)

Scrape(t) == ScrapeCancelled(t) \/ ScrapeReturns(t) \/ ScrapeRetries(t) \/ ScrapeExhausted(t)

Take(t) == StopAtRecord(t) \/ RejectMarket(t) \/ AcceptRecord(t) \/ Complete(t)

IsDuplicate(t) == RecallHit(t) \/ RecallMiss(t) \/ LookupHit(t) \/ LookupMiss(t) \/ LookupFails(t)

Persist(t) == \/ Accept(t) \/ Reject(t)
              \/ WriteSucceeds(t) \/ WriteRefused(t) \/ WriteFails(t) \/ WriteUnacknowledged(t)
              \/ LogRow(t) \/ LogRowLost(t)

RunPlugin(t) == Start(t) \/ Scrape(t) \/ Take(t) \/ IsDuplicate(t) \/ Persist(t)

Next ==
  \/ \E c \in Callers : Acquire(c) \/ Run(c)
  \/ \E t \in Tasks : RunPlugin(t)
  \/ Cancel
  \/ Crash

Spec == Init /\ [][Next]_vars

\* The threads of the pool and the caller inside run_all keep being scheduled, and
\* plugin.run, the database and the rate limiter answer.  Nobody is obliged to
\* call run_all or cancel, and a crash is never due.
Fairness ==
  /\ \A t \in Tasks : WF_vars(RunPlugin(t))
  /\ \A c \in Callers : WF_vars(Run(c))

FairSpec == Spec /\ Fairness

---------------------------------------------------------------------------
(* Properties *)

\* Past the market check and not yet counted, or written and not yet audited.
Holds(t, h) == /\ pc[t] \in {"lookup", "validate", "write"} \cup Outcome
               /\ Hash(t) = h

\* One run at a time: tasks exist only while the caller that holds the run lock
\* waits for them, and no other caller is inside run_all.  (_run_lock)
OneRunAtATime ==
  /\ \A c \in Callers : callerPc[c] # "idle" <=> runLock = c
  /\ \A t \in Tasks : pc[t] # "out" => \E c \in Callers : callerPc[c] = "await"

\* A hash the cache remembers is somebody's work in hand, or its data is stored, or
\* ingest_log says why not, or that audit row was lost: being told "duplicate" by
\* the cache never hides data that simply vanished.  (check_and_add runs before
\* validation and before the write.)
NoSilentLoss ==
  \A h \in seen :
    \/ \E t \in Tasks : Holds(t, h)
    \/ copies[h] > 0
    \/ \E row \in log : row.hash = h /\ row.status # "success"
    \/ h \in unaudited

\* Data lands twice in a table only if its audit row was lost, or if it went past
\* the duplicate check because the lookup failed or the cache was full.  The two
\* checks are not atomic with the write, and several workers may bring the same data.
DuplicateOnlyByFault ==
  \A h \in Hashes : copies[h] > 1 => h \in unaudited \cup overlooked

\* Every record a task scraped is counted once, however the task ends: those not yet
\* counted are exactly those it has still to settle; "success" hides no failure.
EveryRecordCounted ==
  \A t \in Tasks :
    pc[t] \notin {"out", "queued", "scrape"} =>
      LET inHand == IF pc[t] \in Outcome THEN 1 ELSE 0
          counted == tally[t]["written"] + tally[t]["deduped"] + tally[t]["failed"]
      IN  /\ counted + Len(todo[t]) = scraped[t] + inHand
          /\ status[t] = "success" => todo[t] = <<>> /\ tally[t]["failed"] = 0

\* A cancellation that the tasks can see is not taken back under them: not by the end
\* of another task and not by a second call of run_all, which resets the flag.
CancelStays ==
  [][(\E t \in Tasks : pc[t] # "out") /\ cancelled /\ crashes' = crashes => cancelled']_vars

\* The engine implements the audit trail.
Trail == INSTANCE AuditTrail WITH stored <- {h \in Hashes : copies[h] > 0}
ImplementsAuditTrail == Trail!Spec

\* A run that took the lock gives it back, whatever fails or is cancelled meanwhile.
RunEnds == \A c \in Callers : runLock = c ~> runLock # c

\* "The engine can be cancelled via cancel" (docstring of run_all): a cancellation that
\* arrives during a run stays in force until that run is over.
CancelSticks == cancelAsked => cancelled
=============================================================================
