------------------------- MODULE IngestSafetyProofs -------------------------
(***************************************************************************)
(* The safety theorems of IngestEngine: one run at a time, the audit trail, *)
(* no silent loss, no duplicate without a fault, every record counted.      *)
(***************************************************************************)
EXTENDS IngestEngineProofs, FiniteSetTheorems, WellFoundedInduction

---------------------------------------------------------------------------
(* Inductive invariants *)

\* A success row, written or about to be, is about stored data.
AuditInv ==
  /\ \A t \in Tasks : pc[t] = "success" => copies[Hash(t)] > 0
  /\ \A row \in log : row.status = "success" => copies[row.hash] > 0

\* Task t got past the cache with h and has not audited what it wrote.
Claims(t, h) ==
  /\ pc[t] \in {"lookup", "validate", "write", "success", "write_error"}
  /\ Hash(t) = h

\* As long as no fault touched h: one task at a time claims it, and remembers it;
\* while it is on its way to the writer it is in no table; what is in a table is
\* in ingest_log or on its way there.
DedupInv ==
  \A h \in Hashes \ (unaudited \cup overlooked) :
    /\ \A t, u \in Tasks : Claims(t, h) /\ Claims(u, h) => t = u
    /\ \A t \in Tasks : Claims(t, h) => h \in seen
    /\ \A t \in Tasks : Claims(t, h) /\ pc[t] \in {"validate", "write"} => copies[h] = 0
    /\ copies[h] > 0 =>
         \/ h \in Logged
         \/ \E t \in Tasks : Claims(t, h) /\ pc[t] \in {"success", "write_error"}
    /\ copies[h] <= 1

\* What one task has counted: nothing before it has its records, later each record
\* that it took off the list, and only a task that has ended has a status.
Counted(t) == tally[t]["written"] + tally[t]["deduped"] + tally[t]["failed"]
InTransit(t) == IF pc[t] \in Outcome THEN 1 ELSE 0
CountedAt(t) ==
  /\ pc[t] \in {"out", "queued", "scrape"} =>
       tally[t] = NoTally /\ todo[t] = <<>> /\ scraped[t] = 0
  /\ pc[t] \notin {"out", "queued", "scrape"} => Counted(t) + Len(todo[t]) = scraped[t] + InTransit(t)
  /\ pc[t] # "finished" => status[t] = "pending"
  /\ status[t] = "success" => todo[t] = <<>> /\ tally[t]["failed"] = 0
CountInv == \A t \in Tasks : CountedAt(t)

---------------------------------------------------------------------------
(* What a step of a task leaves alone *)

\* A task steps only while it is in a run; it leaves the lock and the cancel flag,
\* the other tasks, and all that only grows, alone.
LEMMA TaskFrame ==
  ASSUME TypeInv, NEW t \in Tasks, RunPlugin(t)
  PROVE  /\ UNCHANGED engineVars
         /\ pc[t] \notin {"out", "finished"} /\ pc'[t] # "out"
         /\ \A u \in Tasks \ {t} :
              /\ pc'[u] = pc[u] /\ todo'[u] = todo[u]
              /\ scraped'[u] = scraped[u] /\ tally'[u] = tally[u]
              /\ status'[u] = status[u]
         /\ seen \subseteq seen' /\ log \subseteq log'
         /\ unaudited \subseteq unaudited' /\ overlooked \subseteq overlooked'
<1> USE DEF TypeInv, TypeOK, historyVars, storeVars, Outcome
<1>1. CASE Start(t)
  BY <1>1 DEF Start
<1>2. CASE Scrape(t)
  BY <1>2 DEF Scrape, ScrapeCancelled, ScrapeReturns, ScrapeRetries, ScrapeExhausted, Finish
<1>3. CASE Take(t)
  BY <1>3 DEF Take, StopAtRecord, RejectMarket, AcceptRecord, Complete, Finish, Count, Report
<1>4. CASE IsDuplicate(t)
  BY <1>4 DEF IsDuplicate, RecallHit, RecallMiss, LookupHit, LookupMiss, LookupFails, Count, NextRecord
<1>5. CASE Accept(t) \/ Reject(t)
  BY <1>5 DEF Accept, Reject, Count, Report
<1>6. CASE WriteSucceeds(t) \/ WriteRefused(t) \/ WriteFails(t) \/ WriteUnacknowledged(t)
  BY <1>6 DEF WriteSucceeds, WriteRefused, WriteFails, WriteUnacknowledged, Count, Report
<1>7. CASE LogRow(t) \/ LogRowLost(t)
  BY <1>7 DEF LogRow, LogRowLost, NextRecord
<1> QED BY <1>1, <1>2, <1>3, <1>4, <1>5, <1>6, <1>7 DEF RunPlugin, Persist

---------------------------------------------------------------------------
(* One run at a time *)

\* At every moment at most one caller is inside run_all, and the pool works for it
\* alone.
THEOREM IngestOneRun == Spec => []OneRunAtATime
<1>1. Init => OneRunAtATime
  BY IngestAssumption DEF Init, OneRunAtATime
<1>2. TypeInv /\ OneRunAtATime /\ [Next]_vars => OneRunAtATime'
  <2> SUFFICES ASSUME TypeInv, OneRunAtATime, [Next]_vars PROVE OneRunAtATime'
    OBVIOUS
  <2> USE IngestAssumption DEF TypeInv, TypeOK, OneRunAtATime
  <2>1. ASSUME NEW c \in Callers, Acquire(c) PROVE OneRunAtATime'
    BY <2>1 DEF Acquire, taskVars
  <2>2. ASSUME NEW c \in Callers, Seed(c) PROVE OneRunAtATime'
    BY <2>2 DEF Seed, taskVars
  <2>3. ASSUME NEW c \in Callers, Begin(c) PROVE OneRunAtATime'
    BY <2>3 DEF Begin
  <2>4. ASSUME NEW c \in Callers, Return(c) PROVE OneRunAtATime'
    BY <2>4 DEF Return, ForgetTasks
  <2>5. CASE Cancel
    BY <2>5 DEF Cancel, taskVars
  <2>6. CASE Crash
    BY <2>6 DEF Crash, ForgetTasks
  <2>7. ASSUME NEW t \in Tasks, RunPlugin(t) PROVE OneRunAtATime'
    BY <2>7, TaskFrame DEF engineVars
  <2>8. CASE UNCHANGED vars
    BY <2>8 DEF vars, engineVars, taskVars
  <2> QED BY <2>1, <2>2, <2>3, <2>4, <2>5, <2>6, <2>7, <2>8 DEF Next, Run
<1> QED BY <1>1, <1>2, IngestTypes, PTL DEF Spec

\* No step but a crash takes back a cancellation that a task can see.
THEOREM IngestCancelStays == Spec => CancelStays
<1> DEFINE A == (\E t \in Tasks : pc[t] # "out") /\ cancelled /\ crashes' = crashes => cancelled'
<1>1. TypeInv /\ OneRunAtATime /\ [Next]_vars => [A]_vars
  <2> SUFFICES ASSUME TypeInv, OneRunAtATime, Next PROVE A
    BY DEF vars
  <2>1. ASSUME NEW c \in Callers, Begin(c) PROVE A
    <3>1. \A d \in Callers : callerPc[d] # "await"
      BY <2>1, IngestAssumption DEF Begin, OneRunAtATime
    <3> QED BY <3>1 DEF OneRunAtATime
  <2>2. ASSUME NEW c \in Callers, Acquire(c) \/ Seed(c) \/ Return(c) PROVE A
    BY <2>2 DEF Acquire, Seed, Return
  <2>3. CASE Cancel
    BY <2>3 DEF Cancel
  <2>4. CASE Crash
    BY <2>4, SMT DEF Crash, TypeInv, TypeOK
  <2>5. ASSUME NEW t \in Tasks, RunPlugin(t) PROVE A
    BY <2>5, TaskFrame DEF engineVars
  <2> QED BY <2>1, <2>2, <2>3, <2>4, <2>5 DEF Next, Run
<1> QED BY <1>1, IngestTypes, IngestOneRun, PTL DEF Spec, CancelStays
---------------------------------------------------------------------------
(* The audit trail *)

\* What a step of a task does to the tables: rows are only added; only the writer
\* changes a table, for the record in hand; only LogRow adds to ingest_log.
LEMMA TaskStore ==
  ASSUME TypeInv, NEW t \in Tasks, RunPlugin(t)
  PROVE  /\ \A h \in Hashes : copies'[h] # copies[h] =>
              /\ pc[t] = "write" /\ Hash(t) = h
              /\ pc'[t] \in {"success", "write_error"} /\ Hash(t)' = h
              /\ copies'[h] \in {1, copies[h] + 1}
         /\ pc'[t] = "success" => Hash(t)' \in Hashes /\ copies'[Hash(t)'] > 0
         /\ \/ log' = log
            \/ /\ pc[t] \in Outcome /\ copies' = copies
               /\ log' = log \cup {[hash |-> Hash(t), status |-> pc[t]]}
<1>1. CASE Start(t) \/ Scrape(t) \/ Take(t) \/ IsDuplicate(t) \/ Accept(t) \/ Reject(t)
  BY <1>1 DEF TypeInv, TypeOK, storeVars, Start, Scrape, ScrapeCancelled, ScrapeReturns,
              ScrapeRetries, ScrapeExhausted, Finish, Take, StopAtRecord, RejectMarket,
              AcceptRecord, Complete, Report, IsDuplicate, RecallHit, RecallMiss, LookupHit,
              LookupMiss, LookupFails, NextRecord, Accept, Reject
<1>2. CASE WriteSucceeds(t) \/ WriteRefused(t) \/ WriteFails(t) \/ WriteUnacknowledged(t)
  <2>1. Hash(t) \in Hashes /\ Hash(t)' = Hash(t)
    BY <1>2, RecordInHand DEF WriteSucceeds, WriteRefused, WriteFails, WriteUnacknowledged, Report, HasRecord, Hash
  <2>2. pc'[t] \in {"success", "write_error"} /\ log' = log
    BY <1>2 DEF WriteSucceeds, WriteRefused, WriteFails, WriteUnacknowledged, Report, storeVars, TypeInv, TypeOK
  <2>3. copies' = copies \/ Upsert(Hash(t))
    BY <1>2 DEF WriteSucceeds, WriteRefused, WriteFails, WriteUnacknowledged, storeVars
  <2>4. pc'[t] = "success" => Upsert(Hash(t))
    BY <1>2 DEF WriteSucceeds, WriteRefused, WriteFails, WriteUnacknowledged, Report, TypeInv, TypeOK
  <2>5. Upsert(Hash(t)) => /\ copies'[Hash(t)] \in {1, copies[Hash(t)] + 1}
                           /\ copies'[Hash(t)] > 0
                           /\ \A h \in Hashes \ {Hash(t)} : copies'[h] = copies[h]
    BY <2>1 DEF Upsert, TypeInv, TypeOK
  <2>6. pc[t] = "write"
    BY <1>2 DEF WriteSucceeds, WriteRefused, WriteFails, WriteUnacknowledged
  <2> QED BY <2>1, <2>2, <2>3, <2>4, <2>5, <2>6
<1>3. CASE LogRow(t) \/ LogRowLost(t)
  BY <1>3 DEF LogRow, LogRowLost, NextRecord, storeVars, TypeInv, TypeOK
<1> QED BY <1>1, <1>2, <1>3 DEF RunPlugin, Persist

\* The steps of run_all, cancel and a crash leave the tables and ingest_log alone.
LEMMA RunStore ==
  ASSUME (\E c \in Callers : Acquire(c) \/ Run(c)) \/ Cancel \/ Crash
  PROVE  UNCHANGED storeVars
  BY DEF Acquire, Run, Seed, Begin, Return, Cancel, Crash, storeVars

\* They also leave each task alone, send it to the queue, or forget it.
LEMMA RunTasks ==
  ASSUME TypeInv, (\E c \in Callers : Acquire(c) \/ Run(c)) \/ Cancel \/ Crash
  PROVE  \A t \in Tasks :
           \/ pc'[t] \in {"out", "queued"}
           \/ pc'[t] = pc[t] /\ todo'[t] = todo[t]
  BY DEF Acquire, Run, Seed, Begin, Return, Cancel, Crash, taskVars, ForgetTasks

\* Every step keeps AuditInv: a row that claims success, inserted or about to be,
\* is about stored data.
LEMMA AuditStep ==
  ASSUME TypeInv, AuditInv, [Next]_vars
  PROVE  AuditInv'
<1>1. CASE (\E c \in Callers : Acquire(c) \/ Run(c)) \/ Cancel \/ Crash
  BY <1>1, RunStore, RunTasks DEF AuditInv, storeVars, Hash
<1>2. ASSUME NEW t \in Tasks, RunPlugin(t) PROVE AuditInv'
  <2>1. \A h \in Hashes : copies[h] > 0 => copies'[h] > 0
    <3> SUFFICES ASSUME NEW h \in Hashes, copies[h] > 0 PROVE copies'[h] > 0
      OBVIOUS
    <3>1. copies[h] \in Nat
      BY DEF TypeInv, TypeOK
    <3>2. copies'[h] = copies[h] \/ copies'[h] \in {1, copies[h] + 1}
      BY <1>2, TaskStore
    <3> QED BY <3>1, <3>2
  <2>2. ASSUME NEW u \in Tasks, pc'[u] = "success" PROVE copies'[Hash(u)'] > 0
    <3>1. CASE u = t
      BY <1>2, <2>2, <3>1, TaskStore
    <3>2. CASE u # t
      <4>1. pc[u] = "success" /\ Hash(u)' = Hash(u)
        BY <1>2, <2>2, <3>2, TaskFrame DEF Hash
      <4>2. Hash(u) \in Hashes
        BY <4>1, RecordInHand DEF HasRecord, Outcome
      <4> QED BY <2>1, <4>1, <4>2 DEF AuditInv
    <3> QED BY <3>1, <3>2
  <2>3. ASSUME NEW row \in log', row.status = "success" PROVE copies'[row.hash] > 0
    <3>1. CASE row \in log
      BY <2>1, <2>3, <3>1 DEF AuditInv, TypeInv, TypeOK, Row
    <3>2. CASE row \notin log
      <4>1. row = [hash |-> Hash(t), status |-> pc[t]] /\ copies' = copies
        BY <1>2, <2>3, <3>2, TaskStore
      <4> QED BY <2>3, <4>1 DEF AuditInv
    <3> QED BY <3>1, <3>2
  <2> QED BY <2>2, <2>3 DEF AuditInv
<1>3. CASE UNCHANGED vars
  BY <1>3 DEF AuditInv, vars, taskVars, storeVars, Hash
<1> QED BY <1>1, <1>2, <1>3 DEF Next

\* AuditInv is an invariant.
LEMMA AuditAlways == Spec => []AuditInv
<1>1. Init => AuditInv
  BY DEF Init, AuditInv
<1> QED BY <1>1, AuditStep, IngestTypes, PTL DEF Spec

\* The engine, its threads, cache and crashes included, implements the audit trail.
THEOREM IngestImplementsAuditTrail == Spec => ImplementsAuditTrail
<1> DEFINE Stored == {h \in Hashes : copies[h] > 0}
<1>1. Init => Trail!Init
  BY DEF Init, Trail!Init
<1>2. TypeInv /\ AuditInv /\ [Next]_vars => [Trail!Next]_(Trail!trail)
  <2> SUFFICES ASSUME TypeInv, AuditInv, [Next]_vars PROVE [Trail!Next]_(Trail!trail)
    OBVIOUS
  <2>1. CASE (\E c \in Callers : Acquire(c) \/ Run(c)) \/ Cancel \/ Crash
    BY <2>1, RunStore DEF storeVars, Trail!trail
  <2>2. ASSUME NEW t \in Tasks, RunPlugin(t) PROVE [Trail!Next]_(Trail!trail)
    <3>1. CASE log' # log
      <4>1. pc[t] \in Outcome /\ copies' = copies
            /\ log' = log \cup {[hash |-> Hash(t), status |-> pc[t]]}
        BY <2>2, <3>1, TaskStore
      <4>2. Hash(t) \in Hashes
        BY <4>1, RecordInHand DEF HasRecord
      <4>3. pc[t] = "success" => Hash(t) \in Stored
        BY <4>2 DEF AuditInv
      <4>4. Trail!Audit(Hash(t), pc[t])
        BY <4>1, <4>3 DEF Trail!Audit
      <4> QED BY <4>1, <4>2, <4>4 DEF Trail!Next
    <3>2. CASE log' = log /\ \E h \in Hashes : copies'[h] # copies[h]
      <4>1. PICK h \in Hashes : copies'[h] # copies[h]
        BY <3>2
      <4>2. \A g \in Hashes \ {h} : copies'[g] = copies[g]
        BY <2>2, <4>1, TaskStore
      <4>3. copies'[h] > 0
        <5>1. copies'[h] \in {1, copies[h] + 1} /\ copies[h] \in Nat
          BY <2>2, <4>1, TaskStore DEF TypeInv, TypeOK
        <5> QED BY <5>1
      <4>4. Stored' = Stored \cup {h}
        BY <4>2, <4>3
      <4>5. Trail!Store(h)
        BY <3>2, <4>4 DEF Trail!Store
      <4> QED BY <4>5 DEF Trail!Next
    <3>3. CASE log' = log /\ \A h \in Hashes : copies'[h] = copies[h]
      BY <3>3 DEF Trail!trail
    <3> QED BY <3>1, <3>2, <3>3
  <2>3. CASE UNCHANGED vars
    BY <2>3 DEF vars, storeVars, Trail!trail
  <2> QED BY <2>1, <2>2, <2>3 DEF Next
<1> QED BY <1>1, <1>2, IngestTypes, AuditAlways, PTL DEF Spec, ImplementsAuditTrail, Trail!Spec
---------------------------------------------------------------------------
(* The duplicate check *)

Held == {"lookup", "validate", "write"} \cup Outcome

\* How a step of a task moves a hash: it comes to the task from an unknown hash,
\* passes the lookup only when ingest_log does not know it, and leaves it through
\* ingest_log.
LEMMA TaskMoves ==
  ASSUME TypeInv, NEW t \in Tasks, RunPlugin(t), NEW h \in Hashes
  PROVE  /\ Claims(t, h)' /\ ~Claims(t, h) =>
              h \notin seen /\ h \in seen' \cup overlooked'
         /\ Claims(t, h)' /\ pc'[t] \in {"validate", "write"} =>
              /\ Claims(t, h)
              /\ pc[t] \in {"validate", "write"} \/ (pc[t] = "lookup" /\ h \notin Logged)
                   \/ h \in overlooked'
         /\ Claims(t, h) /\ pc[t] \in {"success", "write_error"} =>
              h \in Logged' \cup unaudited'
         /\ Holds(t, h) /\ ~Holds(t, h)' =>
              \/ pc[t] = "lookup" /\ h \in Logged
              \/ h \in unaudited'
              \/ pc[t] \in Outcome /\ [hash |-> h, status |-> pc[t]] \in log'
         /\ h \in seen' => h \in seen \/ Holds(t, h)'
<1> USE DEF Claims, Holds, Outcome
<1>0. pc \in [Tasks -> Idle \cup Working]
  BY DEF TypeInv, TypeOK
<1>1. CASE Start(t) \/ Scrape(t) \/ Take(t) \/ RecallHit(t)
  <2>1. pc[t] \notin Held /\ pc'[t] \notin {"lookup", "validate", "write", "success", "write_error"}
    BY <1>0, <1>1 DEF Start, Scrape, ScrapeCancelled, ScrapeReturns, ScrapeRetries, ScrapeExhausted,
                      Finish, Take, StopAtRecord, RejectMarket, AcceptRecord, Complete, Report,
                      RecallHit, NextRecord, Held
  <2>2. seen' = seen
    BY <1>1 DEF Start, Scrape, ScrapeCancelled, ScrapeReturns, ScrapeRetries, ScrapeExhausted,
                Finish, Take, StopAtRecord, RejectMarket, AcceptRecord, Complete, RecallHit
  <2> QED BY <2>1, <2>2 DEF Held
<1>2. CASE RecallMiss(t)
  BY <1>0, <1>2 DEF RecallMiss, Hash
<1>3. CASE LookupHit(t)
  BY <1>0, <1>3 DEF LookupHit, NextRecord
<1>4. CASE LookupMiss(t) \/ LookupFails(t)
  BY <1>0, <1>4 DEF LookupMiss, LookupFails, Hash
<1>5. CASE Accept(t) \/ Reject(t)
  BY <1>0, <1>5 DEF Accept, Reject, Report, Hash
<1>6. CASE WriteSucceeds(t) \/ WriteRefused(t) \/ WriteFails(t) \/ WriteUnacknowledged(t)
  <2>1. pc[t] = "write" /\ pc'[t] \in {"success", "write_error"}
        /\ Hash(t)' = Hash(t) /\ seen' = seen
    BY <1>0, <1>6 DEF WriteSucceeds, WriteRefused, WriteFails, WriteUnacknowledged, Report, Hash
  <2> QED BY <2>1
<1>7. CASE LogRow(t)
  <2>1. [hash |-> Hash(t), status |-> pc[t]] \in log'
    BY <1>7 DEF LogRow
  <2>3. Hash(t) \in Logged'
    BY <2>1 DEF Logged
  <2>2. pc'[t] = "record" /\ seen' = seen /\ pc[t] \in Outcome
    BY <1>0, <1>7 DEF LogRow, NextRecord
  <2> QED BY <2>1, <2>2, <2>3
<1>8. CASE LogRowLost(t)
  BY <1>0, <1>8 DEF LogRowLost, NextRecord
<1> QED BY <1>1, <1>2, <1>3, <1>4, <1>5, <1>6, <1>7, <1>8 DEF RunPlugin, IsDuplicate, Persist

\* The other steps: all but a crash keep the cache, and the records in hand where
\* they are; a crash loses both, and the audit rows not yet inserted.
LEMMA RunHeld ==
  ASSUME TypeInv, OneRunAtATime,
         (\E c \in Callers : Acquire(c) \/ Run(c)) \/ Cancel \/ Crash
  PROVE  /\ unaudited \subseteq unaudited' /\ overlooked' = overlooked
         /\ \/ /\ seen \subseteq seen' /\ seen' \subseteq seen \cup Logged
               /\ \A t \in Tasks : pc[t] \in Held => pc'[t] = pc[t] /\ todo'[t] = todo[t]
            \/ /\ seen' = {} /\ \A t \in Tasks : pc'[t] = "out"
               /\ \A t \in Tasks : pc[t] \in {"success", "write_error"} => Hash(t) \in unaudited'
<1>1. CASE \E c \in Callers : Acquire(c)
  BY <1>1 DEF Acquire, taskVars, historyVars
<1>2. CASE \E c \in Callers : Seed(c)
  BY <1>2 DEF Seed, taskVars, historyVars
<1>3. ASSUME NEW c \in Callers, Begin(c) PROVE \A t \in Tasks : pc[t] = "out"
  BY <1>3, IngestAssumption DEF Begin, OneRunAtATime
<1>4. CASE \E c \in Callers : Begin(c)
  BY <1>3, <1>4 DEF Begin, historyVars, Held, Outcome
<1>5. CASE \E c \in Callers : Return(c)
  BY <1>5 DEF Return, historyVars, Held, Outcome
<1>6. CASE Cancel
  BY <1>6 DEF Cancel, taskVars, historyVars
<1>7. CASE Crash
  BY <1>7 DEF Crash, ForgetTasks
<1> QED BY <1>1, <1>2, <1>4, <1>5, <1>6, <1>7 DEF Run

\* A hash that the cache remembers never hides data that vanished.
THEOREM IngestNoSilentLoss == Spec => []NoSilentLoss
<1> DEFINE Why(h) == \/ \E t \in Tasks : Holds(t, h)
                     \/ copies[h] > 0
                     \/ \E row \in log : row.hash = h /\ row.status # "success"
                     \/ h \in unaudited
<1>1. Init => NoSilentLoss
  BY DEF Init, NoSilentLoss
<1>2. TypeInv /\ AuditInv /\ OneRunAtATime /\ NoSilentLoss /\ [Next]_vars => NoSilentLoss'
  <2> SUFFICES ASSUME TypeInv, AuditInv, OneRunAtATime, NoSilentLoss, [Next]_vars,
                      NEW h \in seen'
               PROVE  Why(h)'
    BY DEF NoSilentLoss
  <2>0. \A g \in Logged : copies[g] > 0 \/ \E row \in log : row.hash = g /\ row.status # "success"
    BY DEF Logged, AuditInv
  <2>1. CASE (\E c \in Callers : Acquire(c) \/ Run(c)) \/ Cancel \/ Crash
    <3>1. copies' = copies /\ log' = log
      BY <2>1, RunStore DEF storeVars
    <3>2. /\ unaudited \subseteq unaudited' /\ h \in seen \cup Logged
          /\ \A t \in Tasks : pc[t] \in Held => pc'[t] = pc[t] /\ todo'[t] = todo[t]
      BY <2>1, RunHeld
    <3>3. \A t \in Tasks : Holds(t, h) => Holds(t, h)'
      BY <3>2 DEF Holds, Held, Hash
    <3>4. Why(h)
      BY <2>0, <3>2 DEF NoSilentLoss
    <3> QED BY <3>1, <3>2, <3>3, <3>4
  <2>2. ASSUME NEW t \in Tasks, RunPlugin(t) PROVE Why(h)'
    <3>1. /\ log \subseteq log' /\ unaudited \subseteq unaudited'
          /\ \A u \in Tasks \ {t} : Holds(u, h) => Holds(u, h)'
      BY <2>2, TaskFrame DEF Holds, Hash
    <3>2. h \in Hashes
      <4>1. seen' \subseteq Hashes
        BY <2>2, TypeTask DEF TypeInv, TypeOK
      <4> QED BY <4>1
    <3>3. copies[h] > 0 => copies'[h] > 0
      <4>1. copies[h] \in Nat /\ (copies'[h] = copies[h] \/ copies'[h] \in {1, copies[h] + 1})
        BY <2>2, <3>2, TaskStore DEF TypeInv, TypeOK
      <4> QED BY <4>1
    <3>4. CASE h \notin seen
      BY <2>2, <3>2, <3>4, TaskMoves
    <3>5. CASE h \in seen /\ Holds(t, h) /\ ~Holds(t, h)'
      <4>1. CASE pc[t] = "lookup" /\ h \in Logged
        BY <2>0, <3>1, <3>3, <4>1
      <4>2. CASE pc[t] \in Outcome /\ [hash |-> h, status |-> pc[t]] \in log'
        <5>1. CASE pc[t] # "success"
          BY <4>2, <5>1
        <5>2. CASE pc[t] = "success"
          BY <3>3, <3>5, <5>2 DEF AuditInv, Holds
        <5> QED BY <5>1, <5>2
      <4> QED BY <2>2, <3>2, <3>5, <4>1, <4>2, TaskMoves
    <3>6. CASE h \in seen /\ (Holds(t, h) => Holds(t, h)')
      BY <3>1, <3>3, <3>6 DEF NoSilentLoss
    <3> QED BY <3>4, <3>5, <3>6
  <2>3. CASE UNCHANGED vars
    BY <2>3 DEF vars, taskVars, storeVars, historyVars, NoSilentLoss, Holds, Hash
  <2> QED BY <2>1, <2>2, <2>3 DEF Next
<1> QED BY <1>1, <1>2, IngestTypes, AuditAlways, IngestOneRun, PTL DEF Spec

\* Outside the tasks nothing gets past the duplicate check.
LEMMA DedupRun ==
  ASSUME TypeInv, OneRunAtATime, DedupInv,
         (\E c \in Callers : Acquire(c) \/ Run(c)) \/ Cancel \/ Crash
  PROVE  DedupInv'
<1> SUFFICES ASSUME NEW h \in Hashes \ (unaudited' \cup overlooked')
             PROVE  /\ \A t, u \in Tasks : Claims(t, h)' /\ Claims(u, h)' => t = u
                    /\ \A t \in Tasks : Claims(t, h)' => h \in seen'
                    /\ \A t \in Tasks : Claims(t, h)' /\ pc'[t] \in {"validate", "write"} => copies'[h] = 0
                    /\ copies'[h] > 0 =>
                         \/ h \in Logged'
                         \/ \E t \in Tasks : Claims(t, h)' /\ pc'[t] \in {"success", "write_error"}
                    /\ copies'[h] <= 1
  BY DEF DedupInv
<1>1. copies' = copies /\ log' = log /\ Logged' = Logged
  BY RunStore DEF storeVars, Logged
<1>2. h \in Hashes \ (unaudited \cup overlooked)
  BY RunHeld
<1>3. \A t \in Tasks : Claims(t, h)' => Claims(t, h) /\ pc'[t] = pc[t]
  BY RunTasks DEF Claims, Hash
<1>4. \A t \in Tasks : Claims(t, h)' => h \in seen'
  BY <1>2, <1>3, RunHeld DEF DedupInv, Claims
<1>5. \A t \in Tasks : Claims(t, h) /\ pc[t] \in {"success", "write_error"} =>
                         Claims(t, h)' /\ pc'[t] = pc[t]
  BY <1>2, RunHeld DEF Claims, Held, Outcome, Hash
<1> QED BY <1>1, <1>2, <1>3, <1>4, <1>5 DEF DedupInv

\* No step of a task disturbs DedupInv.
LEMMA DedupTask ==
  ASSUME TypeInv, DedupInv, NEW t \in Tasks, RunPlugin(t)
  PROVE  DedupInv'
<1> SUFFICES ASSUME NEW h \in Hashes \ (unaudited' \cup overlooked')
             PROVE  /\ \A v, u \in Tasks : Claims(v, h)' /\ Claims(u, h)' => v = u
                    /\ \A u \in Tasks : Claims(u, h)' => h \in seen'
                    /\ \A u \in Tasks : Claims(u, h)' /\ pc'[u] \in {"validate", "write"} => copies'[h] = 0
                    /\ copies'[h] > 0 =>
                         \/ h \in Logged'
                         \/ \E u \in Tasks : Claims(u, h)' /\ pc'[u] \in {"success", "write_error"}
                    /\ copies'[h] <= 1
  BY DEF DedupInv
<1>1. /\ h \in Hashes \ (unaudited \cup overlooked)
      /\ seen \subseteq seen' /\ Logged \subseteq Logged'
      /\ \A u \in Tasks \ {t} : pc'[u] = pc[u] /\ (Claims(u, h)' <=> Claims(u, h))
  BY TaskFrame DEF Claims, Hash, Logged
<1>2. Claims(t, h)' => Claims(t, h) \/ (h \notin seen /\ h \in seen')
  BY TaskMoves
<1>3. Claims(t, h)' /\ pc'[t] \in {"validate", "write"} =>
        Claims(t, h) /\ (pc[t] \in {"validate", "write"} \/ (pc[t] = "lookup" /\ h \notin Logged))
  BY TaskMoves
<1>4. Claims(t, h) /\ pc[t] \in {"success", "write_error"} => h \in Logged'
  BY TaskMoves
<1>5. copies[h] \in Nat
  BY DEF TypeInv, TypeOK
<1>6. copies'[h] # copies[h] =>
        /\ Claims(t, h) /\ pc[t] = "write" /\ copies'[h] \in {1, copies[h] + 1}
        /\ Claims(t, h)' /\ pc'[t] \in {"success", "write_error"}
  BY TaskStore DEF Claims
<1>7. /\ \A v, u \in Tasks : Claims(v, h) /\ Claims(u, h) => v = u
      /\ \A u \in Tasks : Claims(u, h) => h \in seen
      /\ \A u \in Tasks : Claims(u, h) /\ pc[u] \in {"validate", "write"} => copies[h] = 0
      /\ copies[h] > 0 =>
           \/ h \in Logged
           \/ \E u \in Tasks : Claims(u, h) /\ pc[u] \in {"success", "write_error"}
      /\ copies[h] <= 1
  BY <1>1 DEF DedupInv
<1>8. ASSUME NEW v \in Tasks, NEW u \in Tasks, Claims(v, h)', Claims(u, h)' PROVE v = u
  BY <1>1, <1>2, <1>7, <1>8
<1>9. ASSUME NEW u \in Tasks, Claims(u, h)' PROVE h \in seen'
  BY <1>1, <1>2, <1>7, <1>9
<1>10. ASSUME NEW u \in Tasks, Claims(u, h)', pc'[u] \in {"validate", "write"} PROVE copies'[h] = 0
  <2>1. CASE u = t
    <3>1. copies'[h] = copies[h]
      BY <1>6, <1>10, <2>1
    <3>2. CASE pc[t] \in {"validate", "write"}
      BY <1>3, <1>7, <1>10, <2>1, <3>1, <3>2
    <3>3. CASE pc[t] = "lookup" /\ h \notin Logged
      BY <1>3, <1>5, <1>7, <1>10, <2>1, <3>1, <3>3
    <3> QED BY <1>3, <1>10, <2>1, <3>2, <3>3
  <2>2. CASE u # t
    BY <1>1, <1>6, <1>7, <1>10, <2>2
  <2> QED BY <2>1, <2>2
<1>11. ASSUME copies'[h] > 0
       PROVE  \/ h \in Logged'
              \/ \E u \in Tasks : Claims(u, h)' /\ pc'[u] \in {"success", "write_error"}
  <2>1. CASE copies'[h] # copies[h]
    BY <1>6, <2>1
  <2>2. CASE copies'[h] = copies[h]
    BY <1>1, <1>4, <1>7, <1>11, <2>2
  <2> QED BY <2>1, <2>2
<1>12. copies'[h] <= 1
  BY <1>5, <1>6, <1>7
<1> QED BY <1>8, <1>9, <1>10, <1>11, <1>12

\* Data is stored twice only if its audit row was lost or it went past the duplicate
\* check unexamined, whatever the number of workers and of crashes.
THEOREM IngestDuplicateOnlyByFault == Spec => []DuplicateOnlyByFault
<1>1. Init => DedupInv
  BY DEF Init, DedupInv, Claims
<1>2. TypeInv /\ OneRunAtATime /\ DedupInv /\ [Next]_vars => DedupInv'
  <2>1. ASSUME DedupInv, UNCHANGED vars PROVE DedupInv'
    BY <2>1 DEF vars, taskVars, storeVars, historyVars, DedupInv, Claims, Hash, Logged
  <2> QED BY <2>1, DedupRun, DedupTask DEF Next
<1>3. TypeInv /\ DedupInv => DuplicateOnlyByFault
  <2> SUFFICES ASSUME TypeInv, DedupInv, NEW h \in Hashes, h \notin unaudited \cup overlooked
               PROVE  ~(copies[h] > 1)
    BY DEF DuplicateOnlyByFault
  <2>1. copies[h] <= 1 /\ copies[h] \in Nat
    BY DEF DedupInv, TypeInv, TypeOK
  <2> QED BY <2>1
<1> QED BY <1>1, <1>2, <1>3, IngestTypes, IngestOneRun, PTL DEF Spec
---------------------------------------------------------------------------
(* The counters *)

\* Every step of the engine keeps the count of every task.
LEMMA CountStep ==
  ASSUME TypeInv, CountInv, NEW t \in Tasks, RunPlugin(t)
  PROVE  CountedAt(t)'
<1> USE DEF Outcome
<1> DEFINE Loop == {"record", "recall", "lookup", "validate", "write"}
<1>0. /\ pc \in [Tasks -> Idle \cup Working]
      /\ scraped \in [Tasks -> Nat] /\ tally \in [Tasks -> [Counter -> Nat]]
      /\ todo \in [Tasks -> Seq(Record)]
      /\ status \in [Tasks -> {"pending", "success", "partial", "failed", "cancelled"}]
  BY DEF TypeInv, TypeOK
<1>L. Len(todo[t]) \in Nat /\ scraped[t] \in Nat
  BY <1>0
<1>N. Counted(t) \in Nat
  BY <1>0 DEF Counted, Counter
<1>1. CountedAt(t)
  BY DEF CountInv
<1>a. pc[t] \in Loop =>
        Counted(t) + Len(todo[t]) = scraped[t] + 0 /\ status[t] = "pending"
  BY <1>1 DEF CountedAt, InTransit
<1>b. pc[t] \in Outcome => Counted(t) + Len(todo[t]) = scraped[t] + 1 /\ status[t] = "pending"
  BY <1>1 DEF CountedAt, InTransit
<1>c. /\ pc'[t] \in Loop
      /\ Counted(t)' + Len(todo'[t]) = scraped'[t] + 0 /\ status'[t] = "pending"
      => CountedAt(t)'
  BY DEF CountedAt, InTransit
<1>d. /\ pc'[t] \in Outcome
      /\ Counted(t)' + Len(todo'[t]) = scraped'[t] + 1 /\ status'[t] = "pending"
      => CountedAt(t)'
  BY DEF CountedAt, InTransit
<1>2. tally[t] \in [Counter -> Nat] /\ Counted(t) \in Nat
      /\ tally[t]["written"] \in Nat /\ tally[t]["deduped"] \in Nat /\ tally[t]["failed"] \in Nat
  BY <1>0 DEF Counted, Counter
<1>3. Counted(t)' = tally'[t]["written"] + tally'[t]["deduped"] + tally'[t]["failed"]
  BY DEF Counted
<1>4. ASSUME NEW f \in Counter, Count(t, f)
      PROVE  Counted(t)' = Counted(t) + 1
  <2>1. tally'[t] = [tally[t] EXCEPT ![f] = tally[t][f] + 1]
    BY <1>0, <1>4 DEF Count
  <2> QED BY <1>2, <1>3, <2>1 DEF Counted, Counter
<1>5. ASSUME todo[t] # <<>>, NextRecord(t)
      PROVE  pc'[t] = "record" /\ Len(todo'[t]) = Len(todo[t]) - 1
  BY <1>0, <1>5 DEF NextRecord
<1>6. CASE Start(t)
  BY <1>0, <1>1, <1>6 DEF Start, CountedAt
<1>7. CASE ScrapeReturns(t)
  <2>1. pc[t] = "scrape" /\ pc'[t] = "record" /\ tally' = tally /\ status' = status
    BY <1>0, <1>7 DEF ScrapeReturns
  <2>2. scraped'[t] = Len(todo'[t])
    BY <1>0, <1>7 DEF ScrapeReturns
  <2>3. Len(todo'[t]) \in Nat
    <3>1. todo'[t] \in Seq(Record)
      BY <1>7, TypeTask DEF TypeInv, TypeOK
    <3> QED BY <3>1
  <2>4. Counted(t)' = 0
    BY <1>1, <1>3, <2>1 DEF CountedAt, NoTally, Counter
  <2> QED BY <1>1, <2>1, <2>2, <2>3, <2>4 DEF CountedAt, InTransit
<1>8. CASE ScrapeRetries(t)
  BY <1>1, <1>3, <1>8 DEF ScrapeRetries, CountedAt, InTransit, Counted
<1>9. CASE ScrapeCancelled(t) \/ ScrapeExhausted(t) \/ StopAtRecord(t) \/ Complete(t)
  <2>1. PICK s \in {"success", "partial", "failed", "cancelled"} :
          /\ Finish(t, s)
          /\ s = "success" => todo[t] = <<>> /\ tally[t]["failed"] = 0
    BY <1>9 DEF ScrapeCancelled, ScrapeExhausted, StopAtRecord, Complete
  <2>2. pc[t] \in {"scrape", "record"}
    BY <1>9 DEF ScrapeCancelled, ScrapeExhausted, StopAtRecord, Complete
  <2>3. /\ pc'[t] = "finished" /\ status'[t] = s
        /\ tally' = tally /\ todo' = todo /\ scraped' = scraped
    BY <1>0, <2>1 DEF Finish
  <2>4. Counted(t) + Len(todo[t]) = scraped[t] + 0
    <3>1. CASE pc[t] = "scrape"
      <4>1. Counted(t) = 0 /\ todo[t] = <<>> /\ scraped[t] = 0
        BY <1>1, <3>1 DEF CountedAt, NoTally, Counted, Counter
      <4> QED BY <4>1
    <3> QED BY <1>a, <2>2, <3>1
  <2>5. Counted(t)' = Counted(t) /\ InTransit(t)' = 0
    BY <2>3 DEF Counted, InTransit
  <2> QED BY <2>1, <2>3, <2>4, <2>5 DEF CountedAt
<1>10. CASE RejectMarket(t) \/ Reject(t)
  <2>1. /\ pc[t] \in {"record", "validate"} /\ pc'[t] = "validation_error" /\ Count(t, "failed")
        /\ todo' = todo /\ scraped' = scraped /\ status' = status
    BY <1>0, <1>10 DEF RejectMarket, Reject, Report
  <2>2. Counted(t)' = Counted(t) + 1
    BY <1>4, <2>1 DEF Counter
  <2>3. Counted(t) + Len(todo[t]) = scraped[t] + 0 /\ status[t] = "pending"
    BY <1>a, <2>1
  <2>4. Counted(t)' + Len(todo'[t]) = scraped'[t] + 1
    BY <1>L, <1>N, <2>1, <2>2, <2>3
  <2> QED BY <1>d, <2>1, <2>3, <2>4
<1>11. CASE AcceptRecord(t) \/ RecallMiss(t) \/ LookupMiss(t) \/ LookupFails(t) \/ Accept(t)
  <2>1. /\ pc[t] \in {"record", "recall", "lookup", "validate"}
        /\ pc'[t] \in {"recall", "lookup", "validate", "write"}
        /\ todo' = todo /\ scraped' = scraped /\ status' = status /\ tally' = tally
    BY <1>0, <1>11 DEF AcceptRecord, RecallMiss, LookupMiss, LookupFails, Accept
  <2> QED BY <1>a, <1>c, <2>1 DEF Counted
<1>12. CASE RecallHit(t) \/ LookupHit(t)
  <2>1. /\ pc[t] \in {"recall", "lookup"} /\ Count(t, "deduped") /\ NextRecord(t)
        /\ scraped' = scraped /\ status' = status
    BY <1>12 DEF RecallHit, LookupHit
  <2>2. todo[t] # <<>>
    BY <2>1 DEF TypeInv, InHand, HasRecord
  <2>3. Counted(t)' = Counted(t) + 1
    BY <1>4, <2>1 DEF Counter
  <2>4. Counted(t) + Len(todo[t]) = scraped[t] + 0 /\ status[t] = "pending"
    BY <1>a, <2>1
  <2>5. pc'[t] = "record" /\ Len(todo'[t]) = Len(todo[t]) - 1
    BY <1>5, <2>1, <2>2
  <2>6. Counted(t)' + Len(todo'[t]) = scraped'[t] + 0
    BY <1>L, <1>N, <2>1, <2>3, <2>4, <2>5
  <2> QED BY <1>c, <2>1, <2>4, <2>5, <2>6
<1>13. CASE WriteSucceeds(t) \/ WriteRefused(t) \/ WriteFails(t) \/ WriteUnacknowledged(t)
  <2>1. /\ pc[t] = "write" /\ pc'[t] \in {"success", "write_error"}
        /\ todo' = todo /\ scraped' = scraped /\ status' = status
    BY <1>0, <1>13 DEF WriteSucceeds, WriteRefused, WriteFails, WriteUnacknowledged, Report
  <2>2. Counted(t)' = Counted(t) + 1
    BY <1>4, <1>13 DEF WriteSucceeds, WriteRefused, WriteFails, WriteUnacknowledged, Counter
  <2>3. Counted(t) + Len(todo[t]) = scraped[t] + 0 /\ status[t] = "pending"
    BY <1>a, <2>1
  <2>4. Counted(t)' + Len(todo'[t]) = scraped'[t] + 1
    BY <1>L, <1>N, <2>1, <2>2, <2>3
  <2> QED BY <1>d, <2>1, <2>3, <2>4
<1>14. CASE LogRow(t) \/ LogRowLost(t)
  <2>1. /\ pc[t] \in Outcome /\ NextRecord(t)
        /\ scraped' = scraped /\ status' = status /\ tally' = tally
    BY <1>14 DEF LogRow, LogRowLost
  <2>2. todo[t] # <<>>
    BY <2>1 DEF TypeInv, InHand, HasRecord
  <2>3. Counted(t)' = Counted(t)
    BY <2>1 DEF Counted
  <2>4. Counted(t) + Len(todo[t]) = scraped[t] + 1 /\ status[t] = "pending"
    BY <1>b, <2>1
  <2>5. pc'[t] = "record" /\ Len(todo'[t]) = Len(todo[t]) - 1
    BY <1>5, <2>1, <2>2
  <2>6. Counted(t)' + Len(todo'[t]) = scraped'[t] + 0
    BY <1>L, <1>N, <2>1, <2>3, <2>4, <2>5
  <2> QED BY <1>c, <2>1, <2>4, <2>5, <2>6
<1> QED BY <1>6, <1>7, <1>8, <1>9, <1>10, <1>11, <1>12, <1>13, <1>14
        DEF RunPlugin, Scrape, Take, IsDuplicate, Persist

\* Every record a task scraped is counted exactly once, however the task ends.
THEOREM IngestEveryRecordCounted == Spec => []EveryRecordCounted
<1>1. Init => CountInv
  BY DEF Init, CountInv, CountedAt, NoTally
<1>2. TypeInv /\ OneRunAtATime /\ CountInv /\ [Next]_vars => CountInv'
  <2> SUFFICES ASSUME TypeInv, OneRunAtATime, CountInv, [Next]_vars, NEW u \in Tasks
               PROVE  CountedAt(u)'
    BY DEF CountInv
  <2>0. CountedAt(u)
    BY DEF CountInv
  <2>1. CASE UNCHANGED taskVars
    BY <2>0, <2>1 DEF taskVars, CountedAt, Counted, InTransit
  <2>2. ASSUME NEW c \in Callers, Begin(c) PROVE CountedAt(u)'
    <3>1. pc[u] = "out"
      BY <2>2, IngestAssumption DEF Begin, OneRunAtATime
    <3> QED BY <2>0, <2>2, <3>1 DEF Begin, CountedAt, NoTally
  <2>3. CASE ForgetTasks
    BY <2>3 DEF ForgetTasks, CountedAt, NoTally
  <2>4. ASSUME NEW t \in Tasks, RunPlugin(t) PROVE CountedAt(u)'
    <3>1. CASE u = t
      BY <2>4, <3>1, CountStep
    <3>2. CASE u # t
      BY <2>0, <2>4, <3>2, TaskFrame DEF CountedAt, Counted, InTransit
    <3> QED BY <3>1, <3>2
  <2> QED BY <2>1, <2>2, <2>3, <2>4
          DEF Next, Acquire, Run, Seed, Return, Cancel, Crash, vars
<1>3. CountInv => EveryRecordCounted
  BY DEF CountInv, CountedAt, Counted, InTransit, EveryRecordCounted
<1> QED BY <1>1, <1>2, <1>3, IngestTypes, IngestOneRun, PTL DEF Spec

---------------------------------------------------------------------------
(* The cache and the pool within their bounds *)

\* The cache never remembers more than it may, and the pool never works on more tasks
\* than it has workers.
WithinBounds ==
  /\ Cardinality(seen) <= CacheMax
  /\ Cardinality(Busy) <= MaxWorkers

\* Only a miss of the cache adds to it, and only a start takes a task from the queue.
LEMMA TaskUses ==
  ASSUME TypeInv, NEW t \in Tasks, RunPlugin(t)
  PROVE  /\ seen' = seen \/ RecallMiss(t)
         /\ pc[t] \in Working \/ Start(t)
<1>1. CASE Start(t)
  BY <1>1 DEF Start
<1>2. CASE Scrape(t)
  BY <1>2 DEF Scrape, ScrapeCancelled, ScrapeReturns, ScrapeRetries, ScrapeExhausted, Finish,
              Working
<1>3. CASE Take(t)
  BY <1>3 DEF Take, StopAtRecord, RejectMarket, AcceptRecord, Complete, Finish, Working
<1>4. CASE IsDuplicate(t)
  BY <1>4 DEF IsDuplicate, RecallHit, LookupHit, LookupMiss, LookupFails, RecallMiss, Working
<1>5. CASE Persist(t)
  BY <1>5 DEF Persist, Accept, Reject, WriteSucceeds, WriteRefused, WriteFails,
              WriteUnacknowledged, LogRow, LogRowLost, Working
<1> QED BY <1>1, <1>2, <1>3, <1>4, <1>5 DEF RunPlugin

\* The tasks at work and the cache are finite.
LEMMA BusyIsFinite ==
  ASSUME TypeInv
  PROVE  IsFiniteSet(Busy) /\ IsFiniteSet(seen) /\ Cardinality(Busy) \in Nat /\ Cardinality(seen) \in Nat
<1>1. Busy \in SUBSET Tasks /\ seen \in SUBSET Hashes
  BY DEF Busy, TypeInv, TypeOK
<1> QED BY <1>1, FS_Subset, FS_CardinalityType, IngestAssumption

\* A step of a task keeps the bounds.
LEMMA TaskWithinBounds ==
  ASSUME TypeInv, TypeInv', WithinBounds, NEW t \in Tasks, RunPlugin(t)
  PROVE  WithinBounds'
<1>1. Cardinality(seen') <= CacheMax
  <2>1. CASE seen' = seen
    BY <2>1 DEF WithinBounds
  <2>2. CASE seen' # seen
    <3>1. Hash(t) \notin seen /\ Cardinality(seen) < CacheMax /\ seen' = seen \cup {Hash(t)}
      BY <2>2, TaskUses DEF RecallMiss
    <3>2. Cardinality(seen') = Cardinality(seen) + 1
      BY <3>1, BusyIsFinite, FS_AddElement
    <3> QED BY <3>1, <3>2, BusyIsFinite, IngestAssumption
  <2> QED BY <2>1, <2>2
<1>2. Cardinality(Busy') <= MaxWorkers
  <2>1. \A u \in Tasks \ {t} : pc'[u] = pc[u]
    BY TaskFrame
  <2>2. CASE Start(t)
    <3>1. Cardinality(Busy) < MaxWorkers /\ pc[t] = "queued" /\ pc'[t] = "scrape"
      BY <2>2 DEF Start, TypeInv, TypeOK
    <3>2. t \notin Busy /\ Busy' = Busy \cup {t}
      BY <2>1, <3>1 DEF Busy, Working, Outcome
    <3>3. Cardinality(Busy') = Cardinality(Busy) + 1
      BY <3>2, BusyIsFinite, FS_AddElement
    <3> QED BY <3>1, <3>3, BusyIsFinite, IngestAssumption
  <2>3. CASE pc[t] \in Working
    <3>1. Busy' \in SUBSET Busy
      BY <2>1, <2>3 DEF Busy
    <3>2. Cardinality(Busy') <= Cardinality(Busy) /\ Cardinality(Busy') \in Nat
      BY <3>1, BusyIsFinite, FS_Subset, FS_CardinalityType
    <3> QED BY <3>2, BusyIsFinite, IngestAssumption DEF WithinBounds
  <2> QED BY <2>2, <2>3, TaskUses
<1> QED BY <1>1, <1>2 DEF WithinBounds

\* So do the steps of run_all, cancel and a crash.
LEMMA RunWithinBounds ==
  ASSUME TypeInv, WithinBounds, (\E c \in Callers : Acquire(c) \/ Run(c)) \/ Cancel \/ Crash
  PROVE  WithinBounds'
<1>1. Cardinality(seen') <= CacheMax
  <2>1. ASSUME NEW c \in Callers, Seed(c) PROVE Cardinality(seen') <= CacheMax
    <3>1. PICK recent \in SUBSET Logged :
             /\ recent \subseteq seen \/ Cardinality(seen \cup recent) <= CacheMax
             /\ seen' = seen \cup recent
      BY <2>1 DEF Seed
    <3>2. CASE recent \subseteq seen
      <4>1. seen' = seen
        BY <3>1, <3>2
      <4> QED BY <4>1 DEF WithinBounds
    <3> QED BY <3>1, <3>2
  <2>2. CASE Crash
    BY <2>2, FS_EmptySet, IngestAssumption DEF Crash
  <2>3. ASSUME NEW c \in Callers, Acquire(c) \/ Begin(c) \/ Return(c) PROVE seen' = seen
    BY <2>3 DEF Acquire, Begin, Return
  <2>4. Cancel => seen' = seen
    BY DEF Cancel
  <2> QED BY <2>1, <2>2, <2>3, <2>4 DEF Run, WithinBounds
<1>2. \/ UNCHANGED pc
      \/ \A t \in Tasks : pc'[t] \in {"out", "queued"}
  BY DEF Acquire, Run, Seed, Begin, Return, Cancel, Crash, ForgetTasks, taskVars
<1>3. Cardinality(Busy') <= MaxWorkers
  <2>1. CASE UNCHANGED pc
    BY <2>1 DEF Busy, WithinBounds
  <2>2. CASE \A t \in Tasks : pc'[t] \in {"out", "queued"}
    <3>1. Busy' = {}
      BY <2>2 DEF Busy, Working, Outcome
    <3> QED BY <3>1, FS_EmptySet, IngestAssumption
  <2> QED BY <1>2, <2>1, <2>2
<1> QED BY <1>1, <1>3 DEF WithinBounds

\* Whatever callers, crashes and faults do, the duplicate cache keeps to its size and the
\* pool to its workers.
THEOREM IngestWithinBounds == Spec => []WithinBounds
<1>1. Init => WithinBounds
  <2> SUFFICES ASSUME Init PROVE WithinBounds
    OBVIOUS
  <2>1. Busy = {} /\ seen = {}
    BY DEF Init, Busy, Working, Outcome
  <2> QED BY <2>1, FS_EmptySet, IngestAssumption DEF WithinBounds
<1>2. TypeInv /\ TypeInv' /\ WithinBounds /\ [Next]_vars => WithinBounds'
  <2>1. UNCHANGED vars /\ WithinBounds => WithinBounds'
    BY DEF vars, taskVars, WithinBounds, Busy
  <2> QED BY <2>1, TaskWithinBounds, RunWithinBounds DEF Next
<1> QED BY <1>1, <1>2, IngestTypes, PTL DEF Spec

---------------------------------------------------------------------------
(* A run goes on until it is over *)

\* The guard of Start.
MayStart(t) ==
  /\ pc[t] = "queued"
  /\ \A u \in Tasks : Position[u] < Position[t] => pc[u] # "queued"
  /\ Cardinality(Busy) < MaxWorkers

\* While run_all waits, its tasks are over, or one is at work, or one may start: the order
\* of submission and the limit of the pool never leave everybody waiting.
RunNeverStuck ==
  \A c \in Callers : callerPc[c] = "await" =>
    \/ \A t \in Tasks : pc[t] = "finished"
    \/ \E t \in Tasks : pc[t] \in Working
    \/ \E t \in Tasks : MayStart(t)

\* A task of the run has been submitted.
Submitted == \A c \in Callers : callerPc[c] = "await" => \A t \in Tasks : pc[t] # "out"

\* Of the tasks in the queue one was submitted first.
LEMMA FirstInQueue ==
  ASSUME NEW Q \in SUBSET Tasks, Q # {}
  PROVE  \E t \in Q : \A u \in Q : ~(Position[u] < Position[t])
<1> DEFINE Places == {Position[t] : t \in Q}
<1>1. Places \subseteq Nat /\ Places # {}
  BY IngestAssumption
<1>2. \E a \in Places : \A b \in Places : ~(<<b, a>> \in OpToRel(<, Nat))
  <2> HIDE DEF Places
  <2> QED BY <1>1, NatLessThanWellFounded, WFMin
<1>3. PICK t \in Q : \A u \in Q : ~(<<Position[u], Position[t]>> \in OpToRel(<, Nat))
  BY <1>2
<1>4. \A u \in Q : ~(Position[u] < Position[t])
  BY <1>3, IngestAssumption DEF OpToRel
<1> QED BY <1>4

\* No task of a run is withdrawn.
LEMMA SubmittedStep ==
  ASSUME TypeInv, OneRunAtATime, Submitted, [Next]_vars
  PROVE  Submitted'
<1>1. ASSUME NEW c \in Callers, Acquire(c) \/ Seed(c) PROVE Submitted'
  BY <1>1 DEF Acquire, Seed, Submitted, taskVars, TypeInv, TypeOK
<1>2. ASSUME NEW c \in Callers, Begin(c) PROVE Submitted'
  BY <1>2 DEF Begin, Submitted
<1>3. ASSUME NEW c \in Callers, Return(c) PROVE Submitted'
  <2>1. runLock = c /\ callerPc' = [callerPc EXCEPT ![c] = "idle"]
    BY <1>3 DEF Return, OneRunAtATime
  <2>2. \A d \in Callers : callerPc'[d] = "idle"
    BY <2>1, IngestAssumption DEF OneRunAtATime, TypeInv, TypeOK
  <2> QED BY <2>2 DEF Submitted
<1>4. CASE Cancel \/ UNCHANGED vars
  BY <1>4 DEF Cancel, Submitted, vars, engineVars, taskVars
<1>5. CASE Crash
  BY <1>5 DEF Crash, Submitted
<1>6. ASSUME NEW t \in Tasks, RunPlugin(t) PROVE Submitted'
  <2>1. \A u \in Tasks : pc[u] # "out" => pc'[u] # "out"
    BY <1>6, TaskFrame
  <2> QED BY <1>6, <2>1, TaskFrame DEF Submitted, engineVars
<1> QED BY <1>1, <1>2, <1>3, <1>4, <1>5, <1>6 DEF Next, Run

\* A run never waits for tasks none of which can go on: the first half of RunEnds.
THEOREM IngestRunNeverStuck == Spec => []RunNeverStuck
<1>1. Init => Submitted
  BY DEF Init, Submitted
<1>2. Spec => []Submitted
  BY <1>1, SubmittedStep, IngestTypes, IngestOneRun, PTL DEF Spec
<1>3. TypeInv /\ Submitted => RunNeverStuck
  <2> SUFFICES ASSUME TypeInv, Submitted, NEW c \in Callers, callerPc[c] = "await",
                      ~(\A t \in Tasks : pc[t] = "finished"), Busy = {}
               PROVE  \E t \in Tasks : MayStart(t)
    BY DEF RunNeverStuck, Busy
  <2> DEFINE Q == {t \in Tasks : pc[t] = "queued"}
  <2>1. Q # {} /\ Q \in SUBSET Tasks
    BY DEF Submitted, Busy, TypeInv, TypeOK, Idle
  <2>2. PICK t \in Q : \A u \in Q : ~(Position[u] < Position[t])
    <3> HIDE DEF Q
    <3> QED BY <2>1, FirstInQueue
  <2>3. Cardinality(Busy) < MaxWorkers
    BY FS_EmptySet, IngestAssumption
  <2> QED BY <2>2, <2>3 DEF MayStart
<1> QED BY <1>2, <1>3, IngestTypes, PTL

\* How far a task is, and how far with the record in hand.
Phase(activity) ==
  CASE activity = "out"      -> 0
    [] activity = "queued"   -> 1
    [] activity = "scrape"   -> 2
    [] activity = "finished" -> 4
    [] OTHER                 -> 3

RecordStep(activity) ==
  CASE activity = "record"   -> 1
    [] activity = "recall"   -> 2
    [] activity = "lookup"   -> 3
    [] activity = "validate" -> 4
    [] activity = "write"    -> 5
    [] OTHER                 -> 6

\* One phase further, or one more attempt at the source, or one record less, or one step
\* further with the record in hand.  With TypeOK, each of the four has a bound.
Further(t) ==
  \/ Phase(pc'[t]) > Phase(pc[t])
  \/ pc[t] = "scrape" /\ pc'[t] = "scrape" /\ attempt'[t] > attempt[t]
  \/ /\ Phase(pc[t]) = 3 /\ Phase(pc'[t]) = 3
     /\ \/ Len(todo'[t]) < Len(todo[t])
        \/ todo'[t] = todo[t] /\ RecordStep(pc'[t]) > RecordStep(pc[t])

\* The second half of RunEnds: each step of a task under way brings it further, and but
\* for a crash no other step touches it.
TaskGoesForward ==
  [][\A t \in Tasks : pc[t] \notin {"out", "finished"} /\ crashes' = crashes =>
       \/ Further(t)
       \/ ~RunPlugin(t) /\ UNCHANGED <<pc[t], attempt[t], todo[t]>>]_vars

\* A record less is a shorter list.
LEMMA NextRecordShortens ==
  ASSUME TypeInv, NEW t \in Tasks, pc[t] \in HasRecord, NextRecord(t)
  PROVE  pc'[t] = "record" /\ Len(todo'[t]) < Len(todo[t])
<1>1. todo[t] \in Seq(Record) /\ todo[t] # <<>>
  BY DEF TypeInv, TypeOK, InHand
<1>2. todo'[t] = Tail(todo[t]) /\ pc'[t] = "record"
  BY DEF NextRecord, TypeInv, TypeOK
<1> QED BY <1>1, <1>2

\* A step of a task brings it further.
LEMMA TaskFurther ==
  ASSUME TypeInv, NEW t \in Tasks, RunPlugin(t)
  PROVE  Further(t)
<1> USE DEF TypeInv, TypeOK, Phase
<1>1. CASE Start(t)
  BY <1>1 DEF Start, Further
<1>2. CASE Scrape(t)
  <2>1. CASE ScrapeRetries(t)
    BY <2>1 DEF ScrapeRetries, Further
  <2>2. CASE ScrapeCancelled(t) \/ ScrapeReturns(t) \/ ScrapeExhausted(t)
    BY <2>2 DEF ScrapeCancelled, ScrapeReturns, ScrapeExhausted, Finish, Further
  <2> QED BY <1>2, <2>1, <2>2 DEF Scrape
<1>3. CASE Take(t)
  <2>1. CASE StopAtRecord(t) \/ Complete(t)
    BY <2>1 DEF StopAtRecord, Complete, Finish, Further
  <2>2. CASE RejectMarket(t) \/ AcceptRecord(t)
    BY <2>2 DEF RejectMarket, AcceptRecord, Report, Further, RecordStep
  <2> QED BY <1>3, <2>1, <2>2 DEF Take
<1>4. ASSUME RecallHit(t) \/ LookupHit(t) \/ LogRow(t) \/ LogRowLost(t) PROVE Further(t)
  <2>1. NextRecord(t) /\ pc[t] \in HasRecord
    BY <1>4 DEF RecallHit, LookupHit, LogRow, LogRowLost, HasRecord
  <2>2. Phase(pc[t]) = 3 /\ Phase("record") = 3
    BY <2>1 DEF HasRecord, Outcome
  <2> QED BY <2>1, <2>2, NextRecordShortens DEF Further
<1>5. ASSUME RecallMiss(t) \/ LookupMiss(t) \/ LookupFails(t) \/ Accept(t) \/ Reject(t)
      PROVE  Further(t)
  BY <1>5 DEF RecallMiss, LookupMiss, LookupFails, Accept, Reject, Report, Further, RecordStep
<1>6. ASSUME WriteSucceeds(t) \/ WriteRefused(t) \/ WriteFails(t) \/ WriteUnacknowledged(t)
      PROVE  Further(t)
  BY <1>6 DEF WriteSucceeds, WriteRefused, WriteFails, WriteUnacknowledged, Report, Further,
              RecordStep
<1> QED BY <1>1, <1>2, <1>3, <1>4, <1>5, <1>6 DEF RunPlugin, IsDuplicate, Persist

\* The other tasks keep their attempts, too.
LEMMA OthersAttempts ==
  ASSUME TypeInv, NEW t \in Tasks, RunPlugin(t)
  PROVE  \A u \in Tasks \ {t} : attempt'[u] = attempt[u]
<1> USE DEF TypeInv, TypeOK
<1>1. CASE Start(t) \/ Scrape(t) \/ Take(t)
  BY <1>1 DEF Start, Scrape, ScrapeCancelled, ScrapeReturns, ScrapeRetries, ScrapeExhausted,
              Take, StopAtRecord, RejectMarket, AcceptRecord, Complete, Finish
<1>2. CASE IsDuplicate(t)
  BY <1>2 DEF IsDuplicate, RecallHit, RecallMiss, LookupHit, LookupMiss, LookupFails
<1>3. CASE Persist(t)
  BY <1>3 DEF Persist, Accept, Reject, WriteSucceeds, WriteRefused, WriteFails,
              WriteUnacknowledged, LogRow, LogRowLost
<1> QED BY <1>1, <1>2, <1>3 DEF RunPlugin

\* Whatever fails or is cancelled, a task has only finitely many steps before it: what
\* RunEnds adds is that the threads are scheduled.
THEOREM IngestTaskGoesForward == Spec => TaskGoesForward
<1> DEFINE A == \A t \in Tasks : pc[t] \notin {"out", "finished"} /\ crashes' = crashes =>
                  \/ Further(t)
                  \/ ~RunPlugin(t) /\ UNCHANGED <<pc[t], attempt[t], todo[t]>>
<1>1. TypeInv /\ OneRunAtATime /\ [Next]_vars => [A]_vars
  <2> SUFFICES ASSUME TypeInv, OneRunAtATime, Next, NEW t \in Tasks,
                      pc[t] \notin {"out", "finished"}, crashes' = crashes
               PROVE  \/ Further(t)
                      \/ ~RunPlugin(t) /\ UNCHANGED <<pc[t], attempt[t], todo[t]>>
    BY DEF vars
  <2>1. CASE RunPlugin(t)
    BY <2>1, TaskFurther
  <2>2. CASE ~RunPlugin(t)
    <3>1. ASSUME NEW c \in Callers, Begin(c) \/ Return(c) PROVE FALSE
      <4>1. PICK d \in Callers : callerPc[d] = "await"
        BY DEF OneRunAtATime
      <4>2. CASE Begin(c)
        <5>1. runLock = c /\ runLock = d
          BY <4>1, <4>2 DEF Begin, OneRunAtATime
        <5> QED BY <4>1, <4>2, <5>1 DEF Begin
      <4> QED BY <3>1, <4>2 DEF Return
    <3>2. ASSUME NEW c \in Callers, Acquire(c) \/ Seed(c)
          PROVE  UNCHANGED <<pc[t], attempt[t], todo[t]>>
      BY <3>2 DEF Acquire, Seed, taskVars
    <3>3. Cancel => UNCHANGED <<pc[t], attempt[t], todo[t]>>
      BY DEF Cancel, taskVars
    <3>4. ~Crash
      <4>1. crashes \in Nat
        BY IngestAssumption DEF TypeInv, TypeOK
      <4> QED BY <4>1 DEF Crash
    <3>5. ASSUME NEW u \in Tasks \ {t}, RunPlugin(u)
          PROVE  UNCHANGED <<pc[t], attempt[t], todo[t]>>
      BY <3>5, TaskFrame, OthersAttempts
    <3> QED BY <2>2, <3>1, <3>2, <3>3, <3>4, <3>5 DEF Next, Run
  <2> QED BY <2>1, <2>2
<1> QED BY <1>1, IngestTypes, IngestOneRun, PTL DEF Spec, TaskGoesForward

---------------------------------------------------------------------------
(* What the database keeps *)

\* No step takes anything back from the tables or from ingest_log.
NothingIsTakenBack == [][(\A h \in Hashes : copies[h] > 0 => copies'[h] > 0) /\ log \subseteq log']_vars

\* A row of ingest_log that reports success is about data that is in its table.
LogTellsTheTruth == \A row \in log : row.status = "success" => copies[row.hash] > 0

\* Through every crash, lost reply and duplicate, what is stored stays stored and what is
\* on record stays on record.
THEOREM IngestNothingIsTakenBack == Spec => NothingIsTakenBack
<1>1. [Trail!Next]_(Trail!trail)
        => [(\A h \in Hashes : copies[h] > 0 => copies'[h] > 0) /\ log \subseteq log']_vars
  BY DEF Trail!Next, Trail!Store, Trail!Audit, Trail!trail
<1> QED BY <1>1, IngestImplementsAuditTrail, PTL
        DEF ImplementsAuditTrail, Trail!Spec, NothingIsTakenBack

\* Success on record is success in the table.
THEOREM IngestLogTellsTheTruth == Spec => []LogTellsTheTruth
<1>1. AuditInv => LogTellsTheTruth
  BY DEF AuditInv, LogTellsTheTruth
<1> QED BY <1>1, AuditAlways, PTL

\* Nothing was lost on the way to ingest_log, and nothing went past the duplicate check.
Undisturbed == unaudited = {} /\ overlooked = {}

\* With room for every hash in the cache, and neither faults nor crashes, no step
\* disturbs.
LEMMA UndisturbedStep ==
  ASSUME TypeInv, TypeInv', WithinBounds, Undisturbed, [Next]_vars,
         MaxFaults = 0, MaxCrashes = 0, Cardinality(Hashes) <= CacheMax
  PROVE  Undisturbed'
<1>1. ~Fault /\ ~Crash
  <2>1. faults = 0 /\ crashes = 0
    BY DEF TypeInv, TypeOK
  <2>2. ~(faults < MaxFaults) /\ ~(crashes < MaxCrashes)
    BY <2>1
  <2> QED BY <2>2 DEF Fault, Crash
<1>2. ASSUME NEW t \in Tasks, RecallMiss(t) PROVE UNCHANGED historyVars
  <2>1. Hash(t) \in Hashes \ seen /\ seen \in SUBSET Hashes
    BY <1>2, RecordInHand DEF RecallMiss, HasRecord, TypeInv, TypeOK
  <2>2. Cardinality(Hashes) \in Nat /\ Cardinality(seen) \in Nat
    BY BusyIsFinite, FS_CardinalityType, IngestAssumption
  <2>3. Cardinality(seen) < Cardinality(Hashes)
    <3>1. seen # Hashes /\ IsFiniteSet(Hashes)
      BY <2>1, IngestAssumption
    <3>2. Cardinality(seen) <= Cardinality(Hashes) /\ Cardinality(seen) # Cardinality(Hashes)
      BY <2>1, <3>1, FS_Subset
    <3> QED BY <2>2, <3>2
  <2>4. Cardinality(seen) < CacheMax
    BY <2>2, <2>3, IngestAssumption
  <2> QED BY <1>2, <2>4 DEF RecallMiss, historyVars
<1>3. ASSUME NEW t \in Tasks, RunPlugin(t) PROVE UNCHANGED historyVars
  <2>1. CASE Start(t) \/ Scrape(t) \/ Take(t)
    BY <2>1 DEF Start, Scrape, ScrapeCancelled, ScrapeReturns, ScrapeRetries, ScrapeExhausted,
                Take, StopAtRecord, RejectMarket, AcceptRecord, Complete, Finish
  <2>2. CASE IsDuplicate(t)
    BY <1>1, <1>2, <2>2 DEF IsDuplicate, RecallHit, LookupHit, LookupMiss, LookupFails
  <2>3. CASE Persist(t)
    BY <1>1, <2>3 DEF Persist, Accept, Reject, WriteSucceeds, WriteRefused, WriteFails,
                WriteUnacknowledged, LogRow, LogRowLost
  <2> QED BY <1>3, <2>1, <2>2, <2>3 DEF RunPlugin
<1>4. ASSUME NEW c \in Callers, Acquire(c) \/ Run(c) PROVE UNCHANGED historyVars
  BY <1>4 DEF Acquire, Run, Seed, Begin, Return
<1>5. Cancel \/ UNCHANGED vars => UNCHANGED historyVars
  BY DEF Cancel, vars
<1> QED BY <1>1, <1>3, <1>4, <1>5 DEF Next, historyVars, Undisturbed

\* Without faults and crashes, and with a cache for all there is, no data is ever stored
\* twice, however many runs bring it and whatever tasks interleave: the cache that is asked
\* in one step makes up for a lookup and a write that are not one.
THEOREM IngestNoDuplicate ==
  ASSUME MaxFaults = 0, MaxCrashes = 0, Cardinality(Hashes) <= CacheMax
  PROVE  Spec => [](\A h \in Hashes : copies[h] <= 1)
<1>1. Init => Undisturbed
  BY DEF Init, Undisturbed
<1>2. TypeInv /\ TypeInv' /\ WithinBounds /\ Undisturbed /\ [Next]_vars => Undisturbed'
  BY UndisturbedStep
<1>3. TypeInv /\ Undisturbed /\ DuplicateOnlyByFault => \A h \in Hashes : copies[h] <= 1
  BY DEF Undisturbed, DuplicateOnlyByFault, TypeInv, TypeOK
<1> QED BY <1>1, <1>2, <1>3, IngestTypes, IngestWithinBounds, IngestDuplicateOnlyByFault, PTL
        DEF Spec
=============================================================================
