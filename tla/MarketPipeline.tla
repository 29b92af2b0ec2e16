--------------------------- MODULE MarketPipeline ---------------------------
(***************************************************************************)
(* One market's pipeline, run after run: run_market_intelligence of          *)
(* src/crews/market_intel_crew.py with what it keeps on disk and in          *)
(* Postgres: the checkpoints of the day (src/config/checkpointer.py), the    *)
(* run history (src/config/run_logger.py), the project rows that             *)
(* src/utils/db_organizer.py upserts, and the dead letter queue              *)
(* (src/utils/dead_letter_queue.py).                                        *)
(*                                                                         *)
(* Each run is a process.  The scheduler, the sweep over all markets and the *)
(* dashboard start them independently of each other, so two runs of one      *)
(* market may overlap; the sweep kills a run after 45 minutes.  The history  *)
(* is one file for all markets, so that the runs of the others are here with *)
(* what they do to it.  The contents of a scrape are a version number: the   *)
(* state of the portal it was taken from.                                   *)
(***************************************************************************)
EXTENDS Naturals

CONSTANTS
  Runs,         \* the runs, of all markets
  Projects,     \* the records on the RERA portal
  Tasks,        \* the scraping tasks whose checkpoints let a run skip stage 1
  Rera,         \* the one whose checkpoint stage 2 stores
  MaxVersion,   \* bound on the versions of the portal, the first of which is 1
  MaxMidnights, \* bound on midnights
  MaxTries      \* retries of a dead letter

ASSUME PipelineAssumption ==
  /\ Rera \in Tasks
  /\ MaxVersion \in Nat \ {0}
  /\ MaxMidnights \in Nat
  /\ MaxTries \in Nat

VARIABLES
  step,       \* what a run does next
  io,         \* how far it is with rewriting the history
  seen,       \* the history as it read it
  status,     \* the status in its record of the history
  batch,      \* version of the records it stores, 0 for none
  mine,       \* the runs of the market whose checkpoints, rows and dead letters these are
  site,       \* version of the portal
  midnights,  \* midnights so far
  ckpt,       \* version in today's checkpoint of a task, 0 when there is none
  history,    \* run_history.jsonl: the status of each run
  rows,       \* version of each row of rera_projects, 0 when there is none
  dead,       \* the record has a row in ingest_failed_records from the run
  tries,      \* retry_count of that row, as far as it ever got
  met,        \* runs of the market that have overlapped another one of it (auxiliary)
  crossed,    \* runs for which midnight fell between two looks at the checkpoints (auxiliary)
  unsaved,    \* records of a run that were lost without an error (auxiliary)
  spoilt      \* two runs of whatever market have overlapped, or one was killed or failed to
              \* write while the history was empty (auxiliary)

runVars == <<step, io, seen, status, batch>>
diskVars == <<ckpt, history>>
tableVars == <<rows, dead, tries>>
worldVars == <<mine, site, midnights>>
notes == <<met, crossed, unsaved, spoilt>>
vars == <<runVars, diskVars, tableVars, worldVars, notes>>

Versions == 0..MaxVersion
Statuses == {"none", "running", "success", "failed"}
Appending == {"start", "finish", "fail"}
Working == {"elsewhere", "scrape", "crew", "load", "load cached", "organize", "scouts", "intel", "report"}
NoHistory == [r \in Runs |-> "none"]

RunsOK ==
  /\ step \in [Runs -> {"new", "ended", "gone"} \cup Appending \cup Working]
  /\ io \in [Runs -> {"closed", "read", "truncated"}]
  /\ seen \in [Runs -> [Runs -> Statuses]]
  /\ status \in [Runs -> Statuses]
  /\ batch \in [Runs -> Versions]

DiskOK ==
  /\ ckpt \in [Tasks -> Versions]
  /\ history \in [Runs -> Statuses]

TablesOK ==
  /\ rows \in [Projects -> Versions]
  /\ dead \in [Runs -> [Projects -> BOOLEAN]]
  /\ tries \in [Runs -> [Projects -> 0..MaxTries]]

WorldOK == mine \subseteq Runs /\ site \in Versions /\ midnights \in 0..MaxMidnights

NotesOK ==
  /\ met \subseteq Runs
  /\ crossed \subseteq Runs
  /\ unsaved \in [Runs -> SUBSET Projects]
  /\ spoilt \in BOOLEAN

TypeOK == RunsOK /\ DiskOK /\ TablesOK /\ WorldOK /\ NotesOK

Init ==
  /\ step = [r \in Runs |-> "new"]
  /\ io = [r \in Runs |-> "closed"]
  /\ seen = [r \in Runs |-> NoHistory]
  /\ status = NoHistory
  /\ batch = [r \in Runs |-> 0]
  /\ mine \in SUBSET Runs
  /\ site = 1
  /\ midnights = 0
  /\ ckpt = [t \in Tasks |-> 0]
  /\ history = NoHistory
  /\ rows = [k \in Projects |-> 0]
  /\ dead = [r \in Runs |-> [k \in Projects |-> FALSE]]
  /\ tries = [r \in Runs |-> [k \in Projects |-> 0]]
  /\ met = {}
  /\ crossed = {}
  /\ unsaved = [r \in Runs |-> {}]
  /\ spoilt = FALSE

Active == {r \in Runs : step[r] \in Appending \cup Working}

GoTo(r, next) == step' = [step EXCEPT ![r] = next]

\* The run goes on to record its end, in the try statement around its stages ...
Close(r, result) ==
  /\ GoTo(r, "finish")
  /\ status' = [status EXCEPT ![r] = result]

\* ... or in the handler of it, which is behind no other.
Fail(r) ==
  /\ GoTo(r, "fail")
  /\ status' = [status EXCEPT ![r] = "failed"]

\* The run is over without having recorded its end, and its memory with it.
Gone(r) ==
  /\ GoTo(r, "gone")
  /\ batch' = [batch EXCEPT ![r] = 0]
  /\ status' = [status EXCEPT ![r] = "none"]

---------------------------------------------------------------------------
(* The history: RunLogger._append_record *)

\* rl.start()
Start(r) ==
  /\ step[r] = "new"
  /\ GoTo(r, "start")
  /\ status' = [status EXCEPT ![r] = "running"]
  /\ met' = IF r \in mine /\ Active \cap mine # {} THEN met \cup (Active \cap mine) \cup {r}
            ELSE met
  /\ spoilt' = (spoilt \/ Active # {})
  /\ UNCHANGED <<io, seen, batch, diskVars, tableVars, worldVars, crossed, unsaved>>

ReadHistory(r) ==
  /\ step[r] \in Appending
  /\ io[r] = "closed"
  /\ io' = [io EXCEPT ![r] = "read"]
  /\ seen' = [seen EXCEPT ![r] = history]
  /\ UNCHANGED <<step, status, batch, diskVars, tableVars, worldVars, notes>>

\* write_text opens the file for writing, which empties it, ...
TruncateHistory(r) ==
  /\ io[r] = "read"
  /\ io' = [io EXCEPT ![r] = "truncated"]
  /\ history' = NoHistory
  /\ UNCHANGED <<step, seen, status, batch, ckpt, tableVars, worldVars, notes>>

\* What follows once the record is written: the handler of stage 3, which records the
\* end first, raises to the one around everything.
Recorded(r) == CASE step[r] = "start" -> IF r \in mine THEN "scrape" ELSE "elsewhere"
                 [] step[r] = "finish" -> IF status[r] = "success" THEN "ended" ELSE "fail"
                 [] step[r] = "fail" -> "ended"

\* Mutant of WriteHistory: the record is the whole file.
WriteOwnRecord(r) ==
  /\ io[r] = "truncated"
  /\ io' = [io EXCEPT ![r] = "closed"]
  /\ history' = [NoHistory EXCEPT ![r] = status[r]]
  /\ GoTo(r, Recorded(r))
  /\ seen' = [seen EXCEPT ![r] = NoHistory]
  /\ UNCHANGED <<status, batch, ckpt, tableVars, worldVars, notes>>

\* ... and then writes the lines as read, with the record of this run in its place.
WriteHistory(r) ==
  /\ io[r] = "truncated"
  /\ io' = [io EXCEPT ![r] = "closed"]
  /\ history' = [seen[r] EXCEPT ![r] = status[r]]
  /\ GoTo(r, Recorded(r))
  /\ seen' = [seen EXCEPT ![r] = NoHistory]
  /\ UNCHANGED <<status, batch, ckpt, tableVars, worldVars, notes>>

\* Reading, opening or writing the file fails; no room is left on the disk when it has
\* been emptied already.  A finish inside the try statement raises into its handler, any
\* other rl call out of the run.
HistoryFails(r) ==
  /\ step[r] \in Appending
  /\ io' = [io EXCEPT ![r] = "closed"]
  /\ seen' = [seen EXCEPT ![r] = NoHistory]
  /\ spoilt' = (spoilt \/ io[r] = "truncated")
  /\ \/ step[r] = "finish" /\ Fail(r) /\ UNCHANGED batch
     \/ step[r] # "finish" /\ Gone(r)
  /\ UNCHANGED <<diskVars, tableVars, worldVars, met, crossed, unsaved>>

\* The record is written, and _update_summary, of a finish, fails after it.
SummaryFails(r) ==
  /\ io[r] = "truncated"
  /\ io' = [io EXCEPT ![r] = "closed"]
  /\ history' = [seen[r] EXCEPT ![r] = status[r]]
  /\ seen' = [seen EXCEPT ![r] = NoHistory]
  /\ \/ step[r] = "finish" /\ Fail(r)
     \/ step[r] = "fail" /\ GoTo(r, "ended") /\ UNCHANGED status
  /\ UNCHANGED <<batch, ckpt, tableVars, worldVars, notes>>

\* The stages of a run of another market: it gets through, stage 3 raises, or another one.
Elsewhere(r) ==
  /\ step[r] = "elsewhere"
  /\ Close(r, "success") \/ Close(r, "failed") \/ Fail(r)
  /\ UNCHANGED <<io, seen, batch, diskVars, tableVars, worldVars, notes>>

---------------------------------------------------------------------------
(* Stage 1: scraping into checkpoints *)

AllCached == \A t \in Tasks : ckpt[t] # 0

\* Mutant of SkipScraping: the scouts' checkpoints are enough.
SkipWithoutRera(r) ==
  /\ step[r] = "scrape"
  /\ \A t \in Tasks \ {Rera} : ckpt[t] # 0
  /\ GoTo(r, "load cached")
  /\ UNCHANGED <<io, seen, status, batch, diskVars, tableVars, worldVars, notes>>

SkipScraping(r) ==
  /\ step[r] = "scrape"
  /\ AllCached
  /\ GoTo(r, "load cached")
  /\ UNCHANGED <<io, seen, status, batch, diskVars, tableVars, worldVars, notes>>

KickOffCrew(r) ==
  /\ step[r] = "scrape"
  /\ ~AllCached
  /\ GoTo(r, "crew")
  /\ UNCHANGED <<io, seen, status, batch, diskVars, tableVars, worldVars, notes>>

\* A tool the agents call saves what it has scraped, Checkpointer.save, in one rename.
ToolSaves(r, t) ==
  /\ step[r] = "crew"
  /\ ckpt' = [ckpt EXCEPT ![t] = site]
  /\ UNCHANGED <<runVars, history, tableVars, worldVars, notes>>

\* The crew returns, having called the tools it chose to, or raises: stage 2 follows
\* all the same.
CrewReturns(r) ==
  /\ step[r] = "crew"
  /\ GoTo(r, "load")
  /\ UNCHANGED <<io, seen, status, batch, diskVars, tableVars, worldVars, notes>>

\* cp.load("rera_scraped"), of today.
LoadBatch(r) ==
  /\ step[r] \in {"load", "load cached"}
  /\ GoTo(r, "organize")
  /\ batch' = [batch EXCEPT ![r] = ckpt[Rera]]
  /\ UNCHANGED <<io, seen, status, diskVars, tableVars, worldVars, notes>>

---------------------------------------------------------------------------
(* Stage 2: DBOrganizer.run, one transaction with a savepoint for each record *)

Batch(r) == IF batch[r] = 0 THEN {} ELSE Projects

\* The upsert of the records in bad fails and each gets a dead letter, or only a line in
\* the log: the dead letter of one in lost raises before it reaches the server, as it does
\* when text() reads ":raw_data::jsonb" as a parameter of another name.  The rest is stored.
Commit(r, bad, lost) ==
  /\ rows' = [k \in Projects |-> IF k \in Batch(r) \ bad THEN batch[r] ELSE rows[k]]
  /\ dead' = [dead EXCEPT ![r] = [k \in Projects |-> k \in bad \ lost]]
  /\ unsaved' = [unsaved EXCEPT ![r] = @ \cup lost]
  /\ UNCHANGED <<tries, met, crossed, spoilt>>

Organize(r) ==
  /\ step[r] = "organize"
  /\ \E bad \in SUBSET Batch(r) : \E lost \in SUBSET bad : Commit(r, bad, lost)
  /\ GoTo(r, "scouts")
  /\ UNCHANGED <<io, seen, status, batch, diskVars, worldVars>>

\* A statement whose failure is caught without a savepoint fails: the dead letter of
\* the last record, the grades of the developers or last_scraped_at.  Postgres has
\* aborted the transaction by then and the commit at its end rolls everything back;
\* the statistics count what was inserted.
OrganizeInVain(r) ==
  /\ step[r] = "organize"
  /\ GoTo(r, "scouts")
  /\ unsaved' = [unsaved EXCEPT ![r] = @ \cup Batch(r)]
  /\ UNCHANGED <<io, seen, status, batch, diskVars, tableVars, worldVars, met, crossed, spoilt>>

\* The transaction raises (a dead letter that fails before the last record makes the
\* next rollback to a savepoint fail, or the connection is lost), or a scout's does.
\* The handler of stage 2 reads db_stats, which is not assigned yet, and so raises
\* itself: the run fails.
OrganizeRaises(r) ==
  /\ step[r] \in {"organize", "scouts"}
  /\ Fail(r)
  /\ UNCHANGED <<io, seen, batch, diskVars, tableVars, worldVars, notes>>

\* The data quality gate raises after the commit.
QualityFails(r) ==
  /\ step[r] = "organize"
  /\ \E bad \in SUBSET Batch(r) : \E lost \in SUBSET bad : Commit(r, bad, lost)
  /\ Fail(r)
  /\ UNCHANGED <<io, seen, batch, diskVars, worldVars>>

ScoutsStore(r) ==
  /\ step[r] = "scouts"
  /\ GoTo(r, "intel")
  /\ UNCHANGED <<io, seen, status, batch, diskVars, tableVars, worldVars, notes>>

---------------------------------------------------------------------------
(* Stage 3 and the end *)

IntelReturns(r) ==
  /\ step[r] = "intel"
  /\ GoTo(r, "report")
  /\ UNCHANGED <<io, seen, status, batch, diskVars, tableVars, worldVars, notes>>

\* The handler of stage 3 records the end, inside the statement that records it again.
IntelRaises(r) ==
  /\ step[r] = "intel"
  /\ Close(r, "failed")
  /\ UNCHANGED <<io, seen, batch, diskVars, tableVars, worldVars, notes>>

ReportSaved(r) ==
  /\ step[r] = "report"
  /\ Close(r, "success") \/ Fail(r)
  /\ UNCHANGED <<io, seen, batch, diskVars, tableVars, worldVars, notes>>

---------------------------------------------------------------------------
(* Around the runs *)

\* The deadline of run_all_markets, the stop button, a restart of the container.
Kill(r) ==
  /\ r \in Active
  /\ Gone(r)
  /\ io' = [io EXCEPT ![r] = "closed"]
  /\ seen' = [seen EXCEPT ![r] = NoHistory]
  /\ spoilt' = (spoilt \/ io[r] = "truncated")
  /\ UNCHANGED <<diskVars, tableVars, worldVars, met, crossed, unsaved>>

\* The name of a checkpoint carries the date of the moment it is asked for.
Midnight ==
  /\ midnights < MaxMidnights
  /\ midnights' = midnights + 1
  /\ ckpt' = [t \in Tasks |-> 0]
  /\ crossed' = crossed \cup {r \in Runs : step[r] = "load cached"}
  /\ UNCHANGED <<runVars, history, tableVars, mine, site, met, unsaved, spoilt>>

SiteChanges ==
  /\ site < MaxVersion
  /\ site' = site + 1
  /\ UNCHANGED <<runVars, diskVars, tableVars, mine, midnights, notes>>

\* Mutant of RetryDeadLetters: the retries are not limited.
RetryForever ==
  /\ \E r \in Runs, k \in Projects : dead[r][k]
  /\ tries' = [r \in Runs |-> [k \in Projects |->
                IF dead[r][k] THEN tries[r][k] + 1 ELSE tries[r][k]]]
  /\ UNCHANGED <<runVars, diskVars, rows, dead, worldVars, notes>>

\* Mutant of RetryDeadLetters: a retry stores the record as it failed.
RetryStores ==
  /\ \E r \in Runs, k \in Projects : dead[r][k] /\ tries[r][k] < MaxTries
  /\ tries' = [r \in Runs |-> [k \in Projects |->
                IF dead[r][k] /\ tries[r][k] < MaxTries
                THEN tries[r][k] + 1 ELSE tries[r][k]]]
  /\ rows' \in {[k \in Projects |-> IF dead[r][k] /\ batch[r] # 0 THEN batch[r] ELSE rows[k]] :
                 r \in Runs}
  /\ UNCHANGED <<runVars, diskVars, dead, worldVars, notes>>

\* retry_failed_records, daily: every record of the queue is of entity type "unknown",
\* for which _replay_record raises, so a retry only counts.
RetryDeadLetters ==
  /\ \E r \in Runs, k \in Projects : dead[r][k] /\ tries[r][k] < MaxTries
  /\ tries' = [r \in Runs |-> [k \in Projects |->
                IF dead[r][k] /\ tries[r][k] < MaxTries
                THEN tries[r][k] + 1 ELSE tries[r][k]]]
  /\ UNCHANGED <<runVars, diskVars, rows, dead, worldVars, notes>>

\* Mutant of PurgeDeadLetters: only the age of the rows is looked at.
PurgeByAge(old) ==
  /\ \E r \in Runs, k \in old : dead[r][k]
  /\ dead' = [r \in Runs |-> [k \in Projects |-> dead[r][k] /\ k \notin old]]
  /\ UNCHANGED <<runVars, diskVars, rows, tries, worldVars, notes>>

\* purge_old_records, weekly: those older than 30 days that have used up their tries.
PurgeDeadLetters(old) ==
  /\ \E r \in Runs, k \in old : dead[r][k] /\ tries[r][k] = MaxTries
  /\ dead' = [r \in Runs |-> [k \in Projects |->
               dead[r][k] /\ ~(k \in old /\ tries[r][k] = MaxTries)]]
  /\ UNCHANGED <<runVars, diskVars, rows, tries, worldVars, notes>>

Append(r) == \/ ReadHistory(r) \/ TruncateHistory(r) \/ WriteHistory(r)
             \/ HistoryFails(r) \/ SummaryFails(r)
Stage1(r) == \/ SkipScraping(r) \/ KickOffCrew(r) \/ CrewReturns(r)
             \/ \E t \in Tasks : ToolSaves(r, t)
Stage2(r) == \/ LoadBatch(r) \/ Organize(r) \/ OrganizeInVain(r) \/ OrganizeRaises(r)
             \/ QualityFails(r) \/ ScoutsStore(r)
Stage3(r) == IntelReturns(r) \/ IntelRaises(r) \/ ReportSaved(r)

Next ==
  \/ \E r \in Runs : Start(r) \/ Append(r) \/ Elsewhere(r) \/ Stage1(r) \/ Stage2(r) \/ Stage3(r)
                  \/ Kill(r)
  \/ Midnight \/ SiteChanges \/ RetryDeadLetters
  \/ \E old \in SUBSET Projects : PurgeDeadLetters(old)

Spec == Init /\ [][Next]_vars

---------------------------------------------------------------------------
(* Properties *)

Stored(r) == step[r] \in {"intel", "report", "finish"}
             \/ status[r] = "success"

\* An overlapping run may have stored an older batch since.
Expected(r) == IF r \in met THEN 1 ELSE batch[r]

\* A run of the market that gets through stage 2 accounts for every record of its batch: its row is
\* at least as new as the batch (or there at all, when runs overlap), or a dead letter
\* waits, or one was there and used up its tries; unless its dead letter failed or the
\* transaction was rolled back without an error.  (DBOrganizer.run, _write_dead_letter,
\* purge_old_records)
RecordsAccountedFor ==
  \A r \in mine : Stored(r) =>
    \A k \in Batch(r) \ unsaved[r] : rows[k] >= Expected(r) \/ dead[r][k] \/ tries[r][k] = MaxTries

\* A project row never goes back to an older state of the portal, however runs fail,
\* restart from checkpoints and cross midnights, unless runs overlap.
RowsGoBackOnlyByOverlap ==
  [][met = {} => \A k \in Projects : rows'[k] >= rows[k]]_vars

\* The history tells of every run of every market how it ended, whatever fails while it is
\* read, written and summed up: unless two runs of whatever market have overlapped, one
\* was killed or failed between the two halves of write_text (while one is there the file
\* is empty), or the last rl call of the run itself raised before its record was written.
\* (RunLogger._append_record and its callers in run_market_intelligence)
HistoryIsKept ==
  ~spoilt /\ (\A r \in Runs : io[r] # "truncated") =>
    \A r \in Runs : step[r] = "ended" => history[r] = status[r]

\* A run that trusts the checkpoints and skips stage 1 has records to store, unless
\* midnight falls between its look at the checkpoints and its use of them.
CachedRunHasBatch ==
  [][\A r \in Runs : step[r] = "load cached" /\ step'[r] = "organize" =>
       batch'[r] # 0 \/ r \in crossed]_vars
=============================================================================
