# A TLA+ model of RE_OS

RE_OS is a Python system that scrapes real-estate sources, validates and stores what it
finds, lets language models analyse it, and serves the result on a dashboard. This
directory holds TLA+ modules of the parts of it where several threads, processes or
failures meet, the TLC configurations that check them on small instances, and proofs for
all instances. The source is the reference throughout: every action is a handler, a lock
section or a database statement of the code, and `PROJECT.json` names the lines.

    tlc -workers 2 -config IngestRun.cfg MCIngestEngine.tla       # a run
    tlapm IngestSafetyProofs.tla                                  # the proofs of a module

## 1. The system

Seven containers (`ARCHITECTURE.md:40-55`): PostgreSQL with PostGIS, Ollama, Redis, the
agents container (pipelines and the FastAPI dashboard, `uvicorn --workers 2`), the
scheduler, Prometheus and Grafana. The loop is scrape → validate → store → analyse → brief.

| Part | State it keeps | Operations | What is hard about it | What makes it correct |
|---|---|---|---|---|
| **Ingest engine** `ingest/engine.py` | bounded duplicate cache, cancel flag, run lock, statistics of each task; `ingest_log` in the database | `run_all`, `cancel`, `_run_plugin`, `_is_duplicate`, `_log_ingest` | a thread pool over four steps (cache, lookup, write, audit row) that are not atomic; failing statements; a crash between write and audit | data is not lost behind a "duplicate", not stored twice without a fault; the audit log tells the truth; records are counted; runs do not overlap and do end |
| **Ingest writer** `ingest/writer.py` | target tables | `write`, `write_detailed`, `write_batch` | a commit whose reply is lost; plain INSERT where there is no conflict target; types without a table | success means stored; writing again adds nothing |
| Rate limiter (`TokenBucket`) | tokens and the time of the last refill | `acquire` | it sleeps under its lock, float arithmetic | the rate is kept over any interval |
| Ingest plugins `ingest/plugins/` | none | `run`, `validate` | network | – |
| **Pipeline launcher** `dashboard/state.py`, `routers/pipeline.py` | per worker: `_running`, `_lock`, child processes; shared: one Redis hash that expires | start, stop, `_set_running`, `_clear_running`, status | several worker processes; Redis outages; a fallback that takes a lock its caller holds; children that outlive their worker | one pipeline per market; every call returns; a live child can be stopped |
| Redis health loop `dashboard/redis_health.py` | the client | reconnect | replaces a shared client without the lock | – |
| **LLM router** `config/llm_router.py` | exclusion set, circuit per provider, daily counters | `get_heavy_llm`, `get_analysis_llm`, `get_light_llm`, `_exclude`, `_clear_excluded`, `_record_failure`, `_record_success`, usage callback | three locks, late successes on another thread, failures attributed by guessing, time | an excluded provider is not used again in the run; circuits open on failure and close again |
| **Market pipeline** `crews/market_intel_crew.py` | step and status of a run, the batch it stores | `run_market_intelligence`, `_kickoff_with_fallback`, `run_all_markets` | retries that rebuild crews, stages that fail in part, kills, two runs of one market, resumption from checkpoints | a stage ends; a run that can record its end leaves no exclusion; no record is lost and no row goes back |
| **Checkpointer** `config/checkpointer.py` | one file per market, task and day | save, load | the name changes at midnight | a run that trusts the checkpoints finds them |
| **Run logger** `config/run_logger.py` | a history file, one for all markets | start, finish | read, edit and rewrite by several processes, writes that fail | the history tells how each run went |
| **DB organizer** `utils/db_organizer.py` | one transaction per run | upsert, dead letters, quality gate | savepoints of single records; swallowed failures that abort the transaction | every record ends up in a table or the queue |
| **Dead letter queue** `utils/dead_letter_queue.py` | `ingest_failed_records` | enqueue, retry, purge | schedules of their own | nothing is purged before its retries are used up; a retry undoes nothing newer |
| **Evaluate pipeline** `crews/evaluate_pipeline.py` | a job in the memory of its worker and as a row | start, update, poll | a background thread, a time limit of 90 s, several workers, lost writes | a client hears the outcome that was decided, from any worker; a deal belongs to a job |
| **Board room** `crews/board_room.py` | sessions as rows, a pool of department heads | start, thread of a session, hourly recovery | time limits racing late answers; recovery in another process | an active session ends; an end is final; a verdict belongs to a session |
| **Form 17 inbox scan** `config/scheduler/maintenance_jobs.py`, `scrapers/kaveri_form17.py` | a directory, a watermark file | drop, scan | files that come during a scan or with an old time; files that cannot be parsed, deeds that are left out; restarts | what the watermark has passed has reached the writer |
| **Connection pool watch** `utils/db.py`, `utils/discord_notifier.py` | a flag, a lock, an alert memory per process; rows of `alerts` | checkout, check, suppress, send | needs a connection of the pool it finds empty, under a lock others wait for | the lock is given back; one alert per exhaustion |
| Intel registry `intelligence/registry.py` | a cache of packages | `get_full_picture`, `invalidate_cache` | a package computed before an invalidation is stored after it | no stale package |
| Scheduler `config/scheduler/` | guards per period | some sixty cron jobs | repeated triggers | once per period |
| Scout memory `scrapers/scout_memory.py` | a JSON index | `record`, `is_known` | two processes overwrite one file | – |
| Scrapers, agents, intelligence modules, dashboard queries, utilities, schema, bots | – | – | I/O, HTML, SQL and prompts rather than shared state | – |

Components in bold are modelled.

How they interact: the dashboard and the scheduler start pipelines as processes of their
own (the dashboard through the launcher). A pipeline builds its crews through the router
and stores through the organizer; the scheduler also runs the ingest engine, which calls
plugins and the writer. All of them share PostgreSQL; the dashboard workers share Redis;
the router's state is per process. Evaluations and board sessions are threads of the dashboard
workers; the scheduler cleans up after the board room and the queue, from a process of its
own. Every process has a connection pool with the same watch over it.

The hazards, each with its line and the properties aimed at it, are listed in
`PROJECT.json` under `hazards`.

## 2. The modules

| Module | Models | Files |
|---|---|---|
| `AuditTrail` | abstract: what the ingest engine promises the readers of the database | |
| `IngestEngine` | engine, duplicate cache and writer | `MCIngestEngine`, `Ingest*.cfg` |
| `IngestEngineProofs`, `IngestSafetyProofs` | theorems about it | |
| `PipelineLauncher` | start and stop of pipelines by the dashboard's workers | `Launcher*.cfg` |
| `PipelineLauncherProofs` | theorems about it | |
| `LLMRouter` | exclusions, circuit breaker, quota and the retry wrapper of the crews | `MCLLMRouter`, `Router*.cfg` |
| `CircuitBreaker` | abstract: the circuits of the router as its health endpoint shows them | |
| `LLMRouterProofs` | theorems about it | |
| `MarketPipeline` | a market's runs with checkpoints, history, organizer and dead letters | `MCMarketPipeline`, `MarketDay.cfg` |
| `MarketPipelineProofs` | theorems about it | |
| `DashboardWorkers` | what the dashboard's long jobs share: workers that die, a database that fails | |
| `JobPromise` | abstract: what an evaluation promises the client that polls | |
| `EvaluateJobs`, `BoardSessions` | evaluations; board sessions and their recovery; both extend `DashboardWorkers` | |
| `DecisionDesk` | the composition of the two: a dying worker takes both with it | `DecisionDesk.cfg` |
| `DecisionDeskProofs` | theorems about it | |
| `DeedInbox` | the Form 17 scan and its watermark | `DeedInbox.cfg` |
| `DeedInboxProofs` | theorems about it | |
| `PoolWatch` | the watch over the connection pool and the suppression of its alert | `PoolWatch.cfg`, `PoolAlerts.cfg` |
| `PoolWatchProofs` | theorems about it | |

### IngestEngine

The actions follow `run_all` (`Acquire`, `Seed`, `Begin`, `Return`) and `_run_plugin`
statement by statement: the scrape with its retries, then for each record the market
check, the cache, the lookup in `ingest_log`, the validation, the write and the audit
row. `pc[t]` is the position of a task; the value of `pc[t]` while a task is about to
insert an audit row is the status of that row. `todo[t]` holds the records still to be
settled. `Cancel` may come at any moment. `Crash` stands for the death of the process as
well as for the next scheduled job, which builds a new engine: memory is lost, `log` and
`copies` (rows per hash in the target tables) survive. Failures of the database are steps
of their own, counted by `faults`: the lookup raises (`LookupFails`), the statement
raises (`WriteFails`), the commit takes effect and its reply is lost
(`WriteUnacknowledged`), the audit row is lost (`LogRowLost`). `WriteRefused` needs no
fault: the entity type has no table, the table has no column for a key of the data (as with all
records of the Form 17 plugin), or a plain INSERT meets a unique constraint.

Abstractions. A record is the hash of its data and its market; whether the data
validates, which kind of table it goes to and whether there is one are attributes of the
hash (`Valid`, `Routed`, `PlainInsert`, `Unique`). Data of two hashes that share a
conflict key, where the newer replaces the older, is left out: each hash has a row of its
own. Plugins are registered before a run, so `Tasks` is a constant; what they may return
is the constant `Feeds`. The look at the cancel flag before an attempt and the answer of
the plugin are one step, since the plugin touches nothing of the engine. The rate limiter
lets everyone through in the end. Metrics and log lines are left out. `cancelAsked`,
`unaudited` and `overlooked` are history variables for the properties. An exception of `_run_plugin`
outside its retry loop, for instance of a plugin's `validate`, is left out: it would end the task
without statistics, which `run_all` logs (`engine.py:674`).

### PipelineLauncher

The endpoints that start and stop a pipeline contain no `await` after the request has
been read, so a worker handles one such call at a time: `loop[w]` says which and how far
it is. What a call does under `_lock` up to the Redis call is one step, the Redis call is
the next. The fallback of `_set_running` and `_clear_running` asks for `_lock`; where
the caller already holds it the worker is `"stuck"`, which is what a non-reentrant
`threading.Lock` does. `live[w][m]` counts the child processes of a worker, `orphans`
those whose worker was replaced. The Redis client is built by `from_url`, which does not
connect, so the fallback is taken exactly when a call raises. `socket_timeout` is not set:
a server that accepts a connection and never answers would hang the call; the model only
has servers that answer or refuse. The read-only status endpoints are left out.

### LLMRouter

A run walks through its stages; for each stage it builds a crew, one model after the
other, each from the chain of its tier (`Skip`, `TakeProvider`, `TakeLocal`), kicks it off
(`KickoffReturns`, or one of the three ways to fail), attributes a failure (`Accuse`,
`NobodyToAccuse`), excludes and records (`Exclude`, `Retry`) and builds again, until
the attempts are used up (`GiveUp`). `Poll` is the read of a circuit that also moves it
on. A step is at most one lock section; a reader that leaves the lock before it looks at
what it fetched sees what it would have seen had it asked when it looks.

Time passes in units of the half-open delay (60 s): `since` and `failures` are ages that stop
growing at the longest limit. Two facts of the code are constants. `Blame`: the provider a failure
names may be another than the one that failed – the light model of NVIDIA matches the names taken
for Cerebras (`market_intel_crew.py:180-184`), and SambaNova and Cloudflare are never recognised.
`Reported`: successes of Gemini are recorded under a key other than `gemini_flash`. `HALF_OPEN`
admits every caller, a late success closes an open circuit directly, and exclusions last until the
end of the run. There the end is recorded first (`rl.finish`, file access that may raise) and the
exclusions are cleared after it: in `EndRun` and `Abort` they may stay, and `leftBehind` remembers
which stayed so. The token figures are reduced
to "near the quota or not"; checkpoints show only as `SkipStage`.

`CircuitBreaker` is what the breaker promises whoever looks at `get_circuit_states`: a state, a
count of failures and an age for each provider, without runs, crews or ages of single failures.
`ImplementsBreaker` is the refinement: the count is the number of failures still within the window
(`Young`), the age is `since`. What it rules out is a circuit closed by anything but a success,
opened below the threshold, or with its waiting time started anew by a failure that finds it open.

### MarketPipeline

Each run is a process; `step[r]` is what it does next. `mine` is the set of the runs of the one
market whose checkpoints, rows and dead letters the model has. The history is one file for all
markets, so the others, which the sweep starts at the same time, are here as well, with what they
do to it: they start, are `"elsewhere"`, and end (`Elsewhere`).

A record in `run_history.jsonl` is written in the three steps the file sees: read everything, empty
the file, write everything (`ReadHistory`, `TruncateHistory`, `WriteHistory`), at the start of a
run (`"start"`), at its end (`"finish"`) and when its end has failed (`"fail"`). Each of them may
raise, the write too, after the file has been emptied (`HistoryFails`), and so may the summary made
of the file afterwards (`SummaryFails`). Raised at the end of a good run it makes the outer handler
record a failure; raised there, or at the start, it leaves the run without a record of how it
ended (`"gone"`).

Stage 1 asks for the checkpoints and either skips itself or lets the agents call tools, which save
(`ToolSaves`). `LoadBatch` asks for the RERA checkpoint again, under the name of the day it then is.
Stage 2 is one transaction: `Organize` commits with some records failing into dead letters,
`OrganizeInVain` is a swallowed failure after which PostgreSQL rolls back at the commit,
`OrganizeRaises` and `QualityFails` end the run. When stage 2 raises, its handler itself
fails, since it reads `db_stats`, which is bound only on success
(`market_intel_crew.py:776`), so the run is "failed" and there is no stage 3. A failing
stage 3 is recorded twice (`IntelRaises`). `Kill` is the deadline of the sweep, the stop
button or a restart.

Abstractions. A scrape is the version of the portal it was taken from, a batch the records
of it that validate (the others are dropped before the transaction). Only
RERA projects are rows; what the scouts and Kaveri store is the step `ScoutsStore`, which may
fail. A dead letter is attributed to its run. `RetryDeadLetters` only counts: every record
of the queue has entity type "unknown", for which a replay raises. A dead letter may also be
lost on the client: `text()` takes `:raw_data::jsonb` for a parameter it has no value for
(`Commit`, `lost`). `met`, `crossed`, `unsaved` and `spoilt` are history variables: `met` has the
runs of the market that overlapped another one of it, `spoilt` says that two runs of whatever
market have overlapped or that one was stopped or failed while the file was empty.

### DashboardWorkers, EvaluateJobs, BoardSessions, DecisionDesk

`Reached` and `Missed` are the two outcomes of every database call; each module catches the failure
and goes on. `EvaluateJobs` has a job as an entry of the memory of the worker that took the request
(`mem`) and as a row (`row`); they change together, under `_jobs_lock`, as far as any poll of that
worker can see. A poll may reach any worker (`Poll`). Stages before the round may take for ever; the
round collects the futures of its agents or gives up after 90 s (`RoundTimesOut`), when the answers
collected are dropped if any future is not done, because the handler puts dictionaries into a set.
The deal and the completion are two transactions. `BoardSessions` has the thread of a session, the
pool of heads, which is waited for even after the 90 s (`HeadsReturn`), the final write, whose
result nobody looks at, and the journal. `RecoverStuck` is the hourly job of the scheduler. In
`DecisionDesk` both share the workers and the budget of failing calls, and `WorkerDies` ends the
threads of both.

Left out: the contents of reports, votes and verdicts; the session inside an evaluation,
which keeps no state; messages to Telegram. A job and a session are asked for once.

### DeedInbox

A file stands for the deeds in it, its contents for a version number. `Drop` may come at any moment,
also during a scan and with a modification time in the past (a copied file keeps its own).
`BeginScan` lists the directory and compares with the watermark; `ParseInbox` lists it again and
parses all of it; `HandOver` gives one file's deeds to `writer.write`; `LeaveOut` is a file with a
deed that has no number or no SRO, for which `_build_record` returns nothing; `MoveWatermark` asks
for the times of the files listed at the beginning. `Crash` is a restart of the scheduler, which may
leave an empty watermark file.

`handed` is the version whose deeds the writer has got. It is not what the table holds: the records
have three keys for which `registered_transactions` has no columns, the database refuses every one of
them, and the scan does not look at the answer (finding 9). The model ends at the call of
`write()`, where the success of the code ends, and has no variable for a table nothing is put into. For the
same reason deeds of two files, or two surveys of one deed, that share the conflict key
`(sro, doc_no, reg_date)` are not a matter of the model: one would replace the other if they were
stored.

Files are never deleted in the model (the code would raise at `stat()` in the last step and scan
again), and deeds that cancel others are left out. `excused` collects the files the scan has no way
to notice.

### PoolWatch

The listener runs on each checkout, with the connection already counted: `ReadFlag`, `Count`, then
`ClearFlag` or `TakeLock` are separate steps of a thread, in which others may come between. The
holder of the lock goes through `suppress` twice (`"first"` by the listener, `"again"` by
`send_ops_alert`), each with a connection of its own (`Connect`) that it gets, or waits for in vain
for 30 s (`Unreachable`). The row of the alert has a sign in front of its name (`Title`), so the
query, which looks for the name (`Key`), finds nothing. `recent` remembers that a message was tried
in the last four hours. Left out: threads that hold two connections for reasons of their own, and
import errors.

## 3. The runs

| Run | Question | Bounds | Result |
|---|---|---|---|
| `ingest_run` | What survives interleaving, cancellation, overlapping calls, a full cache, a fault and a crash? `NoSilentLoss`, `DuplicateOnlyByFault`, `EveryRecordCounted`, `OneRunAtATime`, `CancelStays`, `RunEnds`, and the refinement `ImplementsAuditTrail` | 2 callers, 2 tasks on 2 workers, up to 5 records cut at 4, cache of 2, 1 retry, 1 fault, 1 crash; 576 thousand states, 130 s | holds |
| `ingest_cancel` | Does a cancellation during a run stay in force? | no fault, no crash | violated: finding |
| `launcher_calls` | `ChildrenAreKnown`; no call hangs while Redis answers (`CallsReturnWithRedis`) | 2 workers, 2 markets, 1 outage, 1 restart; 296 thousand states | holds |
| `launcher_fallback` | Does every call return when Redis is down? | 1 worker, 1 market, 1 outage | violated: finding |
| `launcher_shared` | Do the workers share what is running? | 2 workers, 1 market, no outage | violated: finding |
| `router_run` | `ClosedMeansHealthy`, `NoReattempt`, `ExclusionsEnd`, `StageEnds`, `OpenEndsWhenAsked`, and `ImplementsBreaker` (the refinement of `CircuitBreaker`) | 1 run, 2 stages of one and two models, 2 providers and the local one, 2 retries, threshold 2, window 2, 1 late success; 414 thousand states, 2 min | holds; finding |
| `router_trial` | Does a failed trial reopen the circuit? | 1 provider, the constants of the code (3 failures, 300 s, 60 s, 120 s) in minutes | violated: finding |
| `decision_desk` | `KeepsPromise` (the refinement of `JobPromise`), `StepsBackOnlyByFault`, `DealHasJob`, `RoundEnds`; `VerdictHasSession`, `EndIsFinal`, `ActiveEnds` | 2 workers, 1 job, 2 agents, 1 session, 1 head, 1 failing call, 1 death; 560 thousand states, 75 s | holds |
| `market_day` | `RecordsAccountedFor`, `RowsGoBackOnlyByOverlap`, `HistoryIsKept`, `CachedRunHasBatch` | 2 runs, of one market or of two, 1 project, 2 tasks, 2 versions of the portal, 1 midnight, 1 retry; 4.1 million states up to the symmetry of runs and projects, 145 s | holds; finding |
| `deed_inbox` | `BehindWatermarkWasHandedOver`, `WatermarkPasses`, `NewFileRescuesAll` | 2 files, 3 changes of the directory, 2 failures, 1 restart; 20 thousand states | holds; finding |
| `pool_watch` | `LockIsReleased`, `AlertedOnce` | 4 threads, 3 connections, 2 faults; 244 thousand states | holds |
| `pool_alerts` | Does the watch keep one of its two promises, an alert about a full pool or a cooldown of four hours (`AlertPromise`)? | 3 threads, 2 connections, no fault | violated: two findings |

Why the bounds are enough. Two tasks that share a hash already interleave in every way
the duplicate check allows; a third task, which would wait for a worker, is left to the theorems,
as is data for which the writer has no table at all. One fault and one crash give every single
failure and every failure followed by a restart. The cache of 2 takes the hashes of one list and
not all three, so that it fills while a task is at work, and the longer list is cut. All properties
of the engine are checked in one run, of which each caller, fault and cancellation may be part.
Two workers and two markets show every sharing of the
launcher; its outage and restart can fall into any step. In `router_run` the threshold
equals the window so that failures both accumulate and age out within a run, and two
retries are enough to exclude both providers and fall back to the local model. Two workers
let a poll reach the one that knows the job and the one that does not; one failing call can be
any of them, before or after the death. Two runs give every overlap and every
resumption, the runs of one market and of two, since the initial states choose whose they are; one
project suffices, since records meet only in their transaction, which fails or
commits as a whole. One retry is enough for a dead letter to be tried, counted and purged. Two
versions of the portal tell older rows from newer. Two files, one of
which fails or changes while the other is handed over, and three changes are one more than a scan
needs to be overtaken. In `pool_watch` three connections leave room for the holder of the
lock, a thread that waits for it and one that returns its connection, and the fourth thread
takes what becomes free. Deadlock is checked, except where the system really stops: in the
runs of the launcher with an outage, where a worker is stuck, and in `decision_desk`,
`market_day` and `deed_inbox`, whose jobs, runs and changes are a bounded number.

Fairness. `IngestEngine`: the threads of the pool and the caller in `run_all` are
scheduled, and plugins and the database answer or raise (the scrapers and the engine have
timeouts); nobody has to call `run_all` or `cancel`. `PipelineLauncher`: a Redis call
answers or raises. `LLMRouter`: a run's thread is scheduled, a call of a model returns or
raises, and time passes; no success needs ever be reported, and no run needs to start.
Crashes, outages, restarts and cancellations are never due.

Each property that holds has a mutant in `PROJECT.json`, a plausible bug in one of the
mapped definitions which makes the same run fail. The mutated definitions stand next to
the originals in the modules.

### Findings

1. `ingest_cancel`: `run_all` resets the cancel flag after it has taken the lock and
   queried the database; a `cancel()` in between is forgotten.
2. `launcher_fallback`: with Redis down, starting or stopping a pipeline makes the worker
   wait for a lock it holds itself; its event loop never answers again.
3. `launcher_shared`: a start consults only the dictionary of its own process, so two
   workers run two pipelines of one market.
4. `router_trial`: when the earlier failures are older than the window, a failed trial
   leaves the circuit `HALF_OPEN`, which admits calls.
5. `router_run`: `ARCHITECTURE.md:204` says that an exclusion is "cleared on first success"; the
   code clears it at the end of the run. Late successes of excluded providers occur in the run, and
   `NoReattempt`, which contradicts the sentence, holds.
6. `market_day`: the history is to record "every crew run attempt" and to be "append-only"
   (`run_logger.py:4`, `:8`). It is rewritten as a whole without a lock, by processes of all markets
   that start together. `HistoryIsKept` holds only with its excuse for overlaps: without it two runs
   of two different markets already lose a record.
7. `pool_alerts`: `db.py:56` says that an alert is fired when the pool is saturated. When the pool
   is empty the queries of both `suppress()` time out; the first one notes the alert in memory, and
   the second one takes the note for an alert that has been sent.
8. `pool_alerts`: the cooldown of four hours (`db.py:58`, `discord_notifier.py:863-864`) does not
   hold while the database answers: the row of an alert has a sign in front of its title, so that
   the query for the title finds nothing. `AlertPromise` says that a process keeps at least one of
   the two promises; the counterexample breaks both.
9. `deed_inbox`: the scan is to "ingest new PDFs into registered_transactions"
   (`maintenance_jobs.py:1009`). `_build_record` adds three keys that are no columns
   (`kaveri_form17_plugin.py:137-139`), so every INSERT is refused; `write()` says so by its result,
   the scan counts the record as written and moves the watermark past it.

The runs of findings 5, 6 and 9 pass: what they check is what the code does instead of what is said
of it, in 5 the opposite of the sentence, in 6 with the excuse named, in 9 up to the point where the
code departs from it.

### Seen while modelling

These are in the models as the code does them, or beside what is modelled; no run is about
them alone.

- Ingest: data bound for `distressed_opps`, `litigations` or `deals` is a plain INSERT, so a crash
  between write and audit row doubles it, where `ARCHITECTURE.md:214` speaks of idempotent upserts;
  what `demand_plugin`, `land_supply_plugin` and `govt_policy_plugin` return has no table in the
  writer (`writer.py:29-50`); the hash of a distressed opportunity contains the time of detection
  and is new at every run.
- Router: a stage makes four attempts (`market_intel_crew.py:529`); with keys for four failing
  providers it gives up before a crew with the local model is built, which `README.md:171` promises.
- Market pipeline: the handler of a failing stage 2 says "Continuing to Stage 3" and raises, because
  `db_stats` is not bound (`market_intel_crew.py:776-785`); a failure of the developers' grades,
  logged as "Non-fatal" (`db_organizer.py:251-256`), has aborted the transaction, whose commit
  stores nothing; no dead letter is ever replayed, since its type is "unknown", and its insertion
  names a parameter `:raw_data::jsonb`; the history is rewritten without a lock.
- Evaluations: agents that do not answer in time are to be marked as abstaining
  (`evaluate_pipeline.py:447`), but the set of dictionaries raises `TypeError`, so the round returns
  nothing at all.
- Board room: a session whose first update is lost stays "pending", which the hourly job does not
  look for; a thread that is slow rather than dead writes "complete" over its "failed".
- Form 17: deeds without a number or an SRO are skipped without a log line (`maintenance_jobs.py:1061`),
  and the watermark passes them; only the next new file brings them, in vain, before the plugin again.
- Router: the outer handler records the end of a run before it clears the exclusions
  (`market_intel_crew.py:1174`, `1185`); when the history cannot be written they stay
  (`leftBehind`). Today each market has a process of its own, which then ends.
- Pool watch: the flag is lowered only by a thread with an old view of it, since
  the function returns at once while it is up (`db.py:63`): once no thread is in between, the watch is
  silent for the life of the process (`LatchIsPermanent`).
- Alerts: markers go to the channel `"ops"`, which `send` does not know (`discord_notifier.py:42-55`),
  so no marker is ever written: the guards `_digest_already_sent`, `_bhoomi_already_ran` and
  `_ops_already_alerted` never hold anything back.

## 4. The proofs

All theorems are about the specifications the runs use and assume only the named
assumptions on the constants: finite sets of tasks, hashes and markets, naturals as
bounds, values that are apart (`IngestAssumption`, `LauncherAssumption`,
`RouterAssumption`, `WorkersAssumption`, `PipelineAssumption`, `InboxAssumption`,
`PoolAssumption`). The number of tasks, workers, providers, jobs, sessions, runs, files, threads,
faults and crashes is arbitrary. Properties that only a proof module states were model-checked on
the instance of the component's run before they were proved.

A few theorems have a hypothesis about the surroundings, which their statement names: no failing
statement (`MaxFaults = 0`), a cache for all hashes, files that come with times later than the
watermark (`NewerDrops`) or only between scans (`CalmDrops`), a run alone in its process
(`Alone`). They say which of the possible disturbances the guarantee depends on; the theorems
without a hypothesis cover all of them.

**Ingest engine.** `IngestTypeOK` needs one conjunct beyond the types: a task that is past
the head of its loop has a record in hand (`InHand`). On top of this
- `IngestOneRun`: tasks exist only while the holder of the run lock waits for them.
- `IngestCancelStays`: `Begin` is the only step that clears the flag, and with one run at
  a time no task exists when it is taken.
- `IngestImplementsAuditTrail`: the refinement, with the set of hashes that have a row for
  `stored`. `AuditInv` is what makes the audit step legal: a success row, written or about
  to be, is about stored data.
- `IngestNoSilentLoss`: each conjunct of the disjunction hands over to the next when the
  task in hand moves on; a crash empties the cache.
- `IngestDuplicateOnlyByFault`: the property is far from inductive. `DedupInv` says of a
  hash no fault has touched that at most one task is past the cache with it, that the
  cache remembers it until then, that the table has no row of it before that task writes,
  and that a stored hash is logged or its success row is on its way.
- `IngestEveryRecordCounted`: `CountInv` relates the tally, the list left and the record in
  hand at every position of a task.
- `IngestWithinBounds`: the cache keeps to its size and the pool to its workers.
- `IngestRunNeverStuck` and `IngestTaskGoesForward`: a run always has a next step, its own or
  that of a submitted task, and each step of a task lowers a measure (attempts, records,
  positions) that no other step raises.
- `IngestNothingIsTakenBack` is drawn from the refinement alone, `IngestLogTellsTheTruth` from
  `AuditInv`.
- `IngestNoDuplicate`: without faults and crashes and with a cache for all hashes nothing is stored
  twice. The lookup and the write are not atomic; the cache, asked in one step, makes up for it.
  The cause `DuplicateOnlyByFault` leaves open never arises, since nothing is evicted.

**Pipeline launcher.** `LauncherTypeOK` and `LauncherChildrenAreKnown`. The fallback drops
an entry of `_running` without looking at it; `ClearsAbsent` says that a call on its way
there has found no live process, and none can start until it is done, which is the
conjunct `ChildrenAreKnown` lacks. `LauncherLockFollowsCall`: a worker has its lock exactly at the
positions of a call that need it, or for ever when the call hangs. `LauncherCallGoesForward`: the
next step of a call answers it, unless that step finds Redis down. `LauncherHangNeedsOutage`: a
behaviour without an outage has no stuck worker, so the finding `launcher_fallback` has no other
cause. `LauncherPipelinesAreCounted` bounds what the finding `launcher_shared` can do: one pipeline
of a market for each worker, and one orphan for each restart.

**LLM router.** `RouterTypeOK`, `RouterClosedMeansHealthy`, `RouterExclusionsEnd` and
`RouterNoReattempt`. The last assumes at most one run in the process (`Alone`), as today: each
market has a subprocess of its own. With two, the first to end clears the exclusions of the other.
`RouterExclusionsEnd`: every exclusion was made by a run under way or by one whose end could not be
recorded (`leftBehind`). The inductive invariant bounds the ages of failures (`CircuitTypes`), says
that a failure about to be excluded is attributed to a provider in the cloud (`Attributed`), and
that what a run has excluded is excluded and not in the crew under construction (`DroppedInv`).
`RouterImplementsBreaker`, the refinement, needs one invariant more: the failures are kept newest
first (`NewestFirst`). So a recorded failure adds one to `Young` or finds it full, the threshold is
reached when the last of the list is within the window, and time only takes away (`FailureCounts`).
`RouterOpenTimePasses`: while a circuit is open, its age is never set back.
`RouterStageGoesForward`: attempts only go up, and within one a run never comes back, for which a
crew must not outgrow its stage (`CrewFits`).

**Decision desk.** `TypeCorrect`, then two invariants that do not need each other.
`SessionsInvariant` relates the thread of a session to its row: until the last write the row is
"complete" for no thread, and a row "failed" under a living thread was failed by the hourly job;
`VerdictsHaveSessions` and `EndsAreFinal` follow. `JobsInvariant` relates memory, row and
thread of a job: an entry in memory says what the thread last wrote, and so does the row unless
it is lagging; `DealsHaveJobs`, `StepsBackNeedFaults` and the refinement `PromiseIsKept`
follow, the last by the ranks of what a client can be told. `OutcomesStand` is drawn from the promise
alone: an outcome a client has heard is never followed by the other one. `JobsGoForward` and
`SessionsGoForward` rank the stages of a thread and the phases of a session, the latter although
two processes write the same row unasked. `DatabaseIsEnough` (`MaxFaults = 0`): as long as
statements succeed no client sees a step back and every verdict and deal has its owner, however
many workers die.

**Market pipeline.** `TypesHold`. `VersionsInvariant` has these parts: runs of other markets are
only at the history (`Home`); without overlap at most one run of the market is active (`Solo`); the
rows are no newer than the checkpoint, the checkpoint no newer than the portal, and a batch in hand
no older than the rows (`Trail`); and what stage 2 has promised of each batch (`Batches`). From it
`RecordsAreAccountedFor` and `RowsGoForward`. `CachedRunsHaveBatches` and `HistoriesAreKept` have
invariants of their own: a run that trusts the checkpoints has them until midnight, and a run alone
at the file writes back what it has read, so that as long as no two runs of any markets overlap and
none stops or fails with the file empty, the record of a run that has recorded its end tells that
end. `RunsGoForward`: no handler of a failure sends a run back to a step it has left.
`FailedRecordsWait`: a dead letter goes only with its tries used up, and no step gives it tries
back; that a new one starts with all its tries follows from a run passing stage 2 once.

**Deed inbox.** `TypesHold`, and `WatermarkIsHonest`: the invariant says for each phase
which files are handed over or about to be, since within a scan the watermark says nothing yet. That the
new watermark is a time needs the maximum of a nonempty finite set (`GreatestTime`).
- `HandedInOrder`: the writer never gets an older version of a file's deeds after a newer one.
- `ScansCanGoOn`, `ScansGoForward`: a scan always has something to do, and less after each step.
- `ScansRescue`: a scan in which every file can be parsed and no deed is left out ends with the whole
  directory handed over, what earlier scans have missed included.
- `WatermarkMovesOn`: given `NewerDrops` the watermark goes back only by a restart.
- `CalmInboxIsComplete`: when nothing is parsed in vain or left out, and files come between scans and
  later than the watermark, the writer has got everything behind it and no excuse is needed, however
  often the scheduler restarts.

None of these says that a deed is stored: see finding 9.

**Pool watch.** `TypeCorrect`, which includes that only the holder of the lock works on the alert.
`OneMessage`: a check that has sent nothing has found the flag down under the lock, and nobody else
can raise it. `SilenceHasCause` and `AlertsNeedConnections` say when the watch departs from its
promise (findings 7 and 8): no row ever carries the name of the alert, and whoever asks for the
second time has had an answer or is remembered. `HoldersWork`: the lock is held only by a thread at
work on the alert, with the flag down, and a second connection is the holder's. `ChecksGoForward`:
each step of the holder lowers the number of statements and connections before it, of which there
are at most seven, or gives the lock back, and no other step touches it. `LatchIsPermanent`: with
the flag up and no thread between its look at it and its lowering, the flag stays up and no message
is tried again.

Only model-checked: the liveness properties, since fairness speaks of `ENABLED`, which is beyond
the prover, and of course the findings. For each of them the theorems show what is not fairness: no
step sets the progress back, and, where the right column says so, that there is a next step.

| Property | Proved part |
|---|---|
| `RunEnds` | `IngestTaskGoesForward`, and `IngestRunNeverStuck`: a next step exists |
| `CallsReturnWithRedis` | `LauncherCallGoesForward` |
| `StageEnds` | `RouterStageGoesForward` |
| `OpenEndsWhenAsked` | `RouterOpenTimePasses` |
| `RoundEnds` | `JobsGoForward` |
| `ActiveEnds` | `SessionsGoForward` |
| `WatermarkPasses` | `ScansGoForward`, and `ScansCanGoOn`: a next step exists |
| `NewFileRescuesAll` | `ScansRescue` |
| `LockIsReleased` | `ChecksGoForward`, and `HoldersWork`: the holder does not wait for a thread that waits |

## 5. What is not modelled

Scrapers, plugins, agents and prompts (network access and text), the read-only endpoints of
the dashboard, the schema, reports and most notifications: they keep no state that steps of
several actors relate. The scout rows and the report mode of the pipeline, the status endpoint
of the launcher and the sweep over all markets, the shareholder review and the bodies of most
jobs of the scheduler are parts of modelled components that are left out. The cache of the
intel registry has no caller of its invalidation and lives as long as one request, so there is
nothing to race. The token bucket, the scout memory and the MCP server are not modelled yet.

## 6. Plan

What is left, in the order of how much can go wrong in it:

1. `TokenBucket` – integer time, the refill that counts the time slept a second time; the rate
   over an interval.
2. `McpServer` – sessions that are evicted while their stream is open, the rate limiter's
   cleanup, which asks for the lock its caller holds (`re_os_mcp.py:147-167`), entries of the
   cache in flight that nobody completes.
3. `AlertGuards` – the jobs of the scheduler whose guards do find their rows
   (`_bd_already_alerted`): what a failed delivery and a failed query do to the next one.
4. `ScoutMemory`, which shares the read-modify-write of a file with the run logger.
5. Within the present modules: the status endpoint of the launcher against what is alive, and two
   runs of the router in one process, where `NoReattempt` needs a weaker form.
6. Abstract specifications for the inbox (what is behind the watermark has reached the writer) and
   the pool watch, with their refinements proved.
