-------------------------- MODULE PipelineLauncher --------------------------
(***************************************************************************)
(* How the dashboard starts and stops market pipelines: src/dashboard/      *)
(* state.py with the endpoints of src/dashboard/routers/pipeline.py.        *)
(*                                                                         *)
(* uvicorn runs several worker processes.  Each has its own dictionary      *)
(* _running and its own _lock; what they share is one Redis hash.  The      *)
(* endpoints that start and stop a pipeline are coroutines without an await *)
(* inside, so a worker handles one such call at a time, on its event loop.  *)
(* A pipeline is a child process of the worker that started it.             *)
(*                                                                         *)
(* The Redis client is built without connecting, so whether a call goes to  *)
(* Redis or to the in-memory fallback depends only on whether the server    *)
(* answers.                                                                 *)
(***************************************************************************)
EXTENDS Integers, FiniteSets

CONSTANTS
  Workers,      \* the uvicorn workers
  Nobody,       \* no worker
  Markets,      \* the markets a pipeline can be started for
  MaxOutages,   \* bound on outages of Redis
  MaxRestarts   \* bound on restarts of workers

ASSUME LauncherAssumption ==
  /\ Nobody \notin Workers
  /\ IsFiniteSet(Markets) /\ Markets # {}
  /\ MaxOutages \in Nat
  /\ MaxRestarts \in Nat

VARIABLES
  loop,       \* what the event loop of a worker is doing
  target,     \* the market of the call it is handling
  lock,       \* _lock of a worker is held
  running,    \* _running[market] of a worker: nothing, an entry with its process,
              \*   or a bare payload
  live,       \* live[w][m]: live pipelines this worker has started for m
  orphans,    \* live pipelines whose worker is gone
  published,  \* the Redis hash: which worker announced a pipeline of the market
  redisUp,    \* Redis answers
  outages,    \* outages so far (bounded by MaxOutages)
  restarts    \* restarts so far (bounded by MaxRestarts)

callVars  == <<loop, target, lock>>
childVars == <<running, live, orphans>>
redisVars == <<published, redisUp, outages>>
vars == <<callVars, childVars, redisVars, restarts>>

\* The target of a worker that handles no call.
NoTarget == CHOOSE m \in Markets : TRUE

TypeOK ==
  /\ loop \in [Workers -> {"idle", "set", "clear", "clear unlocked", "stuck"}]
  /\ target \in [Workers -> Markets]
  /\ lock \in [Workers -> BOOLEAN]
  /\ running \in [Workers -> [Markets -> {"nothing", "process", "payload"}]]
  /\ live \in [Workers -> [Markets -> Nat]]
  /\ orphans \in [Markets -> Nat]
  /\ published \in [Markets -> Workers \cup {Nobody}]
  /\ redisUp \in BOOLEAN
  /\ outages \in 0..MaxOutages
  /\ restarts \in 0..MaxRestarts

Init ==
  /\ loop = [w \in Workers |-> "idle"]
  /\ target = [w \in Workers |-> NoTarget]
  /\ lock = [w \in Workers |-> FALSE]
  /\ running = [w \in Workers |-> [m \in Markets |-> "nothing"]]
  /\ live = [w \in Workers |-> [m \in Markets |-> 0]]
  /\ orphans = [m \in Markets |-> 0]
  /\ published = [m \in Markets |-> Nobody]
  /\ redisUp = TRUE
  /\ outages = 0
  /\ restarts = 0

\* existing["proc"].poll() is None, on the entry of this worker.
Alive(w, m) == running[w][m] = "process" /\ live[w][m] > 0

---------------------------------------------------------------------------
(* Calls *)

\* The event loop takes a call for m and holds the lock or not while it handles it.
Handle(w, m, step, holding) ==
  /\ loop[w] = "idle"
  /\ ~lock[w]
  /\ loop' = [loop EXCEPT ![w] = step]
  /\ target' = [target EXCEPT ![w] = m]
  /\ lock' = [lock EXCEPT ![w] = holding]

\* The call has been answered.
Answer(w) ==
  /\ loop' = [loop EXCEPT ![w] = "idle"]
  /\ target' = [target EXCEPT ![w] = NoTarget]
  /\ lock' = [lock EXCEPT ![w] = FALSE]

\* _start_pipeline_for_market: under the lock, the process is launched and put in
\* _running; then _set_running is called.  A call for a market whose process is
\* alive answers "already_running" and a failing launch raises: neither changes
\* anything.
Start(w, m) ==
  /\ ~Alive(w, m)
  /\ Handle(w, m, "set", TRUE)
  /\ live' = [live EXCEPT ![w][m] = @ + 1]
  /\ running' = [running EXCEPT ![w][m] = "process"]
  /\ UNCHANGED <<orphans, redisVars, restarts>>

\* Mutant of Stop: the process is not looked for.
StopBlindly(w, m) ==
  /\ Handle(w, m, "clear", TRUE)
  /\ live' = [live EXCEPT ![w][m] = @ - 1]
  /\ UNCHANGED <<running, orphans, redisVars, restarts>>

\* _stop_pipeline_for_market: terminate, wait two seconds, kill; the entry stays in
\* _running; then _clear_running is called, under the lock.
Stop(w, m) ==
  /\ Alive(w, m)
  /\ Handle(w, m, "clear", TRUE)
  /\ live' = [live EXCEPT ![w][m] = @ - 1]
  /\ UNCHANGED <<running, orphans, redisVars, restarts>>

\* Nothing of this worker to stop: _clear_running all the same, without the lock.
StopAbsent(w, m) ==
  /\ ~Alive(w, m)
  /\ Handle(w, m, "clear unlocked", FALSE)
  /\ UNCHANGED <<childVars, redisVars, restarts>>

---------------------------------------------------------------------------
(* _set_running and _clear_running *)

\* hset of the market, then the time to live of the whole hash starts anew.
SetRunning(w) ==
  /\ loop[w] = "set"
  /\ redisUp
  /\ published' = [published EXCEPT ![target[w]] = w]
  /\ Answer(w)
  /\ UNCHANGED <<childVars, redisUp, outages, restarts>>

\* Mutant of SetRunningFails: a reentrant lock.
SetRunningReentrant(w) ==
  /\ loop[w] = "set"
  /\ ~redisUp
  /\ running' = [running EXCEPT ![w][target[w]] = "payload"]
  /\ Answer(w)
  /\ UNCHANGED <<live, orphans, redisVars, restarts>>

\* hset raises: the in-memory fallback asks for _lock, which this thread holds and
\* which is not reentrant.
SetRunningFails(w) ==
  /\ loop[w] = "set"
  /\ ~redisUp
  /\ loop' = [loop EXCEPT ![w] = "stuck"]
  /\ UNCHANGED <<target, lock, childVars, redisVars, restarts>>

\* Mutant of ClearRunning: the lock is not given back.
ClearRunningKeepsLock(w) ==
  /\ loop[w] \in {"clear", "clear unlocked"}
  /\ redisUp
  /\ published' = [published EXCEPT ![target[w]] = Nobody]
  /\ loop' = [loop EXCEPT ![w] = "stuck"]
  /\ UNCHANGED <<target, lock, childVars, redisUp, outages, restarts>>

\* hdel of the market, whoever announced it.
ClearRunning(w) ==
  /\ loop[w] \in {"clear", "clear unlocked"}
  /\ redisUp
  /\ published' = [published EXCEPT ![target[w]] = Nobody]
  /\ Answer(w)
  /\ UNCHANGED <<childVars, redisUp, outages, restarts>>

\* hdel raises while the lock is held.
ClearRunningFails(w) ==
  /\ loop[w] = "clear"
  /\ ~redisUp
  /\ loop' = [loop EXCEPT ![w] = "stuck"]
  /\ UNCHANGED <<target, lock, childVars, redisVars, restarts>>

\* hdel raises while it is free: the entry of this worker is dropped instead.
ClearRunningLocally(w) ==
  /\ loop[w] = "clear unlocked"
  /\ ~redisUp
  /\ running' = [running EXCEPT ![w][target[w]] = "nothing"]
  /\ Answer(w)
  /\ UNCHANGED <<live, orphans, redisVars, restarts>>

---------------------------------------------------------------------------
(* What happens around the calls *)

\* A pipeline ends by itself; nobody is told.
PipelineEnds(w, m) ==
  /\ live[w][m] > 0
  /\ live' = [live EXCEPT ![w][m] = @ - 1]
  /\ UNCHANGED <<callVars, running, orphans, redisVars, restarts>>

OrphanEnds(m) ==
  /\ orphans[m] > 0
  /\ orphans' = [orphans EXCEPT ![m] = @ - 1]
  /\ UNCHANGED <<callVars, running, live, redisVars, restarts>>

\* A worker dies, or is killed because it hangs, and is replaced: _running is empty,
\* the pipelines it had started go on.
Restart(w) ==
  /\ restarts < MaxRestarts
  /\ restarts' = restarts + 1
  /\ Answer(w)
  /\ running' = [running EXCEPT ![w] = [m \in Markets |-> "nothing"]]
  /\ orphans' = [m \in Markets |-> orphans[m] + live[w][m]]
  /\ live' = [live EXCEPT ![w] = [m \in Markets |-> 0]]
  /\ UNCHANGED redisVars

RedisFails ==
  /\ redisUp
  /\ outages < MaxOutages
  /\ outages' = outages + 1
  /\ redisUp' = FALSE
  /\ UNCHANGED <<callVars, childVars, published, restarts>>

RedisRecovers ==
  /\ ~redisUp
  /\ redisUp' = TRUE
  /\ UNCHANGED <<callVars, childVars, published, outages, restarts>>

\* An hour after the last hset the hash is gone.
HashExpires ==
  /\ \E m \in Markets : published[m] # Nobody
  /\ published' = [m \in Markets |-> Nobody]
  /\ UNCHANGED <<callVars, childVars, redisUp, outages, restarts>>

Call(w) == \E m \in Markets : Start(w, m) \/ Stop(w, m) \/ StopAbsent(w, m)

Proceed(w) == \/ SetRunning(w) \/ SetRunningFails(w)
              \/ ClearRunning(w) \/ ClearRunningFails(w) \/ ClearRunningLocally(w)

Next ==
  \/ \E w \in Workers : Call(w) \/ Proceed(w) \/ Restart(w)
  \/ \E w \in Workers, m \in Markets : PipelineEnds(w, m)
  \/ \E m \in Markets : OrphanEnds(m)
  \/ RedisFails \/ RedisRecovers \/ HashExpires

Spec == Init /\ [][Next]_vars

\* A call in progress goes on: Redis answers or its client raises after its timeout.
FairSpec == Spec /\ \A w \in Workers : WF_vars(Proceed(w))

---------------------------------------------------------------------------
(* Properties *)

\* A worker knows its children: it never runs two pipelines of one market, and a live
\* pipeline can be stopped through the worker that started it, because the entry in
\* _running still carries its process.  (existing["proc"], entry["proc"])
ChildrenAreKnown ==
  \A w \in Workers, m \in Markets :
    live[w][m] > 0 => live[w][m] = 1 /\ running[w][m] = "process"

\* The event loop of w is free again after each call.
CallReturns(w) == loop[w] # "idle" ~> loop[w] = "idle"

\* As long as Redis answers, no call hangs a worker.
CallsReturnWithRedis == <>~redisUp \/ \A w \in Workers : CallReturns(w)

\* state.py:117: "Falls back to in-memory dict if Redis unavailable."
CallsReturn == \A w \in Workers : CallReturns(w)

\* state.py:116: "Stores pipeline running state in Redis so uvicorn --workers N can
\* share state."  Without restarts, outages or expiry, a market has one pipeline.
LivePipelines(m) == {w \in Workers : live[w][m] > 0}
OnePipelinePerMarket ==
  \A m \in Markets : Cardinality(LivePipelines(m)) <= 1
=============================================================================
