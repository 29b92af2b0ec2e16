----------------------- MODULE PipelineLauncherProofs -----------------------
(***************************************************************************)
(* Theorems about PipelineLauncher for any number of workers, markets,      *)
(* outages and restarts.                                                    *)
(***************************************************************************)
EXTENDS PipelineLauncher, TLAPS

\* While a worker clears the record of a market it has no pipeline of it: it takes no
\* other call before it is done.
ClearsAbsent ==
  \A w \in Workers : loop[w] = "clear unlocked" => live[w][target[w]] = 0

LauncherInv == TypeOK /\ ChildrenAreKnown /\ ClearsAbsent

\* The target of an idle worker is a market, as there is one.
LEMMA NoTargetIsMarket == NoTarget \in Markets
  BY LauncherAssumption DEF NoTarget

\* The initial state satisfies the inductive invariant.
LEMMA LauncherInit == Init => LauncherInv
<1> SUFFICES ASSUME Init PROVE LauncherInv
  OBVIOUS
<1>1. TypeOK
  <2>1. /\ outages \in 0..MaxOutages /\ restarts \in 0..MaxRestarts
    BY LauncherAssumption DEF Init
  <2>2. /\ live \in [Workers -> [Markets -> Nat]]
        /\ orphans \in [Markets -> Nat]
        /\ running \in [Workers -> [Markets -> {"nothing", "process", "payload"}]]
        /\ published \in [Markets -> Workers \cup {Nobody}]
        /\ target \in [Workers -> Markets]
    BY NoTargetIsMarket DEF Init
  <2> QED BY <2>1, <2>2 DEF Init, TypeOK
<1>2. ChildrenAreKnown /\ ClearsAbsent
  BY DEF Init, ChildrenAreKnown, ClearsAbsent
<1> QED BY <1>1, <1>2 DEF LauncherInv

\* Changing one entry of a table of counters or of records keeps the table typed and
\* the other entries what they were.
LEMMA Cell ==
  ASSUME NEW S, NEW f \in [Workers -> [Markets -> S]], NEW w \in Workers, NEW m \in Markets, NEW x \in S
  PROVE  /\ [f EXCEPT ![w][m] = x] \in [Workers -> [Markets -> S]]
         /\ [f EXCEPT ![w][m] = x][w][m] = x
         /\ \A v \in Workers, n \in Markets :
              v # w \/ n # m => [f EXCEPT ![w][m] = x][v][n] = f[v][n]
  OBVIOUS

\* Answering a call keeps the types of what a call changes.
LEMMA AnswerTyped ==
  ASSUME TypeOK, NEW w \in Workers, Answer(w)
  PROVE  /\ loop' \in [Workers -> {"idle", "set", "clear", "clear unlocked", "stuck"}]
         /\ target' \in [Workers -> Markets]
         /\ lock' \in [Workers -> BOOLEAN]
         /\ loop'[w] = "idle"
         /\ \A v \in Workers \ {w} : loop'[v] = loop[v] /\ target'[v] = target[v]
  BY NoTargetIsMarket DEF Answer, TypeOK

\* So does taking a call.
LEMMA HandleTyped ==
  ASSUME TypeOK, NEW w \in Workers, NEW m \in Markets,
         NEW step \in {"set", "clear", "clear unlocked"},
         Handle(w, m, step, TRUE) \/ Handle(w, m, step, FALSE)
  PROVE  /\ loop' \in [Workers -> {"idle", "set", "clear", "clear unlocked", "stuck"}]
         /\ target' \in [Workers -> Markets]
         /\ lock' \in [Workers -> BOOLEAN]
         /\ loop[w] = "idle" /\ loop'[w] = step /\ target'[w] = m
         /\ \A v \in Workers \ {w} : loop'[v] = loop[v] /\ target'[v] = target[v]
<1>1. CASE Handle(w, m, step, TRUE)
  BY <1>1 DEF Handle, TypeOK
<1>2. CASE Handle(w, m, step, FALSE)
  BY <1>2 DEF Handle, TypeOK
<1> QED BY <1>1, <1>2

\* ClearsAbsent survives a step of w that leaves the other workers' calls alone, takes no
\* pipeline count of theirs away from zero, and leaves w with none of the market it clears.
LEMMA ClearsKept ==
  ASSUME TypeOK, ClearsAbsent, NEW w \in Workers,
         \A v \in Workers \ {w} : loop'[v] = loop[v] /\ target'[v] = target[v],
         \A v \in Workers \ {w}, n \in Markets : live'[v][n] = live[v][n],
         loop'[w] = "clear unlocked" => live'[w][target'[w]] = 0
  PROVE  ClearsAbsent'
<1> SUFFICES ASSUME NEW v \in Workers, loop'[v] = "clear unlocked"
             PROVE  live'[v][target'[v]] = 0
  BY DEF ClearsAbsent
<1>1. CASE v = w
  BY <1>1
<1>2. CASE v # w
  <2>1. target[v] \in Markets
    BY DEF TypeOK
  <2>2. loop[v] = "clear unlocked" /\ target'[v] = target[v]
    BY <1>2
  <2>3. live'[v][target[v]] = live[v][target[v]]
    BY <1>2, <2>1
  <2>4. live[v][target[v]] = 0
    BY <2>2 DEF ClearsAbsent
  <2> QED BY <2>2, <2>3, <2>4
<1> QED BY <1>1, <1>2

\* Taking a call keeps the inductive invariant.
LEMMA CallStep ==
  ASSUME LauncherInv, NEW w \in Workers, Call(w)
  PROVE  LauncherInv'
<1> USE DEF LauncherInv
<1>0. live \in [Workers -> [Markets -> Nat]] /\ running \in [Workers -> [Markets -> {"nothing", "process", "payload"}]]
  BY DEF TypeOK
<1>1. ASSUME NEW m \in Markets, Start(w, m) PROVE LauncherInv'
  <2>1. /\ live' = [live EXCEPT ![w][m] = live[w][m] + 1]
        /\ running' = [running EXCEPT ![w][m] = "process"]
        /\ Handle(w, m, "set", TRUE)
    BY <1>1 DEF Start
  <2>2. live[w][m] \in Nat
    BY <1>0
  <2>3. live[w][m] = 0
    BY <1>1, <2>2 DEF Start, Alive, ChildrenAreKnown
  <2>4. /\ live' \in [Workers -> [Markets -> Nat]] /\ live'[w][m] = 1
        /\ \A v \in Workers, n \in Markets : v # w \/ n # m => live'[v][n] = live[v][n]
    BY <1>0, <2>1, <2>2, <2>3, Cell
  <2>5. /\ running' \in [Workers -> [Markets -> {"nothing", "process", "payload"}]]
        /\ running'[w][m] = "process"
        /\ \A v \in Workers, n \in Markets : v # w \/ n # m => running'[v][n] = running[v][n]
    BY <1>0, <2>1, Cell
  <2>H. /\ loop' \in [Workers -> {"idle", "set", "clear", "clear unlocked", "stuck"}]
        /\ target' \in [Workers -> Markets] /\ lock' \in [Workers -> BOOLEAN]
        /\ loop[w] = "idle" /\ loop'[w] = "set" /\ target'[w] = m
        /\ \A v \in Workers \ {w} : loop'[v] = loop[v] /\ target'[v] = target[v]
    BY <2>1, HandleTyped
  <2>6. TypeOK'
    <3>1. UNCHANGED <<orphans, published, redisUp, outages, restarts>>
      BY <1>1 DEF Start, redisVars
    <3> QED BY <2>4, <2>5, <2>H, <3>1 DEF TypeOK
  <2>7. ChildrenAreKnown'
    BY <2>4, <2>5 DEF ChildrenAreKnown
  <2>8. ClearsAbsent'
    BY <2>4, <2>H, ClearsKept
  <2> QED BY <2>6, <2>7, <2>8
<1>2. ASSUME NEW m \in Markets, Stop(w, m) PROVE LauncherInv'
  <2>1. live[w][m] = 1 /\ running[w][m] = "process"
    BY <1>2 DEF Stop, Alive, ChildrenAreKnown
  <2>2. /\ live' = [live EXCEPT ![w][m] = 0]
        /\ Handle(w, m, "clear", TRUE)
    <3>1. /\ live' = [live EXCEPT ![w][m] = live[w][m] - 1]
          /\ Handle(w, m, "clear", TRUE)
      BY <1>2 DEF Stop
    <3>2. live[w][m] - 1 = 0
      BY <2>1
    <3> QED BY <3>1, <3>2
  <2>3. /\ live' \in [Workers -> [Markets -> Nat]] /\ live'[w][m] = 0
        /\ \A v \in Workers, n \in Markets : v # w \/ n # m => live'[v][n] = live[v][n]
    BY <1>0, <2>2, Cell
  <2>H. /\ loop' \in [Workers -> {"idle", "set", "clear", "clear unlocked", "stuck"}]
        /\ target' \in [Workers -> Markets] /\ lock' \in [Workers -> BOOLEAN]
        /\ loop'[w] = "clear"
        /\ \A v \in Workers \ {w} : loop'[v] = loop[v] /\ target'[v] = target[v]
    BY <2>2, HandleTyped
  <2>I. UNCHANGED <<running, orphans, published, redisUp, outages, restarts>>
    BY <1>2 DEF Stop, redisVars
  <2>4. TypeOK'
    BY <2>3, <2>H, <2>I DEF TypeOK
  <2>5. ChildrenAreKnown'
    BY <2>3, <2>I DEF ChildrenAreKnown
  <2>6. ClearsAbsent'
    BY <2>3, <2>H, ClearsKept
  <2> QED BY <2>4, <2>5, <2>6
<1>3. ASSUME NEW m \in Markets, StopAbsent(w, m) PROVE LauncherInv'
  <2>1. Handle(w, m, "clear unlocked", FALSE) /\ UNCHANGED <<childVars, redisVars, restarts>>
    BY <1>3 DEF StopAbsent
  <2>2. live[w][m] = 0
    <3>1. ~(running[w][m] = "process" /\ live[w][m] > 0)
      BY <1>3 DEF StopAbsent, Alive
    <3>2. ~(live[w][m] > 0)
      BY <3>1 DEF ChildrenAreKnown
    <3>3. live[w][m] \in Nat
      BY <1>0
    <3> QED BY <3>2, <3>3
  <2>H. /\ loop' \in [Workers -> {"idle", "set", "clear", "clear unlocked", "stuck"}]
        /\ target' \in [Workers -> Markets] /\ lock' \in [Workers -> BOOLEAN]
        /\ target'[w] = m
        /\ \A v \in Workers \ {w} : loop'[v] = loop[v] /\ target'[v] = target[v]
    BY <2>1, HandleTyped
  <2>I. UNCHANGED <<running, live, orphans, published, redisUp, outages, restarts>>
    BY <2>1 DEF childVars, redisVars
  <2>3. TypeOK'
    BY <2>H, <2>I DEF TypeOK
  <2>4. ChildrenAreKnown'
    BY <2>I DEF ChildrenAreKnown
  <2>5. ClearsAbsent'
    BY <2>2, <2>H, <2>I, ClearsKept
  <2> QED BY <2>3, <2>4, <2>5
<1> QED BY <1>1, <1>2, <1>3 DEF Call

\* So does every step of _set_running and _clear_running.
LEMMA ProceedStep ==
  ASSUME LauncherInv, NEW w \in Workers, Proceed(w)
  PROVE  LauncherInv'
<1> USE DEF LauncherInv
<1>0. /\ live \in [Workers -> [Markets -> Nat]]
      /\ running \in [Workers -> [Markets -> {"nothing", "process", "payload"}]]
      /\ target[w] \in Markets
  BY DEF TypeOK
<1>1. CASE SetRunning(w) \/ ClearRunning(w)
  <2>1. /\ Answer(w)
        /\ UNCHANGED <<running, live, orphans, redisUp, outages, restarts>>
    BY <1>1 DEF SetRunning, ClearRunning, childVars
  <2>2. published' \in [Markets -> Workers \cup {Nobody}]
    <3>1. published \in [Markets -> Workers \cup {Nobody}]
      BY DEF TypeOK
    <3>2. CASE SetRunning(w)
      BY <3>1, <3>2 DEF SetRunning
    <3>3. CASE ClearRunning(w)
      BY <3>1, <3>3 DEF ClearRunning
    <3> QED BY <1>1, <3>2, <3>3
  <2>3. TypeOK'
    BY <2>1, <2>2, AnswerTyped DEF TypeOK
  <2>4. ChildrenAreKnown'
    BY <2>1 DEF ChildrenAreKnown
  <2>5. ClearsAbsent'
    BY <2>1, AnswerTyped, ClearsKept
  <2> QED BY <2>3, <2>4, <2>5
<1>2. CASE SetRunningFails(w) \/ ClearRunningFails(w)
  <2>1. /\ loop' = [loop EXCEPT ![w] = "stuck"]
        /\ UNCHANGED <<target, lock, running, live, orphans>>
        /\ UNCHANGED <<published, redisUp, outages, restarts>>
    BY <1>2 DEF SetRunningFails, ClearRunningFails, childVars, redisVars
  <2>2. /\ loop' \in [Workers -> {"idle", "set", "clear", "clear unlocked", "stuck"}]
        /\ loop'[w] = "stuck"
        /\ \A v \in Workers \ {w} : loop'[v] = loop[v]
    BY <2>1 DEF TypeOK
  <2>3. TypeOK'
    BY <2>1, <2>2 DEF TypeOK
  <2>4. ChildrenAreKnown'
    BY <2>1 DEF ChildrenAreKnown
  <2>5. ClearsAbsent'
    BY <2>1, <2>2, ClearsKept
  <2> QED BY <2>3, <2>4, <2>5
<1>3. CASE ClearRunningLocally(w)
  <2>1. live[w][target[w]] = 0 /\ live' = live
    BY <1>3 DEF ClearRunningLocally, ClearsAbsent
  <2>2. /\ running' \in [Workers -> [Markets -> {"nothing", "process", "payload"}]]
        /\ \A v \in Workers, n \in Markets : v # w \/ n # target[w] => running'[v][n] = running[v][n]
    <3>1. running' = [running EXCEPT ![w][target[w]] = "nothing"]
      BY <1>3 DEF ClearRunningLocally
    <3> QED BY <1>0, <3>1, Cell
  <2>3. TypeOK'
    BY <1>3, <2>1, <2>2, AnswerTyped DEF ClearRunningLocally, TypeOK, redisVars
  <2>4. ChildrenAreKnown'
    BY <2>1, <2>2 DEF ChildrenAreKnown
  <2>5. ClearsAbsent'
    <3>1. Answer(w)
      BY <1>3 DEF ClearRunningLocally
    <3> QED BY <2>1, <3>1, AnswerTyped, ClearsKept
  <2> QED BY <2>3, <2>4, <2>5
<1> QED BY <1>1, <1>2, <1>3 DEF Proceed

\* So does what happens around the calls: ends, restarts, outages, expiry.
LEMMA SurroundingsStep ==
  ASSUME LauncherInv,
         \/ \E w \in Workers : Restart(w)
         \/ \E w \in Workers, m \in Markets : PipelineEnds(w, m)
         \/ \E m \in Markets : OrphanEnds(m)
         \/ RedisFails \/ RedisRecovers \/ HashExpires
  PROVE  LauncherInv'
<1> USE DEF LauncherInv
<1>0. live \in [Workers -> [Markets -> Nat]] /\ orphans \in [Markets -> Nat]
  BY DEF TypeOK
<1>1. ASSUME NEW w \in Workers, Restart(w) PROVE LauncherInv'
  <2>1. /\ running' \in [Workers -> [Markets -> {"nothing", "process", "payload"}]]
        /\ \A v \in Workers \ {w} : running'[v] = running[v]
    BY <1>1 DEF Restart, TypeOK
  <2>2. /\ live' \in [Workers -> [Markets -> Nat]]
        /\ \A v \in Workers \ {w} : live'[v] = live[v]
        /\ \A m \in Markets : live'[w][m] = 0
    BY <1>0, <1>1 DEF Restart
  <2>3. orphans' \in [Markets -> Nat]
    <3>1. orphans' = [m \in Markets |-> orphans[m] + live[w][m]]
      BY <1>1 DEF Restart
    <3>2. \A m \in Markets : orphans[m] + live[w][m] \in Nat
      BY <1>0
    <3> QED BY <3>1, <3>2
  <2>4. restarts' \in 0..MaxRestarts
    <3>1. restarts \in 0..MaxRestarts
      BY DEF TypeOK
    <3>2. restarts < MaxRestarts /\ restarts' = restarts + 1
      BY <1>1 DEF Restart
    <3>3. MaxRestarts \in Nat
      BY LauncherAssumption
    <3> QED BY <3>1, <3>2, <3>3
  <2>5. TypeOK'
    BY <1>1, <2>1, <2>2, <2>3, <2>4, AnswerTyped DEF Restart, TypeOK, redisVars
  <2>6. ChildrenAreKnown'
    BY <2>1, <2>2 DEF ChildrenAreKnown
  <2>7. ClearsAbsent'
    <3>1. Answer(w)
      BY <1>1 DEF Restart
    <3> QED BY <2>2, <3>1, AnswerTyped, ClearsKept
  <2> QED BY <2>5, <2>6, <2>7
<1>2. ASSUME NEW w \in Workers, NEW m \in Markets, PipelineEnds(w, m) PROVE LauncherInv'
  <2>1. live[w][m] = 1
    BY <1>2 DEF PipelineEnds, ChildrenAreKnown
  <2>2. /\ live' \in [Workers -> [Markets -> Nat]] /\ live'[w][m] = 0
        /\ \A v \in Workers, n \in Markets : v # w \/ n # m => live'[v][n] = live[v][n]
    <3>1. live' = [live EXCEPT ![w][m] = live[w][m] - 1]
      BY <1>2 DEF PipelineEnds
    <3>2. live[w][m] - 1 = 0
      BY <2>1
    <3>3. live' = [live EXCEPT ![w][m] = 0]
      BY <3>1, <3>2
    <3> QED BY <1>0, <3>3, Cell
  <2>3. TypeOK'
    BY <1>2, <2>2 DEF PipelineEnds, TypeOK, callVars, redisVars
  <2>4. UNCHANGED <<loop, target, lock, running>>
    BY <1>2 DEF PipelineEnds, callVars
  <2>5. ChildrenAreKnown'
    BY <2>2, <2>4 DEF ChildrenAreKnown
  <2>6. ClearsAbsent'
    <3>1. target[w] \in Markets
      BY DEF TypeOK
    <3>2. loop'[w] = "clear unlocked" => live'[w][target'[w]] = 0
      BY <2>2, <2>4, <3>1 DEF ClearsAbsent
    <3> QED BY <2>2, <2>4, <3>2, ClearsKept
  <2> QED BY <2>3, <2>5, <2>6
<1>3. ASSUME NEW m \in Markets, OrphanEnds(m) PROVE LauncherInv'
  <2>1. orphans' \in [Markets -> Nat]
    BY <1>0, <1>3 DEF OrphanEnds
  <2>2. TypeOK' /\ ChildrenAreKnown' /\ ClearsAbsent'
    BY <1>3, <2>1 DEF OrphanEnds, TypeOK, ChildrenAreKnown, ClearsAbsent, callVars, redisVars
  <2> QED BY <2>2
<1>4. CASE RedisFails \/ RedisRecovers \/ HashExpires
  <2>1. outages' \in 0..MaxOutages
    <3>1. outages \in 0..MaxOutages
      BY DEF TypeOK
    <3>2. \/ outages' = outages
          \/ outages < MaxOutages /\ outages' = outages + 1
      BY <1>4 DEF RedisFails, RedisRecovers, HashExpires
    <3>3. MaxOutages \in Nat
      BY LauncherAssumption
    <3> QED BY <3>1, <3>2, <3>3
  <2>2. published' \in [Markets -> Workers \cup {Nobody}] /\ redisUp' \in BOOLEAN
    BY <1>4 DEF RedisFails, RedisRecovers, HashExpires, TypeOK
  <2>3. UNCHANGED <<callVars, childVars, restarts>>
    BY <1>4 DEF RedisFails, RedisRecovers, HashExpires
  <2> QED BY <2>1, <2>2, <2>3 DEF TypeOK, ChildrenAreKnown, ClearsAbsent, callVars, childVars
<1> QED BY <1>1, <1>2, <1>3, <1>4

\* LauncherInv is an invariant.
LEMMA LauncherAlways == Spec => []LauncherInv
<1>1. LauncherInv /\ [Next]_vars => LauncherInv'
  <2>1. ASSUME LauncherInv, UNCHANGED vars PROVE LauncherInv'
    BY <2>1 DEF vars, callVars, childVars, redisVars, LauncherInv, TypeOK, ChildrenAreKnown, ClearsAbsent
  <2> QED BY <2>1, CallStep, ProceedStep, SurroundingsStep DEF Next
<1> QED BY <1>1, LauncherInit, PTL DEF Spec

\* Every variable keeps its type, whatever the number of workers and markets.
THEOREM LauncherTypeOK == Spec => []TypeOK
<1>1. LauncherInv => TypeOK
  BY DEF LauncherInv
<1> QED BY <1>1, LauncherAlways, PTL

\* Whatever Redis and the other workers do, a worker can stop every pipeline it has
\* started, and it never has two of one market.
THEOREM LauncherChildrenAreKnown == Spec => []ChildrenAreKnown
<1>1. LauncherInv => ChildrenAreKnown
  BY DEF LauncherInv
<1> QED BY <1>1, LauncherAlways, PTL

---------------------------------------------------------------------------
(* Calls that return and calls that hang *)

\* A worker holds its lock exactly in the calls that took it, and for ever in one that
\* hangs.
LockFollowsCall ==
  \A w \in Workers : lock[w] <=> loop[w] \in {"set", "clear", "stuck"}

\* The safety half of CallsReturnWithRedis: a step of a call answers it, unless Redis is
\* down, when the call may hang; what happens around it does not touch it.
CallGoesForward ==
  [][\A w \in Workers : loop[w] # "idle" =>
       \/ loop'[w] = "idle"
       \/ loop'[w] = "stuck" /\ (loop[w] = "stuck" \/ ~redisUp)
       \/ ~Proceed(w) /\ UNCHANGED <<loop[w], target[w], lock[w]>>]_vars

\* A worker that hangs hangs until it is replaced, whether or not Redis comes back.
HangIsPermanent ==
  [][\A w \in Workers : loop[w] = "stuck" /\ loop'[w] # "stuck" => Restart(w)]_vars

NobodyStuck == \A w \in Workers : loop[w] # "stuck"

\* What a step does to the calls.
LEMMA CallsStep ==
  ASSUME TypeOK, [Next]_vars
  PROVE  \/ \E w \in Workers : /\ Call(w) \/ Proceed(w) \/ Restart(w)
                               /\ \A v \in Workers \ {w} : UNCHANGED <<loop[v], target[v], lock[v]>>
         \/ UNCHANGED <<loop, target, lock>>
<1>1. ASSUME NEW w \in Workers, Call(w) \/ Proceed(w) \/ Restart(w)
      PROVE  \A v \in Workers \ {w} : UNCHANGED <<loop[v], target[v], lock[v]>>
  <2>1. CASE Call(w)
    BY <2>1 DEF Call, Start, Stop, StopAbsent, Handle, TypeOK
  <2>2. CASE Proceed(w)
    BY <2>2 DEF Proceed, SetRunning, SetRunningFails, ClearRunning, ClearRunningFails,
                ClearRunningLocally, Answer, TypeOK
  <2>3. CASE Restart(w)
    BY <2>3 DEF Restart, Answer, TypeOK
  <2> QED BY <1>1, <2>1, <2>2, <2>3
<1>2. ASSUME \/ \E w \in Workers, m \in Markets : PipelineEnds(w, m)
             \/ \E m \in Markets : OrphanEnds(m)
             \/ RedisFails \/ RedisRecovers \/ HashExpires \/ UNCHANGED vars
      PROVE  UNCHANGED <<loop, target, lock>>
  BY <1>2 DEF PipelineEnds, OrphanEnds, RedisFails, RedisRecovers, HashExpires, vars, callVars
<1> QED BY <1>1, <1>2 DEF Next

\* What the step of a worker makes of its own call.
LEMMA OwnCallStep ==
  ASSUME TypeOK, NEW w \in Workers
  PROVE  /\ Call(w) => /\ loop[w] = "idle"
                       /\ \/ loop'[w] \in {"set", "clear"} /\ lock'[w]
                          \/ loop'[w] = "clear unlocked" /\ ~lock'[w]
         /\ Proceed(w) => /\ loop[w] \notin {"idle", "stuck"}
                          /\ \/ loop'[w] = "idle" /\ ~lock'[w]
                             \/ /\ ~redisUp /\ loop[w] \in {"set", "clear"}
                                /\ loop'[w] = "stuck" /\ lock'[w] = lock[w]
         /\ Restart(w) => loop'[w] = "idle" /\ ~lock'[w]
<1>1. ASSUME Call(w)
      PROVE  /\ loop[w] = "idle"
             /\ \/ loop'[w] \in {"set", "clear"} /\ lock'[w]
                \/ loop'[w] = "clear unlocked" /\ ~lock'[w]
  BY <1>1 DEF Call, Start, Stop, StopAbsent, Handle, TypeOK
<1>2. ASSUME Proceed(w)
      PROVE  /\ loop[w] \notin {"idle", "stuck"}
             /\ \/ loop'[w] = "idle" /\ ~lock'[w]
                \/ /\ ~redisUp /\ loop[w] \in {"set", "clear"}
                   /\ loop'[w] = "stuck" /\ lock'[w] = lock[w]
  BY <1>2 DEF Proceed, SetRunning, SetRunningFails, ClearRunning, ClearRunningFails,
              ClearRunningLocally, Answer, TypeOK
<1>3. Restart(w) => loop'[w] = "idle" /\ ~lock'[w]
  BY DEF Restart, Answer, TypeOK
<1> QED BY <1>1, <1>2, <1>3

\* The lock is taken and given back with the calls: no way through a call leaves it
\* behind but the one that hangs.
THEOREM LauncherLockFollowsCall == Spec => []LockFollowsCall
<1>1. Init => LockFollowsCall
  BY DEF Init, LockFollowsCall
<1>2. TypeOK /\ LockFollowsCall /\ [Next]_vars => LockFollowsCall'
  <2> SUFFICES ASSUME TypeOK, LockFollowsCall, [Next]_vars, NEW v \in Workers
               PROVE  lock'[v] <=> loop'[v] \in {"set", "clear", "stuck"}
    BY DEF LockFollowsCall
  <2>1. CASE UNCHANGED <<loop[v], target[v], lock[v]>>
    BY <2>1 DEF LockFollowsCall
  <2>2. CASE Call(v) \/ Proceed(v) \/ Restart(v)
    BY <2>2, OwnCallStep DEF LockFollowsCall
  <2> QED BY <2>1, <2>2, CallsStep
<1> QED BY <1>1, <1>2, LauncherTypeOK, PTL DEF Spec

\* Each call is answered by the next step it takes, unless that step finds Redis down:
\* what CallsReturnWithRedis adds is that a call takes its step.
THEOREM LauncherCallGoesForward == Spec => CallGoesForward
<1> DEFINE A == \A w \in Workers : loop[w] # "idle" =>
                  \/ loop'[w] = "idle"
                  \/ loop'[w] = "stuck" /\ (loop[w] = "stuck" \/ ~redisUp)
                  \/ ~Proceed(w) /\ UNCHANGED <<loop[w], target[w], lock[w]>>
<1>1. TypeOK /\ [Next]_vars => [A]_vars
  <2> SUFFICES ASSUME TypeOK, [Next]_vars, NEW v \in Workers, loop[v] # "idle"
               PROVE  \/ loop'[v] = "idle"
                      \/ loop'[v] = "stuck" /\ (loop[v] = "stuck" \/ ~redisUp)
                      \/ ~Proceed(v) /\ UNCHANGED <<loop[v], target[v], lock[v]>>
    OBVIOUS
  <2>1. CASE UNCHANGED <<loop[v], target[v], lock[v]>>
    BY <2>1, OwnCallStep
  <2>2. CASE Call(v) \/ Proceed(v) \/ Restart(v)
    BY <2>2, OwnCallStep
  <2> QED BY <2>1, <2>2, CallsStep
<1> QED BY <1>1, LauncherTypeOK, PTL DEF Spec, CallGoesForward

\* A lock that its holder waits for is never given back: the worker is lost.
THEOREM LauncherHangIsPermanent == Spec => HangIsPermanent
<1> DEFINE A == \A w \in Workers : loop[w] = "stuck" /\ loop'[w] # "stuck" => Restart(w)
<1>1. TypeOK /\ [Next]_vars => [A]_vars
  <2> SUFFICES ASSUME TypeOK, [Next]_vars, NEW v \in Workers,
                      loop[v] = "stuck", loop'[v] # "stuck"
               PROVE  Restart(v)
    OBVIOUS
  <2> QED BY CallsStep, OwnCallStep
<1> QED BY <1>1, LauncherTypeOK, PTL DEF Spec, HangIsPermanent

\* As long as Redis answers, no worker hangs, for any number of calls and workers.
THEOREM LauncherHangNeedsOutage == Spec => <>~redisUp \/ []NobodyStuck
<1>1. Init => NobodyStuck
  BY DEF Init, NobodyStuck
<1>2. TypeOK /\ redisUp /\ NobodyStuck /\ [Next]_vars => NobodyStuck'
  <2> SUFFICES ASSUME TypeOK, redisUp, NobodyStuck, [Next]_vars, NEW v \in Workers
               PROVE  loop'[v] # "stuck"
    BY DEF NobodyStuck
  <2> QED BY CallsStep, OwnCallStep DEF NobodyStuck
<1> QED BY <1>1, <1>2, LauncherTypeOK, PTL DEF Spec

---------------------------------------------------------------------------
(* How many pipelines a market can have *)

\* A market has no more pipelines without a worker than workers were replaced, and no
\* worker has two.
PipelinesAreCounted ==
  \A m \in Markets : orphans[m] <= restarts /\ \A w \in Workers : live[w][m] <= 1

FewOrphans == \A m \in Markets : orphans[m] <= restarts

\* Only a restart makes orphans, of each market one at the most.
LEMMA OrphansStep ==
  ASSUME LauncherInv, [Next]_vars, FewOrphans
  PROVE  FewOrphans'
<1>0. /\ restarts \in Nat
      /\ orphans \in [Markets -> Nat] /\ live \in [Workers -> [Markets -> Nat]]
  <2>1. restarts \in 0..MaxRestarts /\ orphans \in [Markets -> Nat]
        /\ live \in [Workers -> [Markets -> Nat]]
    BY DEF LauncherInv, TypeOK
  <2> QED BY <2>1
<1>1. ASSUME NEW w \in Workers, Restart(w) PROVE FewOrphans'
  <2>1. orphans' = [m \in Markets |-> orphans[m] + live[w][m]] /\ restarts' = restarts + 1
    BY <1>1 DEF Restart
  <2>2. \A m \in Markets : live[w][m] \in 0..1
    BY <1>0 DEF LauncherInv, ChildrenAreKnown
  <2> QED BY <1>0, <2>1, <2>2 DEF FewOrphans
<1>2. ASSUME NEW m \in Markets, OrphanEnds(m) PROVE FewOrphans'
  <2>1. /\ orphans' = [orphans EXCEPT ![m] = orphans[m] - 1]
        /\ restarts' = restarts
    BY <1>2 DEF OrphanEnds
  <2> QED BY <1>0, <2>1 DEF FewOrphans
<1>3. ASSUME \/ \E w \in Workers : Call(w) \/ Proceed(w)
             \/ \E w \in Workers, m \in Markets : PipelineEnds(w, m)
             \/ RedisFails \/ RedisRecovers \/ HashExpires \/ UNCHANGED vars
      PROVE  UNCHANGED <<orphans, restarts>>
  <2>1. ASSUME NEW w \in Workers, Call(w) PROVE UNCHANGED <<orphans, restarts>>
    BY <2>1 DEF Call, Start, Stop, StopAbsent, childVars
  <2>2. ASSUME NEW w \in Workers, Proceed(w) PROVE UNCHANGED <<orphans, restarts>>
    BY <2>2 DEF Proceed, SetRunning, SetRunningFails, ClearRunning, ClearRunningFails,
                ClearRunningLocally, childVars
  <2>3. ASSUME \/ \E w \in Workers, m \in Markets : PipelineEnds(w, m)
               \/ RedisFails \/ RedisRecovers \/ HashExpires \/ UNCHANGED vars
        PROVE  UNCHANGED <<orphans, restarts>>
    BY <2>3 DEF PipelineEnds, RedisFails, RedisRecovers, HashExpires, childVars, vars
  <2> QED BY <1>3, <2>1, <2>2, <2>3
<1> QED BY <1>1, <1>2, <1>3 DEF Next, FewOrphans

\* Of one market no more pipelines run than there are workers and were restarts.
THEOREM LauncherPipelinesAreCounted == Spec => []PipelinesAreCounted
<1>1. Init => FewOrphans
  BY DEF Init, FewOrphans
<1>2. LauncherInv /\ FewOrphans => PipelinesAreCounted
  <2> SUFFICES ASSUME LauncherInv, FewOrphans, NEW m \in Markets
               PROVE  orphans[m] <= restarts /\ \A w \in Workers : live[w][m] <= 1
    BY DEF PipelinesAreCounted
  <2>1. \A w \in Workers : live[w][m] \in Nat /\ (live[w][m] > 0 => live[w][m] = 1)
    BY DEF LauncherInv, TypeOK, ChildrenAreKnown
  <2>2. \A n \in Nat : (n > 0 => n = 1) => n <= 1
    OBVIOUS
  <2>3. \A w \in Workers : live[w][m] <= 1
    BY <2>1, <2>2
  <2> QED BY <2>3 DEF FewOrphans
<1>3. LauncherInv /\ FewOrphans /\ [Next]_vars => FewOrphans'
  BY OrphansStep
<1> QED BY <1>1, <1>2, <1>3, LauncherAlways, PTL DEF Spec
=============================================================================
