------------------------------ MODULE LLMRouter ------------------------------
(***************************************************************************)
(* Which language model answers a pipeline run: the exclusion set and the   *)
(* circuit breaker of src/config/llm_router.py, driven by the two crews a   *)
(* run of src/crews/market_intel_crew.py kicks off.                         *)
(*                                                                         *)
(* A stage builds a crew, one language model after the other: each tier has *)
(* a chain of providers, and the first one that is neither excluded nor     *)
(* near its quota is taken, or the local model after the last.  When a call *)
(* of the crew fails, the failure is attributed to a provider, that         *)
(* provider is excluded for the rest of the run, and the crew is built      *)
(* again.  Successes are reported by a callback of litellm, on a thread of  *)
(* its own, some time after the call.                                       *)
(*                                                                         *)
(* Every step below is at most one lock section of the code.  A reader that *)
(* leaves the lock before it looks at the state it fetched sees what it     *)
(* would have seen had it asked at the moment it looks, so fetching and     *)
(* looking are one step.                                                    *)
(*                                                                         *)
(* Time passes in units of the half-open delay (60 s).                      *)
(***************************************************************************)
EXTENDS Integers, Sequences, FiniteSets

CONSTANTS
  Runs,           \* the pipeline runs of the process
  Providers,      \* the providers in the cloud
  Local,          \* the local model, which is never excluded
  Stages,         \* Stages[s][i]: the chain of the i-th model of the crew of stage s
  Suspects,       \* the order in which a failure nobody is named in is attributed
  Blame,          \* Blame[m]: the providers an error of m may name
  Reported,       \* the providers whose successes are reported under their own name
  MaxRetries,     \* _RATE_LIMIT_RETRIES
  Threshold,      \* _CIRCUIT_FAIL_THRESHOLD
  Window,         \* _CIRCUIT_WINDOW_SECONDS
  HalfOpenAfter,  \* _CIRCUIT_HALF_OPEN_SECONDS
  StaleAfter,     \* _CIRCUIT_HALF_OPEN_STALE_SECONDS
  MaxLate         \* bound on the successes of a provider that are not yet reported

Models == Providers \cup {Local}

ASSUME RouterAssumption ==
  /\ Local \notin Providers
  /\ Stages \in Seq(Seq(Seq(Providers))) /\ Stages # <<>>
  /\ \A s \in DOMAIN Stages : Stages[s] # <<>>
  /\ Suspects \in Seq(Providers)
  /\ Blame \in [Models -> SUBSET Providers]
  /\ Reported \subseteq Providers
  /\ MaxRetries \in Nat /\ MaxLate \in Nat
  /\ Threshold \in Nat \ {0} /\ Window \in Nat \ {0}
  /\ HalfOpenAfter \in Nat \ {0} /\ StaleAfter \in Nat \ {0}

VARIABLES
  pc,        \* what a run is doing
  stage,     \* its stage
  attempt,   \* its attempt at the stage
  llms,      \* the models of the crew, those built so far
  walk,      \* the providers it still has to ask about
  blamed,    \* the provider its last failure was attributed to
  tried,     \* the models its crews of this stage were kicked off with
  dropped,   \* the providers it has excluded
  excluded,  \* _EXCLUDED
  leftBehind, \* exclusions of runs whose end could not be recorded (auxiliary)
  circuit,   \* the state of a provider's circuit
  since,     \* for how long it has been open or half open
  failures,  \* the ages of a provider's latest failures, newest first
  late,      \* successes of a provider that are not yet reported
  near       \* the providers near their daily quota

runVars     == <<pc, stage, attempt, llms, walk, blamed, tried, dropped>>
circuitVars == <<circuit, since, failures>>
vars == <<runVars, excluded, leftBehind, circuitVars, late, near>>

\* A failure as old as the window counts no longer, and after the longer of the two
\* delays a circuit has waited long enough.
MaxSince == IF HalfOpenAfter > StaleAfter THEN HalfOpenAfter ELSE StaleAfter
NoFailures == [i \in 1..Threshold |-> Window]

Activities == {"idle", "ready", "building", "calling", "blaming", "blamed",
               "recording", "failed"}

TypeOK ==
  /\ pc \in [Runs -> Activities]
  /\ stage \in [Runs -> DOMAIN Stages]
  /\ attempt \in [Runs -> 1..MaxRetries + 1]
  /\ llms \in [Runs -> Seq(Models)]
  /\ walk \in [Runs -> Seq(Providers)]
  /\ blamed \in [Runs -> Models]
  /\ tried \in [Runs -> SUBSET Models]
  /\ dropped \in [Runs -> SUBSET Providers]
  /\ excluded \in SUBSET Providers
  /\ leftBehind \in SUBSET Providers
  /\ circuit \in [Providers -> {"CLOSED", "OPEN", "HALF_OPEN"}]
  /\ since \in [Providers -> 0..MaxSince]
  /\ failures \in [Providers -> [1..Threshold -> 0..Window]]
  /\ late \in [Providers -> 0..MaxLate]
  /\ near \in SUBSET Providers

Init ==
  /\ pc = [r \in Runs |-> "idle"]
  /\ stage = [r \in Runs |-> 1]
  /\ attempt = [r \in Runs |-> 1]
  /\ llms = [r \in Runs |-> <<>>]
  /\ walk = [r \in Runs |-> <<>>]
  /\ blamed = [r \in Runs |-> Local]
  /\ tried = [r \in Runs |-> {}]
  /\ dropped = [r \in Runs |-> {}]
  /\ excluded = {}
  /\ leftBehind = {}
  /\ circuit = [p \in Providers |-> "CLOSED"]
  /\ since = [p \in Providers |-> 0]
  /\ failures = [p \in Providers |-> NoFailures]
  /\ late = [p \in Providers |-> 0]
  /\ near = {}

Goto(r, activity) == pc' = [pc EXCEPT ![r] = activity]
Crew(r) == {llms[r][i] : i \in DOMAIN llms[r]}

---------------------------------------------------------------------------
(* The stages of a run *)

\* The end of a run: _clear_excluded.  The handler of a failing run records its end
\* first, in a file, and is left without clearing anything when that raises; a run that
\* succeeds comes there too when its own record raises.
EndRun(r) ==
  /\ Goto(r, "idle")
  /\ stage' = [stage EXCEPT ![r] = 1]
  /\ llms' = [llms EXCEPT ![r] = <<>>]
  /\ dropped' = [dropped EXCEPT ![r] = {}]
  /\ tried' = [tried EXCEPT ![r] = {}]
  /\ \/ excluded' = {} /\ leftBehind' = {}
     \/ leftBehind' = leftBehind \cup dropped[r] /\ UNCHANGED excluded

NextStage(r) ==
  /\ stage[r] < Len(Stages)
  /\ Goto(r, "ready")
  /\ stage' = [stage EXCEPT ![r] = @ + 1]
  /\ llms' = [llms EXCEPT ![r] = <<>>]
  /\ tried' = [tried EXCEPT ![r] = {}]
  /\ UNCHANGED <<dropped, excluded, leftBehind>>

LastStage(r) == stage[r] = Len(Stages)

BeginRun(r) ==
  /\ pc[r] = "idle"
  /\ Goto(r, "ready")
  /\ UNCHANGED <<stage, attempt, llms, walk, blamed, tried, dropped, excluded, leftBehind,
                 circuitVars, late, near>>

\* build_fn: one model after the other, from the head of its chain.
StartBuilding(r) ==
  /\ Goto(r, "building")
  /\ llms' = [llms EXCEPT ![r] = <<>>]
  /\ walk' = [walk EXCEPT ![r] = Stages[stage[r]][1]]

BeginStage(r) ==
  /\ pc[r] = "ready"
  /\ StartBuilding(r)
  /\ attempt' = [attempt EXCEPT ![r] = 1]
  /\ UNCHANGED <<stage, blamed, tried, dropped, excluded, leftBehind,
                 circuitVars, late, near>>

\* The checkpoints of today make the first stage superfluous.
SkipStage(r) ==
  /\ pc[r] = "ready"
  /\ NextStage(r)
  /\ UNCHANGED <<attempt, walk, blamed, circuitVars, late, near>>

\* Mutant of Abort: the exclusions are kept.
AbortKeepsExclusions(r) ==
  /\ pc[r] = "ready"
  /\ Goto(r, "idle")
  /\ stage' = [stage EXCEPT ![r] = 1]
  /\ llms' = [llms EXCEPT ![r] = <<>>]
  /\ dropped' = [dropped EXCEPT ![r] = {}]
  /\ tried' = [tried EXCEPT ![r] = {}]
  /\ UNCHANGED <<excluded, leftBehind, attempt, walk, blamed, circuitVars, late, near>>

\* An error between the stages ends the run.
Abort(r) ==
  /\ pc[r] = "ready"
  /\ EndRun(r)
  /\ UNCHANGED <<attempt, walk, blamed, circuitVars, late, near>>

---------------------------------------------------------------------------
(* Asking about a provider: _is_excluded and, for a crew, is_near_quota *)

\* Mutant of Poll: an open circuit is half open for the first that asks.
PollImpatiently(p) ==
  \/ /\ circuit[p] = "OPEN"
     /\ circuit' = [circuit EXCEPT ![p] = "HALF_OPEN"]
     /\ since' = [since EXCEPT ![p] = 0]
  \/ /\ circuit[p] = "HALF_OPEN" /\ since[p] >= StaleAfter
     /\ circuit' = [circuit EXCEPT ![p] = "OPEN"]
     /\ since' = [since EXCEPT ![p] = 0]
  \/ /\ circuit[p] # "OPEN"
     /\ circuit[p] = "HALF_OPEN" => since[p] < StaleAfter
     /\ UNCHANGED <<circuit, since>>

\* _get_circuit_state: looking at a circuit moves it on when its time has come.
Poll(p) ==
  \/ /\ circuit[p] = "OPEN" /\ since[p] >= HalfOpenAfter
     /\ circuit' = [circuit EXCEPT ![p] = "HALF_OPEN"]
     /\ since' = [since EXCEPT ![p] = 0]
  \/ /\ circuit[p] = "HALF_OPEN" /\ since[p] >= StaleAfter
     /\ circuit' = [circuit EXCEPT ![p] = "OPEN"]
     /\ since' = [since EXCEPT ![p] = 0]
  \/ /\ circuit[p] = "OPEN" => since[p] < HalfOpenAfter
     /\ circuit[p] = "HALF_OPEN" => since[p] < StaleAfter
     /\ UNCHANGED <<circuit, since>>

\* The circuit of an excluded provider is not looked at.
Ask(p) == IF p \in excluded THEN UNCHANGED <<circuit, since>> ELSE Poll(p)

\* Mutant of Refused: the circuit speaks for a provider that was excluded.
RefusedByCircuit(r, p) ==
  \/ circuit'[p] = "OPEN"
  \/ pc[r] = "building" /\ p \in near

Refused(r, p) ==
  \/ p \in excluded
  \/ circuit'[p] = "OPEN"
  \/ pc[r] = "building" /\ p \in near

Asking(r) ==
  /\ pc[r] \in {"building", "blaming"}
  /\ walk[r] # <<>>
  /\ Ask(Head(walk[r]))
  /\ UNCHANGED <<failures, late, near, stage, attempt, dropped, excluded, leftBehind>>

Skip(r) ==
  /\ Asking(r)
  /\ Refused(r, Head(walk[r]))
  /\ walk' = [walk EXCEPT ![r] = Tail(@)]
  /\ UNCHANGED <<pc, llms, blamed, tried>>

\* The model is built; after the last one the crew is kicked off.
Build(r, m) ==
  /\ llms' = [llms EXCEPT ![r] = Append(@, m)]
  /\ IF Len(llms[r]) + 1 < Len(Stages[stage[r]])
     THEN /\ walk' = [walk EXCEPT ![r] = Stages[stage[r]][Len(llms[r]) + 2]]
          /\ UNCHANGED <<pc, tried>>
     ELSE /\ Goto(r, "calling")
          /\ walk' = [walk EXCEPT ![r] = <<>>]
          /\ tried' = [tried EXCEPT ![r] = @ \cup Crew(r) \cup {m}]
  /\ UNCHANGED blamed

TakeProvider(r) ==
  /\ pc[r] = "building"
  /\ Asking(r)
  /\ ~Refused(r, Head(walk[r]))
  /\ Build(r, Head(walk[r]))

TakeLocal(r) ==
  /\ pc[r] = "building"
  /\ walk[r] = <<>>
  /\ Build(r, Local)
  /\ UNCHANGED <<stage, attempt, dropped, excluded, leftBehind, circuitVars, late, near>>

---------------------------------------------------------------------------
(* The crew at work: _kickoff_with_fallback *)

\* A call is answered; litellm will report it.
CallSucceeds(r) ==
  /\ pc[r] = "calling"
  /\ \E p \in Crew(r) \cap Reported :
       late[p] < MaxLate /\ late' = [late EXCEPT ![p] = @ + 1]
  /\ UNCHANGED <<runVars, excluded, leftBehind, circuitVars, near>>

KickoffReturns(r) ==
  /\ pc[r] = "calling"
  /\ \/ NextStage(r)
     \/ LastStage(r) /\ EndRun(r)
  /\ UNCHANGED <<attempt, walk, blamed, circuitVars, late, near>>

\* A call fails and the error names a provider.
FailsNamed(r) ==
  /\ pc[r] = "calling"
  /\ \E m \in Crew(r) : \E p \in Blame[m] : blamed' = [blamed EXCEPT ![r] = p]
  /\ Goto(r, "blamed")
  /\ UNCHANGED <<stage, attempt, llms, walk, tried, dropped, excluded, leftBehind,
                 circuitVars, late, near>>

\* It names none but looks like a provider's failure.
FailsUnnamed(r) ==
  /\ pc[r] = "calling"
  /\ Goto(r, "blaming")
  /\ walk' = [walk EXCEPT ![r] = Suspects]
  /\ UNCHANGED <<stage, attempt, llms, blamed, tried, dropped, excluded, leftBehind,
                 circuitVars, late, near>>

\* It does not even do that: the error is passed on.
FailsOtherwise(r) ==
  /\ pc[r] = "calling"
  /\ Goto(r, "failed")
  /\ UNCHANGED <<stage, attempt, llms, walk, blamed, tried, dropped, excluded, leftBehind,
                 circuitVars, late, near>>

\* The first suspect in use takes the blame.
Accuse(r) ==
  /\ pc[r] = "blaming"
  /\ Asking(r)
  /\ ~Refused(r, Head(walk[r]))
  /\ blamed' = [blamed EXCEPT ![r] = Head(walk[r])]
  /\ Goto(r, "blamed")
  /\ walk' = [walk EXCEPT ![r] = <<>>]
  /\ UNCHANGED <<llms, tried>>

NobodyToAccuse(r) ==
  /\ pc[r] = "blaming"
  /\ walk[r] = <<>>
  /\ Goto(r, "failed")
  /\ UNCHANGED <<stage, attempt, llms, walk, blamed, tried, dropped, excluded, leftBehind,
                 circuitVars, late, near>>

\* Mutant of Exclude: one attempt too many.
ExcludeOnceMore(r) ==
  /\ pc[r] = "blamed"
  /\ attempt[r] <= MaxRetries + 1
  /\ excluded' = excluded \cup {blamed[r]}
  /\ dropped' = [dropped EXCEPT ![r] = @ \cup {blamed[r]}]
  /\ Goto(r, "recording")
  /\ UNCHANGED <<stage, attempt, llms, walk, blamed, tried, leftBehind,
                 circuitVars, late, near>>

\* _exclude, its first lock section.
Exclude(r) ==
  /\ pc[r] = "blamed"
  /\ attempt[r] <= MaxRetries
  /\ excluded' = excluded \cup {blamed[r]}
  /\ dropped' = [dropped EXCEPT ![r] = @ \cup {blamed[r]}]
  /\ Goto(r, "recording")
  /\ UNCHANGED <<stage, attempt, llms, walk, blamed, tried, leftBehind,
                 circuitVars, late, near>>

GiveUp(r) ==
  /\ pc[r] = "blamed"
  /\ attempt[r] > MaxRetries
  /\ Goto(r, "failed")
  /\ UNCHANGED <<stage, attempt, llms, walk, blamed, tried, dropped, excluded, leftBehind,
                 circuitVars, late, near>>

\* The failures once one more has happened.
WithFailure(p) ==
  [i \in 1..Threshold |-> IF i = 1 THEN 0 ELSE failures[p][i - 1]]

\* Mutant of RecordFailure: the new failure is not counted.
RecordFailureLate(p) ==
  /\ failures' = [failures EXCEPT ![p] = WithFailure(p)]
  /\ IF failures[p][Threshold] < Window /\ circuit[p] # "OPEN"
     THEN /\ circuit' = [circuit EXCEPT ![p] = "OPEN"]
          /\ since' = [since EXCEPT ![p] = 0]
     ELSE UNCHANGED <<circuit, since>>

\* Mutant of RecordFailure: each failure starts the time of an open circuit anew.
RecordFailureRenews(p) ==
  /\ failures' = [failures EXCEPT ![p] = WithFailure(p)]
  /\ IF WithFailure(p)[Threshold] < Window
     THEN /\ circuit' = [circuit EXCEPT ![p] = "OPEN"]
          /\ since' = [since EXCEPT ![p] = 0]
     ELSE UNCHANGED <<circuit, since>>

\* _record_failure: as many failures as the threshold within the window open the
\* circuit, unless it is open already.
RecordFailure(p) ==
  /\ failures' = [failures EXCEPT ![p] = WithFailure(p)]
  /\ IF WithFailure(p)[Threshold] < Window /\ circuit[p] # "OPEN"
     THEN /\ circuit' = [circuit EXCEPT ![p] = "OPEN"]
          /\ since' = [since EXCEPT ![p] = 0]
     ELSE UNCHANGED <<circuit, since>>

\* Mutant of Retry: the attempts are not counted.
RetryForever(r) ==
  /\ pc[r] = "recording"
  /\ RecordFailure(blamed[r])
  /\ StartBuilding(r)
  /\ UNCHANGED <<attempt, stage, blamed, tried, dropped, excluded, leftBehind, late, near>>

\* _exclude, its second lock section; the crew is built again.
Retry(r) ==
  /\ pc[r] = "recording"
  /\ RecordFailure(blamed[r])
  /\ attempt' = [attempt EXCEPT ![r] = @ + 1]
  /\ StartBuilding(r)
  /\ UNCHANGED <<stage, blamed, tried, dropped, excluded, leftBehind, late, near>>

\* A first stage that failed is passed over, the last one fails the run.
StageFailed(r) ==
  /\ pc[r] = "failed"
  /\ \/ NextStage(r)
     \/ LastStage(r) /\ EndRun(r)
  /\ UNCHANGED <<attempt, walk, blamed, circuitVars, late, near>>

---------------------------------------------------------------------------
(* The callback of litellm, and time *)

\* record_token_usage: the tokens of the call bring the provider near its quota.
TokensCounted(p) ==
  /\ late[p] > 0
  /\ p \notin near
  /\ near' = near \cup {p}
  /\ UNCHANGED <<runVars, excluded, leftBehind, circuitVars, late>>

\* _record_success.
SuccessRecorded(p) ==
  /\ late[p] > 0
  /\ late' = [late EXCEPT ![p] = @ - 1]
  /\ circuit' = [circuit EXCEPT ![p] = "CLOSED"]
  /\ failures' = [failures EXCEPT ![p] = NoFailures]
  /\ since' = [since EXCEPT ![p] = 0]
  /\ UNCHANGED <<runVars, excluded, leftBehind, near>>

Midnight ==
  /\ near # {}
  /\ near' = {}
  /\ UNCHANGED <<runVars, excluded, leftBehind, circuitVars, late>>

Older(age, limit) == IF age < limit THEN age + 1 ELSE limit

Tick ==
  /\ failures' = [p \in Providers |-> [i \in 1..Threshold |-> Older(failures[p][i], Window)]]
  /\ since' = [p \in Providers |->
                 IF circuit[p] = "CLOSED" THEN since[p] ELSE Older(since[p], MaxSince)]
  /\ UNCHANGED <<runVars, excluded, leftBehind, circuit, late, near>>

Choose(r) == Skip(r) \/ TakeProvider(r) \/ TakeLocal(r)
Fail(r)   == FailsNamed(r) \/ FailsUnnamed(r) \/ FailsOtherwise(r)
Attribute(r) == Accuse(r) \/ NobodyToAccuse(r) \/ Exclude(r) \/ GiveUp(r) \/ Retry(r)

\* What a run does of itself once a stage has begun.
Progress(r) == Choose(r) \/ KickoffReturns(r) \/ Fail(r) \/ Attribute(r) \/ StageFailed(r)

Next ==
  \/ \E r \in Runs : \/ BeginRun(r) \/ BeginStage(r) \/ SkipStage(r) \/ Abort(r)
                     \/ CallSucceeds(r) \/ Progress(r)
  \/ \E p \in Providers : TokensCounted(p) \/ SuccessRecorded(p)
  \/ Midnight \/ Tick

Spec == Init /\ [][Next]_vars

\* A run's thread is scheduled and its calls return or raise, and time passes.
FairSpec == Spec /\ WF_vars(Tick) /\ \A r \in Runs : WF_vars(Progress(r))

---------------------------------------------------------------------------
(* Properties *)

\* A circuit is closed only while fewer than the threshold of failures lie within the
\* window: neither a late success nor a poll lets a failing provider slip back.
ClosedMeansHealthy ==
  \A p \in Providers : circuit[p] = "CLOSED" => failures[p][Threshold] = Window

\* Across all runs, late successes and polls, the circuits are a circuit breaker with the
\* failures within the window for its count: what get_circuit_states shows.
Young(p) == {i \in 1..Threshold : failures[p][i] < Window}
Breaker == INSTANCE CircuitBreaker
             WITH state <- circuit, age <- since, Wait <- HalfOpenAfter, Patience <- StaleAfter,
                  count <- [p \in Providers |-> Cardinality(Young(p))]
ImplementsBreaker == Breaker!Spec

\* A run that is alone in its process never builds a crew on a provider it has excluded,
\* whatever successes of it are reported meanwhile.  (_is_excluded)
NoReattempt ==
  \A r \in Runs : pc[r] = "calling" => Crew(r) \cap dropped[r] = {}

\* An exclusion lasts no longer than the run that needed it: what is excluded, a run under
\* way has excluded, or one that could not even record its end.  (_clear_excluded)
ExclusionsEnd == excluded \subseteq leftBehind \cup UNION {dropped[r] : r \in Runs}

\* A stage ends, after at most MaxRetries + 1 crews.
StageEnds ==
  \A r \in Runs : pc[r] \notin {"idle", "ready"} ~> pc[r] \in {"idle", "ready"}

\* A provider about which runs ask again and again is not refused for ever by its
\* circuit: the failures others attribute to it do not prolong the time it is open.
Asked(p) == \E r \in Runs : Asking(r) /\ Head(walk[r]) = p /\ p \notin excluded
OpenEndsWhenAsked ==
  \A p \in Providers : []<><<Asked(p)>>_vars => []<>(circuit[p] # "OPEN")

\* llm_router.py:193: "On HALF_OPEN: 1 trial call allowed. Success -> CLOSED. Failure ->
\* OPEN again."  A failure attributed to a half-open provider opens its circuit.
FailedTrialReopens ==
  [][\A p \in Providers :
       circuit[p] = "HALF_OPEN" /\ (\E r \in Runs : Retry(r) /\ blamed[r] = p)
         => circuit'[p] = "OPEN"]_vars
=============================================================================
