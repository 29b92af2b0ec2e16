--------------------------- MODULE LLMRouterProofs ---------------------------
(***************************************************************************)
(* Theorems about LLMRouter for any number of runs and providers, any       *)
(* chains, limits and delays.                                               *)
(*                                                                         *)
(* The variables of the runs and those of the circuits are typed apart: a   *)
(* step of a run leaves the circuits alone, or asks about a provider, or    *)
(* records a failure.                                                       *)
(***************************************************************************)
EXTENDS LLMRouter, FiniteSetTheorems, TLAPS

RunTypes ==
  /\ pc \in [Runs -> Activities]
  /\ stage \in [Runs -> DOMAIN Stages]
  /\ attempt \in [Runs -> 1..MaxRetries + 1]
  /\ llms \in [Runs -> Seq(Models)]
  /\ walk \in [Runs -> Seq(Providers)]
  /\ blamed \in [Runs -> Models]
  /\ tried \in [Runs -> SUBSET Models]
  /\ dropped \in [Runs -> SUBSET Providers]
  /\ excluded \in SUBSET Providers
  /\ leftBehind \in SUBSET Providers

CircuitTypes ==
  /\ circuit \in [Providers -> {"CLOSED", "OPEN", "HALF_OPEN"}]
  /\ since \in [Providers -> 0..MaxSince]
  /\ failures \in [Providers -> [1..Threshold -> 0..Window]]
  /\ late \in [Providers -> 0..MaxLate]
  /\ near \in SUBSET Providers

\* A failure is attributed to a provider, and one that is being recorded leaves an
\* attempt for the crew that is built next.
Attributed ==
  \A r \in Runs : /\ pc[r] \in {"blamed", "recording"} => blamed[r] \in Providers
                  /\ pc[r] = "recording" => attempt[r] <= MaxRetries

RouterInv == RunTypes /\ CircuitTypes /\ Attributed /\ ClosedMeansHealthy

\* The initial state satisfies the inductive invariant.
LEMMA RouterInit == Init => RouterInv
<1> SUFFICES ASSUME Init PROVE RouterInv
  OBVIOUS
<1>1. RunTypes
  <2>1. 1 \in DOMAIN Stages /\ 1 \in 1..MaxRetries + 1
    BY RouterAssumption
  <2>2. /\ llms \in [Runs -> Seq(Models)]
        /\ walk \in [Runs -> Seq(Providers)]
    BY DEF Init
  <2>3. /\ blamed \in [Runs -> Models]
        /\ pc \in [Runs -> Activities]
    BY DEF Init, Models, Activities
  <2> QED BY <2>1, <2>2, <2>3 DEF Init, RunTypes
<1>2. CircuitTypes /\ ClosedMeansHealthy
  <2>1. /\ 0 \in 0..MaxSince /\ Window \in 0..Window /\ 0 \in 0..MaxLate
        /\ Threshold \in 1..Threshold
    BY RouterAssumption DEF MaxSince
  <2> QED BY <2>1 DEF Init, CircuitTypes, ClosedMeansHealthy, NoFailures
<1>3. Attributed
  BY DEF Init, Attributed
<1> QED BY <1>1, <1>2, <1>3 DEF RouterInv

\* What a step of a run does to the circuits.
CircuitStep ==
  \/ UNCHANGED <<circuitVars, late, near>>
  \/ \E p \in Providers : Ask(p) /\ UNCHANGED <<failures, late, near>>
  \/ \E p \in Providers : RecordFailure(p) /\ UNCHANGED <<late, near>>

\* Looking at a circuit keeps the types and the health of closed circuits.
LEMMA PollKeeps ==
  ASSUME CircuitTypes, ClosedMeansHealthy, NEW p \in Providers, Ask(p),
         UNCHANGED <<failures, late, near>>
  PROVE  CircuitTypes' /\ ClosedMeansHealthy'
<1>1. \/ UNCHANGED <<circuit, since>>
      \/ \E c \in {"OPEN", "HALF_OPEN"} : circuit' = [circuit EXCEPT ![p] = c]
                                          /\ since' = [since EXCEPT ![p] = 0]
  BY DEF Ask, Poll
<1>2. CASE UNCHANGED <<circuit, since>>
  BY <1>2 DEF CircuitTypes, ClosedMeansHealthy
<1>3. ASSUME NEW c \in {"OPEN", "HALF_OPEN"}, circuit' = [circuit EXCEPT ![p] = c],
             since' = [since EXCEPT ![p] = 0]
      PROVE  CircuitTypes' /\ ClosedMeansHealthy'
  <2>1. 0 \in 0..MaxSince
    BY RouterAssumption DEF MaxSince
  <2>2. CircuitTypes'
    BY <1>3, <2>1 DEF CircuitTypes
  <2>3. \A q \in Providers : circuit'[q] = "CLOSED" => circuit[q] = "CLOSED"
    BY <1>3 DEF CircuitTypes
  <2> QED BY <2>2, <2>3 DEF ClosedMeansHealthy
<1> QED BY <1>1, <1>2, <1>3

\* One more failure leaves a list of ages.
LEMMA WithFailureTyped ==
  ASSUME CircuitTypes, NEW p \in Providers
  PROVE  WithFailure(p) \in [1..Threshold -> 0..Window] /\ Threshold \in 1..Threshold
<1>1. ASSUME NEW i \in 1..Threshold
      PROVE  (IF i = 1 THEN 0 ELSE failures[p][i - 1]) \in 0..Window
  <2>1. failures[p] \in [1..Threshold -> 0..Window]
    BY DEF CircuitTypes
  <2>2. i = 1 \/ i - 1 \in 1..Threshold
    BY RouterAssumption
  <2>3. 0 \in 0..Window
    BY RouterAssumption
  <2> QED BY <2>1, <2>2, <2>3
<1> QED BY <1>1, RouterAssumption DEF WithFailure

\* Recording a failure keeps the types, and opens a circuit that would be unhealthy.
LEMMA FailureKeeps ==
  ASSUME CircuitTypes, ClosedMeansHealthy, NEW p \in Providers, RecordFailure(p),
         UNCHANGED <<late, near>>
  PROVE  CircuitTypes' /\ ClosedMeansHealthy'
<1> DEFINE f == WithFailure(p)
<1>1. f \in [1..Threshold -> 0..Window] /\ Threshold \in 1..Threshold
  BY WithFailureTyped
<1> HIDE DEF f
<1>2. failures' = [failures EXCEPT ![p] = f]
  BY DEF RecordFailure, f
<1>3. \/ circuit' = [circuit EXCEPT ![p] = "OPEN"] /\ since' = [since EXCEPT ![p] = 0]
      \/ UNCHANGED <<circuit, since>> /\ ~(f[Threshold] < Window /\ circuit[p] # "OPEN")
  BY DEF RecordFailure, f
<1>4. CircuitTypes'
  <2>1. 0 \in 0..MaxSince
    BY RouterAssumption DEF MaxSince
  <2>2. failures' \in [Providers -> [1..Threshold -> 0..Window]]
    BY <1>1, <1>2 DEF CircuitTypes
  <2> QED BY <1>3, <2>1, <2>2 DEF CircuitTypes
<1>5. ASSUME NEW q \in Providers, circuit'[q] = "CLOSED"
      PROVE  failures'[q][Threshold] = Window
  <2>1. CASE q # p
    <3>1. circuit[q] = "CLOSED" /\ failures'[q] = failures[q]
      BY <1>2, <1>3, <1>5, <2>1 DEF CircuitTypes
    <3> QED BY <3>1 DEF ClosedMeansHealthy
  <2>2. CASE q = p
    <3>1. circuit[p] = "CLOSED" /\ ~(f[Threshold] < Window)
      BY <1>3, <1>5, <2>2 DEF CircuitTypes
    <3>2. f[Threshold] \in 0..Window /\ Window \in Nat
      BY <1>1, RouterAssumption
    <3>3. f[Threshold] = Window
      BY <3>1, <3>2
    <3>4. failures'[p] = f
      BY <1>2 DEF CircuitTypes
    <3> QED BY <2>2, <3>3, <3>4
  <2> QED BY <2>1, <2>2
<1> QED BY <1>4, <1>5 DEF ClosedMeansHealthy

\* A step that leaves the runs alone and keeps the circuits keeps the invariant.
LEMMA CircuitStepKeeps ==
  ASSUME CircuitTypes, ClosedMeansHealthy, CircuitStep
  PROVE  CircuitTypes' /\ ClosedMeansHealthy'
<1>1. CASE UNCHANGED <<circuitVars, late, near>>
  BY <1>1 DEF circuitVars, CircuitTypes, ClosedMeansHealthy
<1> QED BY <1>1, PollKeeps, FailureKeeps DEF CircuitStep

\* The callback and time.
LEMMA OutsideKeeps ==
  ASSUME CircuitTypes, ClosedMeansHealthy,
         \/ \E p \in Providers : TokensCounted(p) \/ SuccessRecorded(p)
         \/ Midnight \/ Tick
  PROVE  /\ CircuitTypes' /\ ClosedMeansHealthy'
         /\ UNCHANGED <<runVars, excluded, leftBehind>>
<1>1. ASSUME NEW p \in Providers, TokensCounted(p)
      PROVE  CircuitTypes' /\ ClosedMeansHealthy' /\ UNCHANGED <<runVars, excluded, leftBehind>>
  BY <1>1 DEF TokensCounted, circuitVars, CircuitTypes, ClosedMeansHealthy
<1>2. ASSUME NEW p \in Providers, SuccessRecorded(p)
      PROVE  CircuitTypes' /\ ClosedMeansHealthy' /\ UNCHANGED <<runVars, excluded, leftBehind>>
  <2>1. /\ circuit' = [circuit EXCEPT ![p] = "CLOSED"]
        /\ failures' = [failures EXCEPT ![p] = NoFailures]
        /\ since' = [since EXCEPT ![p] = 0]
        /\ near' = near /\ UNCHANGED <<runVars, excluded, leftBehind>>
    BY <1>2 DEF SuccessRecorded
  <2>2. late' \in [Providers -> 0..MaxLate]
    <3>1. late[p] \in 0..MaxLate /\ late[p] > 0
      BY <1>2 DEF SuccessRecorded, CircuitTypes
    <3>2. late[p] - 1 \in 0..MaxLate
      BY <3>1, RouterAssumption
    <3>3. late' = [late EXCEPT ![p] = late[p] - 1]
      BY <1>2 DEF SuccessRecorded
    <3> QED BY <3>2, <3>3 DEF CircuitTypes
  <2>3. 0 \in 0..MaxSince /\ NoFailures \in [1..Threshold -> 0..Window]
        /\ NoFailures[Threshold] = Window
    BY RouterAssumption DEF MaxSince, NoFailures
  <2>4. CircuitTypes'
    BY <2>1, <2>2, <2>3 DEF CircuitTypes
  <2>5. ASSUME NEW q \in Providers, circuit'[q] = "CLOSED"
        PROVE  failures'[q][Threshold] = Window
    <3>1. CASE q = p
      BY <2>1, <2>3, <3>1 DEF CircuitTypes
    <3>2. CASE q # p
      BY <2>1, <2>5, <3>2 DEF CircuitTypes, ClosedMeansHealthy
    <3> QED BY <3>1, <3>2
  <2> QED BY <2>1, <2>4, <2>5 DEF ClosedMeansHealthy
<1>3. ASSUME Midnight
      PROVE  CircuitTypes' /\ ClosedMeansHealthy' /\ UNCHANGED <<runVars, excluded, leftBehind>>
  BY <1>3 DEF Midnight, circuitVars, CircuitTypes, ClosedMeansHealthy
<1>4. ASSUME Tick
      PROVE  CircuitTypes' /\ ClosedMeansHealthy' /\ UNCHANGED <<runVars, excluded, leftBehind>>
  <2>1. UNCHANGED <<circuit, late, near>> /\ UNCHANGED <<runVars, excluded, leftBehind>>
    BY <1>4 DEF Tick
  <2>2. Window \in Nat /\ MaxSince \in Nat /\ Threshold \in 1..Threshold
    BY RouterAssumption DEF MaxSince
  <2>3. \A limit \in Nat : \A a \in 0..limit :
          Older(a, limit) \in 0..limit /\ (a = limit => Older(a, limit) = limit)
    BY DEF Older
  <2>4. failures' \in [Providers -> [1..Threshold -> 0..Window]]
    <3>1. ASSUME NEW q \in Providers, NEW i \in 1..Threshold
          PROVE  Older(failures[q][i], Window) \in 0..Window
      <4>1. failures[q][i] \in 0..Window
        BY DEF CircuitTypes
      <4> QED BY <2>2, <2>3, <4>1
    <3> QED BY <1>4, <3>1 DEF Tick
  <2>5. since' \in [Providers -> 0..MaxSince]
    <3>1. ASSUME NEW q \in Providers
          PROVE  /\ since[q] \in 0..MaxSince
                 /\ Older(since[q], MaxSince) \in 0..MaxSince
      <4>1. since[q] \in 0..MaxSince
        BY DEF CircuitTypes
      <4> QED BY <2>2, <2>3, <4>1
    <3> QED BY <1>4, <3>1 DEF Tick
  <2>6. CircuitTypes'
    BY <2>1, <2>4, <2>5 DEF CircuitTypes
  <2>7. ASSUME NEW q \in Providers, circuit'[q] = "CLOSED"
        PROVE  failures'[q][Threshold] = Window
    <3>1. failures[q][Threshold] = Window
      BY <2>1, <2>7 DEF ClosedMeansHealthy
    <3>2. failures'[q][Threshold] = Older(failures[q][Threshold], Window)
      BY <1>4, <2>2 DEF Tick
    <3>3. Window \in 0..Window
      BY <2>2
    <3> QED BY <2>2, <2>3, <3>1, <3>2, <3>3
  <2> QED BY <2>1, <2>6, <2>7 DEF ClosedMeansHealthy
<1> QED BY <1>1, <1>2, <1>3, <1>4

---------------------------------------------------------------------------
(* The steps of a run *)

\* Moving a run keeps the types of the activities.
LEMMA GotoTyped ==
  ASSUME RunTypes, NEW r \in Runs, NEW activity \in Activities, Goto(r, activity)
  PROVE  /\ pc' \in [Runs -> Activities]
         /\ pc'[r] = activity
         /\ \A q \in Runs \ {r} : pc'[q] = pc[q]
  BY DEF Goto, RunTypes

\* A step that sends r somewhere else than to "blamed" or "recording", and leaves the
\* rest of what is attributed alone.
LEMMA AttributedElsewhere ==
  ASSUME Attributed, NEW r \in Runs, \A q \in Runs \ {r} : pc'[q] = pc[q],
         pc'[r] \notin {"blamed", "recording"},
         \A q \in Runs \ {r} : blamed'[q] = blamed[q] /\ attempt'[q] = attempt[q]
  PROVE  Attributed'
<1> SUFFICES ASSUME NEW q \in Runs
             PROVE  /\ pc'[q] \in {"blamed", "recording"} => blamed'[q] \in Providers
                    /\ pc'[q] = "recording" => attempt'[q] <= MaxRetries
  BY DEF Attributed
<1>1. CASE q = r
  BY <1>1
<1>2. CASE q # r
  BY <1>2 DEF Attributed
<1> QED BY <1>1, <1>2

\* The end of a run keeps the types of the runs and what they are blamed for.
LEMMA EndRunKeeps ==
  ASSUME RunTypes, Attributed, NEW r \in Runs, EndRun(r),
         UNCHANGED <<attempt, walk, blamed>>
  PROVE  RunTypes' /\ Attributed'
<1>1. /\ pc' \in [Runs -> Activities]
      /\ pc'[r] = "idle"
      /\ \A q \in Runs \ {r} : pc'[q] = pc[q]
  BY GotoTyped DEF EndRun, Activities
<1>2. 1 \in DOMAIN Stages /\ <<>> \in Seq(Models)
  BY RouterAssumption
<1>3. RunTypes'
  BY <1>1, <1>2 DEF EndRun, RunTypes
<1> QED BY <1>1, <1>3, AttributedElsewhere

\* So does going on with the next stage.
LEMMA NextStageKeeps ==
  ASSUME RunTypes, Attributed, NEW r \in Runs, NextStage(r),
         UNCHANGED <<attempt, walk, blamed>>
  PROVE  RunTypes' /\ Attributed'
<1>1. /\ pc' \in [Runs -> Activities]
      /\ pc'[r] = "ready"
      /\ \A q \in Runs \ {r} : pc'[q] = pc[q]
  BY GotoTyped DEF NextStage, Activities
<1>2. stage' \in [Runs -> DOMAIN Stages]
  <2>1. stage[r] \in DOMAIN Stages /\ stage[r] < Len(Stages)
    BY DEF RunTypes, NextStage
  <2>2. stage[r] + 1 \in DOMAIN Stages
    BY <2>1, RouterAssumption
  <2>3. stage' = [stage EXCEPT ![r] = stage[r] + 1]
    BY DEF NextStage
  <2> QED BY <2>2, <2>3 DEF RunTypes
<1>3. RunTypes'
  <2>1. <<>> \in Seq(Models)
    OBVIOUS
  <2> QED BY <1>1, <1>2, <2>1 DEF NextStage, RunTypes
<1> QED BY <1>1, <1>3, AttributedElsewhere

\* So does starting on a crew.
LEMMA StartBuildingTyped ==
  ASSUME RunTypes, NEW r \in Runs, StartBuilding(r)
  PROVE  /\ pc' \in [Runs -> Activities]
         /\ pc'[r] = "building"
         /\ \A q \in Runs \ {r} : pc'[q] = pc[q]
         /\ llms' \in [Runs -> Seq(Models)]
         /\ llms'[r] = <<>>
         /\ \A q \in Runs \ {r} : llms'[q] = llms[q]
         /\ walk' \in [Runs -> Seq(Providers)]
<1>1. /\ pc' \in [Runs -> Activities]
      /\ pc'[r] = "building"
      /\ \A q \in Runs \ {r} : pc'[q] = pc[q]
  BY GotoTyped DEF StartBuilding, Activities
<1>2. Stages[stage[r]][1] \in Seq(Providers)
  <2>1. stage[r] \in DOMAIN Stages
    BY DEF RunTypes
  <2>2. Stages[stage[r]] \in Seq(Seq(Providers)) /\ Stages[stage[r]] # <<>>
    BY <2>1, RouterAssumption
  <2> QED BY <2>2
<1>3. <<>> \in Seq(Models)
  OBVIOUS
<1>4. /\ llms' = [llms EXCEPT ![r] = <<>>]
      /\ walk' = [walk EXCEPT ![r] = Stages[stage[r]][1]]
  BY DEF StartBuilding
<1>5. llms' \in [Runs -> Seq(Models)] /\ llms'[r] = <<>>
      /\ \A q \in Runs \ {r} : llms'[q] = llms[q]
  BY <1>3, <1>4 DEF RunTypes
<1>6. walk' \in [Runs -> Seq(Providers)]
  BY <1>2, <1>4 DEF RunTypes
<1> QED BY <1>1, <1>5, <1>6

\* What a run does outside of its crews.
LEMMA BetweenStages ==
  ASSUME RunTypes, Attributed, NEW r \in Runs,
         \/ BeginRun(r) \/ BeginStage(r) \/ SkipStage(r) \/ Abort(r)
         \/ KickoffReturns(r) \/ StageFailed(r) \/ CallSucceeds(r)
  PROVE  RunTypes' /\ Attributed'
<1>1. CASE BeginRun(r)
  <2>1. /\ Goto(r, "ready")
        /\ UNCHANGED <<stage, attempt, llms, walk, blamed, tried, dropped, excluded, leftBehind>>
    BY <1>1 DEF BeginRun
  <2>2. /\ pc' \in [Runs -> Activities]
        /\ pc'[r] = "ready"
        /\ \A q \in Runs \ {r} : pc'[q] = pc[q]
    BY <2>1, GotoTyped DEF Activities
  <2>3. RunTypes'
    BY <2>1, <2>2 DEF RunTypes
  <2> QED BY <2>1, <2>2, <2>3, AttributedElsewhere
<1>2. CASE BeginStage(r)
  <2>1. /\ StartBuilding(r)
        /\ attempt' = [attempt EXCEPT ![r] = 1]
        /\ UNCHANGED <<stage, blamed, tried, dropped, excluded, leftBehind>>
    BY <1>2 DEF BeginStage
  <2>2. /\ pc' \in [Runs -> Activities]
        /\ pc'[r] = "building"
        /\ \A q \in Runs \ {r} : pc'[q] = pc[q]
        /\ llms' \in [Runs -> Seq(Models)]
        /\ walk' \in [Runs -> Seq(Providers)]
    BY <2>1, StartBuildingTyped
  <2>3. 1 \in 1..MaxRetries + 1
    BY RouterAssumption
  <2>4. /\ attempt' \in [Runs -> 1..MaxRetries + 1]
        /\ \A q \in Runs \ {r} : attempt'[q] = attempt[q]
    BY <2>1, <2>3 DEF RunTypes
  <2>5. RunTypes'
    BY <2>1, <2>2, <2>4 DEF RunTypes
  <2> QED BY <2>1, <2>2, <2>4, <2>5, AttributedElsewhere
<1>3. CASE SkipStage(r)
  BY <1>3, NextStageKeeps DEF SkipStage
<1>4. CASE Abort(r)
  BY <1>4, EndRunKeeps DEF Abort
<1>5. CASE KickoffReturns(r)
  BY <1>5, NextStageKeeps, EndRunKeeps DEF KickoffReturns
<1>6. CASE StageFailed(r)
  BY <1>6, NextStageKeeps, EndRunKeeps DEF StageFailed
<1>7. CASE CallSucceeds(r)
  BY <1>7 DEF CallSucceeds, runVars, RunTypes, Attributed
<1> QED BY <1>1, <1>2, <1>3, <1>4, <1>5, <1>6, <1>7

\* A call that succeeds adds one to the successes not yet reported.
LEMMA CallSucceedsCircuits ==
  ASSUME CircuitTypes, ClosedMeansHealthy, NEW r \in Runs, CallSucceeds(r)
  PROVE  CircuitTypes' /\ ClosedMeansHealthy'
<1>1. UNCHANGED <<circuit, since, failures, near>>
  BY DEF CallSucceeds, circuitVars
<1>2. late' \in [Providers -> 0..MaxLate]
  <2>1. PICK p \in Crew(r) \cap Reported :
               late[p] < MaxLate /\ late' = [late EXCEPT ![p] = late[p] + 1]
    BY DEF CallSucceeds
  <2>2. p \in Providers
    BY RouterAssumption
  <2>3. late[p] \in 0..MaxLate /\ MaxLate \in Nat
    BY <2>2, RouterAssumption DEF CircuitTypes
  <2>4. late[p] + 1 \in 0..MaxLate
    BY <2>1, <2>3
  <2> QED BY <2>1, <2>4 DEF CircuitTypes
<1> QED BY <1>1, <1>2 DEF CircuitTypes, ClosedMeansHealthy

\* The head of a chain is a provider and its tail is a chain.
LEMMA HeadAndTail ==
  ASSUME RunTypes, NEW r \in Runs, walk[r] # <<>>
  PROVE  Head(walk[r]) \in Providers /\ Tail(walk[r]) \in Seq(Providers)
<1>1. walk[r] \in Seq(Providers)
  BY DEF RunTypes
<1> QED BY <1>1

\* Adding a model to the crew keeps the types of the runs.
LEMMA BuildKeeps ==
  ASSUME RunTypes, Attributed, NEW r \in Runs, NEW m \in Models, Build(r, m),
         pc[r] = "building", UNCHANGED <<stage, attempt, dropped, excluded, leftBehind>>
  PROVE  RunTypes' /\ Attributed'
<1>1. llms' \in [Runs -> Seq(Models)]
  <2>1. llms[r] \in Seq(Models)
    BY DEF RunTypes
  <2>2. Append(llms[r], m) \in Seq(Models)
    BY <2>1
  <2>3. llms' = [llms EXCEPT ![r] = Append(llms[r], m)]
    BY DEF Build
  <2> QED BY <2>2, <2>3 DEF RunTypes
<1>2. CASE Len(llms[r]) + 1 < Len(Stages[stage[r]])
  <2>1. Stages[stage[r]][Len(llms[r]) + 2] \in Seq(Providers)
    <3>1. Stages[stage[r]] \in Seq(Seq(Providers))
      BY RouterAssumption DEF RunTypes
    <3>2. Len(llms[r]) \in Nat
      BY DEF RunTypes
    <3> QED BY <1>2, <3>1, <3>2
  <2>2. walk' \in [Runs -> Seq(Providers)] /\ UNCHANGED <<pc, tried, blamed>>
    BY <1>2, <2>1 DEF Build, RunTypes
  <2> QED BY <1>1, <2>2 DEF RunTypes, Attributed
<1>3. CASE ~(Len(llms[r]) + 1 < Len(Stages[stage[r]]))
  <2>1. /\ Goto(r, "calling")
        /\ walk' = [walk EXCEPT ![r] = <<>>]
        /\ tried' = [tried EXCEPT ![r] = tried[r] \cup Crew(r) \cup {m}]
        /\ blamed' = blamed
    BY <1>3 DEF Build
  <2>2. /\ pc' \in [Runs -> Activities]
        /\ pc'[r] = "calling"
        /\ \A q \in Runs \ {r} : pc'[q] = pc[q]
    BY <2>1, GotoTyped DEF Activities
  <2>3. walk' \in [Runs -> Seq(Providers)]
    <3>1. <<>> \in Seq(Providers)
      OBVIOUS
    <3> QED BY <2>1, <3>1 DEF RunTypes
  <2>4. tried' \in [Runs -> SUBSET Models]
    <3>1. llms[r] \in Seq(Models)
      BY DEF RunTypes
    <3>2. Crew(r) \subseteq Models
      BY <3>1 DEF Crew
    <3> QED BY <2>1, <3>2 DEF RunTypes
  <2>5. RunTypes'
    BY <1>1, <2>1, <2>2, <2>3, <2>4 DEF RunTypes
  <2> QED BY <2>1, <2>2, <2>5, AttributedElsewhere
<1> QED BY <1>2, <1>3

\* Asking about providers and taking one keeps the invariant.
LEMMA ChooseKeeps ==
  ASSUME RunTypes, Attributed, NEW r \in Runs, Choose(r)
  PROVE  RunTypes' /\ Attributed' /\ CircuitStep
<1>1. CASE Skip(r)
  <2>1. /\ Asking(r)
        /\ walk' = [walk EXCEPT ![r] = Tail(walk[r])]
        /\ UNCHANGED <<pc, llms, blamed, tried>>
    BY <1>1 DEF Skip
  <2>2. /\ walk[r] # <<>> /\ Ask(Head(walk[r]))
        /\ UNCHANGED <<failures, late, near, stage, attempt, dropped, excluded, leftBehind>>
    BY <2>1 DEF Asking
  <2>3. walk' \in [Runs -> Seq(Providers)]
    BY <2>1, <2>2, HeadAndTail DEF RunTypes
  <2>4. RunTypes' /\ Attributed'
    BY <2>1, <2>2, <2>3 DEF RunTypes, Attributed
  <2> QED BY <2>2, <2>4, HeadAndTail DEF CircuitStep
<1>2. CASE TakeProvider(r)
  <2>1. /\ Asking(r) /\ pc[r] = "building" /\ Build(r, Head(walk[r]))
    BY <1>2 DEF TakeProvider
  <2>2. /\ walk[r] # <<>> /\ Ask(Head(walk[r]))
        /\ UNCHANGED <<failures, late, near, stage, attempt, dropped, excluded, leftBehind>>
    BY <2>1 DEF Asking
  <2>3. Head(walk[r]) \in Providers /\ Head(walk[r]) \in Models
    BY <2>2, HeadAndTail DEF Models
  <2>4. RunTypes' /\ Attributed'
    BY <2>1, <2>2, <2>3, BuildKeeps
  <2> QED BY <2>2, <2>3, <2>4 DEF CircuitStep
<1>3. CASE TakeLocal(r)
  <2>1. /\ pc[r] = "building" /\ Build(r, Local)
        /\ UNCHANGED <<stage, attempt, dropped, excluded, leftBehind>>
        /\ UNCHANGED <<circuitVars, late, near>>
    BY <1>3 DEF TakeLocal
  <2>2. Local \in Models
    BY DEF Models
  <2> QED BY <2>1, <2>2, BuildKeeps DEF CircuitStep
<1> QED BY <1>1, <1>2, <1>3 DEF Choose

\* So does a failing call.
LEMMA FailKeeps ==
  ASSUME RunTypes, Attributed, NEW r \in Runs, Fail(r)
  PROVE  RunTypes' /\ Attributed' /\ CircuitStep
<1>1. CASE FailsNamed(r)
  <2>1. /\ Goto(r, "blamed")
        /\ UNCHANGED <<stage, attempt, llms, walk, tried, dropped, excluded, leftBehind>>
        /\ UNCHANGED <<circuitVars, late, near>>
    BY <1>1 DEF FailsNamed
  <2>2. PICK p \in Providers : blamed' = [blamed EXCEPT ![r] = p]
    <3>1. Crew(r) \subseteq Models
      BY DEF RunTypes, Crew
    <3> QED BY <1>1, <3>1, RouterAssumption DEF FailsNamed
  <2>3. /\ pc' \in [Runs -> Activities]
        /\ pc'[r] = "blamed"
        /\ \A q \in Runs \ {r} : pc'[q] = pc[q]
    BY <2>1, GotoTyped DEF Activities
  <2>4. /\ blamed' \in [Runs -> Models] /\ blamed'[r] \in Providers
        /\ \A q \in Runs \ {r} : blamed'[q] = blamed[q]
    BY <2>2 DEF RunTypes, Models
  <2>5. RunTypes'
    BY <2>1, <2>3, <2>4 DEF RunTypes
  <2>6. Attributed'
    BY <2>1, <2>3, <2>4 DEF Attributed
  <2> QED BY <2>1, <2>5, <2>6 DEF CircuitStep
<1>2. CASE FailsUnnamed(r)
  <2>1. /\ Goto(r, "blaming")
        /\ walk' = [walk EXCEPT ![r] = Suspects]
        /\ UNCHANGED <<stage, attempt, llms, blamed, tried, dropped, excluded, leftBehind>>
        /\ UNCHANGED <<circuitVars, late, near>>
    BY <1>2 DEF FailsUnnamed
  <2>2. /\ pc' \in [Runs -> Activities]
        /\ pc'[r] = "blaming"
        /\ \A q \in Runs \ {r} : pc'[q] = pc[q]
    BY <2>1, GotoTyped DEF Activities
  <2>3. walk' \in [Runs -> Seq(Providers)]
    BY <2>1, RouterAssumption DEF RunTypes
  <2>4. RunTypes'
    BY <2>1, <2>2, <2>3 DEF RunTypes
  <2> QED BY <2>1, <2>2, <2>4, AttributedElsewhere DEF CircuitStep
<1>3. CASE FailsOtherwise(r)
  <2>1. /\ Goto(r, "failed")
        /\ UNCHANGED <<stage, attempt, llms, walk, blamed, tried, dropped, excluded, leftBehind>>
        /\ UNCHANGED <<circuitVars, late, near>>
    BY <1>3 DEF FailsOtherwise
  <2>2. /\ pc' \in [Runs -> Activities]
        /\ pc'[r] = "failed"
        /\ \A q \in Runs \ {r} : pc'[q] = pc[q]
    BY <2>1, GotoTyped DEF Activities
  <2>3. RunTypes'
    BY <2>1, <2>2 DEF RunTypes
  <2> QED BY <2>1, <2>2, <2>3, AttributedElsewhere DEF CircuitStep
<1> QED BY <1>1, <1>2, <1>3 DEF Fail

\* So does attributing the failure, excluding the provider and retrying.
LEMMA AttributeKeeps ==
  ASSUME RunTypes, Attributed, NEW r \in Runs, Attribute(r)
  PROVE  RunTypes' /\ Attributed' /\ CircuitStep
<1>1. CASE Accuse(r)
  <2>1. /\ Asking(r)
        /\ blamed' = [blamed EXCEPT ![r] = Head(walk[r])]
        /\ Goto(r, "blamed")
        /\ walk' = [walk EXCEPT ![r] = <<>>]
        /\ UNCHANGED <<llms, tried>>
    BY <1>1 DEF Accuse
  <2>2. /\ walk[r] # <<>> /\ Ask(Head(walk[r]))
        /\ UNCHANGED <<failures, late, near, stage, attempt, dropped, excluded, leftBehind>>
    BY <2>1 DEF Asking
  <2>3. Head(walk[r]) \in Providers
    BY <2>2, HeadAndTail
  <2>4. /\ pc' \in [Runs -> Activities]
        /\ pc'[r] = "blamed"
        /\ \A q \in Runs \ {r} : pc'[q] = pc[q]
    BY <2>1, GotoTyped DEF Activities
  <2>5. /\ blamed' \in [Runs -> Models] /\ blamed'[r] \in Providers
        /\ \A q \in Runs \ {r} : blamed'[q] = blamed[q]
    BY <2>1, <2>3 DEF RunTypes, Models
  <2>6. walk' \in [Runs -> Seq(Providers)]
    <3>1. <<>> \in Seq(Providers)
      OBVIOUS
    <3> QED BY <2>1, <3>1 DEF RunTypes
  <2>7. RunTypes'
    BY <2>1, <2>2, <2>4, <2>5, <2>6 DEF RunTypes
  <2>8. Attributed'
    BY <2>2, <2>4, <2>5 DEF Attributed
  <2> QED BY <2>2, <2>3, <2>7, <2>8 DEF CircuitStep
<1>2. CASE NobodyToAccuse(r) \/ GiveUp(r)
  <2>1. /\ Goto(r, "failed")
        /\ UNCHANGED <<stage, attempt, llms, walk, blamed, tried, dropped, excluded, leftBehind>>
        /\ UNCHANGED <<circuitVars, late, near>>
    BY <1>2 DEF NobodyToAccuse, GiveUp
  <2>2. /\ pc' \in [Runs -> Activities]
        /\ pc'[r] = "failed"
        /\ \A q \in Runs \ {r} : pc'[q] = pc[q]
    BY <2>1, GotoTyped DEF Activities
  <2>3. RunTypes'
    BY <2>1, <2>2 DEF RunTypes
  <2> QED BY <2>1, <2>2, <2>3, AttributedElsewhere DEF CircuitStep
<1>3. CASE Exclude(r)
  <2>1. /\ pc[r] = "blamed" /\ attempt[r] <= MaxRetries
        /\ excluded' = excluded \cup {blamed[r]}
        /\ dropped' = [dropped EXCEPT ![r] = dropped[r] \cup {blamed[r]}]
        /\ Goto(r, "recording")
        /\ UNCHANGED <<stage, attempt, llms, walk, blamed, tried, leftBehind>>
        /\ UNCHANGED <<circuitVars, late, near>>
    BY <1>3 DEF Exclude
  <2>2. blamed[r] \in Providers
    BY <2>1 DEF Attributed
  <2>3. /\ pc' \in [Runs -> Activities]
        /\ pc'[r] = "recording"
        /\ \A q \in Runs \ {r} : pc'[q] = pc[q]
    BY <2>1, GotoTyped DEF Activities
  <2>4. RunTypes'
    BY <2>1, <2>2, <2>3 DEF RunTypes
  <2>5. Attributed'
    BY <2>1, <2>2, <2>3 DEF Attributed
  <2> QED BY <2>1, <2>4, <2>5 DEF CircuitStep
<1>4. CASE Retry(r)
  <2>1. /\ pc[r] = "recording"
        /\ RecordFailure(blamed[r])
        /\ attempt' = [attempt EXCEPT ![r] = attempt[r] + 1]
        /\ StartBuilding(r)
        /\ UNCHANGED <<stage, blamed, tried, dropped, excluded, leftBehind, late, near>>
    BY <1>4 DEF Retry
  <2>2. blamed[r] \in Providers /\ attempt[r] <= MaxRetries
    BY <2>1 DEF Attributed
  <2>3. /\ pc' \in [Runs -> Activities]
        /\ pc'[r] = "building"
        /\ \A q \in Runs \ {r} : pc'[q] = pc[q]
        /\ llms' \in [Runs -> Seq(Models)]
        /\ walk' \in [Runs -> Seq(Providers)]
    BY <2>1, StartBuildingTyped
  <2>4. /\ attempt' \in [Runs -> 1..MaxRetries + 1]
        /\ \A q \in Runs \ {r} : attempt'[q] = attempt[q]
    <3>1. attempt[r] \in 1..MaxRetries + 1 /\ MaxRetries \in Nat
      BY RouterAssumption DEF RunTypes
    <3>2. attempt[r] + 1 \in 1..MaxRetries + 1
      BY <2>2, <3>1
    <3> QED BY <2>1, <3>2 DEF RunTypes
  <2>5. RunTypes'
    BY <2>1, <2>3, <2>4 DEF RunTypes
  <2>6. Attributed'
    BY <2>1, <2>3, <2>4, AttributedElsewhere
  <2> QED BY <2>1, <2>2, <2>5, <2>6 DEF CircuitStep
<1> QED BY <1>1, <1>2, <1>3, <1>4 DEF Attribute

\* Every step keeps the inductive invariant.
LEMMA RouterStep == RouterInv /\ [Next]_vars => RouterInv'
<1> SUFFICES ASSUME RouterInv, [Next]_vars PROVE RouterInv'
  OBVIOUS
<1>0. RunTypes /\ CircuitTypes /\ Attributed /\ ClosedMeansHealthy
  BY DEF RouterInv
<1>1. ASSUME NEW r \in Runs,
             \/ BeginRun(r) \/ BeginStage(r) \/ SkipStage(r) \/ Abort(r)
             \/ KickoffReturns(r) \/ StageFailed(r)
      PROVE  RouterInv'
  <2>1. RunTypes' /\ Attributed'
    BY <1>0, <1>1, BetweenStages
  <2>2. CircuitStep
    BY <1>1 DEF BeginRun, BeginStage, SkipStage, Abort, KickoffReturns, StageFailed, CircuitStep
  <2> QED BY <1>0, <2>1, <2>2, CircuitStepKeeps DEF RouterInv
<1>2. ASSUME NEW r \in Runs, CallSucceeds(r) PROVE RouterInv'
  BY <1>0, <1>2, BetweenStages, CallSucceedsCircuits DEF RouterInv
<1>3. ASSUME NEW r \in Runs, Choose(r) \/ Fail(r) \/ Attribute(r) PROVE RouterInv'
  <2>1. RunTypes' /\ Attributed' /\ CircuitStep
    BY <1>0, <1>3, ChooseKeeps, FailKeeps, AttributeKeeps
  <2> QED BY <1>0, <2>1, CircuitStepKeeps DEF RouterInv
<1>4. ASSUME \/ \E p \in Providers : TokensCounted(p) \/ SuccessRecorded(p)
             \/ Midnight \/ Tick
      PROVE  RouterInv'
  <2>1. CircuitTypes' /\ ClosedMeansHealthy' /\ UNCHANGED <<runVars, excluded, leftBehind>>
    BY <1>0, <1>4, OutsideKeeps
  <2>2. RunTypes' /\ Attributed'
    BY <1>0, <2>1 DEF runVars, RunTypes, Attributed
  <2> QED BY <2>1, <2>2 DEF RouterInv
<1>5. CASE UNCHANGED vars
  BY <1>0, <1>5 DEF vars, runVars, circuitVars, RouterInv, RunTypes, CircuitTypes,
                    Attributed, ClosedMeansHealthy
<1> QED BY <1>1, <1>2, <1>3, <1>4, <1>5 DEF Next, Progress

\* RouterInv is an invariant.
LEMMA RouterAlways == Spec => []RouterInv
  BY RouterInit, RouterStep, PTL DEF Spec

\* Every variable keeps its type, whatever the runs, chains, providers and thresholds.
THEOREM RouterTypeOK == Spec => []TypeOK
<1>1. RouterInv => TypeOK
  BY DEF RouterInv, RunTypes, CircuitTypes, TypeOK
<1> QED BY <1>1, RouterAlways, PTL

\* Whatever the order of failures, polls, late successes and time, a circuit is not
\* closed on a provider with a threshold of failures within the window.
THEOREM RouterClosedMeansHealthy == Spec => []ClosedMeansHealthy
<1>1. RouterInv => ClosedMeansHealthy
  BY DEF RouterInv
<1> QED BY <1>1, RouterAlways, PTL

---------------------------------------------------------------------------
(* Exclusions end with the runs *)

\* A step of a run adds to the exclusions what the run will answer for, or lifts them all,
\* or ends the run with its record lost, or changes none of this.
LEMMA ExclusionStep ==
  ASSUME RunTypes, NEW r \in Runs,
         \/ BeginRun(r) \/ BeginStage(r) \/ SkipStage(r) \/ Abort(r)
         \/ CallSucceeds(r) \/ Progress(r)
  PROVE  \/ UNCHANGED <<excluded, leftBehind, dropped>>
         \/ excluded' = {}
         \/ /\ UNCHANGED excluded
            /\ leftBehind' = leftBehind \cup dropped[r]
            /\ dropped' = [dropped EXCEPT ![r] = {}]
         \/ /\ excluded' = excluded \cup {blamed[r]}
            /\ UNCHANGED leftBehind
            /\ dropped' = [dropped EXCEPT ![r] = dropped[r] \cup {blamed[r]}]
<1>1. CASE BeginRun(r) \/ BeginStage(r) \/ SkipStage(r) \/ CallSucceeds(r)
  BY <1>1 DEF BeginRun, BeginStage, SkipStage, NextStage, CallSucceeds, runVars
<1>2. CASE Abort(r) \/ KickoffReturns(r) \/ StageFailed(r)
  BY <1>2 DEF Abort, KickoffReturns, StageFailed, EndRun, NextStage
<1>3. CASE Choose(r)
  BY <1>3 DEF Choose, Skip, TakeProvider, TakeLocal, Asking
<1>4. CASE Fail(r)
  BY <1>4 DEF Fail, FailsNamed, FailsUnnamed, FailsOtherwise
<1>5. CASE Attribute(r)
  BY <1>5 DEF Attribute, Accuse, Asking, NobodyToAccuse, Exclude, GiveUp, Retry
<1> QED BY <1>1, <1>2, <1>3, <1>4, <1>5 DEF Progress

\* No step leaves an exclusion nobody answers for.
LEMMA ExclusionsStep == RouterInv /\ ExclusionsEnd /\ [Next]_vars => ExclusionsEnd'
<1> SUFFICES ASSUME RouterInv, ExclusionsEnd, [Next]_vars PROVE ExclusionsEnd'
  OBVIOUS
<1>0. RunTypes /\ CircuitTypes /\ ClosedMeansHealthy
  BY DEF RouterInv
<1>1. ASSUME UNCHANGED <<excluded, leftBehind, dropped>> PROVE ExclusionsEnd'
  BY <1>1 DEF ExclusionsEnd
<1>2. ASSUME NEW r \in Runs,
             \/ BeginRun(r) \/ BeginStage(r) \/ SkipStage(r) \/ Abort(r)
             \/ CallSucceeds(r) \/ Progress(r)
      PROVE  ExclusionsEnd'
  <2>1. CASE excluded' = {}
    BY <2>1 DEF ExclusionsEnd
  <2>2. CASE /\ UNCHANGED excluded
             /\ leftBehind' = leftBehind \cup dropped[r]
             /\ dropped' = [dropped EXCEPT ![r] = {}]
    <3>1. \A q \in Runs : q # r => dropped'[q] = dropped[q]
      BY <1>0, <2>2 DEF RunTypes
    <3>2. \A q \in Runs : dropped[q] \subseteq leftBehind' \cup dropped'[q]
      BY <2>2, <3>1
    <3> QED BY <2>2, <3>2 DEF ExclusionsEnd
  <2>3. CASE /\ excluded' = excluded \cup {blamed[r]}
             /\ UNCHANGED leftBehind
             /\ dropped' = [dropped EXCEPT ![r] = dropped[r] \cup {blamed[r]}]
    <3>1. /\ blamed[r] \in dropped'[r]
          /\ \A q \in Runs : dropped[q] \subseteq dropped'[q]
      BY <1>0, <2>3 DEF RunTypes
    <3> QED BY <2>3, <3>1 DEF ExclusionsEnd
  <2> QED BY <1>0, <1>1, <1>2, <2>1, <2>2, <2>3, ExclusionStep
<1>3. ASSUME \/ \E p \in Providers : TokensCounted(p) \/ SuccessRecorded(p)
             \/ Midnight \/ Tick
      PROVE  ExclusionsEnd'
  BY <1>0, <1>1, <1>3, OutsideKeeps DEF runVars
<1>4. CASE UNCHANGED vars
  BY <1>1, <1>4 DEF vars, runVars
<1> QED BY <1>2, <1>3, <1>4 DEF Next

\* However many runs share the process and whichever ends first, each exclusion belongs to
\* a run under way, or to one whose end could not be recorded: once the last run is over
\* only those of the latter kind are left.
THEOREM RouterExclusionsEnd == Spec => []ExclusionsEnd
<1>1. Init => ExclusionsEnd
  BY DEF Init, ExclusionsEnd
<1> QED BY <1>1, RouterAlways, ExclusionsStep, PTL DEF Spec

---------------------------------------------------------------------------
(* A run that is alone does not go back to a provider *)

\* What the run has excluded stays excluded, and the crew it builds avoids it.
DroppedInv ==
  \A r \in Runs :
    /\ dropped[r] \subseteq excluded
    /\ pc[r] \in {"building", "calling"} => Crew(r) \cap dropped[r] = {}

Alone == \A r, q \in Runs : r = q

\* A step that adds no model to the crew and changes no exclusion.
LEMMA QuietStep ==
  ASSUME Alone, DroppedInv, NEW r \in Runs, UNCHANGED <<dropped, excluded, leftBehind>>,
         \/ pc'[r] \notin {"building", "calling"}
         \/ llms'[r] = <<>>
         \/ pc[r] \in {"building", "calling"} /\ llms'[r] = llms[r]
  PROVE  DroppedInv'
<1>1. dropped'[r] \subseteq excluded'
  BY DEF DroppedInv
<1>2. pc'[r] \in {"building", "calling"} => Crew(r)' \cap dropped'[r] = {}
  BY DEF DroppedInv, Crew
<1> QED BY <1>1, <1>2 DEF Alone, DroppedInv

\* The end of a run forgets what it dropped together with its crew.
LEMMA EndRunDropped ==
  ASSUME Alone, RunTypes, NEW r \in Runs, EndRun(r)
  PROVE  DroppedInv'
<1>1. pc'[r] = "idle" /\ dropped'[r] = {}
  BY DEF EndRun, Goto, RunTypes
<1> QED BY <1>1 DEF Alone, DroppedInv

\* A model that is not dropped may join the crew.
LEMMA BuildDropped ==
  ASSUME Alone, RunTypes, DroppedInv, NEW r \in Runs, NEW m \in Models, Build(r, m),
         pc[r] = "building", m \notin excluded, UNCHANGED <<dropped, excluded, leftBehind>>
  PROVE  DroppedInv'
<1>1. llms[r] \in Seq(Models) /\ llms'[r] = Append(llms[r], m)
  BY DEF Build, RunTypes
<1>2. Crew(r)' \subseteq Crew(r) \cup {m}
  BY <1>1 DEF Crew
<1>3. dropped[r] \subseteq excluded /\ Crew(r) \cap dropped[r] = {}
  BY DEF DroppedInv
<1>4. Crew(r)' \cap dropped'[r] = {}
  BY <1>2, <1>3
<1> QED BY <1>3, <1>4 DEF Alone, DroppedInv

\* With one run in the process, no step lets an excluded provider into its crew.
LEMMA DroppedStep ==
  ASSUME Alone PROVE RouterInv /\ DroppedInv /\ [Next]_vars => DroppedInv'
<1> SUFFICES ASSUME RouterInv, DroppedInv, [Next]_vars PROVE DroppedInv'
  OBVIOUS
<1>0. RunTypes /\ CircuitTypes /\ ClosedMeansHealthy
  BY DEF RouterInv
<1>1. ASSUME NEW r \in Runs, Choose(r) PROVE DroppedInv'
  <2>1. CASE Skip(r)
    <3>1. UNCHANGED <<pc, llms, dropped, excluded, leftBehind>> /\ pc[r] = pc'[r] /\ llms'[r] = llms[r]
      BY <2>1 DEF Skip, Asking
    <3> QED BY <3>1, QuietStep
  <2>2. CASE TakeProvider(r)
    <3>1. /\ Asking(r) /\ pc[r] = "building" /\ Build(r, Head(walk[r]))
          /\ Head(walk[r]) \notin excluded
      BY <2>2 DEF TakeProvider, Refused
    <3>2. walk[r] # <<>> /\ UNCHANGED <<dropped, excluded, leftBehind>>
      BY <3>1 DEF Asking
    <3>3. Head(walk[r]) \in Models
      BY <1>0, <3>2, HeadAndTail DEF Models
    <3> QED BY <1>0, <3>1, <3>2, <3>3, BuildDropped
  <2>3. CASE TakeLocal(r)
    <3>1. /\ pc[r] = "building" /\ Build(r, Local) /\ UNCHANGED <<dropped, excluded, leftBehind>>
      BY <2>3 DEF TakeLocal
    <3>2. Local \in Models /\ Local \notin excluded
      BY <1>0, RouterAssumption DEF Models, RunTypes
    <3> QED BY <1>0, <3>1, <3>2, BuildDropped
  <2> QED BY <1>1, <2>1, <2>2, <2>3 DEF Choose
<1>2. ASSUME NEW r \in Runs, BeginStage(r) \/ Retry(r) PROVE DroppedInv'
  <2>1. StartBuilding(r) /\ UNCHANGED <<dropped, excluded, leftBehind>>
    BY <1>2 DEF BeginStage, Retry
  <2>2. llms'[r] = <<>>
    BY <1>0, <2>1, StartBuildingTyped
  <2> QED BY <2>1, <2>2, QuietStep
<1>3. ASSUME NEW r \in Runs, NEW activity \in Activities \ {"building", "calling"},
             Goto(r, activity), UNCHANGED <<dropped, excluded, leftBehind>>
      PROVE  DroppedInv'
  <2>1. pc'[r] \notin {"building", "calling"}
    BY <1>0, <1>3, GotoTyped
  <2> QED BY <1>3, <2>1, QuietStep
<1>4. ASSUME NEW r \in Runs, Exclude(r) PROVE DroppedInv'
  <2>1. /\ excluded' = excluded \cup {blamed[r]}
        /\ dropped' = [dropped EXCEPT ![r] = dropped[r] \cup {blamed[r]}]
        /\ Goto(r, "recording") /\ "recording" \in Activities
    BY <1>4 DEF Exclude, Activities
  <2>2. dropped'[r] = dropped[r] \cup {blamed[r]}
    BY <1>0, <2>1 DEF RunTypes
  <2>3. pc'[r] = "recording"
    BY <1>0, <2>1, GotoTyped
  <2>4. dropped[r] \subseteq excluded
    BY DEF DroppedInv
  <2> QED BY <2>1, <2>2, <2>3, <2>4 DEF Alone, DroppedInv
<1>5. ASSUME NEW r \in Runs,
             \/ BeginRun(r) \/ SkipStage(r) \/ Abort(r) \/ KickoffReturns(r)
             \/ StageFailed(r) \/ Fail(r) \/ Accuse(r) \/ NobodyToAccuse(r) \/ GiveUp(r)
      PROVE  DroppedInv'
  <2>1. \/ EndRun(r)
        \/ /\ \E activity \in Activities \ {"building", "calling"} : Goto(r, activity)
           /\ UNCHANGED <<dropped, excluded, leftBehind>>
    BY <1>5 DEF BeginRun, SkipStage, NextStage, Abort, KickoffReturns, StageFailed, Fail,
                FailsNamed, FailsUnnamed, FailsOtherwise, Accuse, Asking, NobodyToAccuse,
                GiveUp, Activities
  <2> QED BY <1>0, <1>3, <2>1, EndRunDropped
<1>6. ASSUME UNCHANGED <<runVars, excluded, leftBehind>> PROVE DroppedInv'
  BY <1>6 DEF runVars, DroppedInv, Crew
<1>7. ASSUME NEW r \in Runs, CallSucceeds(r) PROVE DroppedInv'
  BY <1>6, <1>7 DEF CallSucceeds
<1>8. ASSUME \/ \E p \in Providers : TokensCounted(p) \/ SuccessRecorded(p)
             \/ Midnight \/ Tick
      PROVE  DroppedInv'
  BY <1>0, <1>6, <1>8, OutsideKeeps
<1>9. CASE UNCHANGED vars
  BY <1>6, <1>9 DEF vars
<1> QED BY <1>1, <1>2, <1>4, <1>5, <1>7, <1>8, <1>9 DEF Next, Progress, Attribute

\* The one run of a process never builds a crew on a provider it has excluded, in
\* whichever of its stages that was.
THEOREM RouterNoReattempt ==
  ASSUME Alone PROVE Spec => []NoReattempt
<1>1. Init => DroppedInv
  BY DEF Init, DroppedInv
<1>2. RouterInv /\ DroppedInv /\ [Next]_vars => DroppedInv'
  BY DroppedStep
<1>3. DroppedInv => NoReattempt
  BY DEF DroppedInv, NoReattempt
<1> QED BY <1>1, <1>2, <1>3, RouterAlways, PTL DEF Spec

---------------------------------------------------------------------------
(* The circuits are a circuit breaker *)

\* The ages of the failures of a provider, newest first.
NewestFirst ==
  \A p \in Providers : \A i, j \in 1..Threshold : i <= j => failures[p][i] <= failures[p][j]

\* Time, a failure and a success keep the failures in their order.
LEMMA NewestFirstStep == RouterInv /\ NewestFirst /\ [Next]_vars => NewestFirst'
<1> SUFFICES ASSUME RouterInv, NewestFirst, [Next]_vars PROVE NewestFirst'
  OBVIOUS
<1>0. CircuitTypes /\ RunTypes /\ Attributed
  BY DEF RouterInv
<1>1. ASSUME NEW p \in Providers, RecordFailure(p) PROVE NewestFirst'
  <2>1. WithFailure(p) \in [1..Threshold -> 0..Window]
    BY <1>0, WithFailureTyped
  <2>2. ASSUME NEW i \in 1..Threshold, NEW j \in 1..Threshold, i <= j
        PROVE  WithFailure(p)[i] <= WithFailure(p)[j]
    <3>1. CASE i = 1
      <4>1. WithFailure(p)[i] = 0 /\ WithFailure(p)[j] \in 0..Window
        BY <2>1, <3>1 DEF WithFailure
      <4> QED BY <4>1
    <3>2. CASE i # 1
      <4>1. i - 1 \in 1..Threshold /\ j - 1 \in 1..Threshold /\ i - 1 <= j - 1 /\ j # 1
        BY <2>2, <3>2, RouterAssumption
      <4>2. WithFailure(p)[i] = failures[p][i - 1] /\ WithFailure(p)[j] = failures[p][j - 1]
        BY <3>2, <4>1 DEF WithFailure
      <4> QED BY <4>1, <4>2 DEF NewestFirst
    <3> QED BY <3>1, <3>2
  <2>3. failures' = [failures EXCEPT ![p] = WithFailure(p)]
    BY <1>1 DEF RecordFailure
  <2> QED BY <1>0, <2>2, <2>3 DEF NewestFirst, CircuitTypes
<1>2. ASSUME NEW p \in Providers, SuccessRecorded(p) PROVE NewestFirst'
  <2>1. failures' = [failures EXCEPT ![p] = NoFailures]
    BY <1>2 DEF SuccessRecorded
  <2>2. \A i, j \in 1..Threshold : NoFailures[i] <= NoFailures[j]
    BY RouterAssumption DEF NoFailures
  <2> QED BY <1>0, <2>1, <2>2 DEF NewestFirst, CircuitTypes
<1>3. CASE Tick
  <2>1. \A a, b \in 0..Window : a <= b => Older(a, Window) <= Older(b, Window)
    BY RouterAssumption DEF Older
  <2>2. \A p \in Providers : \A i \in 1..Threshold :
          failures[p][i] \in 0..Window /\ failures'[p][i] = Older(failures[p][i], Window)
    BY <1>0, <1>3 DEF Tick, CircuitTypes
  <2> QED BY <2>1, <2>2 DEF NewestFirst
<1>4. CASE UNCHANGED failures
  BY <1>4 DEF NewestFirst
<1>5. ASSUME NEW r \in Runs,
             \/ BeginRun(r) \/ BeginStage(r) \/ SkipStage(r) \/ Abort(r)
             \/ CallSucceeds(r) \/ Progress(r)
      PROVE  NewestFirst'
  <2>1. UNCHANGED failures \/ \E p \in Providers : RecordFailure(p)
    <3>1. ASSUME Choose(r) \/ Fail(r) \/ Attribute(r)
          PROVE  UNCHANGED failures \/ \E p \in Providers : RecordFailure(p)
      BY <1>0, <3>1, ChooseKeeps, FailKeeps, AttributeKeeps DEF CircuitStep, circuitVars
    <3> QED BY <1>5, <3>1 DEF BeginRun, BeginStage, SkipStage, Abort, CallSucceeds, Progress,
                              KickoffReturns, StageFailed, circuitVars
  <2> QED BY <1>1, <1>4, <2>1
<1>6. ASSUME (\E p \in Providers : TokensCounted(p)) \/ Midnight \/ UNCHANGED vars
      PROVE  UNCHANGED failures
  BY <1>6 DEF TokensCounted, Midnight, vars, circuitVars
<1> QED BY <1>2, <1>3, <1>4, <1>5, <1>6 DEF Next

\* At most the threshold of failures count.
LEMMA YoungIsFinite ==
  ASSUME NEW p \in Providers
  PROVE  /\ IsFiniteSet(Young(p)) /\ IsFiniteSet(Young(p)')
         /\ Cardinality(Young(p)) \in 0..Threshold /\ Cardinality(Young(p)') \in 0..Threshold
<1>1. IsFiniteSet(1..Threshold) /\ Cardinality(1..Threshold) = Threshold
  BY FS_Interval, RouterAssumption
<1>2. Young(p) \in SUBSET (1..Threshold) /\ Young(p)' \in SUBSET (1..Threshold)
  BY DEF Young
<1>3. ASSUME NEW S \in SUBSET (1..Threshold)
      PROVE  IsFiniteSet(S) /\ Cardinality(S) \in 0..Threshold
  <2>1. IsFiniteSet(S) /\ Cardinality(S) <= Threshold
    BY <1>1, FS_Subset
  <2>2. Cardinality(S) \in Nat
    BY <2>1, FS_CardinalityType
  <2> QED BY <2>1, <2>2, RouterAssumption
<1> QED BY <1>2, <1>3

\* One more failure counts one more, up to the threshold; and the threshold is reached
\* exactly when the oldest of the latest failures is within the window.
LEMMA FailureCounts ==
  ASSUME CircuitTypes, NewestFirst, NewestFirst', NEW p \in Providers,
         failures' = [failures EXCEPT ![p] = WithFailure(p)]
  PROVE  /\ Cardinality(Young(p)') = IF Cardinality(Young(p)) < Threshold
                                     THEN Cardinality(Young(p)) + 1
                                     ELSE Cardinality(Young(p))
         /\ Cardinality(Young(p)') = Threshold <=> WithFailure(p)[Threshold] < Window
<1>0. /\ Threshold \in Nat \ {0} /\ Window \in Nat \ {0}
      /\ Threshold \in 1..Threshold /\ 1 \in 1..Threshold
  BY RouterAssumption
<1>1. failures'[p] = WithFailure(p) /\ WithFailure(p) \in [1..Threshold -> 0..Window]
      /\ failures[p] \in [1..Threshold -> 0..Window]
  BY WithFailureTyped DEF CircuitTypes
<1>2. IsFiniteSet(1..Threshold) /\ Cardinality(1..Threshold) = Threshold
  BY <1>0, FS_Interval
<1>3. IsFiniteSet(1..(Threshold - 1)) /\ Cardinality(1..(Threshold - 1)) = Threshold - 1
  BY <1>0, FS_Interval
<1>4. Cardinality(Young(p)') = Threshold <=> WithFailure(p)[Threshold] < Window
  <2>1. ASSUME WithFailure(p)[Threshold] < Window PROVE Young(p)' = 1..Threshold
    <3>1. \A i \in 1..Threshold : failures'[p][i] <= failures'[p][Threshold]
      BY <1>0 DEF NewestFirst
    <3>2. \A i \in 1..Threshold : failures'[p][i] < Window
      BY <1>0, <1>1, <2>1, <3>1
    <3> QED BY <3>2 DEF Young
  <2>2. ASSUME ~(WithFailure(p)[Threshold] < Window)
        PROVE  Cardinality(Young(p)') <= Threshold - 1
    <3>1. Young(p)' \in SUBSET (1..(Threshold - 1))
      BY <1>0, <1>1, <2>2 DEF Young
    <3> QED BY <1>3, <3>1, FS_Subset
  <2> QED BY <1>0, <1>2, <2>1, <2>2, YoungIsFinite
<1>5. CASE failures[p][Threshold] < Window
  <2>1. \A i \in 1..Threshold : failures[p][i] <= failures[p][Threshold]
    BY <1>0 DEF NewestFirst
  <2>2. \A i \in 1..Threshold : failures[p][i] < Window
    BY <1>0, <1>1, <1>5, <2>1
  <2>3. WithFailure(p)[Threshold] < Window
    <3>1. Threshold = 1 \/ Threshold - 1 \in 1..Threshold
      BY <1>0
    <3> QED BY <1>0, <2>2, <3>1 DEF WithFailure
  <2>4. Young(p) = 1..Threshold
    BY <2>2 DEF Young
  <2> QED BY <1>0, <1>2, <1>4, <2>3, <2>4
<1>6. CASE ~(failures[p][Threshold] < Window)
  <2> DEFINE Shifted == {i + 1 : i \in Young(p)}
             shift == [i \in Young(p) |-> i + 1]
  <2>1. Young(p) \in SUBSET (1..(Threshold - 1))
    BY <1>0, <1>1, <1>6 DEF Young
  <2>2. Cardinality(Young(p)) <= Threshold - 1
    BY <1>3, <2>1, FS_Subset
  <2>3. shift \in Bijection(Young(p), Shifted)
    <3>1. \A i \in Young(p) : i \in Int
      BY <2>1
    <3>2. shift \in [Young(p) -> Shifted] /\ \A s \in Shifted : \E i \in Young(p) : shift[i] = s
      OBVIOUS
    <3>3. \A i, j \in Young(p) : shift[i] = shift[j] => i = j
      BY <3>1
    <3> QED BY <3>2, <3>3 DEF Bijection, Injection, Surjection, IsInjective
  <2>4. IsFiniteSet(Shifted) /\ Cardinality(Shifted) = Cardinality(Young(p))
    <3> HIDE DEF Shifted, shift
    <3> QED BY <2>3, FS_Bijection, YoungIsFinite DEF ExistsBijection
  <2>5. Young(p)' = Shifted \cup {1}
    <3>1. ASSUME NEW i \in 1..Threshold
          PROVE  WithFailure(p)[i] < Window <=> i = 1 \/ i - 1 \in Young(p)
      <4>1. CASE i = 1
        BY <1>0, <4>1 DEF WithFailure
      <4>2. CASE i # 1
        <5>1. i - 1 \in 1..Threshold /\ WithFailure(p)[i] = failures[p][i - 1]
          BY <1>0, <4>2 DEF WithFailure
        <5> QED BY <4>2, <5>1 DEF Young
      <4> QED BY <4>1, <4>2
    <3>2. \A i : i \in Young(p)' <=> i \in 1..Threshold /\ (i = 1 \/ i - 1 \in Young(p))
      BY <1>1, <3>1 DEF Young
    <3>3. \A i \in 1..Threshold : i - 1 \in Young(p) => i \in Shifted
      <4>1. \A i \in 1..Threshold : i = (i - 1) + 1
        BY <1>0
      <4> QED BY <4>1
    <3>4. \A i \in Shifted : i \in 1..Threshold /\ i - 1 \in Young(p)
      BY <1>0, <2>1
    <3> QED BY <1>0, <3>2, <3>3, <3>4
  <2>6. 1 \notin Shifted
    BY <2>1
  <2>7. Cardinality(Young(p)') = Cardinality(Young(p)) + 1
    <3> HIDE DEF Shifted
    <3> QED BY <2>4, <2>5, <2>6, FS_AddElement
  <2> QED BY <1>0, <1>4, <2>2, <2>7, YoungIsFinite
<1> QED BY <1>5, <1>6

\* A step of the router is a step of the breaker, or none.
LEMMA BreakerStep ==
  RouterInv /\ NewestFirst /\ NewestFirst' /\ [Next]_vars => [Breaker!Next]_(Breaker!breaker)
<1> SUFFICES ASSUME RouterInv, NewestFirst, NewestFirst', [Next]_vars
             PROVE  [Breaker!Next]_(Breaker!breaker)
  OBVIOUS
<1> DEFINE count == [p \in Providers |-> Cardinality(Young(p))]
<1>0. CircuitTypes /\ RunTypes /\ Attributed
  BY DEF RouterInv
<1>a. count' = [p \in Providers |-> Cardinality(Young(p)')]
  OBVIOUS
<1>1. ASSUME UNCHANGED <<circuit, since, failures>> PROVE [Breaker!Next]_(Breaker!breaker)
  <2>1. \A p \in Providers : Young(p)' = Young(p)
    BY <1>1 DEF Young
  <2> QED BY <1>1, <2>1 DEF Breaker!breaker
<1>2. ASSUME NEW p \in Providers, Ask(p), UNCHANGED failures
      PROVE  [Breaker!Next]_(Breaker!breaker)
  <2>1. \A q \in Providers : Young(q)' = Young(q)
    BY <1>2 DEF Young
  <2>2. count' = count
    BY <2>1
  <2>3. \/ UNCHANGED <<circuit, since>>
        \/ Breaker!HalfOpen(p) \/ Breaker!GiveUp(p)
    BY <1>2, <2>2 DEF Ask, Poll, Breaker!HalfOpen, Breaker!GiveUp, Breaker!Enter
  <2> QED BY <1>1, <1>2, <2>3 DEF Breaker!Next
<1>3. ASSUME NEW p \in Providers, RecordFailure(p) PROVE Breaker!Fail(p)
  <2>1. failures' = [failures EXCEPT ![p] = WithFailure(p)]
    BY <1>3 DEF RecordFailure
  <2>2. /\ Cardinality(Young(p)') = IF Cardinality(Young(p)) < Threshold
                                    THEN Cardinality(Young(p)) + 1
                                    ELSE Cardinality(Young(p))
        /\ Cardinality(Young(p)') = Threshold <=> WithFailure(p)[Threshold] < Window
    BY <1>0, <2>1, FailureCounts
  <2>3. \A q \in Providers \ {p} : Young(q)' = Young(q)
    BY <1>0, <2>1 DEF Young, CircuitTypes
  <2>4. count' = [count EXCEPT ![p] = IF count[p] < Threshold THEN count[p] + 1 ELSE count[p]]
    BY <2>2, <2>3
  <2>5. count'[p] = Threshold <=> WithFailure(p)[Threshold] < Window
    BY <2>2, <1>a
  <2> HIDE DEF count
  <2>6. IF count'[p] = Threshold /\ circuit[p] # "OPEN"
        THEN /\ circuit' = [circuit EXCEPT ![p] = "OPEN"]
             /\ since' = [since EXCEPT ![p] = 0]
        ELSE UNCHANGED <<circuit, since>>
    BY <1>3, <2>5 DEF RecordFailure
  <2> QED BY <2>4, <2>6 DEF Breaker!Fail, Breaker!Enter, count
<1>4. ASSUME NEW p \in Providers, SuccessRecorded(p) PROVE Breaker!Succeed(p)
  <2>1. /\ circuit' = [circuit EXCEPT ![p] = "CLOSED"]
        /\ failures' = [failures EXCEPT ![p] = NoFailures]
        /\ since' = [since EXCEPT ![p] = 0]
    BY <1>4 DEF SuccessRecorded
  <2>2. Young(p)' = {}
    <3>1. failures'[p] = NoFailures
      BY <1>0, <2>1 DEF CircuitTypes
    <3>2. \A i \in 1..Threshold : ~(NoFailures[i] < Window)
      BY RouterAssumption DEF NoFailures
    <3> QED BY <3>1, <3>2 DEF Young
  <2>3. \A q \in Providers \ {p} : Young(q)' = Young(q)
    BY <1>0, <2>1 DEF Young, CircuitTypes
  <2>4. count' = [count EXCEPT ![p] = 0]
    BY <2>2, <2>3, FS_EmptySet
  <2> QED BY <2>1, <2>4 DEF Breaker!Succeed, Breaker!Enter
<1>5. ASSUME Tick PROVE Breaker!TimePasses
  <2>1. \A p \in Providers : \A i \in 1..Threshold :
          failures[p][i] \in 0..Window /\ failures'[p][i] = Older(failures[p][i], Window)
    BY <1>0, <1>5 DEF Tick, CircuitTypes
  <2>2. ASSUME NEW p \in Providers PROVE Young(p)' \in SUBSET Young(p)
    <3>1. \A a \in 0..Window : Older(a, Window) < Window => a < Window
      BY RouterAssumption DEF Older
    <3> QED BY <2>1, <3>1 DEF Young
  <2>3. \A p \in Providers : /\ Cardinality(Young(p)') \in 0..Threshold
                             /\ Cardinality(Young(p)') <= Cardinality(Young(p))
    BY <2>2, YoungIsFinite, FS_Subset
  <2>4. count' \in [Providers -> 0..Threshold] /\ \A p \in Providers : count'[p] <= count[p]
    BY <2>3
  <2>5. ASSUME NEW p \in Providers
        PROVE  Older(since[p], MaxSince) =
                 IF since[p] < HalfOpenAfter \/ since[p] < StaleAfter
                 THEN since[p] + 1 ELSE since[p]
    <3>1. since[p] \in 0..MaxSince /\ HalfOpenAfter \in Nat /\ StaleAfter \in Nat
      BY <1>0, RouterAssumption DEF CircuitTypes
    <3> QED BY <3>1 DEF Older, MaxSince
  <2>6. since' = [p \in Providers |->
                    IF circuit[p] # "CLOSED" /\ (since[p] < HalfOpenAfter \/ since[p] < StaleAfter)
                    THEN since[p] + 1 ELSE since[p]]
    BY <1>5, <2>5 DEF Tick
  <2>7. circuit' = circuit
    BY <1>5 DEF Tick
  <2> QED BY <2>4, <2>6, <2>7 DEF Breaker!TimePasses
<1>6. ASSUME NEW r \in Runs,
             \/ BeginRun(r) \/ BeginStage(r) \/ SkipStage(r) \/ Abort(r)
             \/ CallSucceeds(r) \/ Progress(r)
      PROVE  [Breaker!Next]_(Breaker!breaker)
  <2>1. ASSUME Choose(r) \/ Fail(r) \/ Attribute(r) PROVE [Breaker!Next]_(Breaker!breaker)
    <3>1. CircuitStep
      BY <1>0, <2>1, ChooseKeeps, FailKeeps, AttributeKeeps
    <3> QED BY <1>1, <1>2, <1>3, <3>1 DEF CircuitStep, circuitVars, Breaker!Next
  <2>2. ASSUME \/ BeginRun(r) \/ BeginStage(r) \/ SkipStage(r) \/ Abort(r)
               \/ CallSucceeds(r) \/ KickoffReturns(r) \/ StageFailed(r)
        PROVE  UNCHANGED <<circuit, since, failures>>
    BY <2>2 DEF BeginRun, BeginStage, SkipStage, Abort, CallSucceeds, KickoffReturns,
                StageFailed, circuitVars
  <2> QED BY <1>1, <1>6, <2>1, <2>2 DEF Progress
<1>7. ASSUME (\E p \in Providers : TokensCounted(p)) \/ Midnight \/ UNCHANGED vars
      PROVE  UNCHANGED <<circuit, since, failures>>
  BY <1>7 DEF TokensCounted, Midnight, vars, circuitVars
<1> QED BY <1>1, <1>4, <1>5, <1>6, <1>7 DEF Next, Breaker!Next

\* Whatever runs, late successes and time do, the circuits keep to the breaker: they open
\* with the failure that reaches the threshold, close by a success only, and neither the
\* time until a trial nor the time for its answer starts anew by what others do.
THEOREM RouterImplementsBreaker == Spec => ImplementsBreaker
<1>1. Init => NewestFirst
  BY RouterAssumption DEF Init, NewestFirst, NoFailures
<1>2. Init => Breaker!Init
  <2> SUFFICES ASSUME Init PROVE Breaker!Init
    OBVIOUS
  <2>1. \A p \in Providers : Young(p) = {}
    BY RouterAssumption DEF Init, NoFailures, Young
  <2> QED BY <2>1, FS_EmptySet DEF Init, Breaker!Init
<1> QED BY <1>1, <1>2, RouterAlways, NewestFirstStep, BreakerStep, PTL
        DEF Spec, ImplementsBreaker, Breaker!Spec

---------------------------------------------------------------------------
(* How an open circuit comes to be tried, and a stage to its end *)

\* The safety half of OpenEndsWhenAsked: as long as a circuit stays open, no step of
\* whichever run takes back the time it has been open, every tick adds to it, and a run
\* that asks about the provider finds the wait not yet over.
OpenTimePasses ==
  [][\A p \in Providers : circuit[p] = "OPEN" /\ circuit'[p] = "OPEN" =>
       /\ since'[p] >= since[p]
       /\ Tick => since'[p] > since[p] \/ since[p] = MaxSince
       /\ Asked(p) => since[p] < HalfOpenAfter]_vars

\* A step that asks about p is a poll of its circuit.
LEMMA AskedIsPolled ==
  ASSUME RunTypes, NEW p \in Providers, Asked(p)
  PROVE  Poll(p)
  BY DEF Asked, Asking, Ask

\* The time of a circuit that stays open goes on, in whichever step.
LEMMA OpenTimeStep ==
  ASSUME RouterInv, [Next]_vars, NEW p \in Providers,
         circuit[p] = "OPEN", circuit'[p] = "OPEN"
  PROVE  /\ since'[p] >= since[p]
         /\ Tick => since'[p] > since[p] \/ since[p] = MaxSince
         /\ Asked(p) => since[p] < HalfOpenAfter
<1>0. CircuitTypes /\ RunTypes /\ Attributed
  BY DEF RouterInv
<1>1. since[p] \in 0..MaxSince /\ HalfOpenAfter \in Nat /\ MaxSince \in Nat
  BY <1>0, RouterAssumption DEF CircuitTypes, MaxSince
<1>2. Asked(p) => since[p] < HalfOpenAfter
  BY <1>0, <1>1, AskedIsPolled DEF Poll, CircuitTypes
<1>3. Tick => since'[p] = Older(since[p], MaxSince)
  BY DEF Tick
<1>4. Older(since[p], MaxSince) >= since[p]
      /\ (Older(since[p], MaxSince) > since[p] \/ since[p] = MaxSince)
  BY <1>1 DEF Older
<1>5. ASSUME NEW q \in Providers, Ask(q) \/ RecordFailure(q) \/ SuccessRecorded(q)
      PROVE  since'[p] = since[p]
  <2>1. CASE Ask(q)
    BY <1>0, <2>1 DEF Ask, Poll, CircuitTypes
  <2>2. CASE RecordFailure(q)
    BY <1>0, <2>2 DEF RecordFailure, CircuitTypes
  <2>3. CASE SuccessRecorded(q)
    BY <1>0, <2>3 DEF SuccessRecorded, CircuitTypes
  <2> QED BY <1>5, <2>1, <2>2, <2>3
<1>6. \/ Tick \/ UNCHANGED since
      \/ \E q \in Providers : Ask(q) \/ RecordFailure(q) \/ SuccessRecorded(q)
  <2>1. ASSUME NEW r \in Runs, Choose(r) \/ Fail(r) \/ Attribute(r) PROVE CircuitStep
    BY <1>0, <2>1, ChooseKeeps, FailKeeps, AttributeKeeps
  <2>2. ASSUME NEW r \in Runs,
               \/ BeginRun(r) \/ BeginStage(r) \/ SkipStage(r) \/ Abort(r)
               \/ CallSucceeds(r) \/ KickoffReturns(r) \/ StageFailed(r)
        PROVE  UNCHANGED since
    BY <2>2 DEF BeginRun, BeginStage, SkipStage, Abort, CallSucceeds, KickoffReturns,
                StageFailed, circuitVars
  <2>3. ASSUME (\E q \in Providers : TokensCounted(q)) \/ Midnight \/ UNCHANGED vars
        PROVE  UNCHANGED since
    BY <2>3 DEF TokensCounted, Midnight, vars, circuitVars
  <2> QED BY <2>1, <2>2, <2>3 DEF Next, Progress, CircuitStep, circuitVars
<1> QED BY <1>1, <1>2, <1>3, <1>4, <1>5, <1>6

\* No failure, poll or success of others prolongs the time a circuit is open: what
\* OpenEndsWhenAsked needs beyond runs that ask and time that passes.
THEOREM RouterOpenTimePasses == Spec => OpenTimePasses
<1>1. RouterInv /\ [Next]_vars =>
        [\A p \in Providers : circuit[p] = "OPEN" /\ circuit'[p] = "OPEN" =>
           /\ since'[p] >= since[p]
           /\ Tick => since'[p] > since[p] \/ since[p] = MaxSince
           /\ Asked(p) => since[p] < HalfOpenAfter]_vars
  BY OpenTimeStep
<1> QED BY <1>1, RouterAlways, PTL DEF Spec, OpenTimePasses

\* How far a run is with a crew.
Rank(activity) ==
  CASE activity = "building"  -> 1
    [] activity = "calling"   -> 2
    [] activity = "blaming"   -> 3
    [] activity = "blamed"    -> 4
    [] activity = "recording" -> 5
    [] activity = "failed"    -> 6
    [] OTHER                  -> 0

UnderWay(r) == pc[r] \notin {"idle", "ready"}

\* A crew of no more models than the stage has, and one under construction lacks some.
CrewFits ==
  \A r \in Runs : /\ Len(llms[r]) <= Len(Stages[stage[r]])
                  /\ pc[r] = "building" => Len(llms[r]) < Len(Stages[stage[r]])

\* Nearer to the end of the stage: one more attempt, or further with this one, or one
\* more model, or one provider less to ask about.  With TypeOK and CrewFits, each of the
\* four has a bound.
Nearer(r) ==
  \/ attempt'[r] > attempt[r]
  \/ /\ attempt'[r] = attempt[r]
     /\ \/ Rank(pc'[r]) > Rank(pc[r])
        \/ /\ pc'[r] = pc[r]
           /\ \/ Len(llms'[r]) > Len(llms[r])
              \/ llms'[r] = llms[r] /\ Len(walk'[r]) < Len(walk[r])

\* The safety half of StageEnds: each step of a run in a stage brings the stage to its
\* end or nearer to it, and no other step takes it back.
StageGoesForward ==
  [][\A r \in Runs : UnderWay(r) =>
       \/ pc'[r] \in {"idle", "ready"}
       \/ Nearer(r)
       \/ ~Progress(r) /\ UNCHANGED <<pc[r], stage[r], attempt[r], llms[r], walk[r]>>]_vars

\* A step of another run leaves this one alone.
LEMMA OthersLeaveRun ==
  ASSUME RunTypes, NEW r \in Runs, NEW q \in Runs \ {r},
         \/ BeginRun(q) \/ BeginStage(q) \/ SkipStage(q) \/ Abort(q)
         \/ CallSucceeds(q) \/ Progress(q)
  PROVE  UNCHANGED <<pc[r], stage[r], attempt[r], llms[r], walk[r]>>
<1>1. CASE BeginRun(q) \/ BeginStage(q) \/ SkipStage(q) \/ Abort(q) \/ CallSucceeds(q)
  BY <1>1 DEF BeginRun, BeginStage, SkipStage, Abort, CallSucceeds, runVars, Goto,
              StartBuilding, NextStage, EndRun, RunTypes
<1>2. CASE Choose(q)
  BY <1>2 DEF Choose, Skip, TakeProvider, TakeLocal, Asking, Build, Goto, RunTypes
<1>3. CASE KickoffReturns(q) \/ StageFailed(q)
  BY <1>3 DEF KickoffReturns, StageFailed, NextStage, EndRun, Goto, RunTypes
<1>4. CASE Fail(q)
  BY <1>4 DEF Fail, FailsNamed, FailsUnnamed, FailsOtherwise, Goto, RunTypes
<1>5. CASE Attribute(q)
  BY <1>5 DEF Attribute, Accuse, NobodyToAccuse, Exclude, GiveUp, Retry, Asking, Goto,
              StartBuilding, RunTypes
<1> QED BY <1>1, <1>2, <1>3, <1>4, <1>5 DEF Progress

\* A model more, or the crew is complete.
LEMMA BuildGoesForward ==
  ASSUME RunTypes, CrewFits, NEW r \in Runs, NEW m \in Models, pc[r] = "building",
         Build(r, m), UNCHANGED <<stage, attempt>>
  PROVE  /\ Nearer(r)
         /\ Len(llms'[r]) <= Len(Stages[stage'[r]])
         /\ pc'[r] = "building" => Len(llms'[r]) < Len(Stages[stage'[r]])
<1>1. llms[r] \in Seq(Models) /\ Len(llms[r]) < Len(Stages[stage[r]])
  BY DEF RunTypes, CrewFits
<1>2. Len(Stages[stage[r]]) \in Nat
  BY RouterAssumption DEF RunTypes
<1>3. llms'[r] = Append(llms[r], m)
  BY DEF Build, RunTypes
<1>4. Len(llms'[r]) = Len(llms[r]) + 1 /\ Len(llms[r]) \in Nat
  BY <1>1, <1>3
<1>5. CASE Len(llms[r]) + 1 < Len(Stages[stage[r]])
  <2>1. pc' = pc
    BY <1>5 DEF Build
  <2> QED BY <1>2, <1>4, <1>5, <2>1 DEF Nearer
<1>6. CASE ~(Len(llms[r]) + 1 < Len(Stages[stage[r]]))
  <2>1. pc'[r] = "calling"
    BY <1>6, GotoTyped DEF Build, Activities
  <2> QED BY <1>1, <1>2, <1>4, <1>6, <2>1 DEF Nearer, Rank
<1> QED BY <1>5, <1>6

\* Choosing brings the stage nearer to its end.
LEMMA ChooseGoesForward ==
  ASSUME RunTypes, CrewFits, NEW r \in Runs, Choose(r)
  PROVE  /\ Nearer(r)
         /\ Len(llms'[r]) <= Len(Stages[stage'[r]])
         /\ pc'[r] = "building" => Len(llms'[r]) < Len(Stages[stage'[r]])
<1>1. CASE Skip(r)
  <2>1. walk[r] \in Seq(Providers) /\ walk[r] # <<>> /\ walk'[r] = Tail(walk[r])
    BY <1>1 DEF Skip, Asking, RunTypes
  <2>2. Len(walk'[r]) < Len(walk[r])
    BY <2>1
  <2> QED BY <1>1, <2>2 DEF Skip, Asking, Nearer, CrewFits
<1>2. CASE TakeProvider(r)
  <2>1. Head(walk[r]) \in Models
    BY <1>2, HeadAndTail DEF TakeProvider, Asking, Models
  <2> QED BY <1>2, <2>1, BuildGoesForward DEF TakeProvider, Asking
<1>3. CASE TakeLocal(r)
  BY <1>3, BuildGoesForward DEF TakeLocal, Models
<1> QED BY <1>1, <1>2, <1>3 DEF Choose

\* A crew that is begun has no model yet, and a stage has at least one.
LEMMA BegunCrewFits ==
  ASSUME RunTypes, NEW r \in Runs, StartBuilding(r), UNCHANGED stage
  PROVE  /\ pc'[r] = "building"
         /\ Len(llms'[r]) < Len(Stages[stage'[r]])
<1>1. Stages[stage[r]] \in Seq(Seq(Providers)) /\ Stages[stage[r]] # <<>>
  BY RouterAssumption DEF RunTypes
<1>2. Len(Stages[stage[r]]) > 0
  BY <1>1
<1> QED BY <1>2, StartBuildingTyped

\* Calls and attributions bring the stage nearer to its end.
LEMMA OutcomeGoesForward ==
  ASSUME RunTypes, NEW r \in Runs, KickoffReturns(r) \/ Fail(r) \/ Attribute(r) \/ StageFailed(r)
  PROVE  pc'[r] \in {"idle", "ready"} \/ Nearer(r)
<1>1. CASE KickoffReturns(r) \/ StageFailed(r)
  BY <1>1, GotoTyped DEF KickoffReturns, StageFailed, NextStage, EndRun, Activities
<1>2. ASSUME NEW s \in {"blaming", "blamed", "recording", "failed"}, Goto(r, s),
             Rank(s) > Rank(pc[r]), UNCHANGED attempt
      PROVE  Nearer(r)
  BY <1>2, GotoTyped DEF Activities, Nearer
<1>3. CASE Fail(r)
  BY <1>2, <1>3 DEF Fail, FailsNamed, FailsUnnamed, FailsOtherwise, Rank
<1>4. CASE Attribute(r)
  <2>1. CASE Retry(r)
    <3>1. attempt'[r] = attempt[r] + 1 /\ attempt[r] \in Nat
      BY <2>1, RouterAssumption DEF Retry, RunTypes
    <3> QED BY <3>1 DEF Nearer
  <2>2. CASE Accuse(r) \/ NobodyToAccuse(r) \/ Exclude(r) \/ GiveUp(r)
    BY <1>2, <2>2 DEF Accuse, Asking, NobodyToAccuse, Exclude, GiveUp, Rank
  <2> QED BY <1>4, <2>1, <2>2 DEF Attribute
<1> QED BY <1>1, <1>3, <1>4

\* Crews keep within their stages.
LEMMA CrewFitsStep == RouterInv /\ CrewFits /\ [Next]_vars => CrewFits'
<1> SUFFICES ASSUME RouterInv, CrewFits, [Next]_vars PROVE CrewFits'
  OBVIOUS
<1>0. RunTypes /\ RunTypes' /\ CircuitTypes /\ ClosedMeansHealthy
  BY RouterStep DEF RouterInv
<1> DEFINE Fits(r) == /\ Len(llms[r]) <= Len(Stages[stage[r]])
                      /\ pc[r] = "building" => Len(llms[r]) < Len(Stages[stage[r]])
<1>1. ASSUME NEW r \in Runs,
             \/ BeginRun(r) \/ BeginStage(r) \/ SkipStage(r) \/ Abort(r)
             \/ CallSucceeds(r) \/ Progress(r)
      PROVE  CrewFits'
  <2>1. Fits(r)'
    <3>1. CASE BeginRun(r) \/ Fail(r) \/ Accuse(r) \/ NobodyToAccuse(r) \/ Exclude(r) \/ GiveUp(r)
      <4>1. UNCHANGED <<llms, stage>>
        BY <3>1 DEF BeginRun, Fail, FailsNamed, FailsUnnamed, FailsOtherwise, Accuse, Asking,
                    NobodyToAccuse, Exclude, GiveUp
      <4>2. \E s \in Activities \ {"building"} : Goto(r, s)
        BY <3>1 DEF BeginRun, Fail, FailsNamed, FailsUnnamed, FailsOtherwise, Accuse,
                    NobodyToAccuse, Exclude, GiveUp, Activities
      <4>3. pc'[r] # "building"
        BY <1>0, <4>2, GotoTyped
      <4> QED BY <4>1, <4>3 DEF CrewFits
    <3>2. CASE BeginStage(r) \/ Retry(r)
      <4>1. Len(llms'[r]) < Len(Stages[stage'[r]])
        BY <1>0, <3>2, BegunCrewFits DEF BeginStage, Retry
      <4>2. Len(llms'[r]) \in Nat /\ Len(Stages[stage'[r]]) \in Nat
        BY <1>0, RouterAssumption DEF RunTypes
      <4> QED BY <4>1, <4>2
    <3>3. CASE SkipStage(r) \/ Abort(r) \/ KickoffReturns(r) \/ StageFailed(r)
      <4>1. NextStage(r) \/ EndRun(r)
        BY <3>3 DEF SkipStage, Abort, KickoffReturns, StageFailed
      <4>2. llms'[r] = <<>> /\ pc'[r] \in {"ready", "idle"}
        BY <1>0, <4>1, GotoTyped DEF NextStage, EndRun, RunTypes, Activities
      <4>3. Len(Stages[stage'[r]]) \in Nat
        BY <1>0, RouterAssumption DEF RunTypes
      <4> QED BY <4>2, <4>3
    <3>4. CASE CallSucceeds(r)
      BY <3>4 DEF CallSucceeds, runVars, CrewFits
    <3>5. CASE Choose(r)
      BY <1>0, <3>5, ChooseGoesForward
    <3> QED BY <1>1, <3>1, <3>2, <3>3, <3>4, <3>5 DEF Progress, Attribute
  <2>2. ASSUME NEW q \in Runs \ {r} PROVE Fits(q)'
    <3>1. UNCHANGED <<pc[q], stage[q], llms[q]>>
      BY <1>0, <1>1, OthersLeaveRun
    <3> QED BY <3>1 DEF CrewFits
  <2> QED BY <2>1, <2>2 DEF CrewFits
<1>2. ASSUME \/ \E p \in Providers : TokensCounted(p) \/ SuccessRecorded(p)
             \/ Midnight \/ Tick
      PROVE  CrewFits'
  BY <1>0, <1>2, OutsideKeeps DEF runVars, CrewFits
<1>3. CASE UNCHANGED vars
  BY <1>3 DEF vars, runVars, CrewFits
<1> QED BY <1>1, <1>2, <1>3 DEF Next

\* A step brings each stage under way to its end, or nearer, or does not touch it.
LEMMA StageStep ==
  ASSUME RouterInv, CrewFits, [Next]_vars, NEW r \in Runs, UnderWay(r)
  PROVE  \/ pc'[r] \in {"idle", "ready"}
         \/ Nearer(r)
         \/ ~Progress(r) /\ UNCHANGED <<pc[r], stage[r], attempt[r], llms[r], walk[r]>>
<1>0. RunTypes /\ CircuitTypes /\ ClosedMeansHealthy
  BY DEF RouterInv
<1>1. CASE Progress(r)
  BY <1>0, <1>1, ChooseGoesForward, OutcomeGoesForward DEF Progress
<1>2. CASE ~Progress(r)
  <2>1. ~(BeginRun(r) \/ BeginStage(r) \/ SkipStage(r) \/ Abort(r))
    BY DEF UnderWay, BeginRun, BeginStage, SkipStage, Abort
  <2>2. CASE UNCHANGED runVars
    BY <1>2, <2>2 DEF runVars
  <2>3. ASSUME NEW q \in Runs \ {r},
               \/ BeginRun(q) \/ BeginStage(q) \/ SkipStage(q) \/ Abort(q)
               \/ CallSucceeds(q) \/ Progress(q)
        PROVE  UNCHANGED <<pc[r], stage[r], attempt[r], llms[r], walk[r]>>
    BY <1>0, <2>3, OthersLeaveRun
  <2>4. ASSUME \/ \E p \in Providers : TokensCounted(p) \/ SuccessRecorded(p)
               \/ Midnight \/ Tick
        PROVE  UNCHANGED runVars
    BY <1>0, <2>4, OutsideKeeps
  <2>5. CallSucceeds(r) \/ UNCHANGED vars => UNCHANGED runVars
    BY DEF CallSucceeds, vars
  <2> QED BY <1>2, <2>1, <2>2, <2>3, <2>4, <2>5 DEF Next
<1> QED BY <1>1, <1>2

\* A crew never has more models than its stage asks for.
THEOREM RouterCrewFits == Spec => []CrewFits
<1>1. Init => CrewFits
  <2>1. Len(Stages[1]) \in Nat
    BY RouterAssumption
  <2> QED BY <2>1 DEF Init, CrewFits
<1> QED BY <1>1, RouterAlways, CrewFitsStep, PTL DEF Spec

\* A stage has only finitely many steps before it: whoever is blamed, attempts only go
\* up, and within an attempt a run never goes back.  What StageEnds adds is that the run's
\* thread is scheduled.
THEOREM RouterStageGoesForward == Spec => StageGoesForward
<1>1. RouterInv /\ CrewFits /\ [Next]_vars =>
        [\A r \in Runs : UnderWay(r) =>
           \/ pc'[r] \in {"idle", "ready"}
           \/ Nearer(r)
           \/ ~Progress(r) /\ UNCHANGED <<pc[r], stage[r], attempt[r], llms[r], walk[r]>>]_vars
  BY StageStep
<1> QED BY <1>1, RouterAlways, RouterCrewFits, PTL DEF Spec, StageGoesForward
=============================================================================
