--------------------------- MODULE CircuitBreaker ---------------------------
(***************************************************************************)
(* The circuit breaker of src/config/llm_router.py as its health endpoint   *)
(* get_circuit_states shows it: for each provider the state of its circuit,  *)
(* and how many failures count, up to the threshold.  This is what the       *)
(* breaker keeps to, whoever asks, fails or succeeds meanwhile.              *)
(*                                                                         *)
(* A failure on a half-open circuit reopens it only with the threshold       *)
(* reached; the comment above _CIRCUIT_STATE says otherwise.                 *)
(***************************************************************************)
EXTENDS Naturals

CONSTANTS Providers, Threshold, Wait, Patience

VARIABLES
  state,   \* "CLOSED", "OPEN" or "HALF_OPEN"
  count,   \* failures within the window, up to the threshold
  age      \* for how long the circuit has been open or half open

breaker == <<state, count, age>>

Init ==
  /\ state = [p \in Providers |-> "CLOSED"]
  /\ count = [p \in Providers |-> 0]
  /\ age = [p \in Providers |-> 0]

\* The circuit of p changes its state, and its time starts anew.
Enter(p, s) ==
  /\ state' = [state EXCEPT ![p] = s]
  /\ age' = [age EXCEPT ![p] = 0]

\* The failure that reaches the threshold opens the circuit; the time of one that is
\* open already goes on.
Fail(p) ==
  /\ count' = [count EXCEPT ![p] = IF @ < Threshold THEN @ + 1 ELSE @]
  /\ IF count'[p] = Threshold /\ state[p] # "OPEN"
     THEN Enter(p, "OPEN")
     ELSE UNCHANGED <<state, age>>

\* A success, of whichever call, closes the circuit: nothing else does.
Succeed(p) ==
  /\ count' = [count EXCEPT ![p] = 0]
  /\ Enter(p, "CLOSED")

\* After the wait a trial may be made.
HalfOpen(p) ==
  /\ state[p] = "OPEN" /\ age[p] >= Wait
  /\ Enter(p, "HALF_OPEN")
  /\ UNCHANGED count

\* Nothing was heard of the trial.
GiveUp(p) ==
  /\ state[p] = "HALF_OPEN" /\ age[p] >= Patience
  /\ Enter(p, "OPEN")
  /\ UNCHANGED count

\* Failures leave the window; time is looked at no longer once both delays are over.
TimePasses ==
  /\ count' \in [Providers -> 0..Threshold]
  /\ \A p \in Providers : count'[p] <= count[p]
  /\ age' = [p \in Providers |->
               IF state[p] # "CLOSED" /\ (age[p] < Wait \/ age[p] < Patience)
               THEN age[p] + 1 ELSE age[p]]
  /\ UNCHANGED state

Next ==
  \/ \E p \in Providers : Fail(p) \/ Succeed(p) \/ HalfOpen(p) \/ GiveUp(p)
  \/ TimePasses

Spec == Init /\ [][Next]_breaker
=============================================================================
