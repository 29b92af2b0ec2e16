------------------------- MODULE IngestEngineProofs -------------------------
(***************************************************************************)
(* Theorems about IngestEngine for every number of callers, tasks, hashes   *)
(* and workers, every size of the cache and every number of faults and      *)
(* crashes, with machine-checked proofs.                                    *)
(***************************************************************************)
EXTENDS IngestEngine, TLAPS

\* A task that works on a record has one in hand.
HasRecord == {"recall", "lookup", "validate", "write"} \cup Outcome
InHand == \A t \in Tasks : pc[t] \in HasRecord => todo[t] # <<>>

TypeInv == TypeOK /\ InHand

---------------------------------------------------------------------------
(* Typing *)

\* The record in hand is a record, and what is left after it a list of records.
LEMMA RecordInHand ==
  ASSUME TypeInv, NEW t \in Tasks, pc[t] \in HasRecord \/ todo[t] # <<>>
  PROVE  /\ Head(todo[t]) \in Record
         /\ Hash(t) \in Hashes
         /\ Tail(todo[t]) \in Seq(Record)
<1>1. todo[t] # <<>> /\ todo[t] \in Seq(Record)
  BY DEF TypeInv, TypeOK, InHand
<1>2. Head(todo[t]) \in Record /\ Tail(todo[t]) \in Seq(Record)
  BY <1>1
<1>3. Hash(t) \in Hashes
  BY <1>2 DEF Hash, Record
<1> QED BY <1>2, <1>3

\* A list cut at MaxRecords is a list of records.
LEMMA CutList ==
  ASSUME NEW s \in Seq(Record)
  PROVE  /\ SubSeq(s, 1, IF Len(s) > MaxRecords THEN MaxRecords ELSE Len(s)) \in Seq(Record)
         /\ Len(SubSeq(s, 1, IF Len(s) > MaxRecords THEN MaxRecords ELSE Len(s))) \in Nat
  BY IngestAssumption

\* Counting keeps the tally a tally.
LEMMA CountTyped ==
  ASSUME TypeOK, NEW t \in Tasks, NEW f \in Counter, Count(t, f)
  PROVE  tally' \in [Tasks -> [Counter -> Nat]]
<1>1. tally[t] \in [Counter -> Nat]
  BY DEF TypeOK
<1>2. tally' = [tally EXCEPT ![t] = [tally[t] EXCEPT ![f] = tally[t][f] + 1]]
  BY DEF Count
<1>3. [tally[t] EXCEPT ![f] = tally[t][f] + 1] \in [Counter -> Nat]
  BY <1>1
<1> QED BY <1>2, <1>3 DEF TypeOK

\* So does forgetting the tasks.
LEMMA ForgetTyped ==
  ASSUME ForgetTasks
  PROVE  /\ \A t \in Tasks : pc'[t] = "out"
         /\ pc' \in [Tasks -> {"out"}]
         /\ attempt' \in [Tasks -> 0..MaxRetries]
         /\ todo' \in [Tasks -> Seq(Record)]
         /\ scraped' \in [Tasks -> Nat]
         /\ tally' \in [Tasks -> [Counter -> Nat]]
         /\ status' \in [Tasks -> {"pending"}]
<1>1. <<>> \in Seq(Record)
  OBVIOUS
<1>2. todo' \in [Tasks -> Seq(Record)]
  BY <1>1 DEF ForgetTasks
<1>3. NoTally \in [Counter -> Nat]
  BY DEF NoTally
<1>4. tally' \in [Tasks -> [Counter -> Nat]]
  BY <1>3 DEF ForgetTasks
<1>5. attempt' \in [Tasks -> 0..MaxRetries]
  BY IngestAssumption DEF ForgetTasks
<1> QED BY <1>2, <1>4, <1>5 DEF ForgetTasks

\* The initial state has the types.
LEMMA TypeInit == Init => TypeInv
<1> SUFFICES ASSUME Init PROVE TypeInv
  OBVIOUS
<1>1. <<>> \in Seq(Record) /\ NoTally \in [Counter -> Nat]
  BY DEF NoTally
<1>2. todo \in [Tasks -> Seq(Record)] /\ tally \in [Tasks -> [Counter -> Nat]]
  BY <1>1 DEF Init
<1>3. InHand
  BY DEF Init, InHand, HasRecord, Outcome
<1>4. pc \in [Tasks -> Idle \cup Working]
  BY DEF Init, Idle
<1>5. attempt \in [Tasks -> 0..MaxRetries] /\ scraped \in [Tasks -> Nat] /\ copies \in [Hashes -> Nat]
  BY IngestAssumption DEF Init
<1>6. faults \in 0..MaxFaults /\ crashes \in 0..MaxCrashes
  BY IngestAssumption DEF Init
<1>7. callerPc \in [Callers -> {"idle", "seed", "begin", "await"}]
      /\ status \in [Tasks -> {"pending", "success", "partial", "failed", "cancelled"}]
  BY DEF Init
<1> QED BY <1>2, <1>3, <1>4, <1>5, <1>6, <1>7 DEF Init, TypeInv, TypeOK

\* The steps of run_all, cancel and a crash keep the types.
LEMMA TypeRun ==
  ASSUME TypeInv,
         (\E c \in Callers : Acquire(c) \/ Run(c)) \/ Cancel \/ Crash
  PROVE  TypeInv'
<1> DEFINE SomeTask == \A t \in Tasks : pc[t] \in {"success", "write_error"} => Hash(t) \in Hashes
<1>0. SomeTask /\ Logged \subseteq Hashes
  <2>1. SomeTask
    <3> SUFFICES ASSUME NEW t \in Tasks, pc[t] \in {"success", "write_error"}
                 PROVE  Hash(t) \in Hashes
      OBVIOUS
    <3>1. pc[t] \in HasRecord
      BY DEF HasRecord, Outcome
    <3> QED BY <3>1, RecordInHand
  <2>2. Logged \subseteq Hashes
    BY DEF TypeInv, TypeOK, Logged, Row
  <2> QED BY <2>1, <2>2
<1> USE DEF TypeInv, TypeOK, InHand, HasRecord, Idle, Working, Outcome
<1>1. ASSUME NEW c \in Callers, Acquire(c) PROVE TypeInv'
  BY <1>1 DEF Acquire, taskVars, storeVars, budgetVars, historyVars
<1>2. ASSUME NEW c \in Callers, Seed(c) PROVE TypeInv'
  <2>1. seen' \subseteq Hashes
    BY <1>0, <1>2 DEF Seed
  <2>2. callerPc' \in [Callers -> {"idle", "seed", "begin", "await"}]
    BY <1>2 DEF Seed
  <2> QED BY <1>2, <2>1, <2>2 DEF Seed, taskVars, storeVars, budgetVars, historyVars
<1>3. ASSUME NEW c \in Callers, Begin(c) PROVE TypeInv'
  BY <1>3 DEF Begin, storeVars, budgetVars, historyVars
<1>4. ASSUME NEW c \in Callers, Return(c) PROVE TypeInv'
  BY <1>4, ForgetTyped DEF Return, storeVars, budgetVars, historyVars
<1>5. ASSUME Cancel PROVE TypeInv'
  BY <1>5 DEF Cancel, taskVars, storeVars, budgetVars, historyVars
<1>6. ASSUME Crash PROVE TypeInv'
  <2>1. unaudited' \subseteq Hashes
    BY <1>0, <1>6 DEF Crash
  <2>2. crashes' \in 0..MaxCrashes
    BY <1>6, IngestAssumption DEF Crash
  <2>3. ForgetTasks
    BY <1>6 DEF Crash
  <2> QED BY <1>6, <2>1, <2>2, <2>3, ForgetTyped DEF Crash, storeVars
<1> QED BY <1>1, <1>2, <1>3, <1>4, <1>5, <1>6 DEF Run

\* So do the steps of a task.
LEMMA TypeTask ==
  ASSUME TypeInv, NEW t \in Tasks, RunPlugin(t)
  PROVE  TypeInv'
<1> USE DEF engineVars, storeVars, budgetVars, historyVars
<1> DEFINE Pc == Idle \cup Working
<1>0. TypeOK /\ InHand
  BY DEF TypeInv
<1>F. Fault => faults' \in 0..MaxFaults /\ crashes' \in 0..MaxCrashes
  BY <1>0, IngestAssumption DEF Fault, TypeOK
<1>1. ASSUME Start(t) PROVE TypeInv'
  BY <1>0, <1>1 DEF Start, TypeInv, TypeOK, InHand, HasRecord, Idle, Working, Outcome
<1>2. ASSUME NEW s \in {"success", "partial", "failed", "cancelled"}, Finish(t, s) PROVE TypeInv'
  BY <1>0, <1>2 DEF Finish, TypeInv, TypeOK, InHand, HasRecord, Idle, Working, Outcome
<1>3. ASSUME ScrapeReturns(t) PROVE TypeInv'
  <2>1. PICK records \in Feeds[t] :
           /\ todo' = [todo EXCEPT ![t] = SubSeq(records, 1,
                         IF Len(records) > MaxRecords THEN MaxRecords ELSE Len(records))]
           /\ scraped' = [scraped EXCEPT ![t] = Len(SubSeq(records, 1,
                            IF Len(records) > MaxRecords THEN MaxRecords ELSE Len(records)))]
    BY <1>3 DEF ScrapeReturns
  <2>2. records \in Seq(Record)
    BY IngestAssumption
  <2>3. todo' \in [Tasks -> Seq(Record)] /\ scraped' \in [Tasks -> Nat]
    BY <1>0, <2>1, <2>2, CutList DEF TypeOK
  <2>4. pc' = [pc EXCEPT ![t] = "record"] /\ attempt' = [attempt EXCEPT ![t] = 0]
    BY <1>3 DEF ScrapeReturns
  <2>5. InHand'
    BY <1>0, <2>1, <2>4 DEF TypeOK, InHand, HasRecord, Outcome
  <2>6. attempt' \in [Tasks -> 0..MaxRetries]
    BY <1>0, <2>4, IngestAssumption DEF TypeOK
  <2> QED BY <1>0, <1>3, <2>3, <2>4, <2>5, <2>6 DEF ScrapeReturns, TypeInv, TypeOK, Idle, Working
<1>4. ASSUME ScrapeRetries(t) PROVE TypeInv'
  <2>1. attempt' \in [Tasks -> 0..MaxRetries]
    BY <1>0, <1>4, IngestAssumption DEF ScrapeRetries, TypeOK
  <2> QED BY <1>0, <1>4, <2>1 DEF ScrapeRetries, TypeInv, TypeOK, InHand
<1>5. ASSUME RejectMarket(t) \/ Reject(t) PROVE TypeInv'
  <2>1. tally' \in [Tasks -> [Counter -> Nat]]
    BY <1>0, <1>5, CountTyped DEF RejectMarket, Reject, Counter
  <2> QED BY <1>0, <1>5, <2>1 DEF RejectMarket, Reject, Report, TypeInv, TypeOK, InHand,
                                  HasRecord, Idle, Working, Outcome
<1>6. ASSUME AcceptRecord(t) \/ LookupMiss(t) \/ Accept(t) PROVE TypeInv'
  BY <1>0, <1>6 DEF AcceptRecord, LookupMiss, Accept, TypeInv, TypeOK, InHand, HasRecord,
                    Idle, Working, Outcome
<1>7. ASSUME NextRecord(t), pc[t] \in HasRecord
      PROVE  todo' \in [Tasks -> Seq(Record)] /\ pc' \in [Tasks -> Pc] /\ InHand'
  <2>1. Tail(todo[t]) \in Seq(Record)
    BY <1>7, RecordInHand
  <2> QED BY <1>0, <1>7, <2>1 DEF NextRecord, TypeOK, InHand, HasRecord, Idle, Working, Outcome
<1>8. ASSUME RecallHit(t) \/ LookupHit(t) PROVE TypeInv'
  <2>1. tally' \in [Tasks -> [Counter -> Nat]]
    BY <1>0, <1>8, CountTyped DEF RecallHit, LookupHit, Counter
  <2>2. todo' \in [Tasks -> Seq(Record)] /\ pc' \in [Tasks -> Pc] /\ InHand'
    BY <1>7, <1>8 DEF RecallHit, LookupHit, HasRecord
  <2> QED BY <1>0, <1>8, <2>1, <2>2 DEF RecallHit, LookupHit, TypeInv, TypeOK
<1>9. ASSUME RecallMiss(t) \/ LookupFails(t) PROVE TypeInv'
  <2>1. Hash(t) \in Hashes
    BY <1>9, RecordInHand DEF RecallMiss, LookupFails, HasRecord
  <2>2. seen' \subseteq Hashes /\ overlooked' \subseteq Hashes
    BY <1>0, <1>9, <2>1 DEF RecallMiss, LookupFails, TypeOK
  <2>3. pc' \in [Tasks -> Pc] /\ InHand'
    BY <1>0, <1>9 DEF RecallMiss, LookupFails, TypeOK, InHand, HasRecord, Idle, Working, Outcome
  <2>4. faults' \in 0..MaxFaults /\ crashes' \in 0..MaxCrashes
    BY <1>0, <1>9, <1>F DEF RecallMiss, LookupFails, TypeOK
  <2> QED BY <1>0, <1>9, <2>2, <2>3, <2>4 DEF RecallMiss, LookupFails, TypeInv, TypeOK
<1>10. ASSUME WriteSucceeds(t) \/ WriteRefused(t) \/ WriteFails(t) \/ WriteUnacknowledged(t) PROVE TypeInv'
  <2>1. tally' \in [Tasks -> [Counter -> Nat]]
    BY <1>0, <1>10, CountTyped DEF WriteSucceeds, WriteRefused, WriteFails, WriteUnacknowledged, Counter
  <2>2. copies' \in [Hashes -> Nat]
    BY <1>0, <1>10 DEF WriteSucceeds, WriteRefused, WriteFails, WriteUnacknowledged, Upsert, TypeOK
  <2>3. pc' \in [Tasks -> Pc] /\ InHand'
    BY <1>0, <1>10 DEF WriteSucceeds, WriteRefused, WriteFails, WriteUnacknowledged, Report, TypeOK, InHand,
                       HasRecord, Idle, Working, Outcome
  <2>4. faults' \in 0..MaxFaults /\ crashes' \in 0..MaxCrashes
    BY <1>0, <1>10, <1>F DEF WriteSucceeds, WriteRefused, WriteFails, WriteUnacknowledged, TypeOK
  <2> QED BY <1>0, <1>10, <2>1, <2>2, <2>3, <2>4
          DEF WriteSucceeds, WriteRefused, WriteFails, WriteUnacknowledged, Report, TypeInv, TypeOK
<1>11. ASSUME LogRow(t) \/ LogRowLost(t) PROVE TypeInv'
  <2>1. Hash(t) \in Hashes
    BY <1>11, RecordInHand DEF LogRow, LogRowLost, HasRecord
  <2>2. log' \subseteq Row /\ unaudited' \subseteq Hashes
    BY <1>0, <1>11, <2>1 DEF LogRow, LogRowLost, TypeOK, Row
  <2>3. todo' \in [Tasks -> Seq(Record)] /\ pc' \in [Tasks -> Pc] /\ InHand'
    BY <1>7, <1>11 DEF LogRow, LogRowLost, HasRecord
  <2>4. faults' \in 0..MaxFaults /\ crashes' \in 0..MaxCrashes
    BY <1>0, <1>11, <1>F DEF LogRow, LogRowLost, TypeOK
  <2> QED BY <1>0, <1>11, <2>2, <2>3, <2>4 DEF LogRow, LogRowLost, TypeInv, TypeOK
<1>12. CASE Scrape(t)
  BY <1>2, <1>3, <1>4, <1>12 DEF Scrape, ScrapeCancelled, ScrapeExhausted
<1>13. CASE Take(t)
  BY <1>2, <1>5, <1>6, <1>13 DEF Take, StopAtRecord, Complete
<1>14. CASE IsDuplicate(t)
  BY <1>6, <1>8, <1>9, <1>14 DEF IsDuplicate
<1>15. CASE Persist(t)
  BY <1>5, <1>6, <1>10, <1>11, <1>15 DEF Persist
<1> QED BY <1>1, <1>12, <1>13, <1>14, <1>15 DEF RunPlugin

\* The types of the model, and that a task at work on a record has one.
THEOREM IngestTypes == Spec => []TypeInv
<1>1. TypeInv /\ [Next]_vars => TypeInv'
  <2> SUFFICES ASSUME TypeInv, [Next]_vars PROVE TypeInv'
    OBVIOUS
  <2>1. CASE \E t \in Tasks : RunPlugin(t)
    BY <2>1, TypeTask
  <2>2. CASE (\E c \in Callers : Acquire(c) \/ Run(c)) \/ Cancel \/ Crash
    BY <2>2, TypeRun
  <2>3. CASE UNCHANGED vars
    BY <2>3 DEF TypeInv, TypeOK, InHand, vars, engineVars, taskVars, storeVars, budgetVars, historyVars
  <2> QED BY <2>1, <2>2, <2>3 DEF Next
<1> QED BY <1>1, TypeInit, PTL DEF Spec

\* Every variable keeps its type, whatever the tasks, records, workers and bounds.
THEOREM IngestTypeOK == Spec => []TypeOK
<1>1. TypeInv => TypeOK
  BY DEF TypeInv
<1> QED BY <1>1, IngestTypes, PTL

=============================================================================
