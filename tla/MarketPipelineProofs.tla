------------------------ MODULE MarketPipelineProofs ------------------------
(***************************************************************************)
(* Proofs about one market's pipeline, for any number of runs, projects,     *)
(* tasks, versions of the portal, midnights and tries.                      *)
(*                                                                         *)
(* The argument has three parts with an invariant each, on top of the types. *)
(* Who overlaps whom: a run that has met nobody is alone while it is active. *)
(* Versions: checkpoints, batches and rows trail the portal, and a           *)
(* checkpoint is never older than what was stored or loaded from one.  And   *)
(* the history: its only writer carries what the file said.                 *)
(***************************************************************************)
EXTENDS MarketPipeline, TLAPS

USE PipelineAssumption DEF PipelineAssumption

---------------------------------------------------------------------------
(* Types *)

\* Only a run that is recording its start or its end has the history open.
WriterInv == \A r \in Runs : io[r] # "closed" => step[r] \in Appending

\* The types, and the step that decides what follows the writing of a record.
TypeInv == TypeOK /\ WriterInv

\* No batch and no row count as version 0.
LEMMA ZeroIsVersion == 0 \in Versions
  BY DEF Versions

\* What a step leaves alone keeps its type.
LEMMA Unmoved ==
  ASSUME TypeOK
  PROVE  /\ UNCHANGED runVars => RunsOK'
         /\ UNCHANGED diskVars => DiskOK'
         /\ UNCHANGED tableVars => TablesOK'
         /\ UNCHANGED worldVars => WorldOK'
         /\ UNCHANGED notes => NotesOK'
  <1>1. UNCHANGED runVars => RunsOK'
    BY DEF TypeOK, runVars, RunsOK
  <1>2. UNCHANGED diskVars => DiskOK'
    BY DEF TypeOK, diskVars, DiskOK
  <1>3. UNCHANGED tableVars => TablesOK'
    BY DEF TypeOK, tableVars, TablesOK
  <1>4. UNCHANGED worldVars => WorldOK'
    BY DEF TypeOK, worldVars, WorldOK
  <1>5. UNCHANGED notes => NotesOK'
    BY DEF TypeOK, notes, NotesOK
  <1>6. QED
    BY <1>1, <1>2, <1>3, <1>4, <1>5

\* Reading and rewriting the history stays within the types.
LEMMA AppendTyping ==
  ASSUME TypeInv, NEW r \in Runs, Append(r)
  PROVE  TypeInv'
  <1> USE DEF RunsOK, Appending, Working, Statuses, NoHistory, GoTo
  <1>1. TypeOK /\ RunsOK /\ DiskOK /\ WriterInv
    BY DEF TypeInv, TypeOK
  <1>2. TablesOK' /\ WorldOK' /\ NotesOK'
    <2>1. TablesOK' /\ WorldOK'
      BY <1>1, Unmoved DEF Append, ReadHistory, TruncateHistory, WriteHistory, HistoryFails,
                           SummaryFails
    <2>2. CASE HistoryFails(r)
      BY <1>1, <2>1, <2>2 DEF HistoryFails, TypeOK, NotesOK
    <2>3. CASE ~HistoryFails(r)
      BY <1>1, <2>1, <2>3, Unmoved DEF Append, ReadHistory, TruncateHistory, WriteHistory,
                                       SummaryFails
    <2>4. QED
      BY <2>1, <2>2, <2>3
  <1>3. seen' \in [Runs -> [Runs -> Statuses]] /\ DiskOK'
    <2>1. CASE ReadHistory(r)
      BY <1>1, <2>1 DEF ReadHistory, DiskOK, diskVars
    <2>2. CASE TruncateHistory(r)
      BY <1>1, <2>2 DEF TruncateHistory, DiskOK
    <2>3. CASE WriteHistory(r)
      BY <1>1, <2>3 DEF WriteHistory, DiskOK
    <2>4. CASE HistoryFails(r)
      BY <1>1, <2>4 DEF HistoryFails, DiskOK, diskVars
    <2>5. CASE SummaryFails(r)
      BY <1>1, <2>5 DEF SummaryFails, DiskOK
    <2>6. QED
      BY <2>1, <2>2, <2>3, <2>4, <2>5 DEF Append
  <1>4. CASE ReadHistory(r) \/ TruncateHistory(r)
    <2>1. UNCHANGED <<step, status, batch>>
      BY <1>4 DEF ReadHistory, TruncateHistory
    <2>2. io' \in [Runs -> {"closed", "read", "truncated"}]
      BY <1>1, <1>4 DEF ReadHistory, TruncateHistory
    <2>3. \A q \in Runs : io'[q] # "closed" => io[q] # "closed" \/ step[q] \in Appending
      BY <1>1, <1>4 DEF ReadHistory, TruncateHistory
    <2>4. WriterInv'
      BY <1>1, <2>1, <2>3 DEF WriterInv
    <2>5. RunsOK'
      BY <1>1, <1>3, <2>1, <2>2
    <2>6. QED
      BY <1>2, <1>3, <2>4, <2>5 DEF TypeInv, TypeOK
  <1>5. CASE WriteHistory(r)
    <2>1. step[r] \in Appending
      BY <1>1, <1>5 DEF WriteHistory, WriterInv
    <2>2. Recorded(r) \in {"scrape", "elsewhere", "fail", "ended"}
      BY <2>1 DEF Recorded
    <2>3. RunsOK'
      BY <1>1, <1>5, <2>2 DEF WriteHistory
    <2>4. WriterInv'
      BY <1>1, <1>5 DEF WriteHistory, WriterInv
    <2>5. QED
      BY <1>2, <1>3, <2>3, <2>4 DEF TypeInv, TypeOK
  <1>6. CASE HistoryFails(r) \/ SummaryFails(r)
    <2>1. /\ \E next \in {"fail", "gone", "ended"} : step' = [step EXCEPT ![r] = next]
          /\ io' = [io EXCEPT ![r] = "closed"]
          /\ status' = status \/ \E result \in Statuses : status' = [status EXCEPT ![r] = result]
          /\ batch' = batch \/ batch' = [batch EXCEPT ![r] = 0]
      BY <1>6 DEF HistoryFails, SummaryFails, Fail, Gone
    <2>2. step' \in [Runs -> {"new", "ended", "gone"} \cup Appending \cup Working]
      BY <1>1, <2>1
    <2>3. io' \in [Runs -> {"closed", "read", "truncated"}] /\ status' \in [Runs -> Statuses]
      BY <1>1, <2>1
    <2>4. batch' \in [Runs -> Versions]
      BY <1>1, <2>1, ZeroIsVersion
    <2>5. RunsOK'
      BY <1>3, <2>2, <2>3, <2>4
    <2>6. WriterInv'
      BY <1>1, <2>1 DEF WriterInv
    <2>7. QED
      BY <1>2, <1>3, <2>5, <2>6 DEF TypeInv, TypeOK
  <1>7. QED
    BY <1>4, <1>5, <1>6 DEF Append

\* So do the start, the stages and the end of a run.
LEMMA StageTyping ==
  ASSUME TypeInv, NEW r \in Runs,
         Start(r) \/ Elsewhere(r) \/ Stage1(r) \/ Stage2(r) \/ Stage3(r) \/ Kill(r)
  PROVE  TypeInv'
  <1> USE DEF Appending, Working, Statuses, NoHistory, GoTo, Close, Fail, Gone
  <1>0. TypeOK /\ RunsOK /\ DiskOK /\ TablesOK /\ WorldOK /\ NotesOK /\ WriterInv
    BY DEF TypeInv, TypeOK
  <1>1. CASE Start(r)
    <2>1. RunsOK' /\ WriterInv' /\ NotesOK'
      BY <1>0, <1>1 DEF Start, RunsOK, WriterInv, NotesOK, Active
    <2>2. QED
      BY <1>0, <1>1, <2>1, Unmoved DEF Start, TypeInv, TypeOK
  <1>2. CASE SkipScraping(r) \/ KickOffCrew(r) \/ CrewReturns(r) \/ ScoutsStore(r) \/ IntelReturns(r)
    <2>1. RunsOK' /\ WriterInv'
      BY <1>0, <1>2 DEF SkipScraping, KickOffCrew, CrewReturns, ScoutsStore, IntelReturns, RunsOK,
                        WriterInv
    <2>2. QED
      BY <1>0, <1>2, <2>1, Unmoved
         DEF SkipScraping, KickOffCrew, CrewReturns, ScoutsStore, IntelReturns, TypeInv, TypeOK
  <1>3. ASSUME NEW t \in Tasks, ToolSaves(r, t) PROVE TypeInv'
    <2>1. DiskOK'
      BY <1>0, <1>3 DEF ToolSaves, DiskOK, WorldOK
    <2>2. WriterInv'
      BY <1>0, <1>3 DEF ToolSaves, runVars, WriterInv
    <2>3. QED
      BY <1>0, <1>3, <2>1, <2>2, Unmoved DEF ToolSaves, TypeInv, TypeOK
  <1>4. CASE LoadBatch(r)
    <2>1. RunsOK' /\ WriterInv'
      BY <1>0, <1>4 DEF LoadBatch, RunsOK, DiskOK, WriterInv
    <2>2. QED
      BY <1>0, <1>4, <2>1, Unmoved DEF LoadBatch, TypeInv, TypeOK
  <1>5. ASSUME NEW bad \in SUBSET Batch(r), NEW lost \in SUBSET bad, Commit(r, bad, lost)
        PROVE  TablesOK' /\ NotesOK'
    <2>1. rows' \in [Projects -> Versions]
      BY <1>0, <1>5 DEF Commit, TablesOK, RunsOK
    <2>2. [k \in Projects |-> k \in bad \ lost] \in [Projects -> BOOLEAN]
      OBVIOUS
    <2>3. dead' \in [Runs -> [Projects -> BOOLEAN]]
      BY <1>0, <1>5, <2>2 DEF Commit, TablesOK
    <2>4. TablesOK'
      BY <1>0, <1>5, <2>1, <2>3 DEF Commit, TablesOK
    <2>5. lost \subseteq Projects
      BY DEF Batch
    <2>6. NotesOK'
      BY <1>0, <1>5, <2>5 DEF Commit, NotesOK
    <2>7. QED
      BY <2>4, <2>6
  <1>6. CASE Organize(r) \/ QualityFails(r)
    <2>1. RunsOK' /\ WriterInv'
      BY <1>0, <1>6 DEF Organize, QualityFails, RunsOK, WriterInv
    <2>2. QED
      BY <1>0, <1>5, <1>6, <2>1, Unmoved DEF Organize, QualityFails, TypeInv, TypeOK
  <1>7. CASE OrganizeInVain(r)
    <2>1. RunsOK' /\ WriterInv' /\ NotesOK'
      BY <1>0, <1>7 DEF OrganizeInVain, Batch, RunsOK, WriterInv, NotesOK
    <2>2. QED
      BY <1>0, <1>7, <2>1, Unmoved DEF OrganizeInVain, TypeInv, TypeOK
  <1>8. CASE OrganizeRaises(r) \/ IntelRaises(r) \/ ReportSaved(r) \/ Elsewhere(r)
    <2>1. PICK next \in {"finish", "fail"}, result \in {"success", "failed"} :
             /\ step' = [step EXCEPT ![r] = next]
             /\ status' = [status EXCEPT ![r] = result]
             /\ UNCHANGED <<io, seen, batch>>
      BY <1>8 DEF OrganizeRaises, IntelRaises, ReportSaved, Elsewhere
    <2>2. RunsOK' /\ WriterInv'
      BY <1>0, <2>1 DEF RunsOK, WriterInv
    <2>3. QED
      BY <1>0, <1>8, <2>2, Unmoved
         DEF OrganizeRaises, IntelRaises, ReportSaved, Elsewhere, TypeInv, TypeOK
  <1>9. CASE Kill(r)
    <2>1. RunsOK' /\ WriterInv' /\ NotesOK'
      BY <1>0, <1>9, ZeroIsVersion DEF Kill, RunsOK, WriterInv, NotesOK
    <2>2. QED
      BY <1>0, <1>9, <2>1, Unmoved DEF Kill, TypeInv, TypeOK
  <1>10. QED
    BY <1>1, <1>2, <1>3, <1>4, <1>6, <1>7, <1>8, <1>9 DEF Stage1, Stage2, Stage3

\* So do the portal, midnight and the jobs on the dead letters.
LEMMA WorldTyping ==
  ASSUME TypeInv,
         Midnight \/ SiteChanges \/ RetryDeadLetters
           \/ (\E old \in SUBSET Projects : PurgeDeadLetters(old))
  PROVE  TypeInv'
  <1>0. TypeOK /\ DiskOK /\ TablesOK /\ WorldOK /\ NotesOK /\ WriterInv
    BY DEF TypeInv, TypeOK
  <1>1. RunsOK' /\ WriterInv'
    BY <1>0, Unmoved
       DEF Midnight, SiteChanges, RetryDeadLetters, PurgeDeadLetters, WriterInv, runVars
  <1>2. CASE Midnight
    <2>1. DiskOK'
      BY <1>0, <1>2, ZeroIsVersion DEF Midnight, DiskOK
    <2>2. WorldOK'
      <3>1. site' \in Versions /\ midnights' = midnights + 1 /\ midnights < MaxMidnights
        BY <1>0, <1>2 DEF Midnight, WorldOK
      <3>2. midnights \in 0..MaxMidnights
        BY <1>0 DEF WorldOK
      <3>3. midnights' \in 0..MaxMidnights
        BY <3>1, <3>2
      <3>4. mine' \subseteq Runs
        BY <1>0, <1>2 DEF Midnight, WorldOK
      <3>5. QED
        BY <3>1, <3>3, <3>4 DEF WorldOK
    <2>3. NotesOK'
      BY <1>0, <1>2 DEF Midnight, NotesOK
    <2>4. QED
      BY <1>0, <1>1, <1>2, <2>1, <2>2, <2>3, Unmoved DEF Midnight, TypeInv, TypeOK
  <1>3. CASE SiteChanges
    <2>1. WorldOK'
      BY <1>0, <1>3 DEF SiteChanges, WorldOK, Versions
    <2>2. QED
      BY <1>0, <1>1, <1>3, <2>1, Unmoved DEF SiteChanges, TypeInv, TypeOK
  <1>4. CASE RetryDeadLetters
    <2>1. TablesOK'
      BY <1>0, <1>4 DEF RetryDeadLetters, TablesOK
    <2>2. QED
      BY <1>0, <1>1, <1>4, <2>1, Unmoved DEF RetryDeadLetters, TypeInv, TypeOK
  <1>5. ASSUME NEW old \in SUBSET Projects, PurgeDeadLetters(old) PROVE TypeInv'
    <2>1. TablesOK'
      BY <1>0, <1>5 DEF PurgeDeadLetters, TablesOK
    <2>2. QED
      BY <1>0, <1>1, <1>5, <2>1, Unmoved DEF PurgeDeadLetters, TypeInv, TypeOK
  <1>6. QED
    BY <1>2, <1>3, <1>4, <1>5

\* The types of the market pipeline.
THEOREM TypeCorrect == Spec => []TypeInv
  <1>1. Init => TypeInv
    <2>1. Init => RunsOK /\ DiskOK /\ WriterInv
      BY ZeroIsVersion DEF Init, RunsOK, DiskOK, WriterInv, NoHistory, Statuses
    <2>2. Init => TablesOK /\ NotesOK
      <3>1. [k \in Projects |-> FALSE] \in [Projects -> BOOLEAN]
        OBVIOUS
      <3>2. 0 \in 0..MaxTries
        OBVIOUS
      <3>3. Init => TablesOK
        BY <3>1, <3>2, ZeroIsVersion DEF Init, TablesOK
      <3>4. Init => NotesOK
        BY DEF Init, NotesOK
      <3>5. QED
        BY <3>3, <3>4
    <2>3. Init => WorldOK
      BY DEF Init, WorldOK, Versions
    <2>4. QED
      BY <2>1, <2>2, <2>3 DEF TypeInv, TypeOK
  <1>2. TypeInv /\ [Next]_vars => TypeInv'
    <2>1. ASSUME TypeInv, UNCHANGED vars PROVE TypeInv'
      BY <2>1, Unmoved DEF TypeInv, TypeOK, WriterInv, vars, runVars
    <2>2. QED
      BY <2>1, AppendTyping, StageTyping, WorldTyping DEF Next
  <1>3. QED
    BY <1>1, <1>2, PTL DEF Spec

\* The type invariant the run checks.
THEOREM TypesHold == Spec => []TypeOK
  BY TypeCorrect, PTL DEF TypeInv

---------------------------------------------------------------------------
(* Who overlaps whom *)

\* Stage 2 only adds to the records lost, and leaves the other notes alone.
LEMMA Losses ==
  ASSUME TypeInv, NEW q \in Runs, Organize(q) \/ OrganizeInVain(q) \/ QualityFails(q)
  PROVE  /\ \A r \in Runs : unsaved[r] \subseteq unsaved'[r]
         /\ UNCHANGED <<met, crossed, spoilt>>
  <1>1. unsaved \in [Runs -> SUBSET Projects]
    BY DEF TypeInv, TypeOK, NotesOK
  <1>2. QED
    BY <1>1 DEF Organize, OrganizeInVain, QualityFails, Commit

\* A run that has met nobody is the only active one of the market, and while the history
\* is not spoilt only one of all markets is active.
Solo ==
  /\ \A x, y \in Active \cap mine : x = y \/ x \in met
  /\ ~spoilt => \A x, y \in Active : x = y

\* The steps of a run, but for its start.
Goes(r) == Append(r) \/ Elsewhere(r) \/ Stage1(r) \/ Stage2(r) \/ Stage3(r) \/ Kill(r)

\* And those of what surrounds the runs.
Surroundings ==
  \/ Midnight \/ SiteChanges \/ RetryDeadLetters
  \/ \E old \in SUBSET Projects : PurgeDeadLetters(old)

\* Nothing but a start makes a run meet another, and nothing cleans the history.
LEMMA OnlyStartsMeet ==
  ASSUME TypeInv, (\E r \in Runs : Goes(r)) \/ Surroundings
  PROVE  met' = met /\ mine' = mine /\ (spoilt => spoilt')
  <1> USE DEF notes, worldVars
  <1>1. ASSUME NEW r \in Runs, Append(r) \/ Kill(r)
        PROVE  met' = met /\ mine' = mine /\ (spoilt => spoilt')
    <2>1. CASE ReadHistory(r) \/ TruncateHistory(r) \/ WriteHistory(r) \/ SummaryFails(r)
      BY <2>1 DEF ReadHistory, TruncateHistory, WriteHistory, SummaryFails
    <2>2. CASE HistoryFails(r) \/ Kill(r)
      BY <2>2 DEF HistoryFails, Kill
    <2>3. QED
      BY <1>1, <2>1, <2>2 DEF Append
  <1>2. ASSUME NEW r \in Runs, Elsewhere(r) \/ Stage1(r) \/ Stage3(r)
        PROVE  met' = met /\ mine' = mine /\ (spoilt => spoilt')
    <2>1. UNCHANGED <<met, mine, spoilt>>
      BY <1>2 DEF Elsewhere, Stage1, SkipScraping, KickOffCrew, CrewReturns, ToolSaves, Stage3,
                  IntelReturns, IntelRaises, ReportSaved
    <2>2. QED
      BY <2>1
  <1>3. ASSUME NEW r \in Runs, Stage2(r)
        PROVE  met' = met /\ mine' = mine /\ (spoilt => spoilt')
    <2>1. CASE Organize(r) \/ OrganizeInVain(r) \/ QualityFails(r)
      <3>1. met' = met /\ spoilt' = spoilt
        BY <2>1, Losses
      <3>2. mine' = mine
        BY <2>1 DEF Organize, OrganizeInVain, QualityFails
      <3>3. QED
        BY <3>1, <3>2
    <2>2. CASE LoadBatch(r) \/ OrganizeRaises(r) \/ ScoutsStore(r)
      <3>1. UNCHANGED <<met, mine, spoilt>>
        BY <2>2 DEF LoadBatch, OrganizeRaises, ScoutsStore
      <3>2. QED
        BY <3>1
    <2>3. QED
      BY <1>3, <2>1, <2>2 DEF Stage2
  <1>4. ASSUME Surroundings PROVE met' = met /\ mine' = mine /\ (spoilt => spoilt')
    <2>1. UNCHANGED <<met, mine, spoilt>>
      BY <1>4 DEF Surroundings, Midnight, SiteChanges, RetryDeadLetters, PurgeDeadLetters
    <2>2. QED
      BY <2>1
  <1>5. QED
    BY <1>1, <1>2, <1>3, <1>4 DEF Goes

\* And only a start adds an active run.
LEMMA ActiveRuns ==
  ASSUME TypeInv, (\E r \in Runs : Goes(r)) \/ Surroundings
  PROVE  Active' \subseteq Active
  <1> USE DEF Active, Appending, Working, GoTo, Close, Fail, Gone
  <1>0. /\ step \in [Runs -> {"new", "ended", "gone"} \cup Appending \cup Working]
        /\ WriterInv
    BY DEF TypeInv, TypeOK, RunsOK
  <1>1. ASSUME NEW r \in Runs, Append(r) PROVE Active' \subseteq Active
    <2>1. step[r] \in Appending /\ \A q \in Runs \ {r} : step'[q] = step[q]
      BY <1>0, <1>1 DEF Append, ReadHistory, TruncateHistory, WriteHistory, HistoryFails,
                        SummaryFails, WriterInv
    <2>2. QED
      BY <2>1
  <1>2. ASSUME NEW r \in Runs, Stage1(r) PROVE Active' \subseteq Active
    BY <1>0, <1>2 DEF Stage1, SkipScraping, KickOffCrew, CrewReturns, ToolSaves, runVars
  <1>3. ASSUME NEW r \in Runs, Stage2(r) PROVE Active' \subseteq Active
    BY <1>0, <1>3 DEF Stage2, LoadBatch, Organize, OrganizeInVain, OrganizeRaises, QualityFails,
                      ScoutsStore
  <1>4. ASSUME NEW r \in Runs, Stage3(r) \/ Elsewhere(r) \/ Kill(r)
        PROVE  Active' \subseteq Active
    BY <1>0, <1>4 DEF Stage3, IntelReturns, IntelRaises, ReportSaved, Elsewhere, Kill
  <1>5. ASSUME Surroundings PROVE Active' \subseteq Active
    BY <1>5 DEF Surroundings, Midnight, SiteChanges, RetryDeadLetters, PurgeDeadLetters, runVars
  <1>6. QED
    BY <1>1, <1>2, <1>3, <1>4, <1>5 DEF Goes

\* A start makes everybody meet who is active, of the market or of all.
LEMMA StartMeets ==
  ASSUME TypeInv, NEW r \in Runs, Start(r)
  PROVE  /\ Active' = Active \cup {r} /\ r \notin Active /\ mine' = mine
         /\ met' = IF r \in mine /\ Active \cap mine # {} THEN met \cup (Active' \cap mine)
                   ELSE met
         /\ spoilt' = (spoilt \/ Active # {})
  <1>1. Active' = Active \cup {r} /\ r \notin Active /\ mine' = mine
    BY DEF Start, GoTo, Active, Appending, Working, TypeInv, TypeOK, RunsOK, worldVars
  <1>2. QED
    BY <1>1 DEF Start

\* Two active runs of the market have met, and two of any have spoilt the history.
LEMMA SoloStep ==
  ASSUME TypeInv, Solo, [Next]_vars
  PROVE  Solo'
  <1>1. CASE UNCHANGED vars
    BY <1>1 DEF Solo, Active, vars, runVars, notes, worldVars
  <1>2. CASE \E r \in Runs : Start(r)
    <2>1. PICK r \in Runs : Start(r)
      BY <1>2
    <2>2. \A x, y \in Active' \cap mine' : x = y \/ x \in met'
      BY <2>1, StartMeets DEF Solo
    <2>3. ~spoilt' => \A x, y \in Active' : x = y
      BY <2>1, StartMeets
    <2>4. QED
      BY <2>2, <2>3 DEF Solo
  <1>3. CASE (\E r \in Runs : Goes(r)) \/ Surroundings
    BY <1>3, ActiveRuns, OnlyStartsMeet DEF Solo
  <1>4. QED
    BY <1>1, <1>2, <1>3 DEF Next, Goes, Surroundings

---------------------------------------------------------------------------
(* Which market a run is of *)

\* Only a run of the market goes through the stages that are modelled.
Home ==
  \A r \in Runs : /\ step[r] \in Working \ {"elsewhere"} => r \in mine
                  /\ step[r] = "elsewhere" => r \notin mine

\* A record of the start sends each run to the stages of its market; nothing else does.
LEMMA HomeStep ==
  ASSUME TypeInv, Home, [Next]_vars
  PROVE  Home'
  <1> USE DEF Home, Working, GoTo, Close, Fail, Gone
  <1>0. /\ step \in [Runs -> {"new", "ended", "gone"} \cup Appending \cup Working]
        /\ WriterInv
    BY DEF TypeInv, TypeOK, RunsOK
  <1>1. ASSUME NEW r \in Runs, ReadHistory(r) \/ TruncateHistory(r) \/ HistoryFails(r)
                                \/ SummaryFails(r)
        PROVE  Home'
    BY <1>0, <1>1 DEF ReadHistory, TruncateHistory, HistoryFails, SummaryFails, worldVars
  <1>2. ASSUME NEW r \in Runs, WriteHistory(r) PROVE Home'
    <2>1. step[r] \in Appending
      BY <1>0, <1>2 DEF WriteHistory, WriterInv
    <2>2. \/ Recorded(r) = "scrape" /\ r \in mine
          \/ Recorded(r) = "elsewhere" /\ r \notin mine
          \/ Recorded(r) \in {"fail", "ended"}
      BY <2>1 DEF Recorded, Appending
    <2>3. QED
      BY <1>0, <1>2, <2>2 DEF WriteHistory, worldVars
  <1>3. ASSUME NEW r \in Runs, Start(r) \/ Elsewhere(r) \/ Stage1(r) \/ Stage3(r) \/ Kill(r)
        PROVE  Home'
    BY <1>0, <1>3 DEF Start, Elsewhere, Stage1, SkipScraping, KickOffCrew, CrewReturns, ToolSaves,
       Stage3, IntelReturns, IntelRaises, ReportSaved, Kill, Active, Appending, runVars, worldVars
  <1>4. ASSUME NEW r \in Runs, Stage2(r) PROVE Home'
    BY <1>0, <1>4 DEF Stage2, LoadBatch, Organize, OrganizeInVain, OrganizeRaises, QualityFails,
                      ScoutsStore, worldVars
  <1>5. ASSUME Midnight \/ SiteChanges \/ RetryDeadLetters \/ UNCHANGED vars
                 \/ (\E old \in SUBSET Projects : PurgeDeadLetters(old))
        PROVE  Home'
    BY <1>5 DEF Midnight, SiteChanges, RetryDeadLetters, PurgeDeadLetters, vars, runVars, worldVars
  <1>6. QED
    BY <1>1, <1>2, <1>3, <1>4, <1>5 DEF Next, Append

---------------------------------------------------------------------------
(* Versions *)

\* Everything trails the portal, and while today has a checkpoint of the records, no row
\* and no batch is newer than it.
Trail ==
  /\ site >= 1
  /\ \A k \in Projects : rows[k] <= site
  /\ \A r \in Runs : batch[r] <= site
  /\ ckpt[Rera] <= site
  /\ ckpt[Rera] # 0 => /\ \A k \in Projects : rows[k] <= ckpt[Rera]
                       /\ \A r \in Runs : batch[r] <= ckpt[Rera]

\* Versions are naturals, so that they can be compared.
LEMMA VersionTypes ==
  ASSUME TypeInv
  PROVE  /\ site \in Nat /\ ckpt[Rera] \in Nat
         /\ \A k \in Projects : rows[k] \in Nat
         /\ \A r \in Runs : batch[r] \in Nat
  BY DEF TypeInv, TypeOK, RunsOK, DiskOK, TablesOK, WorldOK, Versions

\* What a step may do to the versions.
LEMMA VersionSteps ==
  ASSUME TypeInv, [Next]_vars
  PROVE  \/ UNCHANGED <<site, ckpt[Rera], rows, batch>>
         \/ site' = site + 1 /\ UNCHANGED <<ckpt[Rera], rows, batch>>
         \/ ckpt'[Rera] \in {0, site} /\ UNCHANGED <<site, rows, batch>>
         \/ /\ UNCHANGED <<site, ckpt[Rera], rows>>
            /\ \E r \in Runs : /\ batch'[r] \in {0, ckpt[Rera]}
                               /\ \A q \in Runs \ {r} : batch'[q] = batch[q]
         \/ /\ UNCHANGED <<site, ckpt[Rera], batch>>
            /\ \E r \in Runs : \A k \in Projects : rows'[k] \in {rows[k], batch[r]}
  <1>0. batch \in [Runs -> Versions] /\ ckpt \in [Tasks -> Versions] /\ rows \in [Projects -> Versions]
    BY DEF TypeInv, TypeOK, RunsOK, DiskOK, TablesOK
  <1>1. ASSUME NEW r \in Runs,
               \/ Start(r) \/ ReadHistory(r) \/ TruncateHistory(r) \/ WriteHistory(r)
               \/ SummaryFails(r) \/ Elsewhere(r) \/ Stage3(r)
        PROVE  UNCHANGED <<site, ckpt[Rera], rows, batch>>
    BY <1>1 DEF Start, ReadHistory, TruncateHistory, WriteHistory, SummaryFails, Elsewhere, Stage3,
                IntelReturns, IntelRaises, ReportSaved, diskVars, tableVars, worldVars
  <1>2. ASSUME NEW r \in Runs, SkipScraping(r) \/ KickOffCrew(r) \/ CrewReturns(r)
                                 \/ OrganizeInVain(r) \/ OrganizeRaises(r) \/ ScoutsStore(r)
        PROVE  UNCHANGED <<site, ckpt[Rera], rows, batch>>
    BY <1>2 DEF SkipScraping, KickOffCrew, CrewReturns, OrganizeInVain, OrganizeRaises, ScoutsStore,
                diskVars, tableVars, worldVars
  <1>3. ASSUME NEW r \in Runs, NEW t \in Tasks, ToolSaves(r, t)
        PROVE  ckpt'[Rera] \in {ckpt[Rera], site} /\ UNCHANGED <<site, rows, batch>>
    BY <1>0, <1>3 DEF ToolSaves, runVars, tableVars, worldVars
  <1>4. ASSUME NEW r \in Runs, LoadBatch(r) \/ Kill(r)
        PROVE  /\ UNCHANGED <<site, ckpt[Rera], rows>>
               /\ batch'[r] \in {0, ckpt[Rera]}
               /\ \A q \in Runs \ {r} : batch'[q] = batch[q]
    BY <1>0, <1>4 DEF LoadBatch, Kill, Gone, diskVars, tableVars, worldVars
  <1>a. ASSUME NEW r \in Runs, HistoryFails(r)
        PROVE  /\ UNCHANGED <<site, ckpt[Rera], rows>>
               /\ \/ batch' = batch
                  \/ batch'[r] = 0 /\ \A q \in Runs \ {r} : batch'[q] = batch[q]
    BY <1>0, <1>a DEF HistoryFails, Gone, diskVars, tableVars, worldVars
  <1>5. ASSUME NEW r \in Runs, Organize(r) \/ QualityFails(r)
        PROVE  /\ UNCHANGED <<site, ckpt[Rera], batch>>
               /\ \A k \in Projects : rows'[k] \in {rows[k], batch[r]}
    BY <1>0, <1>5 DEF Organize, QualityFails, Commit, diskVars, worldVars
  <1>6. Midnight => ckpt'[Rera] \in {0, site} /\ UNCHANGED <<site, rows, batch>>
    BY DEF Midnight, runVars, tableVars
  <1>7. SiteChanges => site' = site + 1 /\ UNCHANGED <<ckpt[Rera], rows, batch>>
    BY DEF SiteChanges, runVars, diskVars, tableVars
  <1>8. ASSUME RetryDeadLetters \/ (\E old \in SUBSET Projects : PurgeDeadLetters(old)) \/ UNCHANGED vars
        PROVE  UNCHANGED <<site, ckpt[Rera], rows, batch>>
    BY <1>8 DEF RetryDeadLetters, PurgeDeadLetters, vars, runVars, diskVars, tableVars, worldVars
  <1>9. QED
    BY <1>1, <1>2, <1>3, <1>4, <1>a, <1>5, <1>6, <1>7, <1>8 DEF Next, Append, Stage1, Stage2

\* Versions travel from the portal by the checkpoint to the batch and the row.
LEMMA TrailStep ==
  ASSUME TypeInv, Trail, [Next]_vars
  PROVE  Trail'
  BY VersionTypes, VersionSteps DEF Trail

---------------------------------------------------------------------------
(* Batches *)

\* Stage 2 of the run is behind it.
Past(r) ==
  /\ r \in mine
  /\ step[r] \in {"scouts", "intel", "report", "finish"} \/ status[r] = "success"

Accounted(r) ==
  \A k \in Projects \ unsaved[r] :
    rows[k] >= Expected(r) \/ dead[r][k] \/ tries[r][k] = MaxTries

Batches ==
  /\ \A r \in Runs : status[r] = "success" => step[r] \in {"finish", "ended"}
  /\ \A r \in Runs \ met : step[r] = "organize" /\ batch[r] # 0 =>
       \A k \in Projects : rows[k] <= batch[r]
  /\ \A r \in Runs \ met, q \in Runs : Past(r) /\ step[q] = "organize" /\ batch[q] # 0 =>
       batch[r] <= batch[q]
  /\ \A r \in Runs : Past(r) /\ batch[r] # 0 => Accounted(r)

\* How a run gets past stage 2, and how it gets there.
LEMMA RunSteps ==
  ASSUME TypeInv, Home, Batches, [Next]_vars, NEW r \in Runs
  PROVE  /\ status'[r] = "success" => step'[r] \in {"finish", "ended"}
         /\ Past(r)' => \/ Past(r) /\ batch'[r] = batch[r]
                        \/ Organize(r) \/ OrganizeInVain(r)
         /\ step'[r] = "organize" => \/ step[r] = "organize" /\ batch'[r] = batch[r]
                                     \/ LoadBatch(r)
         /\ met \subseteq met' /\ unsaved[r] \subseteq unsaved'[r]
  <1> USE DEF Past, GoTo, Close, Fail, Gone, Appending, worldVars
  <1>0. /\ RunsOK /\ NotesOK /\ WriterInv
        /\ \A q \in Runs : step[q] = "elsewhere" => q \notin mine
        /\ \A q \in Runs : status[q] = "success" => step[q] \in {"finish", "ended"}
    BY DEF TypeInv, TypeOK, Batches, Home
  <1>1. ASSUME NEW q \in Runs, Start(q) \/ Append(q) \/ Elsewhere(q) PROVE
          /\ status'[r] = "success" => step'[r] \in {"finish", "ended"}
          /\ Past(r)' => Past(r) /\ batch'[r] = batch[r]
          /\ step'[r] = "organize" => step[r] = "organize" /\ batch'[r] = batch[r]
          /\ met \subseteq met' /\ unsaved[r] \subseteq unsaved'[r]
    <2>1. CASE Start(q)
      BY <1>0, <2>1 DEF Start, RunsOK, NotesOK
    <2>2. CASE ReadHistory(q) \/ TruncateHistory(q)
      BY <1>0, <2>2 DEF ReadHistory, TruncateHistory, notes
    <2>3. CASE WriteHistory(q)
      <3>1. step[q] \in Appending
        BY <1>0, <2>3 DEF WriteHistory, WriterInv
      <3>2. /\ Recorded(q) \in {"scrape", "elsewhere", "fail", "ended"}
            /\ step[q] = "finish" /\ status[q] = "success" => Recorded(q) = "ended"
        BY <3>1 DEF Recorded
      <3>3. QED
        BY <1>0, <2>3, <3>1, <3>2 DEF WriteHistory, RunsOK, notes
    <2>4. CASE HistoryFails(q)
      BY <1>0, <2>4 DEF HistoryFails, RunsOK
    <2>5. CASE SummaryFails(q)
      BY <1>0, <2>5 DEF SummaryFails, RunsOK, notes
    <2>6. CASE Elsewhere(q)
      BY <1>0, <2>6 DEF Elsewhere, RunsOK, notes
    <2>7. QED
      BY <1>1, <2>1, <2>2, <2>3, <2>4, <2>5, <2>6 DEF Append
  <1>2. ASSUME NEW q \in Runs, Stage1(q) \/ Stage3(q) \/ Kill(q) PROVE
          /\ status'[r] = "success" => step'[r] \in {"finish", "ended"}
          /\ Past(r)' => Past(r) /\ batch'[r] = batch[r]
          /\ step'[r] = "organize" => step[r] = "organize" /\ batch'[r] = batch[r]
          /\ met \subseteq met' /\ unsaved[r] \subseteq unsaved'[r]
    BY <1>0, <1>2 DEF Stage1, SkipScraping, KickOffCrew, CrewReturns, ToolSaves, Stage3, IntelReturns,
                IntelRaises, ReportSaved, Kill, RunsOK, runVars, notes
  <1>3. ASSUME NEW q \in Runs, Stage2(q) PROVE
          /\ status'[r] = "success" => step'[r] \in {"finish", "ended"}
          /\ Past(r)' => \/ Past(r) /\ batch'[r] = batch[r]
                         \/ Organize(r) \/ OrganizeInVain(r)
          /\ step'[r] = "organize" => \/ step[r] = "organize" /\ batch'[r] = batch[r]
                                      \/ LoadBatch(r)
          /\ met \subseteq met' /\ unsaved[r] \subseteq unsaved'[r]
    <2>1. CASE LoadBatch(q)
      BY <1>0, <2>1 DEF LoadBatch, RunsOK, notes
    <2>2. CASE Organize(q) \/ OrganizeInVain(q)
      <3>1. met \subseteq met' /\ unsaved[r] \subseteq unsaved'[r]
        BY <2>2, Losses
      <3>2. /\ step' = [step EXCEPT ![q] = "scouts"] /\ step[q] = "organize"
            /\ UNCHANGED <<status, batch, mine>>
        BY <2>2 DEF Organize, OrganizeInVain
      <3>3. CASE q = r
        BY <1>0, <2>2, <3>1, <3>2, <3>3 DEF RunsOK
      <3>4. CASE q # r
        BY <1>0, <3>1, <3>2, <3>4 DEF RunsOK
      <3>5. QED
        BY <3>3, <3>4
    <2>3. CASE QualityFails(q)
      BY <1>0, <2>3, Losses DEF QualityFails, RunsOK
    <2>5. CASE OrganizeRaises(q) \/ ScoutsStore(q)
      BY <1>0, <2>5 DEF OrganizeRaises, ScoutsStore, RunsOK, notes
    <2>4. QED
      BY <1>3, <2>1, <2>2, <2>3, <2>5 DEF Stage2
  <1>4. ASSUME Midnight \/ SiteChanges \/ RetryDeadLetters
                 \/ (\E old \in SUBSET Projects : PurgeDeadLetters(old)) \/ UNCHANGED vars
        PROVE  UNCHANGED <<step, status, batch, mine, met, unsaved>>
    BY <1>4 DEF Midnight, SiteChanges, RetryDeadLetters, PurgeDeadLetters, vars, runVars, notes
  <1>5. QED
    BY <1>0, <1>1, <1>2, <1>3, <1>4 DEF Next

\* Rows change when a batch is organized; dead letters and tries only grow, except for
\* the purge of those that have used up their tries.
LEMMA StoreSteps ==
  ASSUME TypeInv, [Next]_vars
  PROVE  /\ \/ rows' = rows
            \/ \E q \in Runs : /\ Organize(q) \/ QualityFails(q)
                               /\ \A k \in Projects : rows'[k] = rows[k] \/ (batch[q] # 0 /\ rows'[k] = batch[q])
         /\ \A r \in Runs : (\A k \in Projects : dead[r][k] \/ tries[r][k] = MaxTries
                                                => dead'[r][k] \/ tries'[r][k] = MaxTries)
                          \/ step[r] = "organize"
  <1>0. TablesOK
    BY DEF TypeInv, TypeOK
  <1>1. ASSUME NEW q \in Runs, Organize(q) \/ QualityFails(q)
        PROVE  /\ \A k \in Projects : rows'[k] = rows[k] \/ (batch[q] # 0 /\ rows'[k] = batch[q])
               /\ step[q] = "organize" /\ tries' = tries
               /\ \A r \in Runs \ {q} : dead'[r] = dead[r]
    BY <1>0, <1>1 DEF Organize, QualityFails, Commit, Batch, TablesOK
  <1>2. ASSUME NEW q \in Runs,
               Start(q) \/ Append(q) \/ Elsewhere(q) \/ Stage1(q) \/ Stage3(q) \/ Kill(q)
        PROVE  UNCHANGED tableVars
    BY <1>2 DEF Start, Elsewhere, Append, ReadHistory, TruncateHistory, WriteHistory, HistoryFails, SummaryFails, Stage1, SkipScraping,
                KickOffCrew, CrewReturns, ToolSaves, Stage3, IntelReturns, IntelRaises,
                ReportSaved, Kill
  <1>3. ASSUME NEW q \in Runs, LoadBatch(q) \/ OrganizeInVain(q) \/ OrganizeRaises(q) \/ ScoutsStore(q)
        PROVE  UNCHANGED tableVars
    BY <1>3 DEF LoadBatch, OrganizeInVain, OrganizeRaises, ScoutsStore
  <1>4. ASSUME Midnight \/ SiteChanges \/ UNCHANGED vars PROVE UNCHANGED tableVars
    BY <1>4 DEF Midnight, SiteChanges, vars
  <1>5. ASSUME RetryDeadLetters
        PROVE  /\ UNCHANGED <<rows, dead>>
               /\ \A r \in Runs, k \in Projects : tries[r][k] = MaxTries => tries'[r][k] = MaxTries
    BY <1>0, <1>5 DEF RetryDeadLetters, TablesOK
  <1>6. ASSUME NEW old \in SUBSET Projects, PurgeDeadLetters(old)
        PROVE  /\ UNCHANGED <<rows, tries>>
               /\ \A r \in Runs, k \in Projects : dead[r][k] => dead'[r][k] \/ tries[r][k] = MaxTries
    BY <1>0, <1>6 DEF PurgeDeadLetters, TablesOK
  <1>7. CASE UNCHANGED tableVars
    BY <1>7 DEF tableVars
  <1>8. CASE \E q \in Runs : Organize(q) \/ QualityFails(q)
    BY <1>1, <1>8
  <1>9. QED
    BY <1>2, <1>3, <1>4, <1>5, <1>6, <1>7, <1>8 DEF Next, Stage2

\* What organizing a batch stores, each record as a row or as a dead letter.
LEMMA OrganizeAccounts ==
  ASSUME TypeInv, NEW r \in Runs, Organize(r), batch[r] # 0
  PROVE  \A k \in Projects \ unsaved'[r] : rows'[k] = batch[r] \/ dead'[r][k]
  <1>0. PICK bad \in SUBSET Batch(r) : \E lost \in SUBSET bad : Commit(r, bad, lost)
    BY DEF Organize
  <1>1. PICK lost \in SUBSET bad : Commit(r, bad, lost)
    BY <1>0
  <1>2. Batch(r) = Projects /\ TablesOK /\ NotesOK
    BY DEF Batch, TypeInv, TypeOK
  <1>3. \A k \in Projects : k \notin bad => rows'[k] = batch[r]
    BY <1>1, <1>2 DEF Commit
  <1>4. dead'[r] = [k \in Projects |-> k \in bad \ lost]
    BY <1>1, <1>2 DEF Commit, TablesOK
  <1>5. \A k \in Projects : k \in bad \ lost => dead'[r][k]
    BY <1>4
  <1>6. lost \subseteq unsaved'[r]
    BY <1>1, <1>2 DEF Commit, NotesOK
  <1>7. QED
    BY <1>3, <1>5, <1>6

\* A run that has met nobody is the only one that organizes.
LEMMA OrganizesAlone ==
  ASSUME Home, Solo, NEW r \in Runs \ met, NEW q \in Runs, step[r] = "organize",
         step[q] = "organize"
  PROVE  q = r
  BY DEF Home, Solo, Active, Working

\* Every step keeps what is known of the batches.
LEMMA BatchesStep ==
  ASSUME TypeInv, Home, Solo, Trail, Batches, [Next]_vars
  PROVE  Batches'
  <1>1. \A r \in Runs : /\ site \in Nat /\ ckpt[Rera] \in Nat /\ batch[r] \in Nat
                        /\ \A k \in Projects : rows[k] \in Nat
    BY VersionTypes
  <1>2. \A r \in Runs :
          /\ step[r] = "organize" => r \in Active
          /\ (Organize(r) \/ OrganizeInVain(r) \/ QualityFails(r)) => step[r] = "organize"
    BY DEF Active, Working, Organize, OrganizeInVain, QualityFails
  <1>3. \A r \in Runs : LoadBatch(r) => /\ step[r] \in {"load", "load cached"} /\ r \in Active
                                        /\ batch'[r] = ckpt[Rera] /\ UNCHANGED <<rows, met>>
                                        /\ \A q \in Runs \ {r} : step'[q] = step[q] /\ batch'[q] = batch[q]
    BY DEF LoadBatch, Active, Working, tableVars, notes, TypeInv, TypeOK, RunsOK, GoTo
  <1>4. \A r \in Runs : status'[r] = "success" => step'[r] \in {"finish", "ended"}
    BY RunSteps
  <1>5. ASSUME NEW r \in Runs \ met', step'[r] = "organize", batch'[r] # 0, NEW k \in Projects
        PROVE  rows'[k] <= batch'[r]
    <2>1. r \in Runs \ met
      BY <1>5, RunSteps
    <2>2. CASE LoadBatch(r)
      BY <1>1, <1>3, <1>5, <2>1, <2>2 DEF Trail
    <2>3. CASE step[r] = "organize" /\ batch'[r] = batch[r]
      <3>1. rows[k] <= batch[r]
        BY <1>5, <2>1, <2>3 DEF Batches
      <3>2. \A q \in Runs : Organize(q) \/ QualityFails(q) => q = r
        <4>1. ASSUME NEW q \in Runs, step[q] = "organize" PROVE q = r
          BY <2>1, <2>3, <4>1, OrganizesAlone
        <4>2. QED
          BY <1>2, <4>1
      <3>3. rows'[k] = rows[k] \/ rows'[k] = batch[r]
        BY <3>2, StoreSteps
      <3>4. QED
        BY <1>1, <2>3, <3>1, <3>3
    <2>4. QED
      BY <1>5, <2>2, <2>3, RunSteps
  <1>6. ASSUME NEW r \in Runs \ met', NEW q \in Runs, Past(r)', step'[q] = "organize", batch'[q] # 0
        PROVE  batch'[r] <= batch'[q]
    <2>1. r \in Runs \ met
      BY <1>6, RunSteps
    <2>2. CASE Organize(r) \/ OrganizeInVain(r)
      <3>1. step'[r] = "scouts" /\ step[r] = "organize"
        BY <2>2 DEF Organize, OrganizeInVain, GoTo, TypeInv, TypeOK, RunsOK
      <3>2. q # r /\ step'[q] = step[q]
        BY <1>6, <2>2, <3>1 DEF Organize, OrganizeInVain, GoTo, TypeInv, TypeOK, RunsOK
      <3>3. QED
        BY <1>6, <2>1, <3>1, <3>2, OrganizesAlone
    <2>3. CASE Past(r) /\ batch'[r] = batch[r] /\ LoadBatch(q)
      BY <1>1, <1>3, <1>6, <2>3 DEF Trail
    <2>4. CASE Past(r) /\ batch'[r] = batch[r] /\ step[q] = "organize" /\ batch'[q] = batch[q]
      BY <1>6, <2>1, <2>4 DEF Batches
    <2>5. QED
      BY <1>6, <2>2, <2>3, <2>4, RunSteps
  <1>7. ASSUME NEW r \in Runs, Past(r)', batch'[r] # 0, NEW k \in Projects \ unsaved'[r]
        PROVE  rows'[k] >= Expected(r)' \/ dead'[r][k] \/ tries'[r][k] = MaxTries
    <2>1. k \in Projects \ unsaved[r]
      BY <1>7, RunSteps
    <2>2. CASE Organize(r)
      BY <1>1, <1>7, <2>2, OrganizeAccounts DEF Organize, Expected
    <2>3. CASE OrganizeInVain(r)
      BY <1>7, <2>3 DEF OrganizeInVain, Batch, TypeInv, TypeOK, NotesOK
    <2>4. CASE Past(r) /\ batch'[r] = batch[r]
      <3>1. rows[k] >= Expected(r) \/ dead[r][k] \/ tries[r][k] = MaxTries
        BY <1>7, <2>1, <2>4 DEF Batches, Accounted
      <3>2. step[r] # "organize"
        BY <2>4 DEF Past, Batches
      <3>3. CASE dead[r][k] \/ tries[r][k] = MaxTries
        BY <3>2, <3>3, StoreSteps
      <3>4. CASE rows[k] >= Expected(r)
        <4>1. rows[k] >= 1 /\ rows'[k] \in Nat /\ batch[r] >= 1
          BY <1>1, <1>7, <2>4, <3>4, StoreSteps DEF Expected
        <4>2. rows'[k] >= 1
          BY <1>1, <4>1, StoreSteps
        <4>3. CASE r \in met'
          BY <4>2, <4>3 DEF Expected
        <4>4. CASE r \notin met'
          <5>1. r \in Runs \ met
            BY <4>4, RunSteps
          <5>2. rows[k] >= batch[r]
            BY <3>4, <5>1 DEF Expected
          <5>3. \A q \in Runs : step[q] = "organize" /\ batch[q] # 0 => batch[r] <= batch[q]
            BY <2>4, <5>1 DEF Batches
          <5>4. rows'[k] >= batch[r]
            BY <1>1, <1>2, <5>2, <5>3, StoreSteps
          <5>5. QED
            BY <2>4, <4>4, <5>4 DEF Expected
        <4>5. QED
          BY <4>3, <4>4
      <3>5. QED
        BY <3>1, <3>3, <3>4
    <2>5. QED
      BY <1>7, <2>2, <2>3, <2>4, RunSteps
  <1>8. QED
    BY <1>4, <1>5, <1>6, <1>7 DEF Batches, Accounted

\* The four together.
VersionsInv == Home /\ Solo /\ Trail /\ Batches

\* Who overlaps, how versions travel and what became of the batches, for every number of
\* runs and projects.
THEOREM VersionsInvariant == Spec => []VersionsInv
  <1>1. Init => VersionsInv
    BY DEF Init, VersionsInv, Home, Solo, Active, Appending, Working, Trail, Batches, Past, NoHistory
  <1>2. TypeInv /\ VersionsInv /\ [Next]_vars => VersionsInv'
    BY HomeStep, SoloStep, TrailStep, BatchesStep DEF VersionsInv
  <1>3. QED
    BY <1>1, <1>2, TypeCorrect, PTL DEF Spec

\* Every record of a batch that got through stage 2 is a row, a dead letter, or has used up
\* its tries.
THEOREM RecordsAreAccountedFor == Spec => []RecordsAccountedFor
  <1>1. TypeInv /\ VersionsInv => RecordsAccountedFor
    <2> SUFFICES ASSUME TypeInv, VersionsInv, NEW r \in mine, Stored(r)
                 PROVE  \A k \in Batch(r) \ unsaved[r] :
                          rows[k] >= Expected(r) \/ dead[r][k] \/ tries[r][k] = MaxTries
      BY DEF RecordsAccountedFor
    <2>1. r \in Runs /\ Past(r)
      BY DEF TypeInv, TypeOK, WorldOK, Past, Stored
    <2>2. QED
      BY <2>1 DEF VersionsInv, Batches, Accounted, Batch
  <1>2. QED
    BY <1>1, TypeCorrect, VersionsInvariant, PTL

\* Without overlapping runs no row goes back to an older state of the portal.
THEOREM RowsGoForward == Spec => RowsGoBackOnlyByOverlap
  <1>1. TypeInv /\ VersionsInv /\ [Next]_vars =>
          [met = {} => \A k \in Projects : rows'[k] >= rows[k]]_vars
    <2> SUFFICES ASSUME TypeInv, VersionsInv, [Next]_vars, met = {}, NEW k \in Projects
                 PROVE  rows'[k] >= rows[k]
      OBVIOUS
    <2>1. rows[k] \in Nat /\ \A q \in Runs : batch[q] \in Nat
      BY VersionTypes
    <2>2. \A q \in Runs : step[q] = "organize" /\ batch[q] # 0 => rows[k] <= batch[q]
      BY DEF VersionsInv, Batches
    <2>3. \A q \in Runs : Organize(q) \/ QualityFails(q) => step[q] = "organize"
      BY DEF Organize, QualityFails
    <2>4. QED
      BY <2>1, <2>2, <2>3, StoreSteps
  <1>2. QED
    BY <1>1, TypeCorrect, VersionsInvariant, PTL DEF Spec, RowsGoBackOnlyByOverlap

---------------------------------------------------------------------------
(* Checkpoints *)

\* A run that skipped stage 1 finds the checkpoint it saw, unless midnight intervened.
CacheInv ==
  \A r \in Runs : step[r] = "load cached" => ckpt[Rera] # 0 \/ r \in crossed

\* There is always a portal to save from.
LEMMA PortalExists ==
  ASSUME TypeInv, Trail
  PROVE  site # 0
  <1>1. site \in Nat
    BY VersionTypes
  <1>2. QED
    BY <1>1 DEF Trail

\* A run that has seen all checkpoints keeps seeing them, unless midnight falls.
LEMMA CacheStep ==
  ASSUME TypeInv, Trail, CacheInv, [Next]_vars
  PROVE  CacheInv'
  <1> USE DEF CacheInv
  <1>0. /\ step \in [Runs -> {"new", "ended", "gone"} \cup Appending \cup Working]
        /\ DiskOK /\ NotesOK /\ WriterInv
    BY DEF TypeInv, TypeOK, RunsOK
  <1>1. ASSUME NEW r \in Runs, SkipScraping(r) PROVE CacheInv'
    BY <1>0, <1>1 DEF SkipScraping, AllCached, diskVars, notes, GoTo
  <1>2. ASSUME NEW r \in Runs, NEW t \in Tasks, ToolSaves(r, t) PROVE CacheInv'
    <2>1. site # 0
      BY PortalExists
    <2>2. ckpt'[Rera] \in {ckpt[Rera], site}
      BY <1>0, <1>2 DEF ToolSaves, DiskOK
    <2>3. step' = step /\ crossed' = crossed
      BY <1>2 DEF ToolSaves, runVars, notes
    <2>4. QED
      BY <2>1, <2>2, <2>3
  <1>3. ASSUME NEW r \in Runs,
               \/ Start(r) \/ Elsewhere(r) \/ KickOffCrew(r) \/ CrewReturns(r)
               \/ Stage2(r) \/ Stage3(r) \/ Kill(r)
        PROVE  CacheInv'
    <2>1. ckpt' = ckpt /\ crossed' = crossed
      BY <1>0, <1>3, Losses DEF Start, Elsewhere, KickOffCrew, CrewReturns, Stage2, LoadBatch, Organize, OrganizeInVain,
                  OrganizeRaises, QualityFails, ScoutsStore, Stage3, IntelReturns, IntelRaises,
                  ReportSaved, Kill, diskVars, notes
    <2>2. \E next \in {"start", "crew", "load", "organize", "scouts", "intel", "report", "finish",
                        "fail", "gone"} : GoTo(r, next)
      BY <1>3 DEF Start, Elsewhere, KickOffCrew, CrewReturns, Stage2, LoadBatch, Organize, OrganizeInVain,
                  OrganizeRaises, QualityFails, ScoutsStore, Stage3, IntelReturns, IntelRaises,
                  ReportSaved, Kill, Close, Fail, Gone
    <2>3. QED
      BY <1>0, <2>1, <2>2 DEF GoTo
  <1>4. ASSUME NEW r \in Runs, Append(r) PROVE CacheInv'
    <2>1. CASE ReadHistory(r) \/ TruncateHistory(r)
      BY <2>1 DEF ReadHistory, TruncateHistory, diskVars, notes
    <2>2. CASE WriteHistory(r)
      <3>1. step[r] \in Appending
        BY <1>0, <2>2 DEF WriteHistory, WriterInv
      <3>2. Recorded(r) # "load cached"
        BY <3>1 DEF Recorded, Appending
      <3>3. QED
        BY <1>0, <2>2, <3>2 DEF WriteHistory, GoTo, notes
    <2>3. CASE HistoryFails(r) \/ SummaryFails(r)
      BY <1>0, <2>3 DEF HistoryFails, SummaryFails, Fail, Gone, GoTo, diskVars, notes
    <2>4. QED
      BY <1>4, <2>1, <2>2, <2>3 DEF Append
  <1>5. CASE Midnight
    BY <1>5 DEF Midnight, runVars
  <1>6. ASSUME SiteChanges \/ RetryDeadLetters \/ (\E old \in SUBSET Projects : PurgeDeadLetters(old))
                 \/ UNCHANGED vars
        PROVE  CacheInv'
    BY <1>6 DEF SiteChanges, RetryDeadLetters, PurgeDeadLetters, vars, runVars, diskVars, notes
  <1>7. QED
    BY <1>1, <1>2, <1>3, <1>4, <1>5, <1>6 DEF Next, Stage1

\* A run that trusts the checkpoints has a batch, unless midnight fell in between.
THEOREM CachedRunsHaveBatches == Spec => CachedRunHasBatch
  <1>1. Init => CacheInv
    BY DEF Init, CacheInv
  <1>2. TypeInv /\ VersionsInv /\ CacheInv /\ [Next]_vars => CacheInv'
    BY CacheStep DEF VersionsInv
  <1>3. TypeInv /\ CacheInv /\ [Next]_vars =>
          [\A r \in Runs : step[r] = "load cached" /\ step'[r] = "organize" =>
             batch'[r] # 0 \/ r \in crossed]_vars
    <2> SUFFICES ASSUME TypeInv, CacheInv, Next, NEW r \in Runs,
                        step[r] = "load cached", step'[r] = "organize"
                 PROVE  batch'[r] # 0 \/ r \in crossed
      BY DEF vars, runVars
    <2>1. LoadBatch(r)
      <3>1. /\ step \in [Runs -> {"new", "ended", "gone"} \cup Appending \cup Working]
            /\ WriterInv
        BY DEF TypeInv, TypeOK, RunsOK
      <3>2. ~\E q \in Runs : \/ Start(q) \/ Append(q) \/ Elsewhere(q) \/ Stage1(q) \/ Stage3(q)
                             \/ Kill(q)
        <4>1. ASSUME NEW q \in Runs, WriteHistory(q) PROVE FALSE
          BY <3>1, <4>1 DEF WriteHistory, WriterInv, Recorded, GoTo, Appending
        <4>2. QED
          BY <3>1, <4>1
             DEF Start, Append, ReadHistory, TruncateHistory, HistoryFails, SummaryFails, Elsewhere,
                 Stage1, SkipScraping, KickOffCrew, CrewReturns, ToolSaves, Stage3, IntelReturns,
                 IntelRaises, ReportSaved, Kill, Close, Fail, Gone, GoTo, runVars
      <3>3. ~(Midnight \/ SiteChanges \/ RetryDeadLetters
                \/ \E old \in SUBSET Projects : PurgeDeadLetters(old))
        BY DEF Midnight, SiteChanges, RetryDeadLetters, PurgeDeadLetters, runVars
      <3>4. PICK q \in Runs : Stage2(q)
        BY <3>2, <3>3 DEF Next
      <3>5. QED
        BY <3>1, <3>4 DEF Stage2, LoadBatch, Organize, OrganizeInVain, OrganizeRaises, QualityFails,
                          ScoutsStore, Fail, GoTo
    <2>2. batch'[r] = ckpt[Rera]
      BY <2>1 DEF LoadBatch, TypeInv, TypeOK, RunsOK
    <2>3. QED
      BY <2>2 DEF CacheInv
  <1>4. QED
    BY <1>1, <1>2, <1>3, TypeCorrect, VersionsInvariant, PTL DEF Spec, CachedRunHasBatch

---------------------------------------------------------------------------
(* The history *)

\* A lone writer carries the file as it was, and nothing but it empties the file.
HistoryInv ==
  ~spoilt =>
    /\ \A r \in Runs : io[r] = "read" => seen[r] = history
    /\ (\A r \in Runs : io[r] # "truncated") =>
         \A q \in Runs : step[q] = "ended" => history[q] = status[q]
    /\ \A r, q \in Runs : io[r] = "truncated" /\ step[q] = "ended" => seen[r][q] = status[q]

\* The steps of a run that go on with reading and writing the history.
Rewrites(r) == ReadHistory(r) \/ TruncateHistory(r) \/ WriteHistory(r) \/ SummaryFails(r)

\* What the others do to the history: nothing, and they end no run with its end recorded.
LEMMA HistoryUntouched ==
  ASSUME TypeInv, Next, ~\E r \in Runs : Rewrites(r)
  PROVE  /\ history' = history
         /\ ~spoilt' => ~spoilt
         /\ \A r \in Runs :
              /\ \/ io'[r] = io[r] /\ seen'[r] = seen[r]
                 \/ io'[r] = "closed" /\ (io[r] = "truncated" => spoilt')
              /\ step'[r] = "ended" => step[r] = "ended" /\ status'[r] = status[r]
  <1> USE DEF GoTo, Close, Fail, Gone
  <1>0. RunsOK
    BY DEF TypeInv, TypeOK
  <1>1. ASSUME NEW q \in Runs, Start(q) \/ Elsewhere(q) \/ Stage1(q) \/ Stage3(q) PROVE
          /\ UNCHANGED <<history, io, seen>>
          /\ \A r \in Runs : step'[r] = "ended" => step[r] = "ended" /\ status'[r] = status[r]
    BY <1>0, <1>1 DEF Start, Elsewhere, Stage1, SkipScraping, KickOffCrew, CrewReturns, ToolSaves,
       Stage3, IntelReturns, IntelRaises, ReportSaved, RunsOK, runVars, diskVars
  <1>a. ASSUME NEW q \in Runs, Start(q) PROVE spoilt => spoilt'
    BY <1>a DEF Start
  <1>b. (\E q \in Runs : Goes(q)) \/ Surroundings => (spoilt => spoilt')
    BY OnlyStartsMeet
  <1>2. ASSUME NEW q \in Runs, Stage2(q) PROVE
          /\ UNCHANGED <<history, io, seen>>
          /\ \A r \in Runs : step'[r] = "ended" => step[r] = "ended" /\ status'[r] = status[r]
    BY <1>0, <1>2 DEF Stage2, LoadBatch, Organize, OrganizeInVain, OrganizeRaises, QualityFails,
       ScoutsStore, RunsOK, diskVars
  <1>3. ASSUME Midnight \/ SiteChanges \/ RetryDeadLetters
                 \/ (\E old \in SUBSET Projects : PurgeDeadLetters(old))
        PROVE  UNCHANGED <<history, io, seen, step, status>>
    BY <1>3 DEF Midnight, SiteChanges, RetryDeadLetters, PurgeDeadLetters, runVars, diskVars, notes
  <1>4. ASSUME NEW q \in Runs, Kill(q) \/ HistoryFails(q) PROVE
          /\ history' = history
          /\ \A r \in Runs \ {q} : /\ io'[r] = io[r] /\ seen'[r] = seen[r]
                                   /\ step'[r] = step[r] /\ status'[r] = status[r]
          /\ io'[q] = "closed" /\ step'[q] \in {"fail", "gone"}
          /\ spoilt' = (spoilt \/ io[q] = "truncated")
    BY <1>0, <1>4 DEF Kill, HistoryFails, RunsOK, diskVars
  <1>5. ASSUME NEW q \in Runs, Kill(q) \/ HistoryFails(q), NEW r \in Runs PROVE
          /\ \/ io'[r] = io[r] /\ seen'[r] = seen[r]
             \/ io'[r] = "closed" /\ (io[r] = "truncated" => spoilt')
          /\ step'[r] = "ended" => step[r] = "ended" /\ status'[r] = status[r]
    <2>1. CASE r = q
      <3>1. io'[r] = "closed" /\ step'[r] \in {"fail", "gone"} /\ (io[r] = "truncated" => spoilt')
        BY <1>4, <1>5, <2>1
      <3>2. QED
        BY <3>1
    <2>2. CASE r # q
      <3>1. r \in Runs \ {q}
        BY <2>2
      <3>2. io'[r] = io[r] /\ seen'[r] = seen[r] /\ step'[r] = step[r] /\ status'[r] = status[r]
        BY <1>4, <1>5, <3>1
      <3>3. QED
        BY <3>2
    <2>3. QED
      BY <2>1, <2>2
  <1>6. ASSUME NEW q \in Runs, Kill(q) \/ HistoryFails(q)
        PROVE  history' = history
    BY <1>4, <1>6
  <1>7. ~spoilt' => ~spoilt
    BY <1>a, <1>b DEF Next, Goes, Surroundings
  <1>8. QED
    BY <1>1, <1>2, <1>3, <1>5, <1>6, <1>7 DEF Next, Append, Rewrites

\* Nobody writes beside a lone writer.
LEMMA WritesAlone ==
  ASSUME TypeInv, Solo, ~spoilt, NEW r \in Runs, NEW q \in Runs, step[r] \in Appending,
         io[q] # "closed"
  PROVE  q = r
  BY DEF TypeInv, WriterInv, Solo, Active

\* Every step keeps what is known of the history.
LEMMA HistoryStep ==
  ASSUME TypeInv, Solo, HistoryInv, [Next]_vars
  PROVE  HistoryInv'
  <1>0. /\ RunsOK /\ DiskOK /\ WriterInv
    BY DEF TypeInv, TypeOK
  <1>1. CASE UNCHANGED vars
    BY <1>1 DEF HistoryInv, vars, runVars, diskVars, notes
  <1>2. CASE Next /\ ~\E r \in Runs : Rewrites(r)
    <2> SUFFICES ASSUME ~spoilt'
                 PROVE  /\ \A r \in Runs : io'[r] = "read" => seen'[r] = history'
                        /\ (\A r \in Runs : io'[r] # "truncated") =>
                             \A q \in Runs : step'[q] = "ended" => history'[q] = status'[q]
                        /\ \A r, q \in Runs : io'[r] = "truncated" /\ step'[q] = "ended" =>
                             seen'[r][q] = status'[q]
      BY DEF HistoryInv
    <2>1. history' = history /\ ~spoilt
      BY <1>2, HistoryUntouched
    <2>2. \A r \in Runs :
            /\ \/ io'[r] = io[r] /\ seen'[r] = seen[r]
               \/ io'[r] = "closed" /\ io[r] # "truncated"
            /\ step'[r] = "ended" => step[r] = "ended" /\ status'[r] = status[r]
      BY <1>2, HistoryUntouched
    <2>3. /\ \A r \in Runs : io[r] = "read" => seen[r] = history
          /\ (\A r \in Runs : io[r] # "truncated") =>
               \A q \in Runs : step[q] = "ended" => history[q] = status[q]
          /\ \A r, q \in Runs : io[r] = "truncated" /\ step[q] = "ended" => seen[r][q] = status[q]
      BY <2>1 DEF HistoryInv
    <2>4. \A r \in Runs : io'[r] = "read" => seen'[r] = history'
      BY <2>1, <2>2, <2>3
    <2>5. (\A r \in Runs : io'[r] # "truncated") => \A r \in Runs : io[r] # "truncated"
      BY <2>2
    <2>6. \A r, q \in Runs : io'[r] = "truncated" /\ step'[q] = "ended" => seen'[r][q] = status'[q]
      BY <2>2, <2>3
    <2>7. QED
      BY <2>1, <2>2, <2>3, <2>4, <2>5, <2>6
  <1>3. ASSUME NEW r \in Runs, ReadHistory(r) PROVE HistoryInv'
    BY <1>0, <1>3 DEF ReadHistory, HistoryInv, RunsOK, diskVars, notes
  <1>4. ASSUME NEW r \in Runs, TruncateHistory(r), ~spoilt PROVE HistoryInv'
    <2>1. step[r] \in Appending
      BY <1>0, <1>4 DEF TruncateHistory, WriterInv
    <2>2. \A q \in Runs \ {r} : io[q] = "closed" /\ io'[q] = "closed"
      BY <1>0, <1>4, <2>1, WritesAlone DEF TruncateHistory, RunsOK
    <2>3. \A q \in Runs : step[q] = "ended" => seen[r][q] = status[q]
      BY <1>4, <2>2 DEF TruncateHistory, HistoryInv
    <2>4. io'[r] = "truncated" /\ UNCHANGED <<step, seen, status>>
      BY <1>0, <1>4 DEF TruncateHistory, RunsOK
    <2>5. QED
      BY <2>2, <2>3, <2>4 DEF HistoryInv
  <1>5. ASSUME NEW r \in Runs, WriteHistory(r) \/ SummaryFails(r), ~spoilt PROVE HistoryInv'
    <2>1. step[r] \in Appending /\ io[r] = "truncated"
      BY <1>0, <1>5 DEF WriteHistory, SummaryFails, WriterInv
    <2>2. \A q \in Runs : io'[q] = "closed"
      BY <1>0, <1>5, <2>1, WritesAlone DEF WriteHistory, SummaryFails, RunsOK
    <2>3. \A q \in Runs \ {r} : /\ step[q] = "ended" => seen[r][q] = status[q]
                                /\ step'[q] = step[q] /\ status'[q] = status[q]
                                /\ history'[q] = seen[r][q]
      BY <1>0, <1>5 DEF WriteHistory, SummaryFails, HistoryInv, RunsOK, GoTo, Fail
    <2>4. history'[r] = status[r] /\ (step'[r] = "ended" => status'[r] = status[r])
      BY <1>0, <1>5 DEF WriteHistory, SummaryFails, RunsOK, GoTo, Fail
    <2>5. QED
      BY <2>2, <2>3, <2>4 DEF HistoryInv
  <1>6. ASSUME NEW r \in Runs, Rewrites(r) PROVE HistoryInv'
    <2>1. CASE ~spoilt
      BY <1>3, <1>4, <1>5, <1>6, <2>1 DEF Rewrites
    <2>2. CASE spoilt
      BY <1>6, <2>2 DEF Rewrites, ReadHistory, TruncateHistory, WriteHistory, SummaryFails, notes,
                        HistoryInv
    <2>3. QED
      BY <2>1, <2>2
  <1>7. QED
    BY <1>1, <1>2, <1>6

\* The history of all markets tells how every run ended whose last rl call recorded it,
\* unless runs overlap, or one is killed or fails after it has emptied the file.
THEOREM HistoriesAreKept == Spec => []HistoryIsKept
  <1>1. Init => HistoryInv
    BY DEF Init, HistoryInv
  <1>2. TypeInv /\ VersionsInv /\ HistoryInv /\ [Next]_vars => HistoryInv'
    BY HistoryStep DEF VersionsInv
  <1>3. HistoryInv => HistoryIsKept
    BY DEF HistoryInv, HistoryIsKept
  <1>4. QED
    BY <1>1, <1>2, <1>3, TypeCorrect, VersionsInvariant, PTL DEF Spec

---------------------------------------------------------------------------
(* Runs go forward *)

\* The order in which a run goes through its steps.
Place(s) == CASE s = "new" -> 0 [] s = "start" -> 1 [] s = "scrape" -> 2 [] s = "crew" -> 3
              [] s \in {"load", "load cached"} -> 4 [] s = "organize" -> 5 [] s = "scouts" -> 6
              [] s = "intel" -> 7 [] s = "report" -> 8 [] s = "elsewhere" -> 8
              [] s = "finish" -> 9 [] s = "fail" -> 10 [] OTHER -> 11

\* And through the rewriting of the history.
Half == [closed |-> 0, read |-> 1, truncated |-> 2]

\* A run never comes back to a step that it has left, whatever raises in it: it records its
\* start once and its end once, or twice when it fails in stage 3 or as it records its
\* success, and organizes one batch.
\* Only the tools of the crew may be called over and over.  (run_market_intelligence)
RunGoesForward ==
  [][\A r \in Runs :
       /\ step'[r] = step[r] \/ Place(step[r]) < Place(step'[r])
       /\ step'[r] = step[r] => Half[io[r]] <= Half[io'[r]]]_vars

\* Each step leads to one behind it.
LEMMA PlacesAscend ==
  /\ \A s \in Appending \cup Working : Place("new") < Place(s) /\ Place(s) < Place("gone")
  /\ Place("start") < Place("scrape") /\ Place("scrape") < Place("crew")
  /\ Place("scrape") < Place("load cached") /\ Place("crew") < Place("load")
  /\ \A s \in {"load", "load cached"} : Place(s) < Place("organize")
  /\ \A s \in {"elsewhere", "intel", "report"} : Place(s) < Place("finish")
  /\ \A s \in {"elsewhere", "organize", "scouts", "report", "finish"} : Place(s) < Place("fail")
  /\ Place("start") < Place("elsewhere")
  /\ Place("organize") < Place("scouts") /\ Place("scouts") < Place("intel")
  /\ Place("intel") < Place("report")
  /\ \A s \in {"finish", "fail"} : Place(s) < Place("ended")
  BY DEF Place, Appending, Working

\* A step of one run moves that run on and leaves the others where they are.
LEMMA RunMoves ==
  ASSUME TypeInv, NEW q \in Runs,
         \/ Start(q) \/ Append(q) \/ Elsewhere(q) \/ Stage1(q) \/ Stage2(q) \/ Stage3(q)
         \/ Kill(q)
  PROVE  /\ \A r \in Runs \ {q} : step'[r] = step[r] /\ io'[r] = io[r]
         /\ step'[q] = step[q] \/ Place(step[q]) < Place(step'[q])
         /\ step'[q] = step[q] => Half[io[q]] <= Half[io'[q]]
  <1> USE DEF GoTo, Close, Fail, Gone
  <1>0. /\ step \in [Runs -> {"new", "ended", "gone"} \cup Appending \cup Working]
        /\ io \in [Runs -> {"closed", "read", "truncated"}] /\ WriterInv
    BY DEF TypeInv, TypeOK, RunsOK
  <1>1. ASSUME io' = io, NEW s \in {"new", "ended", "gone"} \cup Appending \cup Working,
               step' = [step EXCEPT ![q] = s], Place(step[q]) < Place(s)
        PROVE  /\ \A r \in Runs \ {q} : step'[r] = step[r] /\ io'[r] = io[r]
               /\ step'[q] = step[q] \/ Place(step[q]) < Place(step'[q])
               /\ step'[q] = step[q] => Half[io[q]] <= Half[io'[q]]
    BY <1>0, <1>1 DEF Half
  <1>2. CASE Start(q)
    BY <1>0, <1>1, <1>2, PlacesAscend DEF Start, Appending
  <1>3. CASE ReadHistory(q) \/ TruncateHistory(q)
    BY <1>0, <1>3 DEF ReadHistory, TruncateHistory, Half
  <1>4. CASE WriteHistory(q)
    <2>1. step[q] \in Appending
      BY <1>0, <1>4 DEF WriteHistory, WriterInv
    <2>2. Place(step[q]) < Place(Recorded(q))
      BY <2>1, PlacesAscend DEF Recorded, Appending
    <2>3. Recorded(q) # step[q]
      BY <2>1 DEF Recorded, Appending
    <2>4. step'[q] = Recorded(q)
          /\ \A r \in Runs \ {q} : step'[r] = step[r] /\ io'[r] = io[r]
      BY <1>0, <1>4 DEF WriteHistory
    <2>5. QED
      BY <2>2, <2>3, <2>4
  <1>5. CASE Stage1(q)
    <2>1. CASE SkipScraping(q) \/ KickOffCrew(q) \/ CrewReturns(q)
      BY <1>0, <1>1, <2>1, PlacesAscend DEF SkipScraping, KickOffCrew, CrewReturns, Working
    <2>2. CASE \E t \in Tasks : ToolSaves(q, t)
      BY <1>0, <2>2 DEF ToolSaves, runVars, Half
    <2>3. QED
      BY <1>5, <2>1, <2>2 DEF Stage1
  <1>6. CASE Stage2(q)
    <2>1. CASE LoadBatch(q) \/ Organize(q) \/ OrganizeInVain(q) \/ ScoutsStore(q)
      BY <1>0, <1>1, <2>1, PlacesAscend
         DEF LoadBatch, Organize, OrganizeInVain, ScoutsStore, Working
    <2>2. CASE OrganizeRaises(q) \/ QualityFails(q)
      BY <1>0, <1>1, <2>2, PlacesAscend DEF OrganizeRaises, QualityFails, Appending
    <2>3. QED
      BY <1>6, <2>1, <2>2 DEF Stage2
  <1>7. CASE Stage3(q)
    BY <1>0, <1>1, <1>7, PlacesAscend
       DEF Stage3, IntelReturns, IntelRaises, ReportSaved, Working, Appending
  <1>8. CASE Kill(q)
    <2>1. step[q] \in Appending \cup Working
      BY <1>8 DEF Kill, Active
    <2>2. /\ step' = [step EXCEPT ![q] = "gone"]
          /\ \A r \in Runs \ {q} : io'[r] = io[r]
      BY <1>0, <1>8 DEF Kill
    <2>3. step'[q] = "gone" /\ Place(step[q]) < Place("gone")
      BY <1>0, <2>1, <2>2, PlacesAscend
    <2>4. step[q] # "gone"
      BY <2>1 DEF Appending, Working
    <2>5. QED
      BY <1>0, <2>2, <2>3, <2>4
  <1>9. CASE HistoryFails(q) \/ SummaryFails(q)
    <2>1. /\ step[q] \in Appending
          /\ \A r \in Runs \ {q} : step'[r] = step[r] /\ io'[r] = io[r]
      BY <1>0, <1>9 DEF HistoryFails, SummaryFails, WriterInv
    <2>2. \/ step[q] = "finish" /\ step'[q] = "fail"
          \/ step'[q] = "gone"
          \/ step[q] = "fail" /\ step'[q] = "ended"
      BY <1>0, <1>9 DEF HistoryFails, SummaryFails
    <2>3. Place(step[q]) < Place(step'[q]) /\ step'[q] # step[q]
      BY <2>1, <2>2, PlacesAscend DEF Appending
    <2>4. QED
      BY <2>1, <2>3
  <1>10. CASE Elsewhere(q)
    BY <1>0, <1>1, <1>10, PlacesAscend DEF Elsewhere, Appending
  <1>11. QED
    BY <1>2, <1>3, <1>4, <1>5, <1>6, <1>7, <1>8, <1>9, <1>10 DEF Append

\* The surroundings of the runs move none of them.
LEMMA WorldMovesNoRun ==
  ASSUME \/ Midnight \/ SiteChanges \/ RetryDeadLetters \/ UNCHANGED vars
         \/ \E old \in SUBSET Projects : PurgeDeadLetters(old)
  PROVE  UNCHANGED <<step, io>>
  BY DEF Midnight, SiteChanges, RetryDeadLetters, PurgeDeadLetters, runVars, vars

\* A run can end only by going through its steps: no failure sends it round again.
THEOREM RunsGoForward == Spec => RunGoesForward
  <1>1. TypeInv /\ [Next]_vars =>
          [\A r \in Runs :
             /\ step'[r] = step[r] \/ Place(step[r]) < Place(step'[r])
             /\ step'[r] = step[r] => Half[io[r]] <= Half[io'[r]]]_vars
    <2> SUFFICES ASSUME TypeInv, [Next]_vars, NEW r \in Runs
                 PROVE  /\ step'[r] = step[r] \/ Place(step[r]) < Place(step'[r])
                        /\ step'[r] = step[r] => Half[io[r]] <= Half[io'[r]]
      OBVIOUS
    <2>0. Half[io[r]] <= Half[io[r]]
      BY DEF TypeInv, TypeOK, RunsOK, Half
    <2>1. ASSUME NEW q \in Runs,
                 \/ Start(q) \/ Append(q) \/ Elsewhere(q) \/ Stage1(q) \/ Stage2(q)
                 \/ Stage3(q) \/ Kill(q)
          PROVE  /\ step'[r] = step[r] \/ Place(step[r]) < Place(step'[r])
                 /\ step'[r] = step[r] => Half[io[r]] <= Half[io'[r]]
      <3>1. CASE q = r
        BY <2>1, <3>1, RunMoves
      <3>2. CASE q # r
        <4>1. step'[r] = step[r] /\ io'[r] = io[r]
          BY <2>1, <3>2, RunMoves
        <4>2. QED
          BY <2>0, <4>1
      <3>3. QED
        BY <3>1, <3>2
    <2>2. ASSUME UNCHANGED <<step, io>>
          PROVE  /\ step'[r] = step[r] \/ Place(step[r]) < Place(step'[r])
                 /\ step'[r] = step[r] => Half[io[r]] <= Half[io'[r]]
      BY <2>0, <2>2
    <2>3. QED
      BY <2>1, <2>2, WorldMovesNoRun DEF Next
  <1>2. QED
    BY <1>1, TypeCorrect, PTL DEF Spec, RunGoesForward

---------------------------------------------------------------------------
(* Dead letters *)

\* The steps of a run before it has organized its batch.
Early == {"new", "start", "scrape", "crew", "load", "load cached", "organize"}

\* Until then it has no dead letter, nor one that was tried.
NoLetterYet ==
  \A r \in Runs : step[r] \in Early => \A k \in Projects : ~dead[r][k] /\ tries[r][k] = 0

\* A failed record stays in the queue until its tries are used up: no later record or run,
\* no retry and no purge takes it out before, and a retry never gives it a try back.  What
\* enters the queue enters it untried.  (_write_dead_letter, retry_failed_records,
\* purge_old_records)
DeadLettersWait ==
  [][\A r \in Runs, k \in Projects :
       /\ tries[r][k] <= tries'[r][k]
       /\ dead[r][k] => dead'[r][k] \/ tries[r][k] = MaxTries
       /\ dead'[r][k] /\ ~dead[r][k] => tries'[r][k] = 0]_vars

\* A run that has not organized its batch yet had not done so before.
LEMMA EarlyBefore ==
  ASSUME TypeInv, [Next]_vars, NEW r \in Runs, step'[r] \in Early
  PROVE  step[r] \in Early
  <1> USE DEF GoTo, Close, Fail, Gone, Early
  <1>0. /\ step \in [Runs -> {"new", "ended", "gone"} \cup Appending \cup Working]
        /\ WriterInv
    BY DEF TypeInv, TypeOK, RunsOK
  <1>1. ASSUME NEW q \in Runs, Start(q) \/ Stage1(q) \/ LoadBatch(q)
        PROVE  step[r] \in Early
    BY <1>0, <1>1 DEF Start, Stage1, SkipScraping, KickOffCrew, CrewReturns, ToolSaves, LoadBatch,
                      runVars
  <1>2. ASSUME NEW q \in Runs,
               \/ Organize(q) \/ OrganizeInVain(q) \/ OrganizeRaises(q) \/ QualityFails(q)
               \/ ScoutsStore(q) \/ Stage3(q) \/ Elsewhere(q) \/ Kill(q)
        PROVE  step[r] \in Early
    BY <1>0, <1>2 DEF Organize, OrganizeInVain, OrganizeRaises, QualityFails, ScoutsStore, Stage3,
                      IntelReturns, IntelRaises, ReportSaved, Elsewhere, Kill
  <1>3. ASSUME NEW q \in Runs, Append(q) PROVE step[r] \in Early
    <2>1. CASE ReadHistory(q) \/ TruncateHistory(q)
      BY <2>1 DEF ReadHistory, TruncateHistory
    <2>2. CASE WriteHistory(q)
      <3>1. step[q] \in Appending
        BY <1>0, <2>2 DEF WriteHistory, WriterInv
      <3>2. step[q] \in Early \/ Recorded(q) \notin Early
        BY <3>1 DEF Recorded, Appending
      <3>3. step' = [step EXCEPT ![q] = Recorded(q)]
        BY <2>2 DEF WriteHistory
      <3>4. QED
        BY <1>0, <3>2, <3>3
    <2>3. CASE HistoryFails(q) \/ SummaryFails(q)
      BY <1>0, <2>3 DEF HistoryFails, SummaryFails
    <2>4. QED
      BY <1>3, <2>1, <2>2, <2>3 DEF Append
  <1>4. QED
    BY <1>1, <1>2, <1>3, WorldMovesNoRun DEF Next, Stage2

\* What each step does to a record's place in the queue.
LEMMA LetterSteps ==
  ASSUME TypeInv, NoLetterYet, [Next]_vars, NEW r \in Runs, NEW k \in Projects
  PROVE  /\ tries[r][k] <= tries'[r][k]
         /\ dead[r][k] => dead'[r][k] \/ tries[r][k] = MaxTries
         /\ dead'[r][k] /\ ~dead[r][k] => tries'[r][k] = 0
         /\ step'[r] \in Early => ~dead'[r][k] /\ tries'[r][k] = 0
  <1>0. /\ TablesOK /\ tries[r][k] \in 0..MaxTries /\ tries[r][k] <= tries[r][k]
        /\ step[r] \in Early => ~dead[r][k] /\ tries[r][k] = 0
    BY DEF TypeInv, TypeOK, TablesOK, NoLetterYet
  <1>e. step'[r] \in Early => step[r] \in Early
    BY EarlyBefore
  <1>1. ASSUME NEW q \in Runs, Organize(q) \/ QualityFails(q)
        PROVE  /\ tries' = tries
               /\ q # r => dead'[r] = dead[r]
               /\ q = r => step[r] \in Early /\ step'[r] \notin Early
    BY <1>0, <1>1 DEF Organize, QualityFails, Commit, GoTo, Fail, Early, TablesOK, TypeInv, TypeOK,
                      RunsOK
  <1>2. ASSUME UNCHANGED <<dead, tries>>
        PROVE  /\ tries[r][k] <= tries'[r][k]
               /\ dead[r][k] => dead'[r][k] \/ tries[r][k] = MaxTries
               /\ dead'[r][k] /\ ~dead[r][k] => tries'[r][k] = 0
               /\ step'[r] \in Early => ~dead'[r][k] /\ tries'[r][k] = 0
    BY <1>0, <1>e, <1>2
  <1>3. ASSUME NEW q \in Runs,
               Start(q) \/ Append(q) \/ Elsewhere(q) \/ Stage1(q) \/ Stage3(q) \/ Kill(q)
        PROVE  UNCHANGED <<dead, tries>>
    BY <1>3 DEF Start, Elsewhere, Append, ReadHistory, TruncateHistory, WriteHistory, HistoryFails, SummaryFails, Stage1, SkipScraping,
                KickOffCrew, CrewReturns, ToolSaves, Stage3, IntelReturns, IntelRaises,
                ReportSaved, Kill, tableVars
  <1>4. ASSUME NEW q \in Runs,
               LoadBatch(q) \/ OrganizeInVain(q) \/ OrganizeRaises(q) \/ ScoutsStore(q)
        PROVE  UNCHANGED <<dead, tries>>
    BY <1>4 DEF LoadBatch, OrganizeInVain, OrganizeRaises, ScoutsStore, tableVars
  <1>5. ASSUME Midnight \/ SiteChanges \/ UNCHANGED vars PROVE UNCHANGED <<dead, tries>>
    BY <1>5 DEF Midnight, SiteChanges, vars, tableVars
  <1>6. ASSUME RetryDeadLetters
        PROVE  /\ dead' = dead
               /\ tries'[r][k] = tries[r][k] \/ (dead[r][k] /\ tries'[r][k] = tries[r][k] + 1)
    BY <1>0, <1>6 DEF RetryDeadLetters, TablesOK
  <1>7. ASSUME NEW old \in SUBSET Projects, PurgeDeadLetters(old)
        PROVE  /\ tries' = tries
               /\ dead[r][k] => dead'[r][k] \/ tries[r][k] = MaxTries
               /\ dead'[r][k] => dead[r][k]
    BY <1>0, <1>7 DEF PurgeDeadLetters, TablesOK
  <1>8. ASSUME NEW q \in Runs, Organize(q) \/ QualityFails(q)
        PROVE  /\ tries[r][k] <= tries'[r][k]
               /\ dead[r][k] => dead'[r][k] \/ tries[r][k] = MaxTries
               /\ dead'[r][k] /\ ~dead[r][k] => tries'[r][k] = 0
               /\ step'[r] \in Early => ~dead'[r][k] /\ tries'[r][k] = 0
    <2>1. tries' = tries
      BY <1>1, <1>8
    <2>2. CASE q # r
      <3>1. dead'[r] = dead[r]
        BY <1>1, <1>8, <2>2
      <3>2. QED
        BY <1>0, <1>e, <2>1, <3>1
    <2>3. CASE q = r
      <3>1. step[r] \in Early /\ step'[r] \notin Early
        BY <1>1, <1>8, <2>3
      <3>2. QED
        BY <1>0, <2>1, <3>1
    <2>4. QED
      BY <2>2, <2>3
  <1>9. CASE RetryDeadLetters
    <2>1. tries[r][k] <= tries'[r][k]
      BY <1>0, <1>6, <1>9
    <2>2. dead' = dead /\ (tries'[r][k] = tries[r][k] \/ dead[r][k])
      BY <1>6, <1>9
    <2>3. QED
      BY <1>0, <1>e, <2>1, <2>2
  <1>10. ASSUME NEW old \in SUBSET Projects, PurgeDeadLetters(old)
        PROVE  /\ tries[r][k] <= tries'[r][k]
               /\ dead[r][k] => dead'[r][k] \/ tries[r][k] = MaxTries
               /\ dead'[r][k] /\ ~dead[r][k] => tries'[r][k] = 0
               /\ step'[r] \in Early => ~dead'[r][k] /\ tries'[r][k] = 0
    <2>1. /\ tries' = tries
          /\ dead[r][k] => dead'[r][k] \/ tries[r][k] = MaxTries
          /\ dead'[r][k] => dead[r][k]
      BY <1>7, <1>10
    <2>2. QED
      BY <1>0, <1>e, <2>1
  <1>11. QED
    BY <1>2, <1>3, <1>4, <1>5, <1>8, <1>9, <1>10 DEF Next, Stage2

\* Failed records wait until their tries are used up.
THEOREM FailedRecordsWait == Spec => DeadLettersWait
  <1>1. Init => NoLetterYet
    BY DEF Init, NoLetterYet
  <1>2. TypeInv /\ NoLetterYet /\ [Next]_vars => NoLetterYet'
    BY LetterSteps DEF NoLetterYet
  <1>3. TypeInv /\ NoLetterYet /\ [Next]_vars =>
          [\A r \in Runs, k \in Projects :
             /\ tries[r][k] <= tries'[r][k]
             /\ dead[r][k] => dead'[r][k] \/ tries[r][k] = MaxTries
             /\ dead'[r][k] /\ ~dead[r][k] => tries'[r][k] = 0]_vars
    BY LetterSteps
  <1>4. QED
    BY <1>1, <1>2, <1>3, TypeCorrect, PTL DEF Spec, DeadLettersWait
=============================================================================
