--------------------------- MODULE DeedInboxProofs ---------------------------
(***************************************************************************)
(* Proofs about the deed inbox, for any finite set of files and any number   *)
(* of changes, failures and restarts: its types, and that what is behind the *)
(* watermark has reached the writer.  Inside a scan it says nothing yet; the *)
(* invariant tells for each phase which files are as good as handed over.   *)
(***************************************************************************)
EXTENDS DeedInbox, FiniteSetTheorems, WellFoundedInduction, TLAPS

USE InboxAssumption DEF InboxAssumption

---------------------------------------------------------------------------
(* The newest of some files *)

\* A nonempty set of times has a greatest element.
LEMMA GreatestTime ==
  ASSUME NEW T \in SUBSET Times, T # {}
  PROVE  \E t \in T : \A u \in T : u <= t
  <1> DEFINE Ages == {MaxTime - t : t \in T}
  <1>1. \A t \in T : t \in Nat /\ MaxTime - t \in Nat
    BY DEF Times
  <1>2. Ages \subseteq Nat /\ Ages # {}
    BY <1>1
  <1>3. \E a \in Ages : \A b \in Ages : ~(<<b, a>> \in OpToRel(<, Nat))
    <2> HIDE DEF Ages
    <2> QED
      BY <1>2, NatLessThanWellFounded, WFMin
  <1>4. PICK t \in T : \A u \in T : ~(<<MaxTime - u, MaxTime - t>> \in OpToRel(<, Nat))
    BY <1>3
  <1>5. \A u \in T : ~(MaxTime - u < MaxTime - t)
    BY <1>1, <1>4 DEF OpToRel
  <1>6. QED
    BY <1>1, <1>5

\* The watermark a scan sets is a time.
LEMMA NewestIsTime ==
  ASSUME TypeOK, NEW files \in SUBSET Files, files # {}
  PROVE  Newest(files) \in Times
  <1>1. {mtime[f] : f \in files} \in SUBSET Times
    BY DEF TypeOK
  <1>2. PICK t \in {mtime[f] : f \in files} : \A u \in {mtime[f] : f \in files} : u <= t
    BY <1>1, GreatestTime
  <1>3. t \in Times /\ (\E f \in files : mtime[f] = t) /\ (\A f \in files : mtime[f] <= t)
    BY <1>1, <1>2
  <1>4. QED
    BY <1>3 DEF Newest

---------------------------------------------------------------------------
(* Types *)

\* A scan has listed something, or it would not have begun.
ListedInv == phase # "idle" => listed # {}

TypeInv == TypeOK /\ ListedInv

\* No step of the inbox or the scan leaves the types.
LEMMA TypeStep ==
  ASSUME TypeInv, [Next]_vars
  PROVE  TypeInv'
  <1> USE DEF TypeInv, TypeOK, ListedInv, inboxVars, scanVars, Present
  <1>1. ASSUME NEW f \in Files, NEW time \in Times, Drop(f, time) PROVE TypeInv'
    <2>1. now' \in Times
      BY <1>1 DEF Drop, Times
    <2>2. QED
      BY <1>1, <2>1 DEF Drop
  <1>2. CASE BeginScan
    BY <1>2 DEF BeginScan
  <1>3. ASSUME NEW bad \in SUBSET Files, ParseInbox(bad) PROVE TypeInv'
    <2>1. Cardinality(bad) \in Nat
      BY FS_Subset, FS_CardinalityType
    <2>2. faults' \in 0..MaxFaults
      BY <1>3, <2>1 DEF ParseInbox
    <2>3. 0 \in Times
      BY DEF Times
    <2>4. parsed' \in [Files -> Times]
      BY <1>3, <2>3 DEF ParseInbox
    <2>5. QED
      BY <1>3, <2>2, <2>4 DEF ParseInbox
  <1>4. ASSUME NEW f \in Files, HandOver(f) PROVE TypeInv'
    <2>1. 0 \in Times
      BY DEF Times
    <2>2. QED
      BY <1>4, <2>1 DEF HandOver
  <1>5. ASSUME NEW f \in Files, LeaveOut(f) PROVE TypeInv'
    <2>1. 0 \in Times
      BY DEF Times
    <2>2. faults' \in 0..MaxFaults
      BY <1>5 DEF LeaveOut
    <2>3. QED
      BY <1>5, <2>1, <2>2 DEF LeaveOut
  <1>6. CASE AllHandedOver
    BY <1>6 DEF AllHandedOver
  <1>7. CASE MoveWatermark
    <2>1. watermark' \in Times
      BY <1>7, NewestIsTime DEF MoveWatermark
    <2>2. QED
      BY <1>7, <2>1 DEF MoveWatermark
  <1>8. CASE Crash
    <2>1. crashes' \in 0..MaxCrashes
      BY <1>8 DEF Crash
    <2>2. 0 \in Times
      BY DEF Times
    <2>3. QED
      BY <1>8, <2>1, <2>2 DEF Crash, Nothing
  <1>9. CASE UNCHANGED vars
    BY <1>9 DEF vars
  <1>10. QED
    BY <1>1, <1>2, <1>3, <1>4, <1>5, <1>6, <1>7, <1>8, <1>9 DEF Next, Scan

\* The types of the deed inbox.
THEOREM TypeCorrect == Spec => []TypeInv
  <1>1. Init => TypeInv
    BY DEF Init, TypeInv, TypeOK, ListedInv, Nothing, Times
  <1>2. QED
    BY <1>1, TypeStep, PTL DEF Spec

\* The type invariant the run checks.
THEOREM TypesHold == Spec => []TypeOK
  BY TypeCorrect, PTL DEF TypeInv

---------------------------------------------------------------------------
(* The watermark *)

\* What has a time has contents.
HasContents == \A f \in Present : version[f] # 0

\* While deeds are being handed over, a file that is not excused has been so or is about to
\* be; once that is over all of them have been.
ScanInv ==
  /\ phase = "write" => \A f \in Present \ excused :
       (parsed[f] # 0 /\ parsed[f] = version[f]) \/ (parsed[f] = 0 /\ handed[f] = version[f])
  /\ phase = "close" => \A f \in Present \ excused : handed[f] = version[f]

WatermarkInv == HasContents /\ ScanInv /\ BehindWatermarkWasHandedOver

\* Every step keeps the invariant of the watermark.
LEMMA WatermarkStep ==
  ASSUME TypeInv, WatermarkInv, [Next]_vars
  PROVE  WatermarkInv'
  <1> USE DEF WatermarkInv, HasContents, ScanInv, BehindWatermarkWasHandedOver, Present, inboxVars,
              scanVars
  <1>0. TypeOK /\ now \in Nat /\ watermark \in Nat /\ \A f \in Files : mtime[f] \in Nat
    BY DEF TypeInv, TypeOK, Times
  <1> HIDE DEF TypeInv
  <1>1. ASSUME NEW f \in Files, NEW time \in Times, Drop(f, time) PROVE WatermarkInv'
    <2>1. /\ mtime'[f] = time /\ version'[f] = now + 1 /\ time \in Nat
          /\ \A g \in Files \ {f} : /\ mtime'[g] = mtime[g] /\ version'[g] = version[g]
                                    /\ g \in excused' <=> g \in excused
          /\ f \notin excused' => time > watermark /\ phase = "idle"
          /\ UNCHANGED <<phase, parsed, handed, watermark>>
      BY <1>0, <1>1 DEF Drop, TypeOK, Times
    <2>2. QED
      BY <1>0, <2>1
  <1>2. CASE BeginScan
    BY <1>2 DEF BeginScan
  <1>3. ASSUME NEW bad \in SUBSET Files, ParseInbox(bad) PROVE WatermarkInv'
    BY <1>0, <1>3 DEF ParseInbox, TypeOK
  <1>4. ASSUME NEW f \in Files, HandOver(f) PROVE WatermarkInv'
    BY <1>0, <1>4 DEF HandOver, TypeOK
  <1>5. ASSUME NEW f \in Files, LeaveOut(f) PROVE WatermarkInv'
    BY <1>0, <1>5 DEF LeaveOut, TypeOK
  <1>6. CASE AllHandedOver
    BY <1>0, <1>6 DEF AllHandedOver, Nothing, TypeOK
  <1>7. CASE MoveWatermark
    BY <1>0, <1>7 DEF MoveWatermark
  <1>8. CASE Crash
    BY <1>0, <1>8 DEF Crash
  <1>9. CASE UNCHANGED vars
    BY <1>9 DEF vars
  <1>10. QED
    BY <1>1, <1>2, <1>3, <1>4, <1>5, <1>6, <1>7, <1>8, <1>9 DEF Next, Scan

\* The invariant of the watermark holds throughout.
LEMMA WatermarkInvariant == Spec => []WatermarkInv
  <1>1. Init => WatermarkInv
    BY DEF Init, WatermarkInv, HasContents, ScanInv, BehindWatermarkWasHandedOver, Present, Nothing
  <1>2. TypeInv /\ WatermarkInv /\ [Next]_vars => WatermarkInv'
    BY WatermarkStep
  <1>3. QED
    BY <1>1, <1>2, TypeCorrect, PTL DEF Spec

\* Of what is behind the watermark and has no excuse the writer has got the present version.
THEOREM WatermarkIsHonest == Spec => []BehindWatermarkWasHandedOver
  <1>1. WatermarkInv => BehindWatermarkWasHandedOver
    BY DEF WatermarkInv
  <1>2. QED
    BY <1>1, WatermarkInvariant, PTL

---------------------------------------------------------------------------
(* Versions *)

\* What the writer has got of a file, and what a scan is about to hand over, is no newer
\* than the file, and what it is about to hand over is no older than what it got last.
VersionsFollow ==
  \A f \in Files : /\ handed[f] <= version[f] /\ parsed[f] <= version[f] /\ version[f] <= now
                   /\ parsed[f] # 0 => handed[f] <= parsed[f]

\* Every step keeps the order of the versions.
LEMMA VersionStep ==
  ASSUME TypeInv, VersionsFollow, [Next]_vars
  PROVE  VersionsFollow' /\ \A f \in Files : handed[f] <= handed'[f]
  <1> USE DEF VersionsFollow, inboxVars, scanVars
  <1>0. /\ TypeOK /\ now \in Nat
        /\ \A f \in Files : handed[f] \in Nat /\ version[f] \in Nat /\ parsed[f] \in Nat
    BY DEF TypeInv, TypeOK, Times
  <1>1. ASSUME NEW f \in Files, NEW time \in Times, Drop(f, time)
        PROVE  VersionsFollow' /\ handed' = handed
    <2>1. /\ version'[f] = now + 1 /\ now' = now + 1
          /\ \A g \in Files \ {f} : version'[g] = version[g]
          /\ UNCHANGED <<parsed, handed>>
      BY <1>0, <1>1 DEF Drop, TypeOK
    <2>2. QED
      BY <1>0, <2>1
  <1>2. ASSUME NEW bad \in SUBSET Files, ParseInbox(bad) PROVE VersionsFollow' /\ handed' = handed
    <2>1. /\ \A f \in Files : parsed'[f] = version[f] \/ parsed'[f] = 0
          /\ UNCHANGED <<now, version, handed>>
      BY <1>2 DEF ParseInbox
    <2>2. QED
      BY <1>0, <2>1
  <1>3. ASSUME NEW f \in Files, HandOver(f) \/ LeaveOut(f)
        PROVE  VersionsFollow' /\ \A g \in Files : handed[g] <= handed'[g]
    <2>1. /\ parsed'[f] = 0 /\ parsed[f] # 0 /\ (handed'[f] = parsed[f] \/ handed'[f] = handed[f])
          /\ \A g \in Files \ {f} : parsed'[g] = parsed[g] /\ handed'[g] = handed[g]
          /\ UNCHANGED <<now, version>>
      BY <1>0, <1>3 DEF HandOver, LeaveOut, TypeOK
    <2>2. QED
      BY <1>0, <2>1
  <1>4. CASE Crash
    <2>1. (\A f \in Files : parsed'[f] = 0) /\ UNCHANGED <<now, version, handed>>
      BY <1>4 DEF Crash, Nothing
    <2>2. QED
      BY <1>0, <2>1
  <1>5. CASE BeginScan \/ AllHandedOver \/ MoveWatermark \/ UNCHANGED vars
    <2>1. UNCHANGED <<now, version, handed, parsed>>
      BY <1>5 DEF BeginScan, AllHandedOver, MoveWatermark, vars
    <2>2. QED
      BY <1>0, <2>1
  <1>6. ASSUME handed' = handed PROVE \A f \in Files : handed[f] <= handed'[f]
    BY <1>0, <1>6
  <1>7. QED
    BY <1>1, <1>2, <1>3, <1>4, <1>5, <1>6 DEF Next, Scan, Crash, BeginScan, AllHandedOver, MoveWatermark,
       vars

\* The order of the versions holds throughout.
LEMMA VersionsInOrder == Spec => []VersionsFollow
  <1>1. Init => VersionsFollow
    BY DEF Init, VersionsFollow, Nothing
  <1>2. TypeInv /\ VersionsFollow /\ [Next]_vars => VersionsFollow'
    BY VersionStep
  <1>3. QED
    BY <1>1, <1>2, TypeCorrect, PTL DEF Spec

\* The writer never gets an older version of a file's deeds after a newer one, although a
\* scan hands over what it has parsed before, which may be out of date by then, and
\* whatever crashes leave half done.  (writer.write in the loop of run_form17_inbox_scan)
OnlyNewerHandedOver == [][\A f \in Files : handed[f] <= handed'[f]]_vars

\* No scan comes to the writer with what an earlier one has superseded.
THEOREM HandedInOrder == Spec => OnlyNewerHandedOver
  <1>1. TypeInv /\ VersionsFollow /\ [Next]_vars => [\A f \in Files : handed[f] <= handed'[f]]_vars
    BY VersionStep
  <1>2. QED
    BY <1>1, TypeCorrect, VersionsInOrder, PTL DEF Spec, OnlyNewerHandedOver

---------------------------------------------------------------------------
(* Scans go forward: the safety half of WatermarkPasses *)

Stretch == [idle |-> 0, close |-> 1, write |-> 2, parse |-> 3]
Waiting == {f \in Files : parsed[f] # 0}

\* Each step of a scan brings it to a later phase or takes a file off its hands, handed over
\* or not; drops do not disturb it.  So it is over, or has died with its process, after no
\* more steps than there are files and three.  (run_form17_inbox_scan)
ScanGoesForward ==
  [][phase # "idle" =>
       \/ Crash /\ phase' = "idle"
       \/ Scan /\ Stretch[phase'] < Stretch[phase]
       \/ Scan /\ phase' = phase /\ Waiting' \subseteq Waiting /\ Waiting' # Waiting
       \/ ~Scan /\ UNCHANGED <<phase, listed, parsed>>]_vars

\* In each phase there is something for the scan to do: it never waits.  The newest time of
\* the listed files, in particular, always exists.
ScanNeverStuck ==
  /\ phase = "write" => parsed = Nothing \/ \E f \in Files : parsed[f] # 0
  /\ phase = "close" => \E f \in listed : mtime[f] = Newest(listed)

\* A scan in progress can always go on.
THEOREM ScansCanGoOn == Spec => []ScanNeverStuck
  <1>1. TypeInv => ScanNeverStuck
    <2> SUFFICES ASSUME TypeInv PROVE ScanNeverStuck
      OBVIOUS
    <2>1. ASSUME \A f \in Files : parsed[f] = 0 PROVE parsed = Nothing
      BY <2>1 DEF TypeInv, TypeOK, Nothing
    <2>2. ASSUME listed # {} PROVE \E f \in listed : mtime[f] = Newest(listed)
      <3>1. {mtime[f] : f \in listed} \in SUBSET Times
        BY DEF TypeInv, TypeOK
      <3>2. PICK t \in {mtime[f] : f \in listed} : \A u \in {mtime[f] : f \in listed} : u <= t
        BY <2>2, <3>1, GreatestTime
      <3>3. t \in Times /\ (\E f \in listed : mtime[f] = t) /\ (\A f \in listed : mtime[f] <= t)
        BY <3>1, <3>2
      <3>4. QED
        BY <3>3 DEF Newest
    <2>3. QED
      BY <2>1, <2>2 DEF TypeInv, ListedInv, ScanNeverStuck
  <1>2. QED
    BY <1>1, TypeCorrect, PTL

\* What a scan does with one step.
LEMMA ScanStep ==
  ASSUME TypeInv, Scan, phase # "idle"
  PROVE  \/ Stretch[phase'] < Stretch[phase]
         \/ phase' = phase /\ Waiting' \subseteq Waiting /\ Waiting' # Waiting
  <1> USE DEF Stretch
  <1>1. CASE AllHandedOver \/ MoveWatermark \/ \E bad \in SUBSET Files : ParseInbox(bad)
    BY <1>1 DEF AllHandedOver, MoveWatermark, ParseInbox
  <1>2. ASSUME NEW f \in Files, HandOver(f) \/ LeaveOut(f)
        PROVE  phase' = phase /\ Waiting' \subseteq Waiting /\ Waiting' # Waiting
    <2>1. parsed[f] # 0 /\ parsed' = [parsed EXCEPT ![f] = 0] /\ phase' = phase
      BY <1>2 DEF HandOver, LeaveOut
    <2>2. Waiting' = Waiting \ {f} /\ f \in Waiting
      BY <2>1 DEF Waiting, TypeInv, TypeOK
    <2>3. QED
      BY <2>1, <2>2
  <1>3. QED
    BY <1>1, <1>2 DEF Scan, BeginScan

\* What WatermarkPasses adds is that scans begin and that their process runs.
THEOREM ScansGoForward == Spec => ScanGoesForward
  <1>1. TypeInv /\ [Next]_vars =>
          [phase # "idle" =>
             \/ Crash /\ phase' = "idle"
             \/ Scan /\ Stretch[phase'] < Stretch[phase]
             \/ Scan /\ phase' = phase /\ Waiting' \subseteq Waiting /\ Waiting' # Waiting
             \/ ~Scan /\ UNCHANGED <<phase, listed, parsed>>]_vars
    <2> SUFFICES ASSUME TypeInv, [Next]_vars, phase # "idle"
                 PROVE  \/ Crash /\ phase' = "idle"
                        \/ Scan /\ Stretch[phase'] < Stretch[phase]
                        \/ Scan /\ phase' = phase /\ Waiting' \subseteq Waiting
                                /\ Waiting' # Waiting
                        \/ ~Scan /\ UNCHANGED <<phase, listed, parsed>>
      OBVIOUS
    <2>1. CASE Scan
      BY <2>1, ScanStep
    <2>2. CASE Crash
      BY <2>2 DEF Crash
    <2>3. ASSUME ~Scan, (\E f \in Files, time \in Times : Drop(f, time)) \/ UNCHANGED vars
          PROVE  UNCHANGED <<phase, listed, parsed>>
      BY <2>3 DEF Drop, vars, scanVars
    <2>4. QED
      BY <2>1, <2>2, <2>3 DEF Next
  <1>2. QED
    BY <1>1, TypeCorrect, PTL DEF Spec, ScanGoesForward

---------------------------------------------------------------------------
(* What the inbox can be relied on for *)

\* Whoever drops a file drops it with a time later than the watermark.
NewerDrops == \A f \in Files : version'[f] # version[f] => mtime'[f] > watermark

\* And not while a scan is running.
CalmDrops == NewerDrops /\ (version' # version => phase = "idle")

\* A scan has listed a file that is newer than the watermark.
ScanHasReason == phase # "idle" => \E f \in listed : mtime[f] > watermark

\* Newer drops keep a scan's reason, and then it moves the watermark ahead.
LEMMA ReasonStep ==
  ASSUME TypeInv, VersionsFollow, ScanHasReason, [Next]_vars, NewerDrops \/ UNCHANGED vars
  PROVE  ScanHasReason' /\ (watermark' # watermark => watermark < watermark' \/ Crash)
  <1>0. /\ TypeOK /\ now \in Nat /\ \A f \in Files : mtime[f] \in Times /\ version[f] \in Nat
        /\ \A f \in Files : version[f] <= now
    BY DEF TypeInv, TypeOK, Times, VersionsFollow
  <1>1. ASSUME NEW f \in Files, NEW time \in Times, Drop(f, time)
        PROVE  ScanHasReason' /\ watermark' = watermark
    <2>1. /\ version'[f] = now + 1 /\ \A g \in Files \ {f} : mtime'[g] = mtime[g]
          /\ UNCHANGED <<phase, listed, watermark>>
      BY <1>0, <1>1 DEF Drop, TypeOK, scanVars
    <2>2. version'[f] # version[f]
      BY <1>0, <2>1
    <2>3. mtime'[f] > watermark
      BY <2>2 DEF NewerDrops, vars, inboxVars
    <2>4. listed \subseteq Files
      BY <1>0 DEF TypeOK
    <2>5. QED
      BY <2>1, <2>3, <2>4 DEF ScanHasReason
  <1>2. CASE BeginScan
    BY <1>2 DEF BeginScan, ScanHasReason, inboxVars
  <1>3. CASE MoveWatermark
    <2>1. PICK f \in listed : mtime[f] > watermark
      BY <1>3 DEF MoveWatermark, ScanHasReason
    <2>2. listed \in SUBSET Files /\ listed # {} /\ watermark \in Times
      BY <1>0, <2>1 DEF TypeOK
    <2>3. {mtime[g] : g \in listed} \in SUBSET Times
      BY <1>0, <2>2
    <2>4. PICK t \in {mtime[g] : g \in listed} : \A u \in {mtime[g] : g \in listed} : u <= t
      BY <2>2, <2>3, GreatestTime
    <2>5. t \in Times /\ (\E g \in listed : mtime[g] = t) /\ (\A g \in listed : mtime[g] <= t)
      BY <2>3, <2>4
    <2>6. \A g \in listed : mtime[g] <= Newest(listed)
      BY <2>5 DEF Newest
    <2>7. Newest(listed) \in Times
      BY <1>0, <2>2, NewestIsTime
    <2>8. watermark < Newest(listed)
      BY <1>0, <2>1, <2>2, <2>6, <2>7 DEF Times
    <2>9. QED
      BY <1>3, <2>8 DEF MoveWatermark, ScanHasReason
  <1>4. CASE Crash
    BY <1>4 DEF Crash, ScanHasReason
  <1>5. ASSUME \/ \E bad \in SUBSET Files : ParseInbox(bad)
               \/ \E f \in Files : HandOver(f) \/ LeaveOut(f)
               \/ AllHandedOver
               \/ UNCHANGED vars
        PROVE  ScanHasReason' /\ watermark' = watermark
    <2>1. UNCHANGED <<mtime, listed, watermark>> /\ (phase' = "idle" => phase = "idle")
          /\ (phase = "idle" => phase' = "idle")
      BY <1>5 DEF ParseInbox, HandOver, LeaveOut, AllHandedOver, vars, inboxVars, scanVars
    <2>2. QED
      BY <2>1 DEF ScanHasReason
  <1>6. QED
    BY <1>1, <1>2, <1>3, <1>4, <1>5 DEF Next, Scan, BeginScan

\* Unless a file comes with an old time, a scan that is not cut short moves the watermark
\* ahead, so that no file it has passed is waited for again.
WatermarkGoesAhead == [][watermark' # watermark => watermark < watermark' \/ Crash]_vars

\* The watermark goes back only by a file with an old time or by a restart.
THEOREM WatermarkMovesOn == Spec /\ [][NewerDrops]_vars => WatermarkGoesAhead
  <1>1. Init => ScanHasReason
    BY DEF Init, ScanHasReason
  <1>2. TypeInv /\ VersionsFollow /\ ScanHasReason /\ [Next]_vars /\ [NewerDrops]_vars
          => ScanHasReason'
    BY ReasonStep
  <1>3. TypeInv /\ VersionsFollow /\ ScanHasReason /\ [Next]_vars /\ [NewerDrops]_vars
          => [watermark' # watermark => watermark < watermark' \/ Crash]_vars
    BY ReasonStep
  <1>4. QED
    BY <1>1, <1>2, <1>3, TypeCorrect, VersionsInOrder, PTL DEF Spec, WatermarkGoesAhead

\* Of everything behind the watermark the writer has got the present version.
NothingMissed == \A f \in Present : mtime[f] <= watermark => handed[f] = version[f]

NoExcuse == excused = {} /\ faults = 0

\* Without failures and with calm drops nothing gets an excuse.
LEMMA ExcuseStep ==
  ASSUME MaxFaults = 0, TypeInv, VersionsFollow, NoExcuse, [Next]_vars, CalmDrops \/ UNCHANGED vars
  PROVE  NoExcuse'
  <1>0. /\ TypeOK /\ now \in Nat /\ watermark \in Nat
        /\ \A f \in Files : version[f] \in Nat /\ version[f] <= now
    BY DEF TypeInv, TypeOK, Times, VersionsFollow
  <1>1. ASSUME NEW f \in Files, NEW time \in Times, Drop(f, time) PROVE NoExcuse'
    <2>1. version'[f] = now + 1 /\ mtime'[f] = time
      BY <1>0, <1>1 DEF Drop, TypeOK
    <2>2. version'[f] # version[f]
      BY <1>0, <2>1
    <2>3. time > watermark /\ phase = "idle"
      BY <2>1, <2>2 DEF CalmDrops, NewerDrops, vars, inboxVars
    <2>4. ~(time <= watermark) /\ faults' = faults
      BY <1>0, <1>1, <2>3 DEF Drop, Times
    <2>5. QED
      BY <1>1, <2>3, <2>4 DEF Drop, NoExcuse
  <1>2. ASSUME NEW bad \in SUBSET Files, ParseInbox(bad) PROVE NoExcuse'
    <2>1. IsFiniteSet(bad) /\ Cardinality(bad) \in Nat
      BY FS_Subset, FS_CardinalityType
    <2>2. Cardinality(bad) = 0
      BY <1>2, <2>1 DEF ParseInbox, NoExcuse
    <2>3. bad = {}
      BY <2>1, <2>2, FS_EmptySet
    <2>4. QED
      BY <1>2, <2>2, <2>3 DEF ParseInbox, NoExcuse
  <1>3. ASSUME NEW f \in Files, HandOver(f) \/ LeaveOut(f) PROVE NoExcuse'
    BY <1>3 DEF HandOver, LeaveOut, NoExcuse
  <1>4. CASE BeginScan \/ AllHandedOver \/ MoveWatermark \/ Crash \/ UNCHANGED vars
    BY <1>4 DEF BeginScan, AllHandedOver, MoveWatermark, Crash, vars, NoExcuse
  <1>5. QED
    BY <1>1, <1>2, <1>3, <1>4 DEF Next, Scan

\* When nothing is parsed in vain or left out, and files come between scans with a time later
\* than the watermark, the writer has got all deeds of what is behind the watermark, however
\* often the scheduler is restarted in the middle of a scan: no other condition is needed.
THEOREM CalmInboxIsComplete ==
  ASSUME MaxFaults = 0
  PROVE  Spec /\ [][CalmDrops]_vars => []NothingMissed
  <1>1. Init => NoExcuse
    BY DEF Init, NoExcuse
  <1>2. TypeInv /\ VersionsFollow /\ NoExcuse /\ [Next]_vars /\ [CalmDrops]_vars => NoExcuse'
    BY ExcuseStep
  <1>3. NoExcuse /\ BehindWatermarkWasHandedOver => NothingMissed
    BY DEF NoExcuse, BehindWatermarkWasHandedOver, NothingMissed
  <1>4. QED
    BY <1>1, <1>2, <1>3, TypeCorrect, VersionsInOrder, WatermarkIsHonest, PTL DEF Spec

---------------------------------------------------------------------------
(* Files that were missed: the safety half of NewFileRescuesAll *)

\* Every file is handed over in its present version or about to be.
Ready ==
  \A f \in Present : parsed[f] = version[f] \/ (parsed[f] = 0 /\ handed[f] = version[f])

\* Outside the writing phase there is nothing left to hand over.
NothingInHand == phase # "write" => parsed = Nothing

\* A scan that can parse everything has every file in its hands, those that earlier scans
\* have missed included, since it parses the whole directory and not the newer files alone;
\* as long as no deed is left out each stays there or is handed over.
RescueStands ==
  [][/\ ParseInbox({}) => Ready'
     /\ Ready /\ phase = "write" /\ Scan /\ faults' = faults => Ready']_vars

\* And when it then moves the watermark everything has reached the writer.
RescueEnds == phase = "close" /\ Ready => \A f \in Present : handed[f] = version[f]

\* Parsed versions live from the parsing to the handing over in their scan only.
LEMMA HandsStep ==
  ASSUME TypeInv, NothingInHand, [Next]_vars
  PROVE  NothingInHand'
  <1> USE DEF NothingInHand, scanVars
  <1>1. ASSUME NEW bad \in SUBSET Files, ParseInbox(bad) PROVE NothingInHand'
    <2>1. CASE Present \ bad = {}
      <3>1. parsed' = [f \in Files |-> 0]
        BY <1>1, <2>1 DEF ParseInbox
      <3>2. QED
        BY <3>1 DEF Nothing
    <2>2. CASE Present \ bad # {}
      BY <1>1, <2>2 DEF ParseInbox
    <2>3. QED
      BY <2>1, <2>2
  <1>2. ASSUME NEW f \in Files, NEW time \in Times, Drop(f, time) PROVE NothingInHand'
    BY <1>2 DEF Drop, Nothing
  <1>3. ASSUME NEW f \in Files, HandOver(f) \/ LeaveOut(f) PROVE NothingInHand'
    BY <1>3 DEF HandOver, LeaveOut
  <1>4. CASE BeginScan \/ AllHandedOver \/ MoveWatermark \/ Crash \/ UNCHANGED vars
    BY <1>4 DEF BeginScan, AllHandedOver, MoveWatermark, Crash, Nothing, vars
  <1>5. QED
    BY <1>1, <1>2, <1>3, <1>4 DEF Next, Scan

\* A scan in which no deed is left out makes up for what earlier ones have missed.
THEOREM ScansRescue == Spec => RescueStands /\ []RescueEnds
  <1>1. Init => NothingInHand
    BY DEF Init, NothingInHand
  <1>2. TypeInv /\ NothingInHand /\ [Next]_vars => NothingInHand'
    BY HandsStep
  <1>3. TypeInv /\ [Next]_vars =>
          [/\ ParseInbox({}) => Ready'
           /\ Ready /\ phase = "write" /\ Scan /\ faults' = faults => Ready']_vars
    <2> SUFFICES ASSUME TypeInv
                 PROVE  /\ ParseInbox({}) => Ready'
                        /\ Ready /\ phase = "write" /\ Scan /\ faults' = faults => Ready'
      OBVIOUS
    <2>0. TypeOK /\ faults \in Nat
      BY DEF TypeInv, TypeOK
    <2>1. ASSUME ParseInbox({}) PROVE Ready'
      BY <2>0, <2>1 DEF ParseInbox, Ready, Present, inboxVars
    <2>2. ASSUME Ready, phase = "write", Scan, faults' = faults PROVE Ready'
      <3>1. ASSUME NEW f \in Files, HandOver(f) PROVE Ready'
        <4>1. /\ parsed'[f] = 0 /\ handed'[f] = parsed[f] /\ parsed[f] # 0
              /\ \A g \in Files \ {f} : parsed'[g] = parsed[g] /\ handed'[g] = handed[g]
              /\ UNCHANGED <<mtime, version>>
          BY <2>0, <3>1 DEF HandOver, TypeOK, inboxVars
        <4>2. QED
          BY <2>2, <4>1 DEF Ready, Present
      <3>2. ASSUME NEW f \in Files, LeaveOut(f) PROVE FALSE
        BY <2>0, <2>2, <3>2 DEF LeaveOut
      <3>3. CASE AllHandedOver
        BY <2>2, <3>3 DEF AllHandedOver, Ready, Present, inboxVars
      <3>4. QED
        BY <2>2, <3>1, <3>2, <3>3 DEF Scan, BeginScan, MoveWatermark, ParseInbox
    <2>3. QED
      BY <2>1, <2>2
  <1>4. WatermarkInv /\ NothingInHand => RescueEnds
    <2> SUFFICES ASSUME WatermarkInv, NothingInHand, phase = "close", Ready, NEW f \in Present
                 PROVE  handed[f] = version[f]
      BY DEF RescueEnds
    <2>1. f \in Files /\ version[f] # 0
      BY DEF Present, HasContents, WatermarkInv
    <2>2. parsed[f] = 0
      BY <2>1 DEF NothingInHand, Nothing
    <2>3. QED
      BY <2>1, <2>2 DEF Ready
  <1>5. QED
    BY <1>1, <1>2, <1>3, <1>4, TypeCorrect, WatermarkInvariant, PTL
       DEF Spec, RescueStands
=============================================================================
