------------------------------ MODULE DeedInbox ------------------------------
(***************************************************************************)
(* The weekly scan of the Form 17 inbox: run_form17_inbox_scan of            *)
(* src/config/scheduler/maintenance_jobs.py, with parse_form17_inbox of      *)
(* src/scrapers/kaveri_form17.py and IngestWriter.write.                    *)
(*                                                                         *)
(* People drop PDFs into a directory whenever they like.  A scan compares    *)
(* their modification times with a watermark file: when one is newer it      *)
(* parses the whole directory, hands every deed it finds to the writer and   *)
(* moves the watermark to the newest time of the files it has listed.  The   *)
(* two jobs of the scheduler that scan do so on different days: scans do not *)
(* overlap.  A file stands for the deeds in it; its contents are a version   *)
(* number.                                                                  *)
(*                                                                         *)
(* There is no variable for the table.  The records of the plugin have keys  *)
(* that registered_transactions has no columns for, so that the database     *)
(* refuses every one of them: write() returns False, which nobody looks at,  *)
(* and what the scan achieves is that the deeds have reached the writer.     *)
(***************************************************************************)
EXTENDS Integers, FiniteSets

CONSTANTS
  Files,       \* names a PDF may have
  MaxTime,     \* bound on the clock, and so on the changes of the directory
  MaxFaults,   \* bound on files that are parsed in vain or with deeds left out
  MaxCrashes   \* bound on restarts of the scheduler

ASSUME InboxAssumption ==
  /\ IsFiniteSet(Files)
  /\ MaxTime \in Nat
  /\ MaxFaults \in Nat
  /\ MaxCrashes \in Nat

VARIABLES
  now,         \* time of the last change of the directory
  mtime,       \* modification time of a file, 0 when there is none
  version,     \* version of its contents
  handed,      \* version of its deeds that the writer has got last, 0 for none
  watermark,   \* the watermark file, 0 when missing or unreadable
  phase,       \* what the scan does next
  listed,      \* the files it has listed
  parsed,      \* the version it has parsed of a file and not handed over yet, 0 for none
  faults,      \* files so far that were parsed in vain or with deeds left out
  crashes,     \* restarts so far
  excused      \* files whose present version was parsed in vain or with deeds left out, came
               \*   with an old time, or came during a scan (auxiliary)

inboxVars == <<now, mtime, version>>
scanVars == <<phase, listed, parsed>>
vars == <<inboxVars, scanVars, handed, watermark, faults, crashes, excused>>

Times == 0..MaxTime

TypeOK ==
  /\ now \in Times
  /\ mtime \in [Files -> Times]
  /\ version \in [Files -> Times]
  /\ handed \in [Files -> Times]
  /\ watermark \in Times
  /\ phase \in {"idle", "parse", "write", "close"}
  /\ listed \subseteq Files
  /\ parsed \in [Files -> Times]
  /\ faults \in 0..MaxFaults
  /\ crashes \in 0..MaxCrashes
  /\ excused \subseteq Files

Nothing == [f \in Files |-> 0]

Init ==
  /\ now = 0
  /\ mtime = Nothing
  /\ version = Nothing
  /\ handed = Nothing
  /\ watermark = 0
  /\ phase = "idle"
  /\ listed = {}
  /\ parsed = Nothing
  /\ faults = 0
  /\ crashes = 0
  /\ excused = {}

Present == {f \in Files : mtime[f] > 0}

\* max(p.stat().st_mtime for p in pdf_files), asked for anew.
Newest(files) == CHOOSE t \in Times :
                   /\ \E f \in files : mtime[f] = t
                   /\ \A f \in files : mtime[f] <= t

---------------------------------------------------------------------------
(* The directory *)

\* A file is dropped, or dropped again with other contents; a copy may keep the time
\* of its original.
Drop(f, time) ==
  /\ now < MaxTime
  /\ time \in 1..(now + 1)
  /\ now' = now + 1
  /\ mtime' = [mtime EXCEPT ![f] = time]
  /\ version' = [version EXCEPT ![f] = now + 1]
  /\ excused' = IF time <= watermark \/ phase # "idle" THEN excused \cup {f} ELSE excused \ {f}
  /\ UNCHANGED <<scanVars, handed, watermark, faults, crashes>>

---------------------------------------------------------------------------
(* The scan *)

\* Read the watermark and list the directory; without a newer file the scan is over.
BeginScan ==
  /\ phase = "idle"
  /\ \E f \in Present : mtime[f] > watermark
  /\ phase' = "parse"
  /\ listed' = Present
  /\ UNCHANGED <<inboxVars, parsed, handed, watermark, faults, crashes, excused>>

\* Mutant of ParseInbox: only the files newer than the watermark.
ParseNewer(bad) ==
  LET good == {f \in Present \ bad : mtime[f] > watermark} IN
  /\ phase = "parse"
  /\ bad \subseteq Present
  /\ faults + Cardinality(bad) <= MaxFaults
  /\ faults' = faults + Cardinality(bad)
  /\ excused' = excused \cup bad
  /\ parsed' = [f \in Files |-> IF f \in good THEN version[f] ELSE 0]
  /\ phase' = IF good = {} THEN "close" ELSE "write"
  /\ UNCHANGED <<inboxVars, listed, handed, watermark, crashes>>

\* parse_form17_inbox: the whole directory, listed again; the files in bad cannot be
\* parsed, which is logged.  Without a single deed the watermark moves at once.
ParseInbox(bad) ==
  LET good == Present \ bad IN
  /\ phase = "parse"
  /\ bad \subseteq Present
  /\ faults + Cardinality(bad) <= MaxFaults
  /\ faults' = faults + Cardinality(bad)
  /\ excused' = excused \cup bad
  /\ parsed' = [f \in Files |-> IF f \in good THEN version[f] ELSE 0]
  /\ phase' = IF good = {} THEN "close" ELSE "write"
  /\ UNCHANGED <<inboxVars, listed, handed, watermark, crashes>>

\* writer.write(record) for each deed of the file.  The database refuses it, write() logs
\* that and returns False, and the scan counts the record as written.  The file is excused
\* no longer when this was its present version.
HandOver(f) ==
  /\ phase = "write"
  /\ parsed[f] # 0
  /\ handed' = [handed EXCEPT ![f] = parsed[f]]
  /\ excused' = IF parsed[f] = version[f] THEN excused \ {f} ELSE excused
  /\ parsed' = [parsed EXCEPT ![f] = 0]
  /\ UNCHANGED <<inboxVars, phase, listed, watermark, faults, crashes>>

\* _build_record returns None for a deed of the file without a number or an SRO, and the
\* scan goes on without a word.
LeaveOut(f) ==
  /\ phase = "write"
  /\ parsed[f] # 0
  /\ faults < MaxFaults
  /\ faults' = faults + 1
  /\ parsed' = [parsed EXCEPT ![f] = 0]
  /\ excused' = excused \cup {f}
  /\ UNCHANGED <<inboxVars, phase, listed, handed, watermark, crashes>>

AllHandedOver ==
  /\ phase = "write"
  /\ parsed = Nothing
  /\ phase' = "close"
  /\ UNCHANGED <<inboxVars, listed, parsed, handed, watermark, faults, crashes, excused>>

\* Mutant of MoveWatermark: the watermark is moved before the deeds are handed over.
MoveWatermarkEarly ==
  /\ phase \in {"write", "close"}
  /\ watermark' = Newest(listed)
  /\ phase' = IF phase = "write" THEN "write" ELSE "idle"
  /\ listed' = IF phase = "write" THEN listed ELSE {}
  /\ UNCHANGED <<inboxVars, parsed, handed, faults, crashes, excused>>

\* Mutant of MoveWatermark: the oldest of the listed files counts.
MoveWatermarkToOldest ==
  /\ phase = "close"
  /\ watermark' = CHOOSE t \in Times :
                    /\ \E f \in listed : mtime[f] = t
                    /\ \A f \in listed : t <= mtime[f]
  /\ phase' = "idle"
  /\ listed' = {}
  /\ UNCHANGED <<inboxVars, parsed, handed, faults, crashes, excused>>

MoveWatermark ==
  /\ phase = "close"
  /\ watermark' = Newest(listed)
  /\ phase' = "idle"
  /\ listed' = {}
  /\ UNCHANGED <<inboxVars, parsed, handed, faults, crashes, excused>>

\* Mutant of Crash: an unreadable watermark is read as -1.
CrashUnreadable ==
  /\ phase # "idle"
  /\ crashes < MaxCrashes
  /\ crashes' = crashes + 1
  /\ watermark' \in {watermark} \cup (IF phase = "close" THEN {-1} ELSE {})
  /\ phase' = "idle"
  /\ listed' = {}
  /\ parsed' = Nothing
  /\ UNCHANGED <<inboxVars, handed, faults, excused>>

\* The scheduler dies in the middle of a scan.  When it was writing the watermark the
\* file may be left empty, which is read as 0.
Crash ==
  /\ phase # "idle"
  /\ crashes < MaxCrashes
  /\ crashes' = crashes + 1
  /\ watermark' \in {watermark} \cup (IF phase = "close" THEN {0} ELSE {})
  /\ phase' = "idle"
  /\ listed' = {}
  /\ parsed' = Nothing
  /\ UNCHANGED <<inboxVars, handed, faults, excused>>

Scan ==
  \/ BeginScan \/ AllHandedOver \/ MoveWatermark
  \/ \E bad \in SUBSET Files : ParseInbox(bad)
  \/ \E f \in Files : HandOver(f) \/ LeaveOut(f)

Next ==
  \/ \E f \in Files, time \in Times : Drop(f, time)
  \/ Scan
  \/ Crash

Spec == Init /\ [][Next]_vars

\* The scheduler fires its jobs and they run: nothing in them waits without end.
FairSpec == Spec /\ WF_vars(Scan)

---------------------------------------------------------------------------
(* Properties *)

\* Of whatever is behind the watermark the writer has got all deeds of the present version,
\* even in the middle of a scan and after crashes, unless the file was parsed in vain or
\* with deeds left out, came with an old time or changed while a scan was running: a scan
\* marks files as done by time and not by what became of them.  (run_form17_inbox_scan;
\* what the writer makes of the deeds nobody asks)
BehindWatermarkWasHandedOver ==
  \A f \in Present \ excused : mtime[f] <= watermark => handed[f] = version[f]

\* Each file is dealt with once: when it is newer than the watermark the watermark
\* passes it some day, even when nothing of it could be parsed or was handed over.
WatermarkPasses ==
  \A f \in Files : mtime[f] > watermark ~> mtime[f] <= watermark

\* What earlier scans have missed is made up for by the next new file, because a scan
\* parses the whole directory: between scans, with a new file in the directory, all of
\* it is handed to the writer, unless something fails or changes before.
NewFileRescuesAll ==
  \A n \in Times, k \in 0..MaxFaults, c \in 0..MaxCrashes :
    phase = "idle" /\ now = n /\ faults = k /\ crashes = c
      /\ (\E f \in Present : mtime[f] > watermark)
    ~> \/ \A f \in Present : handed[f] = version[f]
       \/ now # n \/ faults # k \/ crashes # c
=============================================================================
