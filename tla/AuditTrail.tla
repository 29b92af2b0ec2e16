----------------------------- MODULE AuditTrail -----------------------------
(***************************************************************************)
(* What the ingest engine promises the readers of the database, whatever    *)
(* its threads, its cache and its crashes do: data once stored stays        *)
(* stored, ingest_log only grows, and a row that reports success is about   *)
(* data that is in its table.                                               *)
(***************************************************************************)
CONSTANTS Hashes, Outcome

VARIABLES
  stored,   \* hashes whose data is in its target table
  log       \* the rows of ingest_log

trail == <<stored, log>>

Init == stored = {} /\ log = {}

\* The writer persists data: new data, or the same data once more.
Store(h) ==
  /\ stored' = stored \cup {h}
  /\ UNCHANGED log

\* An audit row for h: success may be claimed for stored data only.
Audit(h, status) ==
  /\ status = "success" => h \in stored
  /\ log' = log \cup {[hash |-> h, status |-> status]}
  /\ UNCHANGED stored

Next == \E h \in Hashes : Store(h) \/ \E status \in Outcome : Audit(h, status)

Spec == Init /\ [][Next]_trail
=============================================================================
