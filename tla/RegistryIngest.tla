--------------------------- MODULE RegistryIngest ---------------------------
(***************************************************************************)
(* The replacement of the registry part of a Cloud Node store by a trusted *)
(* export, object by object between a durable marker and its removal, and  *)
(* the scan every publication starts with, which refuses a store with the  *)
(* marker.                                                                 *)
(* src/engine/crates/cloud-node/src/registry_ingest.rs, sync.rs            *)
(*                                                                         *)
(* A registry path holds the number of the export its content comes from,  *)
(* 0 if it is not active: also when a death left its object's directory    *)
(* without a manifest, which these scans pass over.  An export that fails  *)
(* validation changes nothing and is left out; other objects of the store  *)
(* take no part.                                                           *)
(***************************************************************************)
EXTENDS Naturals

CONSTANTS Paths,      \* registry paths
          Exports,    \* Exports[e] is the set of paths of export e
          MaxFaults   \* bound on deaths and failed operations

VARIABLES
  active,           \* export an active path comes from
  unreadable,       \* active paths whose payload is gone, the manifest not
  marker,           \* .registry-ingest.pending
  ipc, export,      \* the ingestion under the lock and its validated export
  before, todo,     \* what it scanned, and the paths of its current loop
  spc, seen, left,  \* a scan: step, what it has read, what it has left
  disturbed,        \* history: the store changed while the scan ran
  faults

store == <<active, unreadable, marker>>
ingest == <<ipc, export, before, todo>>
scan == <<spc, seen, left>>
vars == <<store, ingest, scan, disturbed, faults>>

Absent == [p \in Paths |-> 0]
Whole(e) == [p \in Paths |-> IF p \in Exports[e] THEN e ELSE 0]
Present(t) == {p \in Paths : t[p] # 0}

Init ==
  /\ active = Absent /\ unreadable = {} /\ marker = FALSE
  /\ ipc = "idle" /\ export = 0 /\ before = {} /\ todo = {}
  /\ spc = "idle" /\ seen = Absent /\ left = {} /\ disturbed = FALSE /\ faults = 0

Go(from, to) == ipc = from /\ ipc' = to
-----------------------------------------------------------------------------
(* ingest_registry_export. *)

\* The lock is taken and the complete export validated.
Validate(e) ==
  /\ Go("idle", "begin") /\ export' = e
  /\ UNCHANGED <<store, before, todo, scan, disturbed, faults>>

Begin ==
  /\ Go("begin", "scan") /\ marker' = TRUE
  /\ UNCHANGED <<active, unreadable, export, before, todo, scan, disturbed, faults>>

\* The lock is released, the marker stays.
Stop == ipc' = "idle" /\ export' = 0 /\ before' = {} /\ todo' = {}

\* scan_storage, which does not ask for the marker but refuses an object
\* without its payload.
ScanFails ==
  /\ ipc = "scan" /\ unreadable # {} /\ Stop
  /\ UNCHANGED <<store, scan, disturbed, faults>>

ScanBefore ==
  /\ unreadable = {} /\ Go("scan", "store") /\ before' = Present(active) /\ todo' = Exports[export]
  /\ UNCHANGED <<store, export, scan, disturbed, faults>>

\* A transaction that ends before what the export dropped is removed.
CommitFirst == "finish"

RemoveStale == "remove"

\* One object becomes active or is removed.
Change(p, content) ==
  /\ todo' = todo \ {p} /\ active' = [active EXCEPT ![p] = content]
  /\ unreadable' = unreadable \ {p}
  /\ disturbed' = (disturbed \/ spc = "reading")
  /\ UNCHANGED <<marker, export, before, scan, faults>>

StoreNext(p) == Go("store", "store") /\ Change(p, export)

Stored ==
  /\ todo = {} /\ Go("store", RemoveStale) /\ todo' = before \ Exports[export]
  /\ UNCHANGED <<store, export, before, scan, disturbed, faults>>

RemoveNext(p) == Go("remove", "remove") /\ Change(p, 0)

\* verify_active_registry_paths.
Verify ==
  /\ todo = {} /\ Go("remove", IF Present(active) = Exports[export] THEN "finish" ELSE "idle")
  /\ UNCHANGED <<store, export, before, todo, scan, disturbed, faults>>

Finish ==
  /\ ipc = "finish" /\ Stop /\ marker' = FALSE
  /\ UNCHANGED <<active, unreadable, scan, disturbed, faults>>

\* An error, or the death of the process; the operating system frees the lock.
Fails ==
  /\ ipc # "idle" /\ faults < MaxFaults /\ faults' = faults + 1 /\ Stop
  /\ UNCHANGED <<store, scan, disturbed>>

\* It falls into remove_dir_all, which has removed the payload but not the
\* manifest.
FailsRemoving(p) ==
  /\ ipc = "remove" /\ faults < MaxFaults /\ faults' = faults + 1 /\ Stop
  /\ unreadable' = unreadable \cup {p} /\ disturbed' = (disturbed \/ spc = "reading")
  /\ UNCHANGED <<active, marker, scan>>

IngestStep ==
  \/ Begin \/ ScanFails \/ ScanBefore \/ Stored \/ Verify \/ Finish
  \/ \E p \in todo : StoreNext(p) \/ RemoveNext(p)
-----------------------------------------------------------------------------
(* SyncPlan::scan. *)

\* ensure_registry_ingest_committed.
Committed == ~marker

ScanBegins ==
  /\ spc = "idle" /\ Committed
  /\ spc' = "reading" /\ seen' = Absent /\ left' = Paths /\ disturbed' = FALSE
  /\ UNCHANGED <<store, ingest, faults>>

\* The directories are read one after the other; an object without its payload
\* ends the scan.
ScanReads(p) ==
  /\ spc = "reading" /\ p \notin unreadable
  /\ left' = left \ {p} /\ seen' = [seen EXCEPT ![p] = active[p]]
  /\ spc' = IF left' = {} THEN "done" ELSE "reading"
  /\ UNCHANGED <<store, ingest, disturbed, faults>>

ScanStops ==
  /\ spc = "reading" /\ left \cap unreadable # {}
  /\ spc' = "idle" /\ seen' = Absent /\ left' = {} /\ disturbed' = FALSE
  /\ UNCHANGED <<store, ingest, faults>>

ScanEnds ==
  /\ spc = "done" /\ spc' = "idle" /\ seen' = Absent /\ disturbed' = FALSE
  /\ UNCHANGED <<store, ingest, left, faults>>

Next ==
  \/ \E e \in DOMAIN Exports : Validate(e)
  \/ IngestStep \/ Fails \/ \E p \in todo : FailsRemoving(p)
  \/ ScanBegins \/ (\E p \in left : ScanReads(p)) \/ ScanStops \/ ScanEnds

\* An ingestion that runs goes on, and an interrupted one is started again.
Fairness == WF_vars(IngestStep) /\ WF_vars(marker /\ \E e \in DOMAIN Exports : Validate(e))

Spec == Init /\ [][Next]_vars /\ Fairness
-----------------------------------------------------------------------------
TypeOK ==
  /\ active \in [Paths -> {0} \cup DOMAIN Exports] /\ seen \in [Paths -> {0} \cup DOMAIN Exports]
  /\ ipc \in {"idle", "begin", "scan", "store", "remove", "finish"}
  /\ export \in {0} \cup DOMAIN Exports /\ before \subseteq Paths /\ todo \subseteq Paths
  /\ spc \in {"idle", "reading", "done"} /\ left \subseteq Paths
  /\ unreadable \subseteq Paths /\ marker \in BOOLEAN /\ disturbed \in BOOLEAN
  /\ faults \in 0 .. MaxFaults

Snapshots == {Absent} \cup {Whole(e) : e \in DOMAIN Exports}

(***************************************************************************)
(* Without the marker the registry is one export as a whole and every      *)
(* object of it can be read, also after replacements that died half way    *)
(* and were repaired with another export, so what a scan admits is one     *)
(* export too.  The scan looks at the marker before it reads: an ingestion *)
(* that begins while it reads can still mix two exports in it.             *)
(***************************************************************************)
RegistryIsWhole ==
  /\ ~marker => active \in Snapshots /\ unreadable = {}
  /\ spc = "done" /\ ~disturbed => seen \in Snapshots

(***************************************************************************)
(* A replacement that was interrupted is completed when it is run again,   *)
(* so publication is not refused for ever, except when it died inside a    *)
(* removal that had taken the payload: the scan at the start of every      *)
(* later replacement then fails before anything could repair the object.   *)
(***************************************************************************)
RegistryReturns == []<>(~marker \/ unreadable # {})
=============================================================================
