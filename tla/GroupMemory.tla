----------------------------- MODULE GroupMemory -----------------------------
(***************************************************************************)
(* Leases on one file-backed group-memory region: the advisory lock, the   *)
(* generation, the write-in-progress marker and writers that die.          *)
(* src/group-memory/src/lib.rs, src/group-memory/src/lease.rs              *)
(*                                                                         *)
(* A handle is one opened region.  A lease locks a duplicate of the        *)
(* handle's descriptor, so the lock belongs to the handle: on Unix the     *)
(* unlock of any duplicate releases it.  The payload has two halves; each  *)
(* holds the generation that wrote it.                                     *)
(***************************************************************************)
EXTENDS Naturals

CONSTANTS Handles,     \* GroupMemoryRegion values, in whatever processes
          Leases,      \* read leases that may be taken of one handle at a time
          MaxGen       \* the generation that cannot be advanced

VARIABLES lock,        \* what a handle's descriptor holds: "none", "shared", "exclusive"
          reading,     \* a read lease's step
          held,        \* the generation whose payload a read lease exposes
          wpc, repair, \* the write or repair lease of a handle
          gen, marker, first, second  \* header and payload of the file

header == <<gen, marker>>
payload == <<first, second>>
vars == <<lock, reading, held, wpc, repair, header, payload>>

Init ==
  /\ lock = [h \in Handles |-> "none"]
  /\ reading = [h \in Handles |-> [l \in Leases |-> "none"]]
  /\ held = [h \in Handles |-> [l \in Leases |-> 0]]
  /\ wpc = [h \in Handles |-> "none"] /\ repair = [h \in Handles |-> FALSE]
  /\ gen = 0 /\ marker = FALSE /\ first = 0 /\ second = 0

Locked(h, mode) == lock' = [lock EXCEPT ![h] = mode]
Unlocked(h) == Locked(h, "none")
-----------------------------------------------------------------------------
(* read_lease. *)

Reads(h, l, from, to) ==
  reading[h][l] = from /\ reading' = [reading EXCEPT ![h][l] = to]

\* lock_shared; while a handle has a write lease it is borrowed mutably.
ReadLock(h, l) ==
  /\ wpc[h] = "none" /\ \A k \in Handles : lock[k] # "exclusive"
  /\ Reads(h, l, "none", "locked") /\ Locked(h, "shared")
  /\ UNCHANGED <<held, wpc, repair, header, payload>>

\* A lease that is handed out whatever the last writer left.
NeverUnclean == FALSE

Unclean == marker

\* An unclean region is refused and the lock dropped.
ReadCheck(h, l) ==
  /\ IF Unclean
       THEN Reads(h, l, "locked", "none") /\ Unlocked(h) /\ UNCHANGED held
       ELSE Reads(h, l, "locked", "held") /\ held' = [held EXCEPT ![h][l] = first]
            /\ UNCHANGED lock
  /\ UNCHANGED <<wpc, repair, header, payload>>

\* OwnedFileLock::drop.
ReadDrop(h, l) ==
  /\ Reads(h, l, "held", "none") /\ Unlocked(h)
  /\ UNCHANGED <<held, wpc, repair, header, payload>>
-----------------------------------------------------------------------------
(* write_lease and repair_lease. *)

Writes(h, from, to) == wpc[h] = from /\ wpc' = [wpc EXCEPT ![h] = to]

WriteLock(h) ==
  /\ \A l \in Leases : reading[h][l] = "none"
  /\ \A k \in Handles \ {h} : lock[k] = "none"
  /\ Writes(h, "none", "locked") /\ Locked(h, "exclusive")
  /\ \E r \in BOOLEAN : repair' = [repair EXCEPT ![h] = r]
  /\ UNCHANGED <<reading, held, header, payload>>

\* begin_write_lease: refused, or the generation advances and the marker is set.
WriteBegin(h) ==
  /\ \/ /\ (Unclean /\ ~repair[h]) \/ gen = MaxGen
        /\ Writes(h, "locked", "none") /\ Unlocked(h) /\ UNCHANGED header
     \/ /\ (Unclean => repair[h]) /\ gen < MaxGen
        /\ Writes(h, "locked", "first")
        /\ gen' = gen + 1 /\ marker' = TRUE /\ UNCHANGED lock
  /\ UNCHANGED <<reading, held, repair, payload>>

\* The caller's mutation.
WriteFirst(h) ==
  /\ Writes(h, "first", "second") /\ first' = gen
  /\ UNCHANGED <<lock, reading, held, repair, header, second>>

WriteSecond(h) ==
  /\ Writes(h, "second", "commit") /\ second' = gen
  /\ UNCHANGED <<lock, reading, held, repair, header, first>>

\* commit clears the marker while the lock is still held ...
WriteCommit(h) ==
  /\ Writes(h, "commit", "release") /\ marker' = FALSE
  /\ UNCHANGED <<lock, reading, held, repair, gen, payload>>

MarkerOnDrop(h) == IF wpc[h] = "release" THEN FALSE ELSE marker

\* ... and the drop of the lease releases it; an uncommitted one keeps the marker.
WriteDrop(h) ==
  /\ wpc[h] \in {"first", "second", "commit", "release"}
  /\ wpc' = [wpc EXCEPT ![h] = "none"] /\ Unlocked(h) /\ marker' = MarkerOnDrop(h)
  /\ UNCHANGED <<reading, held, repair, gen, payload>>

\* The process of a handle dies; no destructor runs, its locks are released.
Dies(h) ==
  /\ wpc' = [wpc EXCEPT ![h] = "none"] /\ Unlocked(h)
  /\ reading' = [reading EXCEPT ![h] = [l \in Leases |-> "none"]]
  /\ UNCHANGED <<held, repair, header, payload>>
-----------------------------------------------------------------------------
Next ==
  \E h \in Handles :
    \/ \E l \in Leases : ReadLock(h, l) \/ ReadCheck(h, l) \/ ReadDrop(h, l)
    \/ WriteLock(h) \/ WriteBegin(h) \/ WriteFirst(h) \/ WriteSecond(h)
    \/ WriteCommit(h) \/ WriteDrop(h) \/ Dies(h)

Spec == Init /\ [][Next]_vars
-----------------------------------------------------------------------------
TypeOK ==
  /\ lock \in [Handles -> {"none", "shared", "exclusive"}]
  /\ reading \in [Handles -> [Leases -> {"none", "locked", "held"}]]
  /\ held \in [Handles -> [Leases -> 0 .. MaxGen]]
  /\ wpc \in [Handles -> {"none", "locked", "first", "second", "commit", "release"}]
  /\ repair \in [Handles -> BOOLEAN]
  /\ gen \in 0 .. MaxGen /\ marker \in BOOLEAN
  /\ first \in 0 .. MaxGen /\ second \in 0 .. MaxGen

\* read_lease borrows the region as shared, so the code does not enforce this.
OneLeaseEach ==
  \A h \in Handles : \A k, l \in Leases :
    reading[h][k] # "none" /\ reading[h][l] # "none" => k = l

(***************************************************************************)
(* A read lease exposes one whole payload, the same as long as it is held: *)
(* neither a half-written one that a dead or cancelled writer left, nor    *)
(* one that another handle begins to write meanwhile.  "For a file-backed  *)
(* region `_lock` owns a cloned handle to the same OS file, keeping its    *)
(* shared lock alive until this value is dropped" (lease.rs:15).  True of  *)
(* handles with one read lease at a time (OneLeaseEach): of two leases of  *)
(* one handle the first one dropped unlocks the region under the other.    *)
(***************************************************************************)
LeaseIsStable ==
  \A h \in Handles, l \in Leases :
    reading[h][l] = "held" => first = held[h][l] /\ second = held[h][l]
=============================================================================
