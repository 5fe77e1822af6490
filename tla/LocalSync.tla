----------------------------- MODULE LocalSync -----------------------------
(***************************************************************************)
(* A Cloud Node in provider mode that watches a directory: every cycle     *)
(* compares histories, pulls and materialises what the provider has, fills *)
(* an incomplete checkout at boot, takes over what changed in the          *)
(* directory and synchronises again, while users edit files and peers push.*)
(* src/engine/crates/cloud-node/src/local_sync.rs, main.rs                 *)
(*                                                                         *)
(* A tree maps a path to a content, 0 if there is none; every edit makes a *)
(* content of its own.  synchronize_provider is one step here, which may   *)
(* take effect and still fail; ProviderSync has its steps.  A scan is one  *)
(* step; every file it leads to is another.  A temporary of a restore lies *)
(* in the directory itself, under a name no scan filters; it is seen only  *)
(* if the process dies before the rename.  Project storage writes are      *)
(* StorageJournal's.  Paths are plain files: directories in the way of a   *)
(* file are left out.                                                      *)
(***************************************************************************)
EXTENDS Naturals

CONSTANTS Paths,
          Temps,      \* names of the temporaries a restore copies into
          Windows,    \* a rename does not replace: the target is removed first
          MaxEdits,   \* bound on the changes of users and peers
          MaxFaults   \* bound on deaths and errors

VARIABLES
  dir, store, remote,   \* the directory, the node's store, the provider's head
  unreadable, husks,    \* objects left with a manifest but no payload, and
                        \* object directories left without a manifest
  head,                 \* the tree of the node's own head, None if untracked
  ours, theirs,         \* the node's head, or the provider's, has more commits
  policy,               \* conflictPolicy
  pc, after,            \* step of the cycle, and where it goes on after a restore
  boot,                 \* the cycle is `sync --bootstrap`
  moved, fill,          \* the provider had moved; the checkout is incomplete
  scanned, want, todo,  \* what a loop found in the directory and in the store
  touched, late,        \* history: paths users changed since the node wrote or
                        \* took them, and of these the ones since the status
  torn,                 \* history: a restore after a pull was cut short
  edits, faults

trees == <<dir, store, remote>>
wrecks == <<unreadable, husks>>
heads == <<head, ours, theirs>>
cycle == <<pc, after, boot, moved, fill, scanned, want, todo>>
history == <<touched, late, torn>>
vars == <<trees, wrecks, heads, policy, cycle, history, edits, faults>>

None == <<>>
Files == Paths \cup Temps
Absent == [p \in Files |-> 0]
Trees == [Files -> 0 .. MaxEdits + 1]
Present(t) == {p \in Files : t[p] # 0}
Differ(s, t) == {p \in Files : s[p] # t[p]}

\* A node in sync, or a fresh one next to a provider with history.
Init ==
  /\ remote = [p \in Files |-> IF p \in Paths THEN 1 ELSE 0]
  /\ \/ dir = remote /\ store = remote /\ head = remote /\ theirs = FALSE
     \/ dir = Absent /\ store = Absent /\ head = None /\ theirs = TRUE
  /\ unreadable = {} /\ husks = {}
  /\ ours = FALSE /\ policy \in {"fail", "prefer-local", "prefer-remote"}
  /\ pc = "idle" /\ after = "idle" /\ boot = FALSE /\ moved = FALSE /\ fill = FALSE
  /\ scanned = Absent /\ want = Absent /\ todo = {}
  /\ touched = {} /\ late = {} /\ torn = FALSE /\ edits = 0 /\ faults = 0

Go(from, to) == pc = from /\ pc' = to

\* The cycle is over, well or not.
Rest ==
  /\ pc' = "idle" /\ after' = "idle" /\ boot' = FALSE /\ moved' = FALSE /\ fill' = FALSE
  /\ scanned' = Absent /\ want' = Absent /\ todo' = {}

\* A user writes or deletes a file, at any moment.
UserEdits(p, c) ==
  /\ edits < MaxEdits /\ edits' = edits + 1 /\ c \in {0, edits + 2} \ {dir[p]}
  /\ dir' = [dir EXCEPT ![p] = c] /\ touched' = touched \cup {p} /\ late' = late \cup {p}
  /\ UNCHANGED <<store, remote, wrecks, heads, policy, cycle, torn, faults>>

\* Another node pushes.
PeerPushes(p, c) ==
  /\ edits < MaxEdits /\ edits' = edits + 1 /\ c \in {0, edits + 2} \ {remote[p]}
  /\ remote' = [remote EXCEPT ![p] = c] /\ theirs' = TRUE
  /\ UNCHANGED <<dir, store, wrecks, head, ours, policy, cycle, history, faults>>
-----------------------------------------------------------------------------
(* sync_provider_cycle: the decision. *)

\* provider_status; an untracked store without objects is behind.
Relation ==
  CASE head = None /\ store = Absent -> "RemoteAhead"
    [] store # head /\ store = remote -> "InSync"
    [] theirs -> IF store # head \/ ours THEN "Diverged" ELSE "RemoteAhead"
    [] OTHER -> IF store # head \/ ours THEN "LocalAhead" ELSE "InSync"

\* Every scan of the store refuses an unreadable object; the cycle ends here.
Begin(b) ==
  /\ unreadable = {} /\ Go("idle", "status") /\ boot' = b
  /\ moved' = (Relation \in {"RemoteAhead", "Diverged"})
  /\ UNCHANGED <<trees, wrecks, heads, policy, after, fill, scanned, want, todo, history, edits,
                 faults>>

\* local_directory_status; at boot a missing file is no change.
Missing == Present(store) \ Present(dir)
Dirty == (IF boot THEN Differ(dir, store) \ Missing ELSE Differ(dir, store)) # {}

\* provider_local_change_policy.
Conflict == moved /\ Dirty

Refuse ==
  /\ pc = "status" /\ Conflict /\ policy = "fail" /\ Rest
  /\ UNCHANGED <<trees, wrecks, heads, policy, history, edits, faults>>

Decide ==
  /\ ~(Conflict /\ policy = "fail")
  /\ Go("status", IF moved /\ ~(Conflict /\ policy = "prefer-local") THEN "pull" ELSE "fill")
  /\ fill' = (boot /\ Missing # {}) /\ late' = {}
  /\ UNCHANGED <<trees, wrecks, heads, policy, after, boot, moved, scanned, want, todo, touched,
                 torn, edits, faults>>
-----------------------------------------------------------------------------
(* synchronize_provider, before and after the directory is taken over. *)

Adopts == store # head /\ store = remote
PullsIntoEmpty == head = None /\ store = Absent
Commits == store # head
Leads == ours \/ Commits           \* once the store is committed

\* The provider's snapshot replaces the whole store.
Pull ==
  /\ store' = remote /\ head' = remote /\ ours' = FALSE /\ theirs' = FALSE
  /\ husks' = {} /\ UNCHANGED <<remote, unreadable>>

Push ==
  /\ remote' = store /\ head' = store /\ ours' = FALSE /\ theirs' = FALSE
  /\ UNCHANGED <<store, wrecks>>

Settle ==
  /\ head' = store /\ ours' = FALSE /\ theirs' = FALSE
  /\ UNCHANGED <<store, remote, wrecks>>

\* A store that agrees with the provider but fails verify is pulled again.
Repairs == husks # {} /\ (Adopts \/ (~Leads /\ ~theirs))

Pulls ==
  \/ Repairs
  \/ ~Adopts /\ (PullsIntoEmpty \/ (theirs /\ (~Leads \/ policy = "prefer-remote")))

\* verify_provider_push_source.
PushRefused == ~Pulls /\ husks # {}

Diverged == ~Adopts /\ ~PullsIntoEmpty /\ theirs /\ Leads

\* A pull whose snapshot stays in the store.
NotMaterialised(pulled, next) == next

\* restore_local_after_pull.
Materialised(pulled, next) == IF pulled THEN "restore" ELSE next

Synchronises(from, next) ==
  /\ ~(Diverged /\ policy = "fail") /\ ~PushRefused /\ Go(from, Materialised(Pulls, next))
  /\ after' = next
  /\ \/ Pulls /\ Pull
     \/ Adopts /\ ~Pulls /\ Settle
     \/ ~Pulls /\ ~Adopts /\ Push
  /\ UNCHANGED <<dir, policy, boot, moved, fill, scanned, want, todo, history, edits, faults>>

\* No integrity audit is due and nothing has moved: the cycle ends here.
SkipsSync ==
  /\ pc = "sync" /\ Relation = "InSync" /\ Rest
  /\ UNCHANGED <<trees, wrecks, heads, policy, history, edits, faults>>

\* Both sides have commits, or the store to push fails verify: the local
\* commit stays, the call fails.
SyncRefuses(from) ==
  /\ pc = from /\ Rest
  /\ PushRefused \/ (Diverged /\ policy = "fail")
  /\ head' = store /\ ours' = TRUE
  /\ UNCHANGED <<trees, wrecks, theirs, policy, history, edits, faults>>
-----------------------------------------------------------------------------
(* restore_local_directory. *)

\* After a pull verify has nothing to refuse.
RestoreScan ==
  /\ Go("restore", "write") /\ scanned' = dir /\ want' = store
  /\ todo' = Differ(dir, store)
  /\ UNCHANGED <<trees, wrecks, heads, policy, after, boot, moved, fill, history, edits, faults>>

\* The directory's file p becomes c; what a user had there is gone.
Write(p, c) == dir' = [dir EXCEPT ![p] = c] /\ touched' = touched \ {p} /\ UNCHANGED late

\* restore_payload_atomic: the temporary is complete and becomes the file.
RestoreFile(p) ==
  /\ pc = "write" /\ want[p] # 0
  /\ IF Windows /\ dir[p] # 0
     THEN Write(p, 0) /\ UNCHANGED todo
     ELSE Write(p, want[p]) /\ todo' = todo \ {p}
  /\ UNCHANGED <<store, remote, wrecks, heads, policy, pc, after, boot, moved, fill, scanned, want,
                 torn, edits, faults>>

\* Files the snapshot does not have go last.
RemoveFile(p) ==
  /\ pc = "write" /\ want[p] = 0 /\ \A q \in todo : want[q] = 0
  /\ Write(p, 0) /\ todo' = todo \ {p}
  /\ UNCHANGED <<store, remote, wrecks, heads, policy, pc, after, boot, moved, fill, scanned, want,
                 torn, edits, faults>>

Restored ==
  /\ todo = {} /\ torn' = FALSE
  /\ IF after = "idle" THEN pc = "write" /\ Rest
     ELSE Go("write", after) /\ UNCHANGED <<after, boot, moved, fill, scanned, want, todo>>
  /\ UNCHANGED <<trees, wrecks, heads, policy, touched, late, edits, faults>>
-----------------------------------------------------------------------------
(* restore_missing_local_directory. *)

\* verify refuses an object directory without a manifest.
FillRefused ==
  /\ pc = "fill" /\ fill /\ husks # {} /\ Rest
  /\ UNCHANGED <<trees, wrecks, heads, policy, history, edits, faults>>

FillScan ==
  /\ ~(fill /\ husks # {}) /\ Go("fill", IF fill THEN "filling" ELSE "inputs")
  /\ want' = store /\ todo' = IF fill THEN Missing ELSE {}
  /\ UNCHANGED <<trees, wrecks, heads, policy, after, boot, moved, fill, scanned, history, edits,
                 faults>>

\* A file that is there by now is an error.
FillFile(p) ==
  /\ pc = "filling"
  /\ IF dir[p] # 0 THEN Rest /\ UNCHANGED <<dir, touched, late>>
     ELSE /\ Write(p, want[p]) /\ todo' = todo \ {p}
          /\ UNCHANGED <<pc, after, boot, moved, fill, scanned, want>>
  /\ UNCHANGED <<store, remote, wrecks, heads, policy, torn, edits, faults>>

Filled ==
  /\ todo = {} /\ Go("filling", "inputs")
  /\ UNCHANGED <<trees, wrecks, heads, policy, after, boot, moved, fill, scanned, want, todo,
                 history, edits, faults>>
-----------------------------------------------------------------------------
(* sync_local_inputs: sync_local_directory. *)

InputScan ==
  /\ Go("inputs", "take") /\ scanned' = dir /\ want' = store /\ todo' = Differ(dir, store)
  /\ UNCHANGED <<trees, wrecks, heads, policy, after, boot, moved, fill, history, edits, faults>>

\* store_file reads the file now; one that has gone is an error.
TakeFile(p) ==
  /\ pc = "take" /\ scanned[p] # 0
  /\ IF dir[p] = 0 THEN Rest /\ UNCHANGED <<store, husks, touched>>
     ELSE /\ store' = [store EXCEPT ![p] = dir[p]] /\ husks' = husks \ {p}
          /\ touched' = touched \ {p} /\ todo' = todo \ {p}
          /\ UNCHANGED <<pc, after, boot, moved, fill, scanned, want>>
  /\ UNCHANGED <<dir, remote, unreadable, heads, policy, late, torn, edits, faults>>

\* remove_active_object, after all files.
Gone(p) ==
  /\ store' = [store EXCEPT ![p] = 0]
  /\ touched' = IF dir[p] = 0 THEN touched \ {p} ELSE touched

Drops(p) == pc = "take" /\ scanned[p] = 0 /\ \A q \in todo : scanned[q] = 0

DropObject(p) ==
  /\ Drops(p) /\ Gone(p) /\ todo' = todo \ {p}
  /\ UNCHANGED <<dir, remote, wrecks, heads, policy, pc, after, boot, moved, fill, scanned, want,
                 late, torn, edits, faults>>

Taken ==
  /\ todo = {} /\ Go("take", "sync") /\ torn' = FALSE
  /\ UNCHANGED <<trees, wrecks, heads, policy, after, boot, moved, fill, scanned, want, todo,
                 touched, late, edits, faults>>
-----------------------------------------------------------------------------
\* A death, or an error, anywhere in the cycle ...
Fails ==
  /\ pc # "idle" /\ faults < MaxFaults /\ faults' = faults + 1 /\ Rest
  /\ torn' = (torn \/ pc \in {"restore", "write"})
  /\ UNCHANGED <<trees, wrecks, heads, policy, touched, late, edits>>

\* ... in the middle of a copy: the temporary stays ...
DiesCopying(p, t) ==
  /\ pc = "write" \/ (pc = "filling" /\ dir[p] = 0)
  /\ want[p] # 0 /\ dir[t] = 0 /\ dir' = [dir EXCEPT ![t] = want[p]]
  /\ faults < MaxFaults /\ faults' = faults + 1 /\ Rest /\ torn' = (torn \/ pc = "write")
  /\ UNCHANGED <<store, remote, wrecks, heads, policy, touched, late, edits>>

\* ... in store_file, between the object's directory and its manifest ...
DiesStoring(p) ==
  /\ pc = "take" /\ scanned[p] # 0 /\ dir[p] # 0 /\ store[p] = 0
  /\ faults < MaxFaults /\ faults' = faults + 1 /\ Rest /\ husks' = husks \cup {p}
  /\ UNCHANGED <<trees, unreadable, heads, policy, history, edits>>

\* ... in remove_dir_all, which takes the payload or the manifest first ...
DiesDropping(p) ==
  /\ Drops(p) /\ faults < MaxFaults /\ faults' = faults + 1 /\ Rest
  /\ \/ unreadable' = unreadable \cup {p} /\ UNCHANGED <<store, husks, touched>>
     \/ Gone(p) /\ husks' = husks \cup {p} /\ UNCHANGED unreadable
  /\ UNCHANGED <<dir, remote, heads, policy, late, torn, edits>>

\* ... or in synchronize_provider, with the local commit made.
FailsCommitted ==
  /\ pc \in {"pull", "sync"} /\ ~Adopts /\ ~PullsIntoEmpty /\ Commits
  /\ faults < MaxFaults /\ faults' = faults + 1 /\ Rest
  /\ head' = store /\ ours' = TRUE
  /\ UNCHANGED <<trees, wrecks, theirs, policy, history, edits>>

CycleStep ==
  \/ Refuse \/ Decide
  \/ Synchronises("pull", "fill") \/ Synchronises("sync", "idle")
  \/ SyncRefuses("pull") \/ SyncRefuses("sync") \/ SkipsSync
  \/ RestoreScan \/ Restored \/ FillRefused \/ FillScan \/ Filled \/ InputScan \/ Taken
  \/ \E p \in todo : RestoreFile(p) \/ RemoveFile(p) \/ FillFile(p) \/ TakeFile(p) \/ DropObject(p)

Next ==
  \/ CycleStep \/ \E b \in BOOLEAN : Begin(b)
  \/ \E p \in Paths : \E c \in 0 .. MaxEdits + 1 : UserEdits(p, c) \/ PeerPushes(p, c)
  \/ Fails \/ FailsCommitted
  \/ \E p \in todo : DiesStoring(p) \/ DiesDropping(p) \/ \E t \in Temps : DiesCopying(p, t)

\* run_provider_daemon goes on for ever; a process that died is started again.
Fairness == WF_vars(CycleStep) /\ WF_vars(\E b \in BOOLEAN : Begin(b))

Spec == Init /\ [][Next]_vars /\ Fairness
-----------------------------------------------------------------------------
TypeOK ==
  /\ dir \in Trees /\ store \in Trees /\ remote \in Trees /\ head \in Trees \cup {None}
  /\ unreadable \subseteq Files /\ husks \subseteq Files
  /\ scanned \in Trees /\ want \in Trees /\ todo \subseteq Files /\ touched \subseteq Paths
  /\ pc \in {"idle", "status", "pull", "restore", "write", "fill", "filling", "inputs", "take",
             "sync"}

(***************************************************************************)
(* The node takes over from its directory only what users changed there:   *)
(* what a peer pushed is not undone by the directory that has yet to       *)
(* receive it.  Two exceptions: after a cycle that died between a pull and *)
(* the end of its restore the next one takes the old files for edits; and  *)
(* the temporary of a restore or fill that died in its copy is taken over  *)
(* and published like any file.                                            *)
(***************************************************************************)
OnlyEditsTravel ==
  \A p \in Files : pc = "take" /\ store'[p] # store[p] => p \in touched \cup Temps \/ torn

(***************************************************************************)
(* Unless the remote side is preferred, a restore overwrites no file that  *)
(* a user wrote before the cycle looked at the directory.                  *)
(***************************************************************************)
EditsKept ==
  \A p \in touched \ touched' :
    pc \in {"write", "filling"} /\ dir[p] # 0 /\ policy # "prefer-remote" => p \in late

LocalSyncSafe == [][OnlyEditsTravel /\ EditsKept]_vars

(***************************************************************************)
(* Under a policy that decides, directory, store and provider agree once   *)
(* edits and faults stop, unless a death left an object half stored or     *)
(* half removed: without its payload it fails every later scan, without    *)
(* its manifest every later push.                                          *)
(***************************************************************************)
Wrecked == unreadable \cup husks # {}

LocalSettles == policy # "fail" => <>[](Wrecked \/ (dir = store /\ store = remote))
=============================================================================
