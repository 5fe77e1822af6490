---------------------------- MODULE BinaryUpdate ----------------------------
(***************************************************************************)
(* The in-place update of the installed executables: the backend stages a  *)
(* verified bundle and hands over to a helper process, which journals,     *)
(* swaps file by file, launches the candidate and commits or rolls back;   *)
(* an interrupted update is undone by --update-recover.                    *)
(* src/engine/crates/backend/src/binary_updates.rs, main.rs                *)
(*                                                                         *)
(* Every file operation is a step; helper, backend or both may die between *)
(* any two, and an operation may fail where the code handles it.  Checked  *)
(* downloads are whole or absent; versions stand for digests.              *)
(***************************************************************************)
EXTENDS Naturals

CONSTANTS Files,      \* number of files in names()
          Last,       \* versions are numbered 1 .. Last
          MaxFaults   \* bound on deaths and failed operations

VARIABLES
  installed, saved, staged,  \* version of each file in a directory, 0 if absent
  journal,    \* the recorded previous versions, <<>> if there is no journal
  hpc, pos,   \* the helper's step and the file it works on
  recover,    \* the helper was started by --update-recover
  bpc, bver,  \* the backend process and the version it was launched from
  ready,      \* the candidate's readiness file and health check agree
  leased,     \* the backend exits with its helper
  proved,     \* history: versions whose candidate was seen healthy
  faults

dirs == <<installed, saved, staged>>
helper == <<hpc, pos, recover>>
backend == <<bpc, bver, ready, leased>>
vars == <<dirs, journal, helper, backend, proved, faults>>

All(v) == [f \in 1 .. Files |-> v]

Init ==
  /\ installed = All(1) /\ saved = All(0) /\ staged = All(0) /\ journal = <<>>
  /\ hpc = "none" /\ pos = 1 /\ recover = FALSE
  /\ bpc = "up" /\ bver = 1 /\ ready = FALSE /\ leased = FALSE
  /\ proved = {1} /\ faults = 0

Fault == faults < MaxFaults /\ faults' = faults + 1

Interrupted == journal # <<>>

Following == (pos % Files) + 1

Run(v, lease) ==
  /\ bpc' = "up" /\ bver' = v /\ ready' = FALSE /\ leased' = lease
-----------------------------------------------------------------------------
(* The backend. *)

\* A normal start refuses an interrupted update.  Whoever starts it does so when
\* neither a backend nor a helper runs.
Boot ==
  /\ bpc = "down" /\ hpc = "none" /\ ~Interrupted
  /\ Run(installed[1], FALSE)
  /\ UNCHANGED <<dirs, journal, helper, proved, faults>>

\* stage: under the update lock and never over a journal; then the backend drains.
Stage(v) ==
  /\ bpc = "up" /\ hpc \in {"none", "supervise"} /\ ~Interrupted /\ v > bver
  /\ staged' = All(v) /\ bpc' = "draining"
  /\ UNCHANGED <<installed, saved, journal, helper, bver, ready, leased, proved, faults>>

\* handoff_after_drain: the helper is started and outlives the backend, or the
\* unchanged bundle is started again.
HandOff ==
  /\ bpc = "draining"
  /\ \/ /\ bpc' = "down" /\ hpc' = "lock" /\ recover' = FALSE
        /\ UNCHANGED <<bver, ready, leased, faults>>
     \/ Fault /\ Run(installed[1], FALSE) /\ hpc' = "none" /\ UNCHANGED recover
  /\ UNCHANGED <<dirs, journal, pos, proved>>

\* --update-recover, or --recover-installation with the retained helper.
Recover ==
  /\ Interrupted /\ hpc = "none" /\ bpc = "down"
  /\ hpc' = "lock" /\ recover' = TRUE
  /\ UNCHANGED <<dirs, journal, pos, backend, proved, faults>>

\* mark_ready, and a health check that succeeds.
CandidateReady ==
  /\ hpc = "wait" /\ bpc = "up" /\ ready' = TRUE /\ proved' = proved \cup {bver}
  /\ UNCHANGED <<dirs, journal, helper, bpc, bver, leased, faults>>

\* A candidate that fails, or the shutdown of a backend.
Exits ==
  /\ hpc \in {"none", "wait", "supervise"} /\ bpc = "up" /\ bpc' = "down" /\ ready' = FALSE
  /\ UNCHANGED <<dirs, journal, helper, bver, leased, proved, faults>>

\* parent_lease_closed: the pipe to the helper is closed.
LeaseCloses ==
  /\ hpc = "none" /\ leased /\ bpc = "up"
  /\ bpc' = "down" /\ ready' = FALSE
  /\ UNCHANGED <<dirs, journal, helper, bver, leased, proved, faults>>
-----------------------------------------------------------------------------
(* The helper: worker, install, rollback_transaction. *)

Helper(from, to) == hpc = from /\ hpc' = to

\* The error ends the helper; a lease it holds closes.
Give(from) == Fault /\ Helper(from, "none")

\* The lock, the maintenance responder and, to recover, the journal.
TakeLock ==
  /\ \/ ~recover /\ Helper("lock", "record") /\ UNCHANGED faults
     \/ recover /\ Interrupted /\ Helper("lock", "undo") /\ UNCHANGED faults
     \/ Give("lock")
  /\ pos' = 1
  /\ UNCHANGED <<dirs, journal, recover, backend, proved>>

\* A helper that does not empty the directory of the update before.
BackupKept == saved

\* remove_dir_all of the previous backup.
Emptied == All(0)

\* Digests are taken and the old backup is removed, or the bundle is rejected.
ClearBackup ==
  /\ \/ Helper("record", "journal") /\ saved' = Emptied /\ UNCHANGED faults
     \/ Fault /\ Helper("record", "restart") /\ UNCHANGED saved
  /\ UNCHANGED <<installed, staged, journal, pos, recover, backend, proved>>

\* write_json: once the rename is done an error retains the journal.
WriteJournal ==
  /\ \/ Helper("journal", "save") /\ journal' = installed /\ UNCHANGED faults
     \/ Give("journal") /\ journal' = installed
     \/ Fault /\ Helper("journal", "restart") /\ UNCHANGED journal
  /\ UNCHANGED <<dirs, pos, recover, backend, proved>>

\* The installed file becomes the saved one ...
SaveFile ==
  /\ \/ /\ Helper("save", "put") /\ UNCHANGED faults
        /\ saved' = [saved EXCEPT ![pos] = installed[pos]]
        /\ installed' = [installed EXCEPT ![pos] = 0]
        /\ UNCHANGED pos
     \/ Fault /\ Helper("save", "undo") /\ pos' = 1 /\ UNCHANGED <<saved, installed>>
  /\ UNCHANGED <<staged, journal, recover, backend, proved>>

\* ... and the staged file the installed one.
PutFile ==
  /\ \/ /\ Helper("put", IF pos = Files THEN "launch" ELSE "save")
        /\ installed' = [installed EXCEPT ![pos] = staged[pos]]
        /\ staged' = [staged EXCEPT ![pos] = 0]
        /\ pos' = Following /\ UNCHANGED faults
     \/ Fault /\ Helper("put", "undo") /\ pos' = 1 /\ UNCHANGED <<installed, staged>>
  /\ UNCHANGED <<saved, journal, recover, backend, proved>>

Launch ==
  /\ \/ Helper("launch", "wait") /\ Run(installed[1], TRUE) /\ UNCHANGED faults
     \/ Fault /\ Helper("launch", "undo") /\ UNCHANGED backend
  /\ UNCHANGED <<dirs, journal, pos, recover, proved>>

\* A helper that takes a candidate that runs for one that is healthy.
Running == bpc = "up"

Healthy == bpc = "up" /\ ready

\* wait_ready: the evidence, or the deadline or the candidate's end.
WaitReady ==
  /\ \/ Helper("wait", "commit") /\ Healthy
     \/ Helper("wait", "stop")
  /\ UNCHANGED <<dirs, journal, pos, recover, backend, proved, faults>>

Commit ==
  /\ \/ Helper("commit", "supervise") /\ journal' = <<>> /\ UNCHANGED faults
     \/ Give("commit") /\ UNCHANGED journal
  /\ UNCHANGED <<dirs, pos, recover, backend, proved>>

\* stop_backend: the candidate has gone before a file is touched.
StopCandidate ==
  /\ Helper("stop", "undo") /\ bpc' = "down" /\ ready' = FALSE
  /\ UNCHANGED <<dirs, journal, pos, recover, bver, leased, proved, faults>>

SavedExists == saved[pos] # 0

NextFile == IF pos = Files THEN "drop" ELSE "undo"

\* A checksum that disagrees, or a file that is nowhere.
Refused ==
  IF SavedExists THEN saved[pos] # journal[pos] ELSE installed[pos] # journal[pos]

\* restore, one file: a saved file is checked and the installed one removed ...
RestoreFile ==
  /\ \/ /\ Helper("undo", "move") /\ SavedExists /\ saved[pos] = journal[pos]
        /\ installed' = [installed EXCEPT ![pos] = 0] /\ UNCHANGED <<pos, faults>>
     \/ /\ Helper("undo", NextFile) /\ pos' = Following
        /\ ~SavedExists /\ installed[pos] = journal[pos]
        /\ UNCHANGED <<installed, faults>>
     \/ /\ Helper("undo", "none") /\ UNCHANGED <<installed, pos>>
        /\ IF Refused THEN UNCHANGED faults ELSE Fault
  /\ UNCHANGED <<saved, staged, journal, recover, backend, proved>>

\* ... and replaced.
MoveBack ==
  /\ \/ /\ Helper("move", NextFile) /\ pos' = Following
        /\ installed' = [installed EXCEPT ![pos] = saved[pos]]
        /\ saved' = [saved EXCEPT ![pos] = 0] /\ UNCHANGED faults
     \/ Give("move") /\ UNCHANGED <<installed, saved, pos>>
  /\ UNCHANGED <<staged, journal, recover, backend, proved>>

DropJournal ==
  /\ \/ Helper("drop", "restart") /\ journal' = <<>> /\ UNCHANGED faults
     \/ Give("drop") /\ UNCHANGED journal
  /\ UNCHANGED <<dirs, pos, recover, backend, proved>>

RestartPrevious ==
  /\ \/ Helper("restart", "supervise") /\ Run(installed[1], TRUE) /\ UNCHANGED faults
     \/ Give("restart") /\ UNCHANGED backend
  /\ UNCHANGED <<dirs, journal, pos, recover, proved>>

\* supervise: the helper ends with its child.
SuperviseEnds ==
  /\ bpc = "down" /\ Helper("supervise", "none")
  /\ UNCHANGED <<dirs, journal, pos, recover, backend, proved, faults>>
-----------------------------------------------------------------------------
\* The helper dies, alone or with the backend, or the backend dies.
Crash ==
  /\ Fault
  /\ \/ hpc # "none" /\ hpc' = "none" /\ UNCHANGED <<bpc, ready>>
     \/ hpc' = "none" /\ bpc' = "down" /\ ready' = FALSE
     \/ bpc # "down" /\ bpc' = "down" /\ ready' = FALSE /\ UNCHANGED hpc
  /\ UNCHANGED <<dirs, journal, pos, recover, bver, leased, proved>>

HelperStep ==
  TakeLock \/ ClearBackup \/ WriteJournal \/ SaveFile \/ PutFile \/ Launch
  \/ WaitReady \/ Commit \/ StopCandidate \/ RestoreFile \/ MoveBack
  \/ DropJournal \/ RestartPrevious \/ SuperviseEnds

Next ==
  \/ Boot \/ HandOff \/ Recover \/ CandidateReady \/ Exits \/ LeaseCloses
  \/ HelperStep \/ Crash
  \/ \E v \in 1 .. Last : Stage(v)

\* The processes are scheduled, and somebody starts the backend, with
\* --update-recover when it asks for it.
Fairness ==
  /\ WF_vars(HelperStep) /\ WF_vars(HandOff) /\ WF_vars(LeaseCloses)
  /\ WF_vars(Boot) /\ WF_vars(Recover)

Spec == Init /\ [][Next]_vars /\ Fairness
-----------------------------------------------------------------------------
Steps == {"none", "lock", "record", "journal", "save", "put", "launch", "wait",
          "commit", "stop", "undo", "move", "drop", "restart", "supervise"}

TypeOK ==
  /\ installed \in [1 .. Files -> 0 .. Last] /\ saved \in [1 .. Files -> 0 .. Last]
  /\ staged \in [1 .. Files -> 0 .. Last]
  /\ journal \in {<<>>} \cup [1 .. Files -> 1 .. Last]
  /\ hpc \in Steps /\ pos \in 1 .. Files /\ recover \in BOOLEAN
  /\ bpc \in {"down", "up", "draining"} /\ bver \in 1 .. Last
  /\ ready \in BOOLEAN /\ leased \in BOOLEAN
  /\ proved \subseteq 1 .. Last /\ faults \in 0 .. MaxFaults

\* While there is a journal every file can be restored: its previous version is
\* the saved one, or nothing is saved and it is installed.
Recoverable ==
  \A f \in 1 .. Files :
    saved[f] = journal[f] \/ (saved[f] = 0 /\ installed[f] = journal[f])

WholeBundle == installed[1] # 0 /\ \A f \in 1 .. Files : installed[f] = installed[1]

(***************************************************************************)
(* Between any two file operations of the swap, of the rollback and of a   *)
(* rollback that was itself interrupted, the previous bundle can be put    *)
(* back, so restore never refuses; and as soon as there is no journal the  *)
(* installed bundle is whole and of one version, so that a normal start    *)
(* never mixes two releases.                                               *)
(***************************************************************************)
BundleSafe == IF Interrupted THEN Recoverable ELSE WholeBundle

\* The version in force: an interrupted update is one that will be undone.
Effective == IF Interrupted THEN journal[1] ELSE installed[1]

(***************************************************************************)
(* The file-by-file swap with its journal, its rollback and its recoveries *)
(* implements an atomic switch to a version that was seen healthy.         *)
(***************************************************************************)
Atomic == INSTANCE AtomicBundle WITH bundle <- Effective, proved <- proved, Last <- Last
SwitchIsAtomic == Atomic!Spec

(***************************************************************************)
(* The installation is never bricked: whatever died and whatever failed, a *)
(* backend runs again, if somebody starts it and recovers when asked to.   *)
(***************************************************************************)
BackendReturns == []<>(bpc = "up")
=============================================================================
