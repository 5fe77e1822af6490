------------------------- MODULE ProjectActivation -------------------------
(***************************************************************************)
(* The activation of an installed package: a target manifest and lock are  *)
(* merged from the project's files, and under the install lease a session  *)
(* is journaled, the manifest staged, the lock replaced (the activation    *)
(* point) and the manifest published; the next boot or install resolves    *)
(* what an interrupted activation left.                                    *)
(* src/install-runtime/src/activation.rs, target.rs and                    *)
(* src/install-orchestrator/src/session.rs                                 *)
(*                                                                         *)
(* A project is a requirement per root package (rbe manifest) and a locked *)
(* version per root; 0 is absent.  Two requirements may resolve to the     *)
(* same version.  Every write or removal of a file is a step, atomic by    *)
(* AtomicIo; an error returns from the call as a death does, with its      *)
(* lease released and its files left as they are.                          *)
(***************************************************************************)
EXTENDS Naturals

CONSTANTS Roots,        \* root packages; a process installs each of them
          Requirements, \* the requirements, numbers from 1, asked for a root
          Marks,        \* journaled steps that make every instance ready
          MaxFaults     \* bound on deaths and failed writes

Boot == "boot"          \* the backend that links the packages when it starts
Processes == Roots \cup {Boot}

VARIABLES
  manifest, lock,    \* the project's files
  staged, journal,   \* rbe.yaml.next and journal.rbe.json, None if absent
  lease,             \* the holder of install.lease
  pc,                \* step of a process
  target,            \* the target an installer works on
  marks,             \* progress of its session
  inForce,           \* history: the pair that was activated last
  faults

files == <<manifest, lock, staged, journal>>
vars == <<files, lease, pc, target, marks, inForce, faults>>

None == <<>>
Free == "free"
Version(q) == (q + 1) \div 2          \* requirements 1 and 2 agree on version 1
Pair(m, l) == [manifest |-> m, lock |-> l]
Projects == [Roots -> Nat]

Init ==
  /\ manifest = [r \in Roots |-> 0] /\ lock = [r \in Roots |-> 0]
  /\ staged = None /\ journal = None /\ lease = Free
  /\ pc = [p \in Processes |-> "idle"]
  /\ target = [p \in Processes |-> None] /\ marks = [p \in Processes |-> 0]
  /\ inForce = Pair(manifest, lock) /\ faults = 0

Go(p, from, to) == pc[p] = from /\ pc' = [pc EXCEPT ![p] = to]

\* The call returns, well or with an error; InstallLease is dropped.
Leave(p) ==
  /\ pc' = [pc EXCEPT ![p] = "idle"] /\ lease' = IF lease = p THEN Free ELSE lease
  /\ target' = [target EXCEPT ![p] = None] /\ marks' = [marks EXCEPT ![p] = 0]
-----------------------------------------------------------------------------
(* load_named_install_target, without the lease. *)

ReadManifest(p, q) ==
  /\ Go(p, "idle", "loading")
  /\ target' = [target EXCEPT ![p] =
                  Pair([manifest EXCEPT ![p] = q], None)]
  /\ UNCHANGED <<files, lease, marks, inForce, faults>>

\* The merge: roots the manifest does not name are dropped from the lock, and a
\* named root without a locked graph is an error.
Merged(p) ==
  LET named == target[p].manifest IN
  [r \in Roots |-> IF r = p THEN Version(named[r]) ELSE IF named[r] = 0 THEN 0 ELSE lock[r]]

Unlocked(p) == \E r \in Roots : target[p].manifest[r] # 0 /\ Merged(p)[r] = 0

ReadLock(p) ==
  /\ pc[p] = "loading"
  /\ \/ Unlocked(p) /\ Leave(p)
     \/ /\ ~Unlocked(p) /\ Go(p, "loading", "loaded")
        /\ target' = [target EXCEPT ![p].lock = Merged(p)]
        /\ UNCHANGED <<lease, marks>>
  /\ UNCHANGED <<files, inForce, faults>>

\* acquire_install_lease does not wait.
Acquire(p, from) ==
  /\ pc[p] = from
  /\ \/ lease = Free /\ Go(p, from, "recover") /\ lease' = p /\ UNCHANGED <<target, marks>>
     \/ lease # Free /\ Leave(p)
  /\ UNCHANGED <<files, inForce, faults>>
-----------------------------------------------------------------------------
(* recover_project_activation_locked, for an installer and for the boot. *)

LockIsTarget == lock = journal.lock

Published == manifest = journal.manifest

\* The session's lock is in force and its manifest neither published nor staged.
Unresolvable == journal # None /\ LockIsTarget /\ ~Published /\ staged # journal.manifest

Examine(p) ==
  /\ pc[p] = "recover"
  /\ \/ Unresolvable /\ Leave(p)
     \/ /\ ~Unresolvable
        /\ Go(p, "recover", IF journal # None /\ LockIsTarget /\ ~Published
                            THEN "republish" ELSE "unstage")
        /\ UNCHANGED <<lease, target, marks>>
  /\ UNCHANGED <<files, inForce, faults>>

Republish(p) ==
  /\ Go(p, "republish", "unstage") /\ manifest' = staged
  /\ inForce' = Pair(journal.manifest, journal.lock)
  /\ UNCHANGED <<lock, staged, journal, lease, target, marks, faults>>

Unstage(p) ==
  /\ Go(p, "unstage", "forget") /\ staged' = None
  /\ UNCHANGED <<manifest, lock, journal, lease, target, marks, inForce, faults>>

\* The journal goes last; then the boot is done and an installer begins.
Forget(p) ==
  /\ pc[p] = "forget" /\ journal' = None
  /\ IF p = Boot THEN Leave(p)
     ELSE Go(p, "forget", "begin") /\ UNCHANGED <<lease, target, marks>>
  /\ UNCHANGED <<manifest, lock, staged, inForce, faults>>
-----------------------------------------------------------------------------
(* activate_project_target. *)

Session(p, phase) ==
  [manifest |-> target[p].manifest, lock |-> target[p].lock, phase |-> phase]

Begin(p) ==
  /\ Go(p, "begin", "mark")
  /\ journal' = Session(p, "preparing")
  /\ UNCHANGED <<manifest, lock, staged, lease, target, marks, inForce, faults>>

\* An activation that stages the manifest when the lock is in force.
SwapFirst == "swap"

StageFirst == "stage"

\* mark_artifact_verified, mark_prepared, mark_attested and mark_ready of every
\* instance, each persisted; a proof that does not fit ends the session.
Mark(p) ==
  /\ pc[p] = "mark"
  /\ \/ /\ Go(p, "mark", IF marks[p] + 1 = Marks THEN StageFirst ELSE "mark")
        /\ marks' = [marks EXCEPT ![p] = @ + 1]
        /\ journal' = Session(p, IF marks'[p] = Marks THEN "ready" ELSE "preparing")
        /\ UNCHANGED <<lease, target>>
     \/ Leave(p) /\ UNCHANGED journal
  /\ UNCHANGED <<manifest, lock, staged, inForce, faults>>

Stage(p) ==
  /\ Go(p, "stage", "swap") /\ staged' = target[p].manifest
  /\ UNCHANGED <<manifest, lock, journal, lease, target, marks, inForce, faults>>

Swap(p) ==
  /\ Go(p, "swap", "publish") /\ lock' = target[p].lock /\ inForce' = target[p]
  /\ UNCHANGED <<manifest, staged, journal, lease, target, marks, faults>>

Publish(p) ==
  /\ Go(p, "publish", "clean") /\ manifest' = target[p].manifest
  /\ UNCHANGED <<lock, staged, journal, lease, target, marks, inForce, faults>>

Clean(p) ==
  /\ Go(p, "clean", "commit") /\ staged' = None
  /\ UNCHANGED <<manifest, lock, journal, lease, target, marks, inForce, faults>>

Commit(p) ==
  /\ Go(p, "commit", "close") /\ journal' = Session(p, "committed")
  /\ UNCHANGED <<manifest, lock, staged, lease, target, marks, inForce, faults>>

Close(p) ==
  /\ pc[p] = "close" /\ journal' = None /\ Leave(p)
  /\ UNCHANGED <<manifest, lock, staged, inForce, faults>>
-----------------------------------------------------------------------------
\* A process dies, or a write of it fails.
Fails(p) ==
  /\ pc[p] # "idle" /\ faults < MaxFaults /\ faults' = faults + 1
  /\ Leave(p) /\ UNCHANGED <<files, inForce>>

Recovery(p) == Examine(p) \/ Republish(p) \/ Unstage(p) \/ Forget(p)

Activation(p) ==
  \/ Begin(p) \/ Mark(p) \/ Stage(p) \/ Swap(p) \/ Publish(p) \/ Clean(p)
  \/ Commit(p) \/ Close(p)

Proceed(p) == ReadLock(p) \/ Acquire(p, "loaded") \/ Recovery(p) \/ Activation(p)

BootStep == Acquire(Boot, "idle") \/ Recovery(Boot)

Next ==
  \/ BootStep
  \/ \E p \in Roots : Proceed(p) \/ \E q \in Requirements[p] : ReadManifest(p, q)
  \/ \E p \in Processes : Fails(p)

\* A process that has begun goes on; the backend is started again and again, and
\* gets the lease in the end.
Fairness ==
  /\ \A p \in Roots : WF_vars(Proceed(p))
  /\ WF_vars(Recovery(Boot))
  /\ SF_vars(Acquire(Boot, "idle") /\ lease = Free)

Spec == Init /\ [][Next]_vars /\ Fairness
-----------------------------------------------------------------------------
Steps == {"idle", "loading", "loaded", "recover", "republish", "unstage", "forget", "begin",
          "mark", "stage", "swap", "publish", "clean", "commit", "close"}

TypeOK ==
  /\ manifest \in Projects /\ lock \in Projects /\ staged \in {None} \cup Projects
  /\ journal = None \/ (journal.manifest \in Projects /\ journal.lock \in Projects)
  /\ lease \in {Free} \cup Processes /\ pc \in [Processes -> Steps]
  /\ marks \in [Processes -> 0 .. Marks] /\ faults \in 0 .. MaxFaults

(***************************************************************************)
(* The packages in force are those of one activation: the lock is that of  *)
(* the target activated last, and its manifest is published, or staged     *)
(* under a journal that says so, whoever died and whichever process        *)
(* recovers.                                                               *)
(***************************************************************************)
ProjectIsWhole ==
  /\ lock = inForce.lock
  /\ \/ manifest = inForce.manifest
     \/ /\ journal # None /\ LockIsTarget
        /\ journal.manifest = inForce.manifest /\ staged = inForce.manifest

(***************************************************************************)
(* What an interrupted activation left is resolved by the next start,      *)
(* unless it was to change a requirement only: its lock is then the one in *)
(* force before anything is staged, and recovery refuses the session for   *)
(* ever.                                                                   *)
(***************************************************************************)
ActivationResolves ==
  []<>(journal = None) \/ <>[](Unresolvable /\ lock = inForce.lock)
=============================================================================
