-------------------------- MODULE BackendPartsProofs --------------------------
(***************************************************************************)
(* Proofs about the parts that MCBackendParts puts together, for every     *)
(* value of their constants: the update of the executables and the atomic  *)
(* switch it implements, the leases of group memory, the activation of     *)
(* packages, the publication of Container Tasks, the filters of QuickDB,   *)
(* and the types of the task supervisor and of CONTROL ER.                 *)
(***************************************************************************)
EXTENDS MCBackendParts, MotherSupervisorProofs, FiniteSetTheorems, WellFoundedInduction, TLAPS

(***************************************************************************)
(* BinaryUpdate.  What the directories hold at every step of the helper:   *)
(* before the journal the installed bundle is whole; then the files up to  *)
(* pos have been exchanged, or put back.                                   *)
(***************************************************************************)
FileNumbers == 1 .. Files

Uniform(dir) == dir[1] # 0 /\ \A f \in FileNumbers : dir[f] = dir[1]

\* The file as it was before the update, and as it is while it is replaced.
Kept(f) == saved[f] = 0 /\ installed[f] = journal[f]
Replaceable(f) == saved[f] = journal[f]

StagedInv ==
  /\ bpc = "draining" \/ (hpc = "lock" /\ ~recover) \/ hpc \in {"record", "journal"}
       => Uniform(staged)
  /\ hpc = "save" => /\ \A f \in FileNumbers : f >= pos => staged[f] = staged[pos]
                     /\ \A f \in FileNumbers : f < pos => installed[f] = staged[pos]
                     /\ staged[pos] # 0
  /\ hpc = "put"  => /\ \A f \in FileNumbers : f >= pos => staged[f] = staged[pos]
                     /\ \A f \in FileNumbers : f < pos => installed[f] = staged[pos]
                     /\ staged[pos] # 0
  /\ hpc \in {"launch", "wait", "commit", "stop"} => Uniform(installed)

PhaseInv ==
  /\ bpc = "draining" => hpc \in {"none", "supervise"} /\ journal = <<>>
  /\ hpc = "lock" => (recover <=> journal # <<>>)
  /\ hpc \in {"record", "journal", "restart", "supervise"} => journal = <<>>
  /\ hpc \in {"save", "put", "launch", "wait", "commit", "stop", "undo", "move", "drop"}
       => journal # <<>>
  /\ hpc \in {"record", "journal", "launch", "wait", "commit", "stop", "drop"} => pos = 1

JournalInv ==
  /\ journal = <<>> => Uniform(installed)
  /\ hpc = "journal" => \A f \in FileNumbers : saved[f] = 0
  /\ journal # <<>> =>
       /\ Uniform(journal)
       /\ \A f \in FileNumbers : Replaceable(f) \/ Kept(f)
       /\ hpc = "save" => \A f \in FileNumbers : IF f < pos THEN Replaceable(f) ELSE Kept(f)
       /\ hpc = "put" => \A f \in FileNumbers : IF f <= pos THEN Replaceable(f) ELSE Kept(f)
       /\ hpc \in {"undo", "move"} => \A f \in FileNumbers : f < pos => Kept(f)
       /\ hpc = "move" => Replaceable(pos)
       /\ hpc = "drop" => \A f \in FileNumbers : Kept(f)

HealthInv ==
  /\ hpc = "wait" => bver = installed[1] /\ (ready => bver \in proved)
  /\ hpc = "commit" => installed[1] \in proved

UpdateInv == Update!TypeOK /\ StagedInv /\ PhaseInv /\ JournalInv /\ HealthInv

(***************************************************************************)
(* GroupMemory.  Who holds which lock, and what the header says of the     *)
(* payload.                                                                *)
(***************************************************************************)
LocksInv ==
  \A h \in Handles :
    /\ lock[h] = "exclusive" <=> wpc[h] # "none"
    /\ lock[h] = "shared" <=> \E l \in MemoryLeases : reading[h][l] # "none"
    /\ lock[h] = "exclusive" => \A k \in Handles : k # h => lock[k] = "none"

PayloadInv ==
  /\ ~marker => first = second
  /\ \A h \in Handles :
       /\ wpc[h] \in {"first", "second", "commit"} => marker
       /\ wpc[h] \in {"second", "commit"} => first = gen
       /\ wpc[h] = "commit" => second = gen
       /\ wpc[h] = "release" => ~marker
       /\ \A l \in MemoryLeases : reading[h][l] = "held" =>
            ~marker /\ first = held[h][l] /\ second = held[h][l]

MemoryInv == Memory!TypeOK /\ LocksInv /\ PayloadInv

(***************************************************************************)
(* ProjectActivation.  Only the holder of the lease is past it; the target *)
(* it works on, the journal and the staged manifest agree.                 *)
(***************************************************************************)
Planned == {"loaded", "recover", "republish", "unstage", "forget", "begin", "mark", "stage",
            "swap", "publish", "clean", "commit", "close"}
Leased == Planned \ {"loaded"}
Active == {"mark", "stage", "swap", "publish", "clean", "commit", "close"}

ProjectsTyped ==
  /\ manifest \in Install!Projects /\ projectLock \in Install!Projects
  /\ nextManifest \in {<<>>} \cup Install!Projects
  /\ session = <<>> \/ (session.manifest \in Install!Projects /\ session.lock \in Install!Projects)

LeaseInv ==
  /\ \A p \in Install!Processes : installPc[p] \in Leased <=> lease = p
  /\ installPc["boot"] \in {"idle", "recover", "republish", "unstage", "forget"}

Loading == [manifest : Install!Projects, lock : {<<>>}]
Loaded == [manifest : Install!Projects, lock : Install!Projects]

TargetInv ==
  /\ target \in [Install!Processes -> {<<>>} \cup Loading \cup Loaded]
  /\ \A p \in Roots :
       /\ installPc[p] = "loading" => target[p] \in Loading
       /\ installPc[p] \in Planned => target[p] \in Loaded
       /\ installPc[p] \notin Active => marks[p] = 0
       /\ installPc[p] = "mark" => marks[p] < Marks

ForceInv ==
  /\ inForce \in Loaded
  /\ Install!ProjectIsWhole
  /\ \A p \in Install!Processes :
       /\ installPc[p] = "republish" =>
            session # <<>> /\ projectLock = session.lock /\ nextManifest = session.manifest
       /\ installPc[p] \in {"unstage", "forget", "begin", "mark", "stage", "swap", "clean",
                            "commit", "close"} => manifest = inForce.manifest
  /\ \A p \in Roots :
       /\ installPc[p] \in Active =>
            /\ session # <<>> /\ session.manifest = target[p].manifest
            /\ session.lock = target[p].lock
       /\ installPc[p] \in {"swap", "publish"} => nextManifest = target[p].manifest
       /\ installPc[p] \in {"publish", "clean", "commit", "close"} => inForce = target[p]

InstallInv == Install!TypeOK /\ LeaseInv /\ TargetInv /\ ForceInv

(***************************************************************************)
(* TaskPublication.  A table covers an OID index if the Tasks bound there  *)
(* are those of one image.                                                 *)
(***************************************************************************)
Covers(table, rel) ==
  \E i \in Images : \A t \in Publish!AllTasks \cap DOMAIN rel :
    Publish!Entry(i, t, rel) \in table

Injective(rel) == \A s, t \in DOMAIN rel : rel[s] = rel[t] => s = t

Bindings(rel) ==
  /\ rel = [s \in DOMAIN rel |-> rel[s]] /\ DOMAIN rel \subseteq Symbols
  /\ \A s \in DOMAIN rel : rel[s] \in 1 .. LastOid
  /\ Injective(rel)

Pending == intent # Publish!NoIntent

OidInv == image \in Images /\ Bindings(oidIndex.rel) /\ Bindings(intent.new.rel)

IntentInv ==
  /\ intent.index \subseteq images
  /\ Pending => Covers(intent.index, intent.new.rel)
  /\ stage \in {"persist", "persisted", "link", "linked", "assemble", "activate", "up"} => ~Pending
  /\ stage \in {"replace", "replaced", "publish", "finish", "clear", "finished"} => Pending
  /\ stage \in {"replaced", "publish", "finish", "finished"} => oidIndex = intent.new
  /\ stage \in {"finish", "finished"} => ctiIndex = intent.index
  /\ stage \in {"create", "created"} => oidIndex.rel = Publish!NoIndex.rel

CoverInv ==
  /\ ctiIndex \subseteq images
  /\ ~Pending \/ stage \in {"clear", "finished"} => Covers(ctiIndex, oidIndex.rel)
  /\ Pending /\ oidIndex = intent.old /\ oidIndex # intent.new => Covers(ctiIndex, oidIndex.rel)

TableInv ==
  TaskIds[image] # {} =>
    /\ stage \in {"replace", "replaced", "publish", "finish", "finished"} =>
         {e \in intent.index : e.image = image}
           = {Publish!Entry(image, t, intent.new.rel) : t \in TaskIds[image]}
    /\ stage \in {"activate", "up"} =>
         Publish!Table(image)
           = {Publish!Entry(image, t, oidIndex.rel) : t \in TaskIds[image]}

PublishInv == OidInv /\ IntentInv /\ CoverInv /\ TableInv
-----------------------------------------------------------------------------
(* The files are taken in turn, and after the last one comes the first.    *)
LEMMA FollowingFile ==
  ASSUME pos \in 1 .. Files
  PROVE  Update!Following = IF pos = Files THEN 1 ELSE pos + 1
<1>1. Files \in Nat \ {0}
  BY PartsAssumption DEF PartsAssumption
<1>2. CASE pos = Files
  BY <1>1, <1>2 DEF Update!Following
<1>3. CASE pos # Files
  <2>1. pos % Files = pos
    BY <1>1, <1>3
  <2> QED
    BY <2>1, <1>3 DEF Update!Following
<1> QED
  BY <1>2, <1>3

(* The flags of an update stay Boolean.                                    *)
LEMMA UpdateFlags ==
  ASSUME UpdateInv, Update!Next \/ UNCHANGED updateVars
  PROVE  recover' \in BOOLEAN /\ ready' \in BOOLEAN /\ leased' \in BOOLEAN
<1>0. recover \in BOOLEAN /\ ready \in BOOLEAN /\ leased \in BOOLEAN
  BY DEF UpdateInv, Update!TypeOK
<1>1. CASE Update!Boot
  BY <1>1, <1>0, Zenon DEF Update!Boot, Update!Interrupted, Update!Run, Update!dirs,
     Update!helper, Update!TypeOK
<1>2. ASSUME NEW v \in 1 .. Last,
             Update!Stage(v)
      PROVE  recover' \in BOOLEAN /\ ready' \in BOOLEAN /\ leased' \in BOOLEAN
  BY <1>2, <1>0, Zenon DEF Update!Stage, Update!Interrupted, Update!All, Update!helper,
     Update!TypeOK
<1>3. CASE Update!HandOff
  BY <1>3, <1>0, Zenon DEF Update!HandOff, Update!Fault, Update!Run, Update!dirs, Update!TypeOK
<1>4. CASE Update!Recover
  BY <1>4, <1>0, Zenon DEF Update!Recover, Update!Interrupted, Update!dirs, Update!backend,
     Update!TypeOK
<1>5. CASE Update!CandidateReady
  BY <1>5, <1>0, Zenon DEF Update!CandidateReady, Update!dirs, Update!helper, Update!TypeOK
<1>6. CASE Update!Exits
  BY <1>6, <1>0, Zenon DEF Update!Exits, Update!dirs, Update!helper, Update!TypeOK
<1>7. CASE Update!LeaseCloses
  BY <1>7, <1>0, Zenon DEF Update!LeaseCloses, Update!dirs, Update!helper, Update!TypeOK
<1>8. CASE Update!TakeLock
  BY <1>8, <1>0, Zenon DEF Update!TakeLock, Update!Helper, Update!Give, Update!Fault,
     Update!Interrupted, Update!dirs, Update!backend, Update!TypeOK
<1>9. CASE Update!ClearBackup
  BY <1>9, <1>0, Zenon DEF Update!ClearBackup, Update!Helper, Update!Fault, Update!Emptied,
     Update!All, Update!backend, Update!TypeOK
<1>10. CASE Update!WriteJournal
  BY <1>10, <1>0, Zenon DEF Update!WriteJournal, Update!Helper, Update!Give, Update!Fault,
     Update!dirs, Update!backend, Update!TypeOK
<1>11. CASE Update!SaveFile
  BY <1>11, <1>0, Zenon DEF Update!SaveFile, Update!Helper, Update!Fault, Update!backend,
     Update!TypeOK
<1>12. CASE Update!PutFile
  BY <1>12, <1>0, Zenon DEF Update!PutFile, Update!Helper, Update!Fault, Update!backend,
     Update!TypeOK
<1>13. CASE Update!Launch
  BY <1>13, <1>0, Zenon DEF Update!Launch, Update!Helper, Update!Fault, Update!Run,
     Update!dirs, Update!backend, Update!TypeOK
<1>14. CASE Update!WaitReady
  BY <1>14, <1>0, Zenon DEF Update!WaitReady, Update!Helper, Update!Healthy, Update!dirs,
     Update!backend, Update!TypeOK
<1>15. CASE Update!Commit
  BY <1>15, <1>0, Zenon DEF Update!Commit, Update!Helper, Update!Give, Update!Fault,
     Update!dirs, Update!backend, Update!TypeOK
<1>16. CASE Update!StopCandidate
  BY <1>16, <1>0, Zenon DEF Update!StopCandidate, Update!Helper, Update!dirs, Update!TypeOK
<1>17. CASE Update!RestoreFile
  BY <1>17, <1>0, Zenon DEF Update!RestoreFile, Update!Helper, Update!Fault,
     Update!SavedExists, Update!NextFile, Update!Refused, Update!backend, Update!TypeOK
<1>18. CASE Update!MoveBack
  BY <1>18, <1>0, Zenon DEF Update!MoveBack, Update!Helper, Update!Give, Update!Fault,
     Update!NextFile, Update!backend, Update!TypeOK
<1>19. CASE Update!DropJournal
  BY <1>19, <1>0, Zenon DEF Update!DropJournal, Update!Helper, Update!Give, Update!Fault,
     Update!dirs, Update!backend, Update!TypeOK
<1>20. CASE Update!RestartPrevious
  BY <1>20, <1>0, Zenon DEF Update!RestartPrevious, Update!Helper, Update!Give, Update!Fault,
     Update!Run, Update!dirs, Update!backend, Update!TypeOK
<1>21. CASE Update!SuperviseEnds
  BY <1>21, <1>0, Zenon DEF Update!SuperviseEnds, Update!Helper, Update!dirs, Update!backend,
     Update!TypeOK
<1>22. CASE Update!Crash
  BY <1>22, <1>0, Zenon DEF Update!Crash, Update!Fault, Update!dirs, Update!TypeOK
<1>23. CASE UNCHANGED updateVars
  BY <1>23, <1>0, Zenon DEF updateVars, Update!TypeOK
<1> QED
  BY <1>1, <1>2, <1>3, <1>4, <1>5, <1>6, <1>7, <1>8, <1>9, <1>10, <1>11, <1>12, <1>13, <1>14,
     <1>15, <1>16, <1>17, <1>18, <1>19, <1>20, <1>21, <1>22, <1>23
     DEF Update!Next, Update!HelperStep

(* The steps of helper and backend, and the count of faults.               *)
LEMMA UpdateControl ==
  ASSUME UpdateInv, Update!Next \/ UNCHANGED updateVars
  PROVE  hpc' \in Update!Steps /\ bpc' \in {"down", "up", "draining"}
         /\ pos' \in 1 .. Files /\ updateFaults' \in 0 .. UpdateFaults
<1>0. hpc \in Update!Steps /\ bpc \in {"down", "up", "draining"} /\ pos \in 1 .. Files
      /\ updateFaults \in 0 .. UpdateFaults
  BY DEF UpdateInv, Update!TypeOK
<1>a. Files \in Nat \ {0} /\ UpdateFaults \in Nat
  BY PartsAssumption DEF PartsAssumption
<1>b. Update!Following = IF pos = Files THEN 1 ELSE pos + 1
  BY <1>0, FollowingFile
<1>1. CASE Update!Boot
  BY <1>1, <1>0, <1>a, <1>b DEF Update!Boot, Update!Interrupted, Update!Run, Update!dirs,
     Update!helper, Update!Steps
<1>2. ASSUME NEW v \in 1 .. Last,
             Update!Stage(v)
      PROVE  hpc' \in Update!Steps /\ bpc' \in {"down", "up", "draining"}
         /\ pos' \in 1 .. Files /\ updateFaults' \in 0 .. UpdateFaults
  BY <1>2, <1>0, <1>a, <1>b DEF Update!Stage, Update!Interrupted, Update!All, Update!helper,
     Update!Steps
<1>3. CASE Update!HandOff
  BY <1>3, <1>0, <1>a, <1>b DEF Update!HandOff, Update!Fault, Update!Run, Update!dirs,
     Update!Steps
<1>4. CASE Update!Recover
  BY <1>4, <1>0, <1>a, <1>b DEF Update!Recover, Update!Interrupted, Update!dirs,
     Update!backend, Update!Steps
<1>5. CASE Update!CandidateReady
  BY <1>5, <1>0, <1>a, <1>b DEF Update!CandidateReady, Update!dirs, Update!helper, Update!Steps
<1>6. CASE Update!Exits
  BY <1>6, <1>0, <1>a, <1>b DEF Update!Exits, Update!dirs, Update!helper, Update!Steps
<1>7. CASE Update!LeaseCloses
  BY <1>7, <1>0, <1>a, <1>b DEF Update!LeaseCloses, Update!dirs, Update!helper, Update!Steps
<1>8. CASE Update!TakeLock
  BY <1>8, <1>0, <1>a, <1>b DEF Update!TakeLock, Update!Helper, Update!Give, Update!Fault,
     Update!Interrupted, Update!dirs, Update!backend, Update!Steps
<1>9. CASE Update!ClearBackup
  BY <1>9, <1>0, <1>a, <1>b DEF Update!ClearBackup, Update!Helper, Update!Fault,
     Update!Emptied, Update!All, Update!backend, Update!Steps
<1>10. CASE Update!WriteJournal
  BY <1>10, <1>0, <1>a, <1>b DEF Update!WriteJournal, Update!Helper, Update!Give, Update!Fault,
     Update!dirs, Update!backend, Update!Steps
<1>11. CASE Update!SaveFile
  BY <1>11, <1>0, <1>a, <1>b DEF Update!SaveFile, Update!Helper, Update!Fault, Update!backend,
     Update!Steps
<1>12. CASE Update!PutFile
  BY <1>12, <1>0, <1>a, <1>b DEF Update!PutFile, Update!Helper, Update!Fault, Update!backend,
     Update!Steps
<1>13. CASE Update!Launch
  BY <1>13, <1>0, <1>a, <1>b DEF Update!Launch, Update!Helper, Update!Fault, Update!Run,
     Update!dirs, Update!backend, Update!Steps
<1>14. CASE Update!WaitReady
  BY <1>14, <1>0, <1>a, <1>b DEF Update!WaitReady, Update!Helper, Update!Healthy, Update!dirs,
     Update!backend, Update!Steps
<1>15. CASE Update!Commit
  BY <1>15, <1>0, <1>a, <1>b DEF Update!Commit, Update!Helper, Update!Give, Update!Fault,
     Update!dirs, Update!backend, Update!Steps
<1>16. CASE Update!StopCandidate
  BY <1>16, <1>0, <1>a, <1>b DEF Update!StopCandidate, Update!Helper, Update!dirs, Update!Steps
<1>17. CASE Update!RestoreFile
  BY <1>17, <1>0, <1>a, <1>b DEF Update!RestoreFile, Update!Helper, Update!Fault,
     Update!SavedExists, Update!NextFile, Update!Refused, Update!backend, Update!Steps
<1>18. CASE Update!MoveBack
  BY <1>18, <1>0, <1>a, <1>b DEF Update!MoveBack, Update!Helper, Update!Give, Update!Fault,
     Update!NextFile, Update!backend, Update!Steps
<1>19. CASE Update!DropJournal
  BY <1>19, <1>0, <1>a, <1>b DEF Update!DropJournal, Update!Helper, Update!Give, Update!Fault,
     Update!dirs, Update!backend, Update!Steps
<1>20. CASE Update!RestartPrevious
  BY <1>20, <1>0, <1>a, <1>b DEF Update!RestartPrevious, Update!Helper, Update!Give,
     Update!Fault, Update!Run, Update!dirs, Update!backend, Update!Steps
<1>21. CASE Update!SuperviseEnds
  BY <1>21, <1>0, <1>a, <1>b DEF Update!SuperviseEnds, Update!Helper, Update!dirs,
     Update!backend, Update!Steps
<1>22. CASE Update!Crash
  BY <1>22, <1>0, <1>a, <1>b DEF Update!Crash, Update!Fault, Update!dirs, Update!Steps
<1>23. CASE UNCHANGED updateVars
  BY <1>23, <1>0, <1>a, <1>b DEF updateVars, Update!Steps
<1> QED
  BY <1>1, <1>2, <1>3, <1>4, <1>5, <1>6, <1>7, <1>8, <1>9, <1>10, <1>11, <1>12, <1>13, <1>14,
     <1>15, <1>16, <1>17, <1>18, <1>19, <1>20, <1>21, <1>22, <1>23
     DEF Update!Next, Update!HelperStep

(* The directories hold versions, and the journal those of a whole bundle. *)
LEMMA UpdateFiles ==
  ASSUME UpdateInv, Update!Next \/ UNCHANGED updateVars
  PROVE  /\ installed' \in [1 .. Files -> 0 .. Last] /\ saved' \in [1 .. Files -> 0 .. Last]
         /\ staged' \in [1 .. Files -> 0 .. Last] /\ journal' \in {<<>>} \cup [1 .. Files -> 1 .. Last]
<1>0. PhaseInv /\ JournalInv /\ StagedInv
  BY DEF UpdateInv
<1>a. /\ installed \in [1 .. Files -> 0 .. Last] /\ saved \in [1 .. Files -> 0 .. Last]
      /\ staged \in [1 .. Files -> 0 .. Last] /\ journal \in {<<>>} \cup [1 .. Files -> 1 .. Last]
      /\ pos \in 1 .. Files
  BY DEF UpdateInv, Update!TypeOK
<1>b. Last \in Nat \ {0} /\ Files \in Nat \ {0}
  BY PartsAssumption DEF PartsAssumption
<1>c. /\ \A d \in [1 .. Files -> 0 .. Last], x \in 0 .. Last :
           [d EXCEPT ![pos] = x] \in [1 .. Files -> 0 .. Last]
      /\ installed[pos] \in 0 .. Last /\ saved[pos] \in 0 .. Last /\ staged[pos] \in 0 .. Last
      /\ 0 \in 0 .. Last
  BY <1>a, <1>b
<1>d. Update!All(0) \in [1 .. Files -> 0 .. Last]
  BY <1>b DEF Update!All
<1>1. CASE Update!Boot
  BY <1>1, <1>a, <1>c, <1>d DEF Update!Boot, Update!Interrupted, Update!Run, Update!dirs,
     Update!helper
<1>2. ASSUME NEW v \in 1 .. Last,
             Update!Stage(v)
      PROVE  /\ installed' \in [1 .. Files -> 0 .. Last] /\ saved' \in [1 .. Files -> 0 .. Last]
         /\ staged' \in [1 .. Files -> 0 .. Last] /\ journal' \in {<<>>} \cup [1 .. Files -> 1 .. Last]
  BY <1>2, <1>a, <1>c, <1>d DEF Update!Stage, Update!Interrupted, Update!All, Update!helper
<1>3. CASE Update!HandOff
  BY <1>3, <1>a, <1>c, <1>d DEF Update!HandOff, Update!Fault, Update!Run, Update!dirs
<1>4. CASE Update!Recover
  BY <1>4, <1>a, <1>c, <1>d DEF Update!Recover, Update!Interrupted, Update!dirs, Update!backend
<1>5. CASE Update!CandidateReady
  BY <1>5, <1>a, <1>c, <1>d DEF Update!CandidateReady, Update!dirs, Update!helper
<1>6. CASE Update!Exits
  BY <1>6, <1>a, <1>c, <1>d DEF Update!Exits, Update!dirs, Update!helper
<1>7. CASE Update!LeaseCloses
  BY <1>7, <1>a, <1>c, <1>d DEF Update!LeaseCloses, Update!dirs, Update!helper
<1>8. CASE Update!TakeLock
  BY <1>8, <1>a, <1>c, <1>d DEF Update!TakeLock, Update!Helper, Update!Give, Update!Fault,
     Update!Interrupted, Update!dirs, Update!backend
<1>9. CASE Update!ClearBackup
  BY <1>9, <1>a, <1>d DEF Update!ClearBackup, Update!Emptied
<1>10. CASE Update!WriteJournal
  <2>1. installed \in [1 .. Files -> 1 .. Last] \/ hpc # "journal"
    BY <1>0, <1>a, <1>b DEF PhaseInv, JournalInv, Uniform, FileNumbers
  <2> QED
    BY <1>10, <1>a, <2>1 DEF Update!WriteJournal, Update!Helper, Update!Give, Update!dirs
<1>11. CASE Update!SaveFile
  BY <1>11, <1>a, <1>c DEF Update!SaveFile
<1>12. CASE Update!PutFile
  BY <1>12, <1>a, <1>c DEF Update!PutFile
<1>13. CASE Update!Launch
  BY <1>13, <1>a, <1>c, <1>d DEF Update!Launch, Update!Helper, Update!Fault, Update!Run,
     Update!dirs, Update!backend
<1>14. CASE Update!WaitReady
  BY <1>14, <1>a, <1>c, <1>d DEF Update!WaitReady, Update!Helper, Update!Healthy, Update!dirs,
     Update!backend
<1>15. CASE Update!Commit
  BY <1>15, <1>a, <1>c, <1>d DEF Update!Commit, Update!Helper, Update!Give, Update!Fault,
     Update!dirs, Update!backend
<1>16. CASE Update!StopCandidate
  BY <1>16, <1>a, <1>c, <1>d DEF Update!StopCandidate, Update!Helper, Update!dirs
<1>17. CASE Update!RestoreFile
  BY <1>17, <1>a, <1>c DEF Update!RestoreFile
<1>18. CASE Update!MoveBack
  BY <1>18, <1>a, <1>c DEF Update!MoveBack
<1>19. CASE Update!DropJournal
  BY <1>19, <1>a, <1>c, <1>d DEF Update!DropJournal, Update!Helper, Update!Give, Update!Fault,
     Update!dirs, Update!backend
<1>20. CASE Update!RestartPrevious
  BY <1>20, <1>a, <1>c, <1>d DEF Update!RestartPrevious, Update!Helper, Update!Give,
     Update!Fault, Update!Run, Update!dirs, Update!backend
<1>21. CASE Update!SuperviseEnds
  BY <1>21, <1>a, <1>c, <1>d DEF Update!SuperviseEnds, Update!Helper, Update!dirs,
     Update!backend
<1>22. CASE Update!Crash
  BY <1>22, <1>a, <1>c, <1>d DEF Update!Crash, Update!Fault, Update!dirs
<1>23. CASE UNCHANGED updateVars
  BY <1>23, <1>a, <1>c, <1>d DEF updateVars
<1> QED
  BY <1>1, <1>2, <1>3, <1>4, <1>5, <1>6, <1>7, <1>8, <1>9, <1>10, <1>11, <1>12, <1>13, <1>14,
     <1>15, <1>16, <1>17, <1>18, <1>19, <1>20, <1>21, <1>22, <1>23
     DEF Update!Next, Update!HelperStep

(* A backend runs a version that is installed.                             *)
LEMMA UpdateVersions ==
  ASSUME UpdateInv, Update!Next \/ UNCHANGED updateVars
  PROVE  bver' \in 1 .. Last /\ proved' \subseteq 1 .. Last
<1>0. PhaseInv /\ JournalInv /\ StagedInv
  BY DEF UpdateInv
<1>a. /\ installed \in [1 .. Files -> 0 .. Last] /\ bver \in 1 .. Last /\ proved \subseteq 1 .. Last
  BY DEF UpdateInv, Update!TypeOK
<1>b. Last \in Nat \ {0} /\ Files \in Nat \ {0}
  BY PartsAssumption DEF PartsAssumption
<1>c. journal = <<>> \/ hpc = "launch" => installed[1] \in 1 .. Last
  BY <1>0, <1>a, <1>b DEF JournalInv, StagedInv, Uniform
<1>d. bpc = "draining" \/ hpc = "restart" => journal = <<>>
  BY <1>0 DEF PhaseInv
<1>1. CASE Update!Boot
  BY <1>1, <1>a, <1>b, <1>c, <1>d DEF Update!Boot, Update!Interrupted, Update!Run, Update!dirs,
     Update!helper
<1>2. ASSUME NEW v \in 1 .. Last,
             Update!Stage(v)
      PROVE  bver' \in 1 .. Last /\ proved' \subseteq 1 .. Last
  BY <1>2, <1>a, <1>b, <1>c, <1>d DEF Update!Stage, Update!Interrupted, Update!All,
     Update!helper
<1>3. CASE Update!HandOff
  BY <1>3, <1>a, <1>b, <1>c, <1>d DEF Update!HandOff, Update!Fault, Update!Run, Update!dirs
<1>4. CASE Update!Recover
  BY <1>4, <1>a, <1>b, <1>c, <1>d DEF Update!Recover, Update!Interrupted, Update!dirs,
     Update!backend
<1>5. CASE Update!CandidateReady
  BY <1>5, <1>a, <1>b, <1>c, <1>d DEF Update!CandidateReady, Update!dirs, Update!helper
<1>6. CASE Update!Exits
  BY <1>6, <1>a, <1>b, <1>c, <1>d DEF Update!Exits, Update!dirs, Update!helper
<1>7. CASE Update!LeaseCloses
  BY <1>7, <1>a, <1>b, <1>c, <1>d DEF Update!LeaseCloses, Update!dirs, Update!helper
<1>8. CASE Update!TakeLock
  BY <1>8, <1>a, <1>b, <1>c, <1>d DEF Update!TakeLock, Update!Helper, Update!Give,
     Update!Fault, Update!Interrupted, Update!dirs, Update!backend
<1>9. CASE Update!ClearBackup
  BY <1>9, <1>a, <1>b, <1>c, <1>d DEF Update!ClearBackup, Update!Helper, Update!Fault,
     Update!Emptied, Update!All, Update!backend
<1>10. CASE Update!WriteJournal
  BY <1>10, <1>a, <1>b, <1>c, <1>d DEF Update!WriteJournal, Update!Helper, Update!Give,
     Update!Fault, Update!dirs, Update!backend
<1>11. CASE Update!SaveFile
  BY <1>11, <1>a, <1>b, <1>c, <1>d DEF Update!SaveFile, Update!Helper, Update!Fault,
     Update!backend
<1>12. CASE Update!PutFile
  BY <1>12, <1>a, <1>b, <1>c, <1>d DEF Update!PutFile, Update!Helper, Update!Fault,
     Update!backend
<1>13. CASE Update!Launch
  BY <1>13, <1>a, <1>b, <1>c, <1>d DEF Update!Launch, Update!Helper, Update!Fault, Update!Run,
     Update!dirs, Update!backend
<1>14. CASE Update!WaitReady
  BY <1>14, <1>a, <1>b, <1>c, <1>d DEF Update!WaitReady, Update!Helper, Update!Healthy,
     Update!dirs, Update!backend
<1>15. CASE Update!Commit
  BY <1>15, <1>a, <1>b, <1>c, <1>d DEF Update!Commit, Update!Helper, Update!Give, Update!Fault,
     Update!dirs, Update!backend
<1>16. CASE Update!StopCandidate
  BY <1>16, <1>a, <1>b, <1>c, <1>d DEF Update!StopCandidate, Update!Helper, Update!dirs
<1>17. CASE Update!RestoreFile
  BY <1>17, <1>a, <1>b, <1>c, <1>d DEF Update!RestoreFile, Update!Helper, Update!Fault,
     Update!SavedExists, Update!NextFile, Update!Refused, Update!backend
<1>18. CASE Update!MoveBack
  BY <1>18, <1>a, <1>b, <1>c, <1>d DEF Update!MoveBack, Update!Helper, Update!Give,
     Update!Fault, Update!NextFile, Update!backend
<1>19. CASE Update!DropJournal
  BY <1>19, <1>a, <1>b, <1>c, <1>d DEF Update!DropJournal, Update!Helper, Update!Give,
     Update!Fault, Update!dirs, Update!backend
<1>20. CASE Update!RestartPrevious
  BY <1>20, <1>a, <1>b, <1>c, <1>d DEF Update!RestartPrevious, Update!Helper, Update!Give,
     Update!Fault, Update!Run, Update!dirs, Update!backend
<1>21. CASE Update!SuperviseEnds
  BY <1>21, <1>a, <1>b, <1>c, <1>d DEF Update!SuperviseEnds, Update!Helper, Update!dirs,
     Update!backend
<1>22. CASE Update!Crash
  BY <1>22, <1>a, <1>b, <1>c, <1>d DEF Update!Crash, Update!Fault, Update!dirs
<1>23. CASE UNCHANGED updateVars
  BY <1>23, <1>a, <1>b, <1>c, <1>d DEF updateVars
<1> QED
  BY <1>1, <1>2, <1>3, <1>4, <1>5, <1>6, <1>7, <1>8, <1>9, <1>10, <1>11, <1>12, <1>13, <1>14,
     <1>15, <1>16, <1>17, <1>18, <1>19, <1>20, <1>21, <1>22, <1>23
     DEF Update!Next, Update!HelperStep

(* A directory with files is no empty journal.                             *)
LEMMA NotEmpty ==
  ASSUME NEW d, NEW S, d \in [1 .. Files -> S]
  PROVE  d # <<>>
<1>1. 1 \in DOMAIN d
  BY PartsAssumption DEF PartsAssumption
<1>2. DOMAIN <<>> = {}
  OBVIOUS
<1> QED
  BY <1>1, <1>2

(* Where there is a journal.                                               *)
LEMMA PhaseKeeps ==
  ASSUME UpdateInv, Update!Next \/ UNCHANGED updateVars
  PROVE  PhaseInv'
<1>0. PhaseInv /\ pos \in 1 .. Files
  BY DEF UpdateInv, Update!TypeOK
<1>a. Update!Following = IF pos = Files THEN 1 ELSE pos + 1
  BY <1>0, FollowingFile
<1>b. installed # <<>>
  BY NotEmpty DEF UpdateInv, Update!TypeOK
<1>1. CASE Update!Boot
  BY <1>1, <1>0, <1>a, <1>b DEF Update!Boot, Update!Interrupted, Update!Run, Update!dirs,
     Update!helper, PhaseInv
<1>2. ASSUME NEW v \in 1 .. Last,
             Update!Stage(v)
      PROVE  PhaseInv'
  BY <1>2, <1>0, <1>a, <1>b DEF Update!Stage, Update!Interrupted, Update!All, Update!helper,
     PhaseInv
<1>3. CASE Update!HandOff
  BY <1>3, <1>0, <1>a, <1>b DEF Update!HandOff, Update!Fault, Update!Run, Update!dirs, PhaseInv
<1>4. CASE Update!Recover
  BY <1>4, <1>0, <1>a, <1>b DEF Update!Recover, Update!Interrupted, Update!dirs,
     Update!backend, PhaseInv
<1>5. CASE Update!CandidateReady
  BY <1>5, <1>0, <1>a, <1>b DEF Update!CandidateReady, Update!dirs, Update!helper, PhaseInv
<1>6. CASE Update!Exits
  BY <1>6, <1>0, <1>a, <1>b DEF Update!Exits, Update!dirs, Update!helper, PhaseInv
<1>7. CASE Update!LeaseCloses
  BY <1>7, <1>0, <1>a, <1>b DEF Update!LeaseCloses, Update!dirs, Update!helper, PhaseInv
<1>8. CASE Update!TakeLock
  BY <1>8, <1>0, <1>a, <1>b DEF Update!TakeLock, Update!Helper, Update!Give, Update!Fault,
     Update!Interrupted, Update!dirs, Update!backend, PhaseInv
<1>9. CASE Update!ClearBackup
  BY <1>9, <1>0, <1>a, <1>b DEF Update!ClearBackup, Update!Helper, Update!Fault,
     Update!Emptied, Update!All, Update!backend, PhaseInv
<1>10. CASE Update!WriteJournal
  BY <1>10, <1>0, <1>a, <1>b DEF Update!WriteJournal, Update!Helper, Update!Give, Update!Fault,
     Update!dirs, Update!backend, PhaseInv
<1>11. CASE Update!SaveFile
  BY <1>11, <1>0, <1>a, <1>b DEF Update!SaveFile, Update!Helper, Update!Fault, Update!backend,
     PhaseInv
<1>12. CASE Update!PutFile
  BY <1>12, <1>0, <1>a, <1>b DEF Update!PutFile, Update!Helper, Update!Fault, Update!backend,
     PhaseInv
<1>13. CASE Update!Launch
  BY <1>13, <1>0, <1>a, <1>b DEF Update!Launch, Update!Helper, Update!Fault, Update!Run,
     Update!dirs, Update!backend, PhaseInv
<1>14. CASE Update!WaitReady
  BY <1>14, <1>0, <1>a, <1>b DEF Update!WaitReady, Update!Helper, Update!Healthy, Update!dirs,
     Update!backend, PhaseInv
<1>15. CASE Update!Commit
  BY <1>15, <1>0, <1>a, <1>b DEF Update!Commit, Update!Helper, Update!Give, Update!Fault,
     Update!dirs, Update!backend, PhaseInv
<1>16. CASE Update!StopCandidate
  BY <1>16, <1>0, <1>a, <1>b DEF Update!StopCandidate, Update!Helper, Update!dirs, PhaseInv
<1>17. CASE Update!RestoreFile
  BY <1>17, <1>0, <1>a, <1>b DEF Update!RestoreFile, Update!Helper, Update!Fault,
     Update!SavedExists, Update!NextFile, Update!Refused, Update!backend, PhaseInv
<1>18. CASE Update!MoveBack
  BY <1>18, <1>0, <1>a, <1>b DEF Update!MoveBack, Update!Helper, Update!Give, Update!Fault,
     Update!NextFile, Update!backend, PhaseInv
<1>19. CASE Update!DropJournal
  BY <1>19, <1>0, <1>a, <1>b DEF Update!DropJournal, Update!Helper, Update!Give, Update!Fault,
     Update!dirs, Update!backend, PhaseInv
<1>20. CASE Update!RestartPrevious
  BY <1>20, <1>0, <1>a, <1>b DEF Update!RestartPrevious, Update!Helper, Update!Give,
     Update!Fault, Update!Run, Update!dirs, Update!backend, PhaseInv
<1>21. CASE Update!SuperviseEnds
  BY <1>21, <1>0, <1>a, <1>b DEF Update!SuperviseEnds, Update!Helper, Update!dirs,
     Update!backend, PhaseInv
<1>22. CASE Update!Crash
  BY <1>22, <1>0, <1>a, <1>b DEF Update!Crash, Update!Fault, Update!dirs, PhaseInv
<1>23. CASE UNCHANGED updateVars
  BY <1>23, <1>0, <1>a, <1>b DEF updateVars, PhaseInv
<1> QED
  BY <1>1, <1>2, <1>3, <1>4, <1>5, <1>6, <1>7, <1>8, <1>9, <1>10, <1>11, <1>12, <1>13, <1>14,
     <1>15, <1>16, <1>17, <1>18, <1>19, <1>20, <1>21, <1>22, <1>23
     DEF Update!Next, Update!HelperStep

(* Only a candidate that was seen healthy is committed.                    *)
LEMMA HealthKeeps ==
  ASSUME UpdateInv, Update!Next \/ UNCHANGED updateVars
  PROVE  HealthInv'
<1>0. HealthInv /\ PhaseInv
  BY DEF UpdateInv
<1>1. CASE Update!Boot
  BY <1>1, <1>0 DEF Update!Boot, Update!Interrupted, Update!Run, Update!dirs, Update!helper,
     HealthInv
<1>2. ASSUME NEW v \in 1 .. Last,
             Update!Stage(v)
      PROVE  HealthInv'
  BY <1>2, <1>0 DEF Update!Stage, Update!Interrupted, Update!All, Update!helper, HealthInv
<1>3. CASE Update!HandOff
  BY <1>3, <1>0 DEF Update!HandOff, Update!Fault, Update!Run, Update!dirs, HealthInv
<1>4. CASE Update!Recover
  BY <1>4, <1>0 DEF Update!Recover, Update!Interrupted, Update!dirs, Update!backend, HealthInv
<1>5. CASE Update!CandidateReady
  BY <1>5, <1>0 DEF Update!CandidateReady, Update!dirs, Update!helper, HealthInv
<1>6. CASE Update!Exits
  BY <1>6, <1>0 DEF Update!Exits, Update!dirs, Update!helper, HealthInv
<1>7. CASE Update!LeaseCloses
  BY <1>7, <1>0 DEF Update!LeaseCloses, Update!dirs, Update!helper, HealthInv
<1>8. CASE Update!TakeLock
  BY <1>8, <1>0 DEF Update!TakeLock, Update!Helper, Update!Give, Update!Fault,
     Update!Interrupted, Update!dirs, Update!backend, HealthInv
<1>9. CASE Update!ClearBackup
  BY <1>9, <1>0 DEF Update!ClearBackup, Update!Helper, Update!Fault, Update!Emptied,
     Update!All, Update!backend, HealthInv
<1>10. CASE Update!WriteJournal
  BY <1>10, <1>0 DEF Update!WriteJournal, Update!Helper, Update!Give, Update!Fault,
     Update!dirs, Update!backend, HealthInv
<1>11. CASE Update!SaveFile
  BY <1>11, <1>0 DEF Update!SaveFile, Update!Helper, Update!Fault, Update!backend, HealthInv
<1>12. CASE Update!PutFile
  BY <1>12, <1>0 DEF Update!PutFile, Update!Helper, Update!Fault, Update!backend, HealthInv
<1>13. CASE Update!Launch
  BY <1>13, <1>0 DEF Update!Launch, Update!Helper, Update!Fault, Update!Run, Update!dirs,
     Update!backend, HealthInv
<1>14. CASE Update!WaitReady
  BY <1>14, <1>0 DEF Update!WaitReady, Update!Helper, Update!Healthy, Update!dirs,
     Update!backend, HealthInv
<1>15. CASE Update!Commit
  BY <1>15, <1>0 DEF Update!Commit, Update!Helper, Update!Give, Update!Fault, Update!dirs,
     Update!backend, HealthInv
<1>16. CASE Update!StopCandidate
  BY <1>16, <1>0 DEF Update!StopCandidate, Update!Helper, Update!dirs, HealthInv
<1>17. CASE Update!RestoreFile
  BY <1>17, <1>0 DEF Update!RestoreFile, Update!Helper, Update!Fault, Update!SavedExists,
     Update!NextFile, Update!Refused, Update!backend, HealthInv
<1>18. CASE Update!MoveBack
  BY <1>18, <1>0 DEF Update!MoveBack, Update!Helper, Update!Give, Update!Fault,
     Update!NextFile, Update!backend, HealthInv
<1>19. CASE Update!DropJournal
  BY <1>19, <1>0 DEF Update!DropJournal, Update!Helper, Update!Give, Update!Fault, Update!dirs,
     Update!backend, HealthInv
<1>20. CASE Update!RestartPrevious
  BY <1>20, <1>0 DEF Update!RestartPrevious, Update!Helper, Update!Give, Update!Fault,
     Update!Run, Update!dirs, Update!backend, HealthInv
<1>21. CASE Update!SuperviseEnds
  BY <1>21, <1>0 DEF Update!SuperviseEnds, Update!Helper, Update!dirs, Update!backend, HealthInv
<1>22. CASE Update!Crash
  BY <1>22, <1>0 DEF Update!Crash, Update!Fault, Update!dirs, HealthInv
<1>23. CASE UNCHANGED updateVars
  BY <1>23, <1>0 DEF updateVars, HealthInv
<1> QED
  BY <1>1, <1>2, <1>3, <1>4, <1>5, <1>6, <1>7, <1>8, <1>9, <1>10, <1>11, <1>12, <1>13, <1>14,
     <1>15, <1>16, <1>17, <1>18, <1>19, <1>20, <1>21, <1>22, <1>23
     DEF Update!Next, Update!HelperStep

(* What is staged, and installed from there, is one version.               *)
LEMMA StagedKeeps ==
  ASSUME UpdateInv, Update!Next \/ UNCHANGED updateVars
  PROVE  StagedInv'
<1>0. Update!TypeOK /\ StagedInv /\ PhaseInv /\ JournalInv /\ HealthInv
  BY DEF UpdateInv
<1>a. Files \in Nat \ {0} /\ Last \in Nat \ {0}
  BY PartsAssumption DEF PartsAssumption
<1>b. Update!Following = IF pos = Files THEN 1 ELSE pos + 1
  BY <1>0, FollowingFile DEF Update!TypeOK
<1>c. 1 \in FileNumbers /\ pos \in FileNumbers
  BY <1>0, <1>a DEF Update!TypeOK, FileNumbers
<1>d. /\ installed \in [FileNumbers -> 0 .. Last] /\ saved \in [FileNumbers -> 0 .. Last]
      /\ staged \in [FileNumbers -> 0 .. Last] /\ journal \in {<<>>} \cup [FileNumbers -> 1 .. Last]
  BY <1>0 DEF Update!TypeOK, FileNumbers
<1>e. installed # <<>>
  BY <1>0, NotEmpty DEF Update!TypeOK
<1>1. CASE Update!Boot
  BY <1>1, <1>0, <1>a, <1>b, <1>c, <1>d DEF Update!Boot, Update!Interrupted, Update!Run,
     Update!dirs, Update!helper, StagedInv, Uniform, FileNumbers
<1>2. ASSUME NEW v \in 1 .. Last,
             Update!Stage(v)
      PROVE  StagedInv'
  BY <1>2, <1>0, <1>a, <1>b, <1>c, <1>d DEF Update!Stage, Update!Interrupted, Update!All,
     Update!helper, StagedInv, Uniform, FileNumbers
<1>3. CASE Update!HandOff
  BY <1>3, <1>0, <1>a, <1>b, <1>c, <1>d DEF Update!HandOff, Update!Fault, Update!Run,
     Update!dirs, StagedInv, Uniform, FileNumbers
<1>4. CASE Update!Recover
  BY <1>4, <1>0, <1>a, <1>b, <1>c, <1>d DEF Update!Recover, Update!Interrupted, Update!dirs,
     Update!backend, StagedInv, Uniform, FileNumbers
<1>5. CASE Update!CandidateReady
  BY <1>5, <1>0, <1>a, <1>b, <1>c, <1>d DEF Update!CandidateReady, Update!dirs, Update!helper,
     StagedInv, Uniform, FileNumbers
<1>6. CASE Update!Exits
  BY <1>6, <1>0, <1>a, <1>b, <1>c, <1>d DEF Update!Exits, Update!dirs, Update!helper,
     StagedInv, Uniform, FileNumbers
<1>7. CASE Update!LeaseCloses
  BY <1>7, <1>0, <1>a, <1>b, <1>c, <1>d DEF Update!LeaseCloses, Update!dirs, Update!helper,
     StagedInv, Uniform, FileNumbers
<1>8. CASE Update!TakeLock
  BY <1>8, <1>0, <1>a, <1>b, <1>c, <1>d DEF Update!TakeLock, Update!Helper, Update!Give,
     Update!Fault, Update!Interrupted, Update!dirs, Update!backend, StagedInv, Uniform,
     FileNumbers
<1>9. CASE Update!ClearBackup
  BY <1>9, <1>0, <1>a, <1>b, <1>c, <1>d DEF Update!ClearBackup, Update!Helper, Update!Fault,
     Update!Emptied, Update!All, Update!backend, StagedInv, Uniform, FileNumbers
<1>10. CASE Update!WriteJournal
  <2>1. /\ UNCHANGED <<installed, saved, staged, pos, bpc, recover>> /\ pos = 1 /\ Uniform(staged)
        /\ hpc = "journal" /\ hpc' \in {"save", "none", "restart"} /\ bpc # "draining"
    BY <1>10, <1>0 DEF Update!WriteJournal, Update!Helper, Update!Give, Update!dirs, Update!backend, PhaseInv, StagedInv
  <2> QED
    BY <2>1, <1>a DEF StagedInv, Uniform, FileNumbers
<1>11. CASE Update!SaveFile
  <2>1. hpc = "save" /\ bpc # "draining" /\ UNCHANGED <<bpc, staged>> /\ hpc' \in {"put", "undo"}
    BY <1>11, <1>0 DEF Update!SaveFile, Update!Helper, Update!backend, PhaseInv
  <2>2. ASSUME hpc' = "put"
        PROVE  pos' = pos /\ installed' = [installed EXCEPT ![pos] = 0]
    BY <1>11, <2>2 DEF Update!SaveFile, Update!Helper
  <2>3. hpc' = "put" => \A f \in FileNumbers : f < pos => installed'[f] = installed[f]
    BY <2>2, <1>a, <1>c, <1>d DEF FileNumbers
  <2> QED
    BY <2>1, <2>2, <2>3, <1>0 DEF StagedInv
<1>12. CASE Update!PutFile
  <2>1. hpc = "put" /\ bpc # "draining" /\ UNCHANGED bpc /\ hpc' \in {"save", "launch", "undo"}
    BY <1>12, <1>0 DEF Update!PutFile, Update!Helper, Update!backend, PhaseInv
  <2>2. hpc' \in {"save", "launch"} =>
          /\ installed' = [installed EXCEPT ![pos] = staged[pos]] /\ staged' = [staged EXCEPT ![pos] = 0]
          /\ pos' = Update!Following /\ hpc' = IF pos = Files THEN "launch" ELSE "save"
    BY <1>12 DEF Update!PutFile, Update!Helper
  <2>3. hpc' \in {"save", "launch"} =>
          \A f \in FileNumbers : f <= pos => installed'[f] = staged[pos]
    BY <2>1, <2>2, <1>0, <1>a, <1>c, <1>d, SMTT(30) DEF FileNumbers, StagedInv
  <2>4. hpc' = "save" => \A f \in FileNumbers : f >= pos' => staged'[f] = staged[pos]
    BY <2>1, <2>2, <1>0, <1>a, <1>b, <1>c, <1>d DEF FileNumbers, StagedInv
  <2>5. hpc' = "save" => pos' = pos + 1 /\ pos' \in FileNumbers
    BY <2>2, <1>a, <1>b, <1>c DEF FileNumbers
  <2>6. hpc' = "launch" => Uniform(installed')
    BY <2>1, <2>2, <2>3, <1>0, <1>a, <1>c DEF FileNumbers, Uniform, StagedInv
  <2>7. staged[pos] # 0
    BY <2>1, <1>0 DEF StagedInv
  <2>8. hpc' = "save" => /\ \A f \in FileNumbers : f < pos' => installed'[f] = staged'[pos']
                         /\ staged'[pos'] = staged[pos]
                         /\ \A f \in FileNumbers : f >= pos' => staged'[f] = staged'[pos']
    BY <2>3, <2>4, <2>5, <1>a, <1>c DEF FileNumbers
  <2> QED
    BY <2>1, <2>6, <2>7, <2>8, <1>0 DEF StagedInv, Uniform
<1>13. CASE Update!Launch
  BY <1>13, <1>0, <1>a, <1>b, <1>c, <1>d DEF Update!Launch, Update!Helper, Update!Fault,
     Update!Run, Update!dirs, Update!backend, StagedInv, Uniform, FileNumbers
<1>14. CASE Update!WaitReady
  BY <1>14, <1>0, <1>a, <1>b, <1>c, <1>d DEF Update!WaitReady, Update!Helper, Update!Healthy,
     Update!dirs, Update!backend, StagedInv, Uniform, FileNumbers
<1>15. CASE Update!Commit
  BY <1>15, <1>0, <1>a, <1>b, <1>c, <1>d DEF Update!Commit, Update!Helper, Update!Give,
     Update!Fault, Update!dirs, Update!backend, StagedInv, Uniform, FileNumbers
<1>16. CASE Update!StopCandidate
  BY <1>16, <1>0, <1>a, <1>b, <1>c, <1>d DEF Update!StopCandidate, Update!Helper, Update!dirs,
     StagedInv, Uniform, FileNumbers
<1>17. CASE Update!RestoreFile
  BY <1>17, <1>0, <1>a, <1>b, <1>c, <1>d DEF Update!RestoreFile, Update!Helper, Update!Fault,
     Update!SavedExists, Update!NextFile, Update!Refused, Update!backend, StagedInv, Uniform,
     FileNumbers
<1>18. CASE Update!MoveBack
  BY <1>18, <1>0, <1>a, <1>b, <1>c, <1>d DEF Update!MoveBack, Update!Helper, Update!Give,
     Update!Fault, Update!NextFile, Update!backend, StagedInv, Uniform, FileNumbers
<1>19. CASE Update!DropJournal
  BY <1>19, <1>0, <1>a, <1>b, <1>c, <1>d DEF Update!DropJournal, Update!Helper, Update!Give,
     Update!Fault, Update!dirs, Update!backend, StagedInv, Uniform, FileNumbers
<1>20. CASE Update!RestartPrevious
  BY <1>20, <1>0, <1>a, <1>b, <1>c, <1>d DEF Update!RestartPrevious, Update!Helper,
     Update!Give, Update!Fault, Update!Run, Update!dirs, Update!backend, StagedInv, Uniform,
     FileNumbers
<1>21. CASE Update!SuperviseEnds
  BY <1>21, <1>0, <1>a, <1>b, <1>c, <1>d DEF Update!SuperviseEnds, Update!Helper, Update!dirs,
     Update!backend, StagedInv, Uniform, FileNumbers
<1>22. CASE Update!Crash
  BY <1>22, <1>0, <1>a, <1>b, <1>c, <1>d DEF Update!Crash, Update!Fault, Update!dirs,
     StagedInv, Uniform, FileNumbers
<1>23. CASE UNCHANGED updateVars
  BY <1>23, <1>0, <1>a, <1>b, <1>c, <1>d DEF updateVars, StagedInv, Uniform, FileNumbers
<1> QED
  BY <1>1, <1>2, <1>3, <1>4, <1>5, <1>6, <1>7, <1>8, <1>9, <1>10, <1>11, <1>12, <1>13, <1>14,
     <1>15, <1>16, <1>17, <1>18, <1>19, <1>20, <1>21, <1>22, <1>23
     DEF Update!Next, Update!HelperStep

(* Every file can be put back, and without a journal the bundle is whole.  *)
LEMMA JournalKeeps ==
  ASSUME UpdateInv, Update!Next \/ UNCHANGED updateVars
  PROVE  JournalInv'
<1>0. Update!TypeOK /\ StagedInv /\ PhaseInv /\ JournalInv /\ HealthInv
  BY DEF UpdateInv
<1>a. Files \in Nat \ {0} /\ Last \in Nat \ {0}
  BY PartsAssumption DEF PartsAssumption
<1>b. Update!Following = IF pos = Files THEN 1 ELSE pos + 1
  BY <1>0, FollowingFile DEF Update!TypeOK
<1>c. 1 \in FileNumbers /\ pos \in FileNumbers
  BY <1>0, <1>a DEF Update!TypeOK, FileNumbers
<1>d. /\ installed \in [FileNumbers -> 0 .. Last] /\ saved \in [FileNumbers -> 0 .. Last]
      /\ staged \in [FileNumbers -> 0 .. Last] /\ journal \in {<<>>} \cup [FileNumbers -> 1 .. Last]
  BY <1>0 DEF Update!TypeOK, FileNumbers
<1>e. installed # <<>>
  BY <1>0, NotEmpty DEF Update!TypeOK
<1>1. CASE Update!Boot
  BY <1>1, <1>0, <1>a, <1>b, <1>c, <1>d, <1>e DEF Update!Boot, Update!Interrupted, Update!Run,
     Update!dirs, Update!helper, JournalInv, Uniform, FileNumbers, Kept, Replaceable
<1>2. ASSUME NEW v \in 1 .. Last,
             Update!Stage(v)
      PROVE  JournalInv'
  BY <1>2, <1>0, <1>a, <1>b, <1>c, <1>d, <1>e DEF Update!Stage, Update!Interrupted, Update!All,
     Update!helper, JournalInv, Uniform, FileNumbers, Kept, Replaceable
<1>3. CASE Update!HandOff
  BY <1>3, <1>0, <1>a, <1>b, <1>c, <1>d, <1>e DEF Update!HandOff, Update!Fault, Update!Run,
     Update!dirs, JournalInv, Uniform, FileNumbers, Kept, Replaceable, PhaseInv
<1>4. CASE Update!Recover
  BY <1>4, <1>0, <1>a, <1>b, <1>c, <1>d, <1>e DEF Update!Recover, Update!Interrupted,
     Update!dirs, Update!backend, JournalInv, Uniform, FileNumbers, Kept, Replaceable, PhaseInv
<1>5. CASE Update!CandidateReady
  BY <1>5, <1>0, <1>a, <1>b, <1>c, <1>d, <1>e DEF Update!CandidateReady, Update!dirs,
     Update!helper, JournalInv, Uniform, FileNumbers, Kept, Replaceable
<1>6. CASE Update!Exits
  BY <1>6, <1>0, <1>a, <1>b, <1>c, <1>d, <1>e DEF Update!Exits, Update!dirs, Update!helper,
     JournalInv, Uniform, FileNumbers, Kept, Replaceable
<1>7. CASE Update!LeaseCloses
  BY <1>7, <1>0, <1>a, <1>b, <1>c, <1>d, <1>e DEF Update!LeaseCloses, Update!dirs,
     Update!helper, JournalInv, Uniform, FileNumbers, Kept, Replaceable
<1>8. CASE Update!TakeLock
  BY <1>8, <1>0, <1>a, <1>b, <1>c, <1>d, <1>e DEF Update!TakeLock, Update!Helper, Update!Give,
     Update!Fault, Update!Interrupted, Update!dirs, Update!backend, JournalInv, Uniform,
     FileNumbers, Kept, Replaceable, PhaseInv
<1>9. CASE Update!ClearBackup
  BY <1>9, <1>0, <1>a, <1>b, <1>c, <1>d, <1>e DEF Update!ClearBackup, Update!Helper,
     Update!Fault, Update!Emptied, Update!All, Update!backend, JournalInv, Uniform,
     FileNumbers, Kept, Replaceable, PhaseInv
<1>10. CASE Update!WriteJournal
  <2>1. /\ hpc = "journal" /\ journal = <<>> /\ UNCHANGED <<installed, saved, pos>> /\ pos = 1
        /\ Uniform(installed) /\ \A f \in FileNumbers : saved[f] = 0
    BY <1>10, <1>0 DEF Update!WriteJournal, Update!Helper, Update!Give, Update!dirs, PhaseInv, JournalInv
  <2>2. \/ journal' = installed /\ hpc' \in {"save", "none"}
        \/ journal' = journal /\ hpc' = "restart"
    BY <1>10 DEF Update!WriteJournal, Update!Helper, Update!Give
  <2>3. CASE journal' = journal /\ hpc' = "restart"
    BY <2>1, <2>3, <1>0 DEF JournalInv, Uniform
  <2>4. CASE journal' = installed /\ hpc' \in {"save", "none"}
    <3>1. \A f \in FileNumbers : f >= 1
      BY <1>a DEF FileNumbers
    <3>2. journal' # <<>> /\ Uniform(journal') /\ \A f \in FileNumbers : Kept(f)'
      BY <2>1, <2>4, <1>e DEF Uniform, Kept
    <3> QED
      BY <2>1, <2>4, <3>1, <3>2, <1>a DEF JournalInv, FileNumbers
  <2> QED
    BY <2>2, <2>3, <2>4
<1>11. CASE Update!SaveFile
  <2>1. hpc = "save" /\ journal # <<>> /\ UNCHANGED journal /\ hpc' \in {"put", "undo"}
    BY <1>11, <1>0 DEF Update!SaveFile, Update!Helper, PhaseInv
  <2>2. /\ Uniform(journal) /\ \A f \in FileNumbers : Replaceable(f) \/ Kept(f)
        /\ \A f \in FileNumbers : IF f < pos THEN Replaceable(f) ELSE Kept(f)
    BY <2>1, <1>0 DEF JournalInv
  <2>3. CASE hpc' = "undo"
    <3>1. pos' = 1 /\ UNCHANGED <<installed, saved>>
      BY <1>11, <2>3 DEF Update!SaveFile, Update!Helper
    <3>2. \A f \in FileNumbers : ~(f < pos')
      BY <3>1, <1>a DEF FileNumbers
    <3> QED
      BY <2>1, <2>2, <2>3, <3>1, <3>2 DEF JournalInv, Uniform, Kept, Replaceable
  <2>4. CASE hpc' = "put"
    <3>1. /\ pos' = pos /\ saved' = [saved EXCEPT ![pos] = installed[pos]]
          /\ installed' = [installed EXCEPT ![pos] = 0]
      BY <1>11, <2>4 DEF Update!SaveFile, Update!Helper
    <3>2. Kept(pos)
      BY <2>2, <1>a, <1>c DEF FileNumbers
    <3>3. \A f \in FileNumbers : f # pos => installed'[f] = installed[f] /\ saved'[f] = saved[f]
      BY <3>1, <1>d
    <3>4. \A f \in FileNumbers : f = pos => Replaceable(f)'
      BY <2>1, <3>1, <3>2, <1>c, <1>d DEF Kept, Replaceable
    <3>5. \A f \in FileNumbers : /\ f < pos => Replaceable(f)'
                                 /\ f # pos /\ ~(f < pos) => Kept(f)'
      BY <2>1, <2>2, <3>3, <1>a, <1>c DEF FileNumbers, Kept, Replaceable
    <3>6. \A f \in FileNumbers : IF f <= pos THEN Replaceable(f)' ELSE Kept(f)'
      <4> SUFFICES ASSUME NEW f \in FileNumbers
                   PROVE  IF f <= pos THEN Replaceable(f)' ELSE Kept(f)'
        OBVIOUS
      <4>1. IF f <= pos THEN f = pos \/ f < pos ELSE f # pos /\ ~(f < pos)
        BY <1>a, <1>c DEF FileNumbers
      <4> QED
        BY <4>1, <3>4, <3>5
    <3> QED
      BY <2>1, <2>2, <2>4, <3>1, <3>6 DEF JournalInv, Uniform
  <2> QED
    BY <2>1, <2>3, <2>4
<1>12. CASE Update!PutFile
  <2>1. hpc = "put" /\ journal # <<>> /\ UNCHANGED <<journal, saved>> /\ hpc' \in {"save", "launch", "undo"}
    BY <1>12, <1>0 DEF Update!PutFile, Update!Helper, PhaseInv
  <2>2. /\ Uniform(journal) /\ \A f \in FileNumbers : Replaceable(f) \/ Kept(f)
        /\ \A f \in FileNumbers : IF f <= pos THEN Replaceable(f) ELSE Kept(f)
    BY <2>1, <1>0 DEF JournalInv
  <2>3. CASE hpc' = "undo"
    <3>1. pos' = 1 /\ UNCHANGED installed
      BY <1>12, <2>3 DEF Update!PutFile, Update!Helper
    <3>2. \A f \in FileNumbers : ~(f < pos')
      BY <3>1, <1>a DEF FileNumbers
    <3> QED
      BY <2>1, <2>2, <2>3, <3>1, <3>2 DEF JournalInv, Uniform, Kept, Replaceable
  <2>4. CASE hpc' \in {"save", "launch"}
    <3>1. /\ pos' = Update!Following /\ installed' = [installed EXCEPT ![pos] = staged[pos]]
          /\ hpc' = IF pos = Files THEN "launch" ELSE "save"
      BY <1>12, <2>4 DEF Update!PutFile, Update!Helper
    <3>2. \A f \in FileNumbers : IF f <= pos THEN Replaceable(f)' ELSE Kept(f)'
      BY <2>1, <2>2, <3>1, <1>a, <1>c, <1>d, SMTT(30) DEF FileNumbers, Kept, Replaceable
    <3>3. hpc' = "save" => \A f \in FileNumbers : IF f < pos' THEN Replaceable(f)' ELSE Kept(f)'
      BY <3>1, <3>2, <1>a, <1>b, <1>c DEF FileNumbers
    <3> QED
      BY <2>1, <2>2, <2>4, <3>2, <3>3 DEF JournalInv, Uniform
  <2> QED
    BY <2>1, <2>3, <2>4
<1>13. CASE Update!Launch
  BY <1>13, <1>0, <1>a, <1>b, <1>c, <1>d, <1>e DEF Update!Launch, Update!Helper, Update!Fault,
     Update!Run, Update!dirs, Update!backend, JournalInv, Uniform, FileNumbers, Kept,
     Replaceable, PhaseInv
<1>14. CASE Update!WaitReady
  BY <1>14, <1>0, <1>a, <1>b, <1>c, <1>d, <1>e DEF Update!WaitReady, Update!Helper,
     Update!Healthy, Update!dirs, Update!backend, JournalInv, Uniform, FileNumbers, Kept,
     Replaceable
<1>15. CASE Update!Commit
  BY <1>15, <1>0, <1>a, <1>b, <1>c, <1>d, <1>e DEF Update!Commit, Update!Helper, Update!Give,
     Update!Fault, Update!dirs, Update!backend, JournalInv, Uniform, FileNumbers, Kept,
     Replaceable, StagedInv
<1>16. CASE Update!StopCandidate
  BY <1>16, <1>0, <1>a, <1>b, <1>c, <1>d, <1>e DEF Update!StopCandidate, Update!Helper,
     Update!dirs, JournalInv, Uniform, FileNumbers, Kept, Replaceable, PhaseInv
<1>17. CASE Update!RestoreFile
  <2>1. hpc = "undo" /\ journal # <<>> /\ UNCHANGED <<journal, saved>>
    BY <1>17, <1>0 DEF Update!RestoreFile, Update!Helper, PhaseInv
  <2>2. /\ Uniform(journal) /\ \A f \in FileNumbers : Replaceable(f) \/ Kept(f)
        /\ \A f \in FileNumbers : f < pos => Kept(f)
    BY <2>1, <1>0 DEF JournalInv
  <2>3. CASE hpc' = "none" /\ UNCHANGED installed
    BY <2>1, <2>2, <2>3 DEF JournalInv, Uniform, Kept, Replaceable
  <2>4. CASE /\ hpc' = "move" /\ UNCHANGED pos /\ saved[pos] = journal[pos]
             /\ installed' = [installed EXCEPT ![pos] = 0]
    <3>1. \A f \in FileNumbers : f # pos => installed'[f] = installed[f]
      BY <2>4, <1>d
    <3>2. Replaceable(pos)' /\ \A f \in FileNumbers : Replaceable(f)' \/ Kept(f)'
      BY <2>1, <2>2, <2>4, <3>1, <1>c DEF Kept, Replaceable
    <3>3. \A f \in FileNumbers : f < pos' => Kept(f)'
      BY <2>1, <2>2, <2>4, <3>1, <1>a, <1>c DEF Kept, FileNumbers
    <3> QED
      BY <2>1, <2>2, <2>4, <3>2, <3>3 DEF JournalInv, Uniform
  <2>5. CASE /\ hpc' = Update!NextFile /\ pos' = Update!Following /\ UNCHANGED installed
             /\ saved[pos] = 0 /\ installed[pos] = journal[pos]
    <3>1. \A f \in FileNumbers : f <= pos => Kept(f)'
      BY <2>1, <2>2, <2>5, <1>a, <1>c DEF Kept, FileNumbers
    <3>2. IF pos = Files THEN hpc' = "drop" ELSE hpc' = "undo" /\ pos' = pos + 1
      BY <2>5, <1>b DEF Update!NextFile
    <3>3. /\ hpc' = "drop" => \A f \in FileNumbers : Kept(f)'
          /\ hpc' = "undo" => \A f \in FileNumbers : f < pos' => Kept(f)'
          /\ hpc' \in {"undo", "drop"}
      BY <3>1, <3>2, <1>a, <1>c DEF FileNumbers
    <3>4. \A f \in FileNumbers : Replaceable(f)' \/ Kept(f)'
      BY <2>1, <2>2, <2>5 DEF Kept, Replaceable
    <3> QED
      BY <2>1, <2>2, <3>3, <3>4 DEF JournalInv, Uniform
  <2> QED
    BY <1>17, <2>3, <2>4, <2>5 DEF Update!RestoreFile, Update!Helper, Update!SavedExists
<1>18. CASE Update!MoveBack
  <2>1. hpc = "move" /\ journal # <<>> /\ UNCHANGED journal
    BY <1>18, <1>0 DEF Update!MoveBack, Update!Helper, Update!Give, PhaseInv
  <2>2. /\ Uniform(journal) /\ \A f \in FileNumbers : Replaceable(f) \/ Kept(f)
        /\ \A f \in FileNumbers : f < pos => Kept(f)
        /\ Replaceable(pos)
    BY <2>1, <1>0 DEF JournalInv
  <2>3. CASE hpc' = "none" /\ UNCHANGED <<installed, saved>>
    BY <2>1, <2>2, <2>3 DEF JournalInv, Uniform, Kept, Replaceable
  <2>4. CASE /\ hpc' = Update!NextFile /\ pos' = Update!Following
             /\ installed' = [installed EXCEPT ![pos] = saved[pos]]
             /\ saved' = [saved EXCEPT ![pos] = 0]
    <3>1. \A f \in FileNumbers : f # pos => installed'[f] = installed[f] /\ saved'[f] = saved[f]
      BY <2>4, <1>d
    <3>2. \A f \in FileNumbers : f = pos => Kept(f)'
      BY <2>1, <2>2, <2>4, <1>c, <1>d DEF Kept, Replaceable
    <3>3. \A f \in FileNumbers : f <= pos => Kept(f)'
      BY <2>1, <2>2, <3>1, <3>2, <1>a, <1>c DEF Kept, FileNumbers
    <3>4. IF pos = Files THEN hpc' = "drop" ELSE hpc' = "undo" /\ pos' = pos + 1
      BY <2>4, <1>b DEF Update!NextFile
    <3>5. /\ hpc' = "drop" => \A f \in FileNumbers : Kept(f)'
          /\ hpc' = "undo" => \A f \in FileNumbers : f < pos' => Kept(f)'
          /\ hpc' \in {"undo", "drop"}
      BY <3>3, <3>4, <1>a, <1>c DEF FileNumbers
    <3>6. \A f \in FileNumbers : Replaceable(f)' \/ Kept(f)'
      BY <2>1, <2>2, <3>1, <3>2 DEF Kept, Replaceable
    <3> QED
      BY <2>1, <2>2, <3>5, <3>6 DEF JournalInv, Uniform
  <2> QED
    BY <1>18, <2>3, <2>4 DEF Update!MoveBack, Update!Helper, Update!Give
<1>19. CASE Update!DropJournal
  BY <1>19, <1>0, <1>a, <1>b, <1>c, <1>d, <1>e DEF Update!DropJournal, Update!Helper,
     Update!Give, Update!Fault, Update!dirs, Update!backend, JournalInv, Uniform, FileNumbers,
     Kept, Replaceable
<1>20. CASE Update!RestartPrevious
  BY <1>20, <1>0, <1>a, <1>b, <1>c, <1>d, <1>e DEF Update!RestartPrevious, Update!Helper,
     Update!Give, Update!Fault, Update!Run, Update!dirs, Update!backend, JournalInv, Uniform,
     FileNumbers, Kept, Replaceable
<1>21. CASE Update!SuperviseEnds
  BY <1>21, <1>0, <1>a, <1>b, <1>c, <1>d, <1>e DEF Update!SuperviseEnds, Update!Helper,
     Update!dirs, Update!backend, JournalInv, Uniform, FileNumbers, Kept, Replaceable
<1>22. CASE Update!Crash
  BY <1>22, <1>0, <1>a, <1>b, <1>c, <1>d, <1>e DEF Update!Crash, Update!Fault, Update!dirs,
     JournalInv, Uniform, FileNumbers, Kept, Replaceable
<1>23. CASE UNCHANGED updateVars
  BY <1>23, <1>0, <1>a, <1>b, <1>c, <1>d, <1>e DEF updateVars, JournalInv, Uniform,
     FileNumbers, Kept, Replaceable
<1> QED
  BY <1>1, <1>2, <1>3, <1>4, <1>5, <1>6, <1>7, <1>8, <1>9, <1>10, <1>11, <1>12, <1>13, <1>14,
     <1>15, <1>16, <1>17, <1>18, <1>19, <1>20, <1>21, <1>22, <1>23
     DEF Update!Next, Update!HelperStep

(* The initial bundle is whole.                                            *)
LEMMA UpdateStarts == PartsInit => UpdateInv
<1> SUFFICES ASSUME Update!Init
             PROVE  UpdateInv
  BY DEF PartsInit
<1>a. Files \in Nat \ {0} /\ Last \in Nat \ {0} /\ UpdateFaults \in Nat
  BY PartsAssumption DEF PartsAssumption
<1>1. \A f \in FileNumbers : installed[f] = 1 /\ 1 \in FileNumbers
  BY <1>a DEF Update!Init, Update!All, FileNumbers
<1>2. Update!TypeOK
  <2>1. recover \in BOOLEAN /\ ready \in BOOLEAN /\ leased \in BOOLEAN
    BY Zenon DEF Update!Init
  <2>2. /\ installed \in [1 .. Files -> 0 .. Last] /\ saved \in [1 .. Files -> 0 .. Last]
        /\ staged \in [1 .. Files -> 0 .. Last] /\ journal = <<>>
    BY <1>a DEF Update!Init, Update!All
  <2>3. hpc \in Update!Steps /\ bpc \in {"down", "up", "draining"}
    BY DEF Update!Init, Update!Steps
  <2>4. /\ pos \in 1 .. Files /\ bver \in 1 .. Last /\ proved \subseteq 1 .. Last
        /\ updateFaults \in 0 .. UpdateFaults
    BY <1>a DEF Update!Init
  <2> QED
    BY <2>1, <2>2, <2>3, <2>4 DEF Update!TypeOK
<1>3. JournalInv
  BY <1>1, <1>a DEF JournalInv, Uniform, Update!Init, FileNumbers
<1> QED
  BY <1>2, <1>3 DEF UpdateInv, StagedInv, PhaseInv, HealthInv, Update!Init

(* A step of the whole is a step of the update, or leaves it alone.        *)
LEMMA UpdateSteps == [PartsNext]_partsVars => Update!Next \/ UNCHANGED updateVars
<1>1. CASE UNCHANGED partsVars
  BY <1>1 DEF partsVars
<1>2. CASE PartsNext
  BY <1>2 DEF PartsNext
<1> QED
  BY <1>1, <1>2

(* binary_updates.rs: what journal and directories hold at every step.     *)
THEOREM UpdateInvAlways == PartsSpec => []UpdateInv
<1>1. PartsInit => UpdateInv
  BY UpdateStarts
<1>2. UpdateInv /\ [PartsNext]_partsVars => UpdateInv'
  <2> SUFFICES ASSUME UpdateInv, Update!Next \/ UNCHANGED updateVars
               PROVE  UpdateInv'
    BY UpdateSteps
  <2>1. Update!TypeOK'
    BY UpdateFlags, UpdateControl, UpdateFiles, UpdateVersions DEF Update!TypeOK
  <2> QED
    BY <2>1, PhaseKeeps, HealthKeeps, StagedKeeps, JournalKeeps DEF UpdateInv
<1> QED
  BY <1>1, <1>2, PTL DEF PartsSpec

(* install and restore: between any two file operations the previous       *)
(* bundle can be put back, and without a journal the installed one is      *)
(* whole.                                                                  *)
THEOREM BundleIsSafe == PartsSpec => []BundleSafe
<1>1. UpdateInv => BundleSafe
  BY DEF UpdateInv, JournalInv, Uniform, Kept, Replaceable, FileNumbers, BundleSafe,
         Update!BundleSafe, Update!Interrupted, Update!Recoverable, Update!WholeBundle
<1> QED
  BY <1>1, UpdateInvAlways, PTL

(* Every file operation is no step of the abstract bundle, except that the *)
(* removal of the journal by a commit switches it.                        *)
LEMMA StepsAreAtomic ==
  ASSUME UpdateInv, Update!Next \/ UNCHANGED updateVars
  PROVE  Update!Atomic!Next \/ UNCHANGED <<Update!Effective, proved>>
<1>0. Update!TypeOK /\ StagedInv /\ PhaseInv /\ JournalInv /\ HealthInv
  BY DEF UpdateInv
<1>a. installed # <<>>
  BY <1>0, NotEmpty DEF Update!TypeOK
<1>b. 1 \in FileNumbers
  BY PartsAssumption DEF PartsAssumption, FileNumbers
<1>1. CASE Update!Boot
  BY <1>1, <1>0 DEF Update!Boot, Update!Interrupted, Update!Run, Update!dirs, Update!helper,
     Update!Effective
<1>2. ASSUME NEW v \in 1 .. Last,
             Update!Stage(v)
      PROVE  Update!Atomic!Next \/ UNCHANGED <<Update!Effective, proved>>
  BY <1>2, <1>0 DEF Update!Stage, Update!Interrupted, Update!All, Update!helper,
     Update!Effective
<1>3. CASE Update!HandOff
  BY <1>3, <1>0 DEF Update!HandOff, Update!Fault, Update!Run, Update!dirs, Update!Effective,
     Update!Interrupted
<1>4. CASE Update!Recover
  BY <1>4, <1>0 DEF Update!Recover, Update!Interrupted, Update!dirs, Update!backend,
     Update!Effective
<1>5. CASE Update!CandidateReady
  <2>1. UNCHANGED Update!Effective /\ proved' = proved \cup {bver}
    BY <1>5 DEF Update!CandidateReady, Update!dirs, Update!Effective, Update!Interrupted
  <2>2. Update!Atomic!Prove(bver) /\ bver \in 1 .. Last
    BY <2>1, <1>0 DEF Update!Atomic!Prove, Update!TypeOK
  <2> QED
    BY <2>2 DEF Update!Atomic!Next
<1>6. CASE Update!Exits
  BY <1>6, <1>0 DEF Update!Exits, Update!dirs, Update!helper, Update!Effective,
     Update!Interrupted
<1>7. CASE Update!LeaseCloses
  BY <1>7, <1>0 DEF Update!LeaseCloses, Update!dirs, Update!helper, Update!Effective,
     Update!Interrupted
<1>8. CASE Update!TakeLock
  BY <1>8, <1>0 DEF Update!TakeLock, Update!Helper, Update!Give, Update!Fault,
     Update!Interrupted, Update!dirs, Update!backend, Update!Effective
<1>9. CASE Update!ClearBackup
  BY <1>9, <1>0 DEF Update!ClearBackup, Update!Helper, Update!Fault, Update!Emptied,
     Update!All, Update!backend, Update!Effective, Update!Interrupted
<1>10. CASE Update!WriteJournal
  <2>1. journal = <<>> /\ UNCHANGED <<installed, proved>> /\ (journal' = installed \/ journal' = journal)
    BY <1>10, <1>0 DEF Update!WriteJournal, Update!Helper, Update!Give, Update!dirs, PhaseInv
  <2> QED
    BY <2>1, <1>a DEF Update!Effective, Update!Interrupted
<1>11. CASE Update!SaveFile
  <2>1. journal # <<>> /\ UNCHANGED <<journal, proved>>
    BY <1>11, <1>0 DEF Update!SaveFile, Update!Helper, Update!Give, PhaseInv
  <2> QED
    BY <2>1 DEF Update!Effective, Update!Interrupted
<1>12. CASE Update!PutFile
  <2>1. journal # <<>> /\ UNCHANGED <<journal, proved>>
    BY <1>12, <1>0 DEF Update!PutFile, Update!Helper, Update!Give, PhaseInv
  <2> QED
    BY <2>1 DEF Update!Effective, Update!Interrupted
<1>13. CASE Update!Launch
  BY <1>13, <1>0 DEF Update!Launch, Update!Helper, Update!Fault, Update!Run, Update!dirs,
     Update!backend, Update!Effective, Update!Interrupted
<1>14. CASE Update!WaitReady
  BY <1>14, <1>0 DEF Update!WaitReady, Update!Helper, Update!Healthy, Update!dirs,
     Update!backend, Update!Effective, Update!Interrupted
<1>15. CASE Update!Commit
  <2>1. journal # <<>> /\ UNCHANGED <<installed, proved>> /\ (journal' = <<>> \/ journal' = journal)
        /\ installed[1] \in proved
    BY <1>15, <1>0 DEF Update!Commit, Update!Helper, Update!Give, Update!dirs, PhaseInv, HealthInv
  <2>2. CASE journal' = journal
    BY <2>1, <2>2 DEF Update!Effective, Update!Interrupted
  <2>3. CASE journal' = <<>>
    <3>1. Update!Effective' = installed[1] /\ installed[1] \in 1 .. Last
      BY <2>1, <2>3, <1>0 DEF Update!Effective, Update!Interrupted, Update!TypeOK
    <3>2. Update!Atomic!Switch(installed[1])
      BY <2>1, <3>1 DEF Update!Atomic!Switch
    <3> QED
      BY <3>1, <3>2 DEF Update!Atomic!Next
  <2> QED
    BY <2>1, <2>2, <2>3
<1>16. CASE Update!StopCandidate
  BY <1>16, <1>0 DEF Update!StopCandidate, Update!Helper, Update!dirs, Update!Effective,
     Update!Interrupted
<1>17. CASE Update!RestoreFile
  <2>1. journal # <<>> /\ UNCHANGED <<journal, proved>>
    BY <1>17, <1>0 DEF Update!RestoreFile, Update!Helper, Update!Give, PhaseInv
  <2> QED
    BY <2>1 DEF Update!Effective, Update!Interrupted
<1>18. CASE Update!MoveBack
  <2>1. journal # <<>> /\ UNCHANGED <<journal, proved>>
    BY <1>18, <1>0 DEF Update!MoveBack, Update!Helper, Update!Give, PhaseInv
  <2> QED
    BY <2>1 DEF Update!Effective, Update!Interrupted
<1>19. CASE Update!DropJournal
  <2>1. /\ journal # <<>> /\ UNCHANGED <<installed, proved>> /\ (journal' = <<>> \/ journal' = journal)
        /\ installed[1] = journal[1]
    BY <1>19, <1>0, <1>b DEF Update!DropJournal, Update!Helper, Update!Give, Update!dirs, PhaseInv,
                         JournalInv, Kept
  <2> QED
    BY <2>1 DEF Update!Effective, Update!Interrupted
<1>20. CASE Update!RestartPrevious
  BY <1>20, <1>0 DEF Update!RestartPrevious, Update!Helper, Update!Give, Update!Fault,
     Update!Run, Update!dirs, Update!backend, Update!Effective, Update!Interrupted
<1>21. CASE Update!SuperviseEnds
  BY <1>21, <1>0 DEF Update!SuperviseEnds, Update!Helper, Update!dirs, Update!backend,
     Update!Effective, Update!Interrupted
<1>22. CASE Update!Crash
  BY <1>22, <1>0 DEF Update!Crash, Update!Fault, Update!dirs, Update!Effective,
     Update!Interrupted
<1>23. CASE UNCHANGED updateVars
  BY <1>23, <1>0 DEF updateVars, Update!Effective, Update!Interrupted
<1> QED
  BY <1>1, <1>2, <1>3, <1>4, <1>5, <1>6, <1>7, <1>8, <1>9, <1>10, <1>11, <1>12, <1>13, <1>14,
     <1>15, <1>16, <1>17, <1>18, <1>19, <1>20, <1>21, <1>22, <1>23
     DEF Update!Next, Update!HelperStep

(* BinaryUpdate implements AtomicBundle: swap, journal, rollback and       *)
(* recoveries are a switch in one step, to a version seen healthy.         *)
THEOREM UpdatesSwitchAtomically == PartsSpec => SwitchIsAtomic
<1>1. PartsInit => Update!Atomic!Init
  <2> SUFFICES ASSUME Update!Init
               PROVE  Update!Atomic!Init
    BY DEF PartsInit
  <2>1. 1 \in 1 .. Files
    BY PartsAssumption DEF PartsAssumption
  <2> QED
    BY <2>1 DEF Update!Init, Update!All, Update!Atomic!Init, Update!Effective, Update!Interrupted
<1>2. UpdateInv /\ [PartsNext]_partsVars => [Update!Atomic!Next]_<<Update!Effective, proved>>
  BY UpdateSteps, StepsAreAtomic
<1> QED
  BY <1>1, <1>2, UpdateInvAlways, PTL DEF PartsSpec, SwitchIsAtomic, Update!SwitchIsAtomic, Update!Atomic!Spec
-----------------------------------------------------------------------------
(***************************************************************************)
(* GroupMemory.                                                            *)
(***************************************************************************)
(* A step of the composition is a step of the leases or leaves them alone. *)
LEMMA MemorySteps == [PartsNext]_partsVars => Memory!Next \/ UNCHANGED memoryVars
<1>1. CASE UNCHANGED partsVars
  BY <1>1 DEF partsVars
<1>2. CASE PartsNext
  BY <1>2 DEF PartsNext
<1> QED
  BY <1>1, <1>2

(* The marker and the kinds of write leases stay Boolean.                  *)
LEMMA MemoryFlags ==
  ASSUME Memory!TypeOK, Memory!Next \/ UNCHANGED memoryVars
  PROVE  marker' \in BOOLEAN /\ repair' \in [Handles -> BOOLEAN]
<1>0. marker \in BOOLEAN /\ repair \in [Handles -> BOOLEAN]
  BY DEF Memory!TypeOK
<1>1. ASSUME NEW h \in Handles, NEW l \in MemoryLeases,
             Memory!ReadLock(h, l)
      PROVE  marker' \in BOOLEAN /\ repair' \in [Handles -> BOOLEAN]
  BY <1>1, <1>0, Zenon DEF Memory!ReadLock, Memory!Reads, Memory!Locked, Memory!header,
     Memory!payload
<1>2. ASSUME NEW h \in Handles, NEW l \in MemoryLeases,
             Memory!ReadCheck(h, l)
      PROVE  marker' \in BOOLEAN /\ repair' \in [Handles -> BOOLEAN]
  BY <1>2, <1>0, Zenon DEF Memory!ReadCheck, Memory!Unclean, Memory!Reads, Memory!Unlocked,
     Memory!Locked, Memory!header, Memory!payload
<1>3. ASSUME NEW h \in Handles, NEW l \in MemoryLeases,
             Memory!ReadDrop(h, l)
      PROVE  marker' \in BOOLEAN /\ repair' \in [Handles -> BOOLEAN]
  BY <1>3, <1>0, Zenon DEF Memory!ReadDrop, Memory!Reads, Memory!Unlocked, Memory!Locked,
     Memory!header, Memory!payload
<1>4. ASSUME NEW h \in Handles,
             Memory!WriteLock(h)
      PROVE  marker' \in BOOLEAN /\ repair' \in [Handles -> BOOLEAN]
  BY <1>4, <1>0 DEF Memory!WriteLock, Memory!header
<1>5. ASSUME NEW h \in Handles,
             Memory!WriteBegin(h)
      PROVE  marker' \in BOOLEAN /\ repair' \in [Handles -> BOOLEAN]
  BY <1>5, <1>0, Zenon DEF Memory!WriteBegin, Memory!Unclean, Memory!Writes, Memory!Unlocked,
     Memory!Locked, Memory!header, Memory!payload
<1>6. ASSUME NEW h \in Handles,
             Memory!WriteFirst(h)
      PROVE  marker' \in BOOLEAN /\ repair' \in [Handles -> BOOLEAN]
  BY <1>6, <1>0, Zenon DEF Memory!WriteFirst, Memory!Writes, Memory!header
<1>7. ASSUME NEW h \in Handles,
             Memory!WriteSecond(h)
      PROVE  marker' \in BOOLEAN /\ repair' \in [Handles -> BOOLEAN]
  BY <1>7, <1>0, Zenon DEF Memory!WriteSecond, Memory!Writes, Memory!header
<1>8. ASSUME NEW h \in Handles,
             Memory!WriteCommit(h)
      PROVE  marker' \in BOOLEAN /\ repair' \in [Handles -> BOOLEAN]
  BY <1>8, <1>0, Zenon DEF Memory!WriteCommit, Memory!Writes, Memory!payload
<1>9. ASSUME NEW h \in Handles,
             Memory!WriteDrop(h)
      PROVE  marker' \in BOOLEAN /\ repair' \in [Handles -> BOOLEAN]
  BY <1>9, <1>0, Zenon DEF Memory!WriteDrop, Memory!Unlocked, Memory!Locked,
     Memory!MarkerOnDrop, Memory!payload
<1>10. ASSUME NEW h \in Handles,
             Memory!Dies(h)
      PROVE  marker' \in BOOLEAN /\ repair' \in [Handles -> BOOLEAN]
  BY <1>10, <1>0, Zenon DEF Memory!Dies, Memory!Unlocked, Memory!Locked, Memory!header,
     Memory!payload
<1>11. CASE UNCHANGED memoryVars
  BY <1>11, <1>0, Zenon DEF memoryVars
<1> QED
  BY <1>1, <1>2, <1>3, <1>4, <1>5, <1>6, <1>7, <1>8, <1>9, <1>10, <1>11
     DEF Memory!Next

(* Locks, leases and header keep their types.                              *)
LEMMA MemoryTypes ==
  ASSUME Memory!TypeOK, Memory!Next \/ UNCHANGED memoryVars
  PROVE  /\ lock' \in [Handles -> {"none", "shared", "exclusive"}]
         /\ reading' \in [Handles -> [MemoryLeases -> {"none", "locked", "held"}]]
         /\ held' \in [Handles -> [MemoryLeases -> 0 .. MaxGen]]
         /\ wpc' \in [Handles -> {"none", "locked", "first", "second", "commit", "release"}]
         /\ gen' \in 0 .. MaxGen /\ first' \in 0 .. MaxGen /\ second' \in 0 .. MaxGen
<1>0. /\ lock \in [Handles -> {"none", "shared", "exclusive"}]
      /\ reading \in [Handles -> [MemoryLeases -> {"none", "locked", "held"}]]
      /\ held \in [Handles -> [MemoryLeases -> 0 .. MaxGen]]
      /\ wpc \in [Handles -> {"none", "locked", "first", "second", "commit", "release"}]
      /\ gen \in 0 .. MaxGen /\ first \in 0 .. MaxGen /\ second \in 0 .. MaxGen
  BY DEF Memory!TypeOK
<1>a. MaxGen \in Nat
  BY PartsAssumption DEF PartsAssumption
<1>1. ASSUME NEW h \in Handles, NEW l \in MemoryLeases,
             Memory!ReadLock(h, l)
      PROVE  /\ lock' \in [Handles -> {"none", "shared", "exclusive"}]
         /\ reading' \in [Handles -> [MemoryLeases -> {"none", "locked", "held"}]]
         /\ held' \in [Handles -> [MemoryLeases -> 0 .. MaxGen]]
         /\ wpc' \in [Handles -> {"none", "locked", "first", "second", "commit", "release"}]
         /\ gen' \in 0 .. MaxGen /\ first' \in 0 .. MaxGen /\ second' \in 0 .. MaxGen
  BY <1>1, <1>0, <1>a DEF Memory!ReadLock, Memory!Reads, Memory!Locked, Memory!header,
     Memory!payload
<1>2. ASSUME NEW h \in Handles, NEW l \in MemoryLeases,
             Memory!ReadCheck(h, l)
      PROVE  /\ lock' \in [Handles -> {"none", "shared", "exclusive"}]
         /\ reading' \in [Handles -> [MemoryLeases -> {"none", "locked", "held"}]]
         /\ held' \in [Handles -> [MemoryLeases -> 0 .. MaxGen]]
         /\ wpc' \in [Handles -> {"none", "locked", "first", "second", "commit", "release"}]
         /\ gen' \in 0 .. MaxGen /\ first' \in 0 .. MaxGen /\ second' \in 0 .. MaxGen
  <2>1. UNCHANGED <<wpc, gen, first, second>>
    BY <1>2 DEF Memory!ReadCheck, Memory!header, Memory!payload
  <2>2. CASE marker
    <3>1. held' = held /\ lock' = [lock EXCEPT ![h] = "none"]
          /\ reading' = [reading EXCEPT ![h][l] = "none"]
      BY <1>2, <2>2 DEF Memory!ReadCheck, Memory!Unclean, Memory!Reads, Memory!Unlocked, Memory!Locked
    <3> QED
      BY <2>1, <3>1, <1>0
  <2>3. CASE ~marker
    <3>1. held' = [held EXCEPT ![h][l] = first] /\ lock' = lock
          /\ reading' = [reading EXCEPT ![h][l] = "held"]
      BY <1>2, <2>3 DEF Memory!ReadCheck, Memory!Unclean, Memory!Reads
    <3> QED
      BY <2>1, <3>1, <1>0
  <2> QED
    BY <2>2, <2>3
<1>3. ASSUME NEW h \in Handles, NEW l \in MemoryLeases,
             Memory!ReadDrop(h, l)
      PROVE  /\ lock' \in [Handles -> {"none", "shared", "exclusive"}]
         /\ reading' \in [Handles -> [MemoryLeases -> {"none", "locked", "held"}]]
         /\ held' \in [Handles -> [MemoryLeases -> 0 .. MaxGen]]
         /\ wpc' \in [Handles -> {"none", "locked", "first", "second", "commit", "release"}]
         /\ gen' \in 0 .. MaxGen /\ first' \in 0 .. MaxGen /\ second' \in 0 .. MaxGen
  BY <1>3, <1>0, <1>a DEF Memory!ReadDrop, Memory!Reads, Memory!Unlocked, Memory!Locked,
     Memory!header, Memory!payload
<1>4. ASSUME NEW h \in Handles,
             Memory!WriteLock(h)
      PROVE  /\ lock' \in [Handles -> {"none", "shared", "exclusive"}]
         /\ reading' \in [Handles -> [MemoryLeases -> {"none", "locked", "held"}]]
         /\ held' \in [Handles -> [MemoryLeases -> 0 .. MaxGen]]
         /\ wpc' \in [Handles -> {"none", "locked", "first", "second", "commit", "release"}]
         /\ gen' \in 0 .. MaxGen /\ first' \in 0 .. MaxGen /\ second' \in 0 .. MaxGen
  BY <1>4, <1>0, <1>a DEF Memory!WriteLock, Memory!Writes, Memory!Locked, Memory!header,
     Memory!payload
<1>5. ASSUME NEW h \in Handles,
             Memory!WriteBegin(h)
      PROVE  /\ lock' \in [Handles -> {"none", "shared", "exclusive"}]
         /\ reading' \in [Handles -> [MemoryLeases -> {"none", "locked", "held"}]]
         /\ held' \in [Handles -> [MemoryLeases -> 0 .. MaxGen]]
         /\ wpc' \in [Handles -> {"none", "locked", "first", "second", "commit", "release"}]
         /\ gen' \in 0 .. MaxGen /\ first' \in 0 .. MaxGen /\ second' \in 0 .. MaxGen
  BY <1>5, <1>0, <1>a DEF Memory!WriteBegin, Memory!Unclean, Memory!Writes, Memory!Unlocked,
     Memory!Locked, Memory!header, Memory!payload
<1>6. ASSUME NEW h \in Handles,
             Memory!WriteFirst(h)
      PROVE  /\ lock' \in [Handles -> {"none", "shared", "exclusive"}]
         /\ reading' \in [Handles -> [MemoryLeases -> {"none", "locked", "held"}]]
         /\ held' \in [Handles -> [MemoryLeases -> 0 .. MaxGen]]
         /\ wpc' \in [Handles -> {"none", "locked", "first", "second", "commit", "release"}]
         /\ gen' \in 0 .. MaxGen /\ first' \in 0 .. MaxGen /\ second' \in 0 .. MaxGen
  BY <1>6, <1>0, <1>a DEF Memory!WriteFirst, Memory!Writes, Memory!header
<1>7. ASSUME NEW h \in Handles,
             Memory!WriteSecond(h)
      PROVE  /\ lock' \in [Handles -> {"none", "shared", "exclusive"}]
         /\ reading' \in [Handles -> [MemoryLeases -> {"none", "locked", "held"}]]
         /\ held' \in [Handles -> [MemoryLeases -> 0 .. MaxGen]]
         /\ wpc' \in [Handles -> {"none", "locked", "first", "second", "commit", "release"}]
         /\ gen' \in 0 .. MaxGen /\ first' \in 0 .. MaxGen /\ second' \in 0 .. MaxGen
  BY <1>7, <1>0, <1>a DEF Memory!WriteSecond, Memory!Writes, Memory!header
<1>8. ASSUME NEW h \in Handles,
             Memory!WriteCommit(h)
      PROVE  /\ lock' \in [Handles -> {"none", "shared", "exclusive"}]
         /\ reading' \in [Handles -> [MemoryLeases -> {"none", "locked", "held"}]]
         /\ held' \in [Handles -> [MemoryLeases -> 0 .. MaxGen]]
         /\ wpc' \in [Handles -> {"none", "locked", "first", "second", "commit", "release"}]
         /\ gen' \in 0 .. MaxGen /\ first' \in 0 .. MaxGen /\ second' \in 0 .. MaxGen
  BY <1>8, <1>0, <1>a DEF Memory!WriteCommit, Memory!Writes, Memory!payload
<1>9. ASSUME NEW h \in Handles,
             Memory!WriteDrop(h)
      PROVE  /\ lock' \in [Handles -> {"none", "shared", "exclusive"}]
         /\ reading' \in [Handles -> [MemoryLeases -> {"none", "locked", "held"}]]
         /\ held' \in [Handles -> [MemoryLeases -> 0 .. MaxGen]]
         /\ wpc' \in [Handles -> {"none", "locked", "first", "second", "commit", "release"}]
         /\ gen' \in 0 .. MaxGen /\ first' \in 0 .. MaxGen /\ second' \in 0 .. MaxGen
  BY <1>9, <1>0, <1>a DEF Memory!WriteDrop, Memory!Unlocked, Memory!Locked,
     Memory!MarkerOnDrop, Memory!payload
<1>10. ASSUME NEW h \in Handles,
             Memory!Dies(h)
      PROVE  /\ lock' \in [Handles -> {"none", "shared", "exclusive"}]
         /\ reading' \in [Handles -> [MemoryLeases -> {"none", "locked", "held"}]]
         /\ held' \in [Handles -> [MemoryLeases -> 0 .. MaxGen]]
         /\ wpc' \in [Handles -> {"none", "locked", "first", "second", "commit", "release"}]
         /\ gen' \in 0 .. MaxGen /\ first' \in 0 .. MaxGen /\ second' \in 0 .. MaxGen
  BY <1>10, <1>0, <1>a DEF Memory!Dies, Memory!Unlocked, Memory!Locked, Memory!header,
     Memory!payload
<1>11. CASE UNCHANGED memoryVars
  BY <1>11, <1>0, <1>a DEF memoryVars
<1> QED
  BY <1>1, <1>2, <1>3, <1>4, <1>5, <1>6, <1>7, <1>8, <1>9, <1>10, <1>11
     DEF Memory!Next

(* A handle has a shared lock for its read lease, an exclusive one for its *)
(* write lease, and then no other handle has one.                         *)
LEMMA LocksKeep ==
  ASSUME MemoryInv, Memory!OneLeaseEach, Memory!Next \/ UNCHANGED memoryVars
  PROVE  LocksInv'
<1>0. Memory!TypeOK /\ LocksInv /\ PayloadInv
  BY DEF MemoryInv
<1>a. /\ lock \in [Handles -> {"none", "shared", "exclusive"}]
      /\ reading \in [Handles -> [MemoryLeases -> {"none", "locked", "held"}]]
      /\ held \in [Handles -> [MemoryLeases -> 0 .. MaxGen]]
      /\ wpc \in [Handles -> {"none", "locked", "first", "second", "commit", "release"}]
  BY <1>0 DEF Memory!TypeOK
<1>1. ASSUME NEW h \in Handles, NEW l \in MemoryLeases,
             Memory!ReadLock(h, l)
      PROVE  LocksInv'
  BY <1>1, <1>0, <1>a DEF Memory!ReadLock, Memory!Reads, Memory!Locked, Memory!header,
     Memory!payload, LocksInv
<1>2. ASSUME NEW h \in Handles, NEW l \in MemoryLeases,
             Memory!ReadCheck(h, l)
      PROVE  LocksInv'
  <2>1. UNCHANGED wpc /\ reading[h][l] = "locked"
    BY <1>2 DEF Memory!ReadCheck, Memory!Reads
  <2>2. CASE marker
    <3>1. lock' = [lock EXCEPT ![h] = "none"] /\ reading' = [reading EXCEPT ![h][l] = "none"]
      BY <1>2, <2>2 DEF Memory!ReadCheck, Memory!Unclean, Memory!Reads, Memory!Unlocked,
         Memory!Locked
    <3>2. \A k \in MemoryLeases : reading'[h][k] = "none"
      BY <2>1, <3>1, <1>a DEF Memory!OneLeaseEach
    <3> QED
      BY <2>1, <3>1, <3>2, <1>0, <1>a DEF LocksInv
  <2>3. CASE ~marker
    <3>1. UNCHANGED lock /\ reading' = [reading EXCEPT ![h][l] = "held"]
      BY <1>2, <2>3 DEF Memory!ReadCheck, Memory!Unclean, Memory!Reads
    <3> QED
      BY <2>1, <3>1, <1>0, <1>a DEF LocksInv
  <2> QED
    BY <2>2, <2>3
<1>3. ASSUME NEW h \in Handles, NEW l \in MemoryLeases,
             Memory!ReadDrop(h, l)
      PROVE  LocksInv'
  BY <1>3, <1>0, <1>a DEF Memory!ReadDrop, Memory!OneLeaseEach, Memory!Reads, Memory!Unlocked,
     Memory!Locked, Memory!header, Memory!payload, LocksInv
<1>4. ASSUME NEW h \in Handles,
             Memory!WriteLock(h)
      PROVE  LocksInv'
  BY <1>4, <1>0, <1>a DEF Memory!WriteLock, Memory!Writes, Memory!Locked, Memory!header,
     Memory!payload, LocksInv
<1>5. ASSUME NEW h \in Handles,
             Memory!WriteBegin(h)
      PROVE  LocksInv'
  BY <1>5, <1>0, <1>a DEF Memory!WriteBegin, Memory!Unclean, Memory!Writes, Memory!Unlocked,
     Memory!Locked, Memory!header, Memory!payload, LocksInv
<1>6. ASSUME NEW h \in Handles,
             Memory!WriteFirst(h)
      PROVE  LocksInv'
  BY <1>6, <1>0, <1>a DEF Memory!WriteFirst, Memory!Writes, Memory!header, LocksInv
<1>7. ASSUME NEW h \in Handles,
             Memory!WriteSecond(h)
      PROVE  LocksInv'
  BY <1>7, <1>0, <1>a DEF Memory!WriteSecond, Memory!Writes, Memory!header, LocksInv
<1>8. ASSUME NEW h \in Handles,
             Memory!WriteCommit(h)
      PROVE  LocksInv'
  BY <1>8, <1>0, <1>a DEF Memory!WriteCommit, Memory!Writes, Memory!payload, LocksInv
<1>9. ASSUME NEW h \in Handles,
             Memory!WriteDrop(h)
      PROVE  LocksInv'
  BY <1>9, <1>0, <1>a DEF Memory!WriteDrop, Memory!Unlocked, Memory!Locked,
     Memory!MarkerOnDrop, Memory!payload, LocksInv
<1>10. ASSUME NEW h \in Handles,
             Memory!Dies(h)
      PROVE  LocksInv'
  BY <1>10, <1>0, <1>a DEF Memory!Dies, Memory!Unlocked, Memory!Locked, Memory!header,
     Memory!payload, LocksInv
<1>11. CASE UNCHANGED memoryVars
  BY <1>11, <1>0, <1>a DEF memoryVars, LocksInv
<1> QED
  BY <1>1, <1>2, <1>3, <1>4, <1>5, <1>6, <1>7, <1>8, <1>9, <1>10, <1>11
     DEF Memory!Next

(* Without the marker the payload is whole, and a lease exposes it.        *)
LEMMA PayloadKeeps ==
  ASSUME MemoryInv, Memory!OneLeaseEach, Memory!Next \/ UNCHANGED memoryVars
  PROVE  PayloadInv'
<1>0. Memory!TypeOK /\ LocksInv /\ PayloadInv
  BY DEF MemoryInv
<1>a. /\ lock \in [Handles -> {"none", "shared", "exclusive"}]
      /\ reading \in [Handles -> [MemoryLeases -> {"none", "locked", "held"}]]
      /\ held \in [Handles -> [MemoryLeases -> 0 .. MaxGen]]
      /\ wpc \in [Handles -> {"none", "locked", "first", "second", "commit", "release"}]
  BY <1>0 DEF Memory!TypeOK
<1>1. ASSUME NEW h \in Handles, NEW l \in MemoryLeases,
             Memory!ReadLock(h, l)
      PROVE  PayloadInv'
  BY <1>1, <1>0, <1>a DEF Memory!ReadLock, Memory!Reads, Memory!Locked, Memory!header,
     Memory!payload, PayloadInv, LocksInv
<1>2. ASSUME NEW h \in Handles, NEW l \in MemoryLeases,
             Memory!ReadCheck(h, l)
      PROVE  PayloadInv'
  BY <1>2, <1>0, <1>a DEF Memory!ReadCheck, Memory!OneLeaseEach, Memory!Unclean, Memory!Reads, Memory!Unlocked,
     Memory!Locked, Memory!header, Memory!payload, PayloadInv, LocksInv
<1>3. ASSUME NEW h \in Handles, NEW l \in MemoryLeases,
             Memory!ReadDrop(h, l)
      PROVE  PayloadInv'
  BY <1>3, <1>0, <1>a DEF Memory!ReadDrop, Memory!OneLeaseEach, Memory!Reads, Memory!Unlocked, Memory!Locked,
     Memory!header, Memory!payload, PayloadInv, LocksInv
<1>4. ASSUME NEW h \in Handles,
             Memory!WriteLock(h)
      PROVE  PayloadInv'
  BY <1>4, <1>0, <1>a DEF Memory!WriteLock, Memory!Writes, Memory!Locked, Memory!header,
     Memory!payload, PayloadInv, LocksInv
<1>5. ASSUME NEW h \in Handles,
             Memory!WriteBegin(h)
      PROVE  PayloadInv'
  BY <1>5, <1>0, <1>a DEF Memory!WriteBegin, Memory!Unclean, Memory!Writes, Memory!Unlocked,
     Memory!Locked, Memory!header, Memory!payload, PayloadInv, LocksInv
<1>6. ASSUME NEW h \in Handles,
             Memory!WriteFirst(h)
      PROVE  PayloadInv'
  BY <1>6, <1>0, <1>a DEF Memory!WriteFirst, Memory!Writes, Memory!header, PayloadInv, LocksInv
<1>7. ASSUME NEW h \in Handles,
             Memory!WriteSecond(h)
      PROVE  PayloadInv'
  BY <1>7, <1>0, <1>a DEF Memory!WriteSecond, Memory!Writes, Memory!header, PayloadInv, LocksInv
<1>8. ASSUME NEW h \in Handles,
             Memory!WriteCommit(h)
      PROVE  PayloadInv'
  BY <1>8, <1>0, <1>a DEF Memory!WriteCommit, Memory!Writes, Memory!payload, PayloadInv,
     LocksInv
<1>9. ASSUME NEW h \in Handles,
             Memory!WriteDrop(h)
      PROVE  PayloadInv'
  BY <1>9, <1>0, <1>a DEF Memory!WriteDrop, Memory!Unlocked, Memory!Locked,
     Memory!MarkerOnDrop, Memory!payload, PayloadInv, LocksInv
<1>10. ASSUME NEW h \in Handles,
             Memory!Dies(h)
      PROVE  PayloadInv'
  BY <1>10, <1>0, <1>a DEF Memory!Dies, Memory!Unlocked, Memory!Locked, Memory!header,
     Memory!payload, PayloadInv, LocksInv
<1>11. CASE UNCHANGED memoryVars
  BY <1>11, <1>0, <1>a DEF memoryVars, PayloadInv
<1> QED
  BY <1>1, <1>2, <1>3, <1>4, <1>5, <1>6, <1>7, <1>8, <1>9, <1>10, <1>11
     DEF Memory!Next

(* group-memory: locks, leases, header and payload keep their types,       *)
(* however many leases a handle has.                                       *)
LEMMA MemoryTypesAlways == PartsSpec => []Memory!TypeOK
<1>1. PartsInit => Memory!TypeOK
  <2> SUFFICES ASSUME Memory!Init
               PROVE  Memory!TypeOK
    BY DEF PartsInit
  <2>1. marker \in BOOLEAN /\ repair \in [Handles -> BOOLEAN]
    BY Zenon DEF Memory!Init
  <2>2. MaxGen \in Nat
    BY PartsAssumption DEF PartsAssumption
  <2> QED
    BY <2>1, <2>2 DEF Memory!Init, Memory!TypeOK
<1>2. Memory!TypeOK /\ [PartsNext]_partsVars => Memory!TypeOK'
  <2> SUFFICES ASSUME Memory!TypeOK, Memory!Next \/ UNCHANGED memoryVars
               PROVE  Memory!TypeOK'
    BY MemorySteps
  <2> QED
    BY MemoryFlags, MemoryTypes DEF Memory!TypeOK
<1> QED
  BY <1>1, <1>2, PTL DEF PartsSpec

(* group-memory: locks, marker and payload at every step of the leases, as *)
(* long as no handle has two read leases at once.                          *)
THEOREM MemoryInvAlways == PartsSpec /\ []Memory!OneLeaseEach => []MemoryInv
<1>1. PartsInit => LocksInv /\ PayloadInv
  <2> SUFFICES ASSUME Memory!Init
               PROVE  LocksInv /\ PayloadInv
    BY DEF PartsInit
  <2> QED
    BY DEF Memory!Init, LocksInv, PayloadInv
<1>2. MemoryInv /\ Memory!OneLeaseEach /\ [PartsNext]_partsVars => LocksInv' /\ PayloadInv'
  BY MemorySteps, LocksKeep, PayloadKeeps
<1>3. MemoryInv <=> Memory!TypeOK /\ LocksInv /\ PayloadInv
  BY DEF MemoryInv
<1> QED
  BY <1>1, <1>2, <1>3, MemoryTypesAlways, PTL DEF PartsSpec

(* read_lease: what a lease exposes is whole and does not change while it  *)
(* is held, for any number of handles, as long as none of them has two     *)
(* read leases at once: they share one descriptor, and read_lease(&self)   *)
(* leaves it to the callers that the first one dropped does not unlock the *)
(* region under the other.                                                 *)
THEOREM LeasesAreStable == PartsSpec /\ []Memory!OneLeaseEach => []LeaseIsStable
<1>1. MemoryInv => LeaseIsStable
  BY DEF MemoryInv, PayloadInv, LeaseIsStable, Memory!LeaseIsStable
<1> QED
  BY <1>1, MemoryInvAlways, PTL
-----------------------------------------------------------------------------
(***************************************************************************)
(* ProjectActivation.                                                      *)
(***************************************************************************)
(* The steps of the processes, the lease and the bounds.                   *)
LEMMA StepTypes ==
  ASSUME InstallInv, Install!Next \/ UNCHANGED installVars
  PROVE  /\ installPc' \in [Install!Processes -> Install!Steps] /\ lease' \in {"free"} \cup Install!Processes
         /\ marks' \in [Install!Processes -> 0 .. Marks] /\ installFaults' \in 0 .. InstallFaults
<1>0. Install!TypeOK /\ LeaseInv /\ TargetInv /\ ForceInv
  BY DEF InstallInv
<1>a. /\ Marks \in Nat \ {0} /\ InstallFaults \in Nat
      /\ "boot" \notin Roots /\ "free" \notin Roots
      /\ \A r \in Roots : Requirements[r] \subseteq Nat
  BY PartsAssumption DEF PartsAssumption
<1>b. Roots \subseteq Install!Processes /\ "boot" \in Install!Processes
  BY DEF Install!Processes, Install!Boot
<1>d. /\ installPc \in [Install!Processes -> Install!Steps] /\ lease \in {"free"} \cup Install!Processes
      /\ marks \in [Install!Processes -> 0 .. Marks] /\ installFaults \in 0 .. InstallFaults
  BY <1>0 DEF Install!TypeOK, Install!Free
<1>e. \A r \in Roots : installPc[r] = "mark" => marks[r] < Marks
  BY <1>0 DEF TargetInv
<1>1. ASSUME NEW p \in Roots, NEW q \in Requirements[p],
             Install!ReadManifest(p, q)
      PROVE  /\ installPc' \in [Install!Processes -> Install!Steps] /\ lease' \in {"free"} \cup Install!Processes
         /\ marks' \in [Install!Processes -> 0 .. Marks] /\ installFaults' \in 0 .. InstallFaults
  BY <1>1, <1>d, <1>a, <1>b DEF Install!ReadManifest, Install!Go, Install!Pair, Install!files,
     Install!None, Install!Steps
<1>2. ASSUME NEW p \in Roots,
             Install!ReadLock(p)
      PROVE  /\ installPc' \in [Install!Processes -> Install!Steps] /\ lease' \in {"free"} \cup Install!Processes
         /\ marks' \in [Install!Processes -> 0 .. Marks] /\ installFaults' \in 0 .. InstallFaults
  <2>1. CASE Install!Leave(p)
    BY <1>2, <2>1, <1>d, <1>a, <1>b DEF Install!ReadLock, Install!Leave, Install!Free, Install!Steps
  <2>2. CASE Install!Go(p, "loading", "loaded") /\ UNCHANGED <<lease, marks>>
    BY <1>2, <2>2, <1>d, <1>b DEF Install!ReadLock, Install!Go, Install!Steps
  <2> QED
    BY <1>2, <2>1, <2>2 DEF Install!ReadLock
<1>3. ASSUME NEW p \in Roots,
             Install!Acquire(p, "loaded")
      PROVE  /\ installPc' \in [Install!Processes -> Install!Steps] /\ lease' \in {"free"} \cup Install!Processes
         /\ marks' \in [Install!Processes -> 0 .. Marks] /\ installFaults' \in 0 .. InstallFaults
  BY <1>3, <1>d, <1>a, <1>b, SMTT(60) DEF Install!Acquire, Install!Go, Install!Leave, Install!files,
     Install!None, Install!Free, Install!Steps
<1>4. CASE Install!Acquire("boot", "idle")
  BY <1>4, <1>d, <1>a, <1>b DEF Install!Acquire, Install!Go, Install!Leave, Install!files,
     Install!None, Install!Free, Install!Steps
<1>5. ASSUME NEW p \in Install!Processes,
             Install!Examine(p)
      PROVE  /\ installPc' \in [Install!Processes -> Install!Steps] /\ lease' \in {"free"} \cup Install!Processes
         /\ marks' \in [Install!Processes -> 0 .. Marks] /\ installFaults' \in 0 .. InstallFaults
  BY <1>5, <1>d, <1>a, <1>b DEF Install!Examine, Install!Go, Install!Leave, Install!files,
     Install!None, Install!Free, Install!Steps
<1>6. ASSUME NEW p \in Install!Processes,
             Install!Republish(p)
      PROVE  /\ installPc' \in [Install!Processes -> Install!Steps] /\ lease' \in {"free"} \cup Install!Processes
         /\ marks' \in [Install!Processes -> 0 .. Marks] /\ installFaults' \in 0 .. InstallFaults
  BY <1>6, <1>d, <1>a, <1>b DEF Install!Republish, Install!Go, Install!Pair, Install!Steps
<1>7. ASSUME NEW p \in Install!Processes,
             Install!Unstage(p)
      PROVE  /\ installPc' \in [Install!Processes -> Install!Steps] /\ lease' \in {"free"} \cup Install!Processes
         /\ marks' \in [Install!Processes -> 0 .. Marks] /\ installFaults' \in 0 .. InstallFaults
  BY <1>7, <1>d, <1>a, <1>b DEF Install!Unstage, Install!Go, Install!None, Install!Steps
<1>8. ASSUME NEW p \in Install!Processes,
             Install!Forget(p)
      PROVE  /\ installPc' \in [Install!Processes -> Install!Steps] /\ lease' \in {"free"} \cup Install!Processes
         /\ marks' \in [Install!Processes -> 0 .. Marks] /\ installFaults' \in 0 .. InstallFaults
  BY <1>8, <1>d, <1>a, <1>b DEF Install!Forget, Install!Go, Install!Leave, Install!None,
     Install!Free, Install!Boot, Install!Steps
<1>9. ASSUME NEW p \in Roots,
             Install!Begin(p)
      PROVE  /\ installPc' \in [Install!Processes -> Install!Steps] /\ lease' \in {"free"} \cup Install!Processes
         /\ marks' \in [Install!Processes -> 0 .. Marks] /\ installFaults' \in 0 .. InstallFaults
  BY <1>9, <1>d, <1>a, <1>b DEF Install!Begin, Install!Go, Install!Session, Install!Steps
<1>10. ASSUME NEW p \in Roots,
             Install!Mark(p)
      PROVE  /\ installPc' \in [Install!Processes -> Install!Steps] /\ lease' \in {"free"} \cup Install!Processes
         /\ marks' \in [Install!Processes -> 0 .. Marks] /\ installFaults' \in 0 .. InstallFaults
  <2>1. CASE Install!Leave(p)
    BY <1>10, <2>1, <1>d, <1>a, <1>b DEF Install!Mark, Install!Leave, Install!Free, Install!Steps
  <2>2. CASE /\ Install!Go(p, "mark", IF marks[p] + 1 = Marks THEN "stage" ELSE "mark")
             /\ marks' = [marks EXCEPT ![p] = marks[p] + 1] /\ UNCHANGED lease
    <3>1. marks[p] + 1 \in 0 .. Marks
      BY <2>2, <1>d, <1>e, <1>a, <1>b DEF Install!Go
    <3>2. UNCHANGED installFaults
      BY <1>10 DEF Install!Mark
    <3> QED
      BY <2>2, <3>1, <3>2, <1>d, <1>b DEF Install!Go, Install!Steps
  <2> QED
    BY <1>10, <2>1, <2>2 DEF Install!Mark, Install!StageFirst
<1>11. ASSUME NEW p \in Roots,
             Install!Stage(p)
      PROVE  /\ installPc' \in [Install!Processes -> Install!Steps] /\ lease' \in {"free"} \cup Install!Processes
         /\ marks' \in [Install!Processes -> 0 .. Marks] /\ installFaults' \in 0 .. InstallFaults
  BY <1>11, <1>d, <1>a, <1>b DEF Install!Stage, Install!Go, Install!Steps
<1>12. ASSUME NEW p \in Roots,
             Install!Swap(p)
      PROVE  /\ installPc' \in [Install!Processes -> Install!Steps] /\ lease' \in {"free"} \cup Install!Processes
         /\ marks' \in [Install!Processes -> 0 .. Marks] /\ installFaults' \in 0 .. InstallFaults
  BY <1>12, <1>d, <1>a, <1>b DEF Install!Swap, Install!Go, Install!Steps
<1>13. ASSUME NEW p \in Roots,
             Install!Publish(p)
      PROVE  /\ installPc' \in [Install!Processes -> Install!Steps] /\ lease' \in {"free"} \cup Install!Processes
         /\ marks' \in [Install!Processes -> 0 .. Marks] /\ installFaults' \in 0 .. InstallFaults
  BY <1>13, <1>d, <1>a, <1>b DEF Install!Publish, Install!Go, Install!Steps
<1>14. ASSUME NEW p \in Roots,
             Install!Clean(p)
      PROVE  /\ installPc' \in [Install!Processes -> Install!Steps] /\ lease' \in {"free"} \cup Install!Processes
         /\ marks' \in [Install!Processes -> 0 .. Marks] /\ installFaults' \in 0 .. InstallFaults
  BY <1>14, <1>d, <1>a, <1>b DEF Install!Clean, Install!Go, Install!None, Install!Steps
<1>15. ASSUME NEW p \in Roots,
             Install!Commit(p)
      PROVE  /\ installPc' \in [Install!Processes -> Install!Steps] /\ lease' \in {"free"} \cup Install!Processes
         /\ marks' \in [Install!Processes -> 0 .. Marks] /\ installFaults' \in 0 .. InstallFaults
  BY <1>15, <1>d, <1>a, <1>b DEF Install!Commit, Install!Go, Install!Session, Install!Steps
<1>16. ASSUME NEW p \in Roots,
             Install!Close(p)
      PROVE  /\ installPc' \in [Install!Processes -> Install!Steps] /\ lease' \in {"free"} \cup Install!Processes
         /\ marks' \in [Install!Processes -> 0 .. Marks] /\ installFaults' \in 0 .. InstallFaults
  BY <1>16, <1>d, <1>a, <1>b DEF Install!Close, Install!Leave, Install!None, Install!Free,
     Install!Steps
<1>17. ASSUME NEW p \in Install!Processes,
             Install!Fails(p)
      PROVE  /\ installPc' \in [Install!Processes -> Install!Steps] /\ lease' \in {"free"} \cup Install!Processes
         /\ marks' \in [Install!Processes -> 0 .. Marks] /\ installFaults' \in 0 .. InstallFaults
  BY <1>17, <1>d, <1>a, <1>b DEF Install!Fails, Install!Leave, Install!files, Install!None,
     Install!Free, Install!Steps
<1>18. CASE UNCHANGED installVars
  BY <1>18, <1>d, <1>a, <1>b DEF installVars, Install!Steps
<1> QED
  BY <1>1, <1>2, <1>3, <1>4, <1>5, <1>6, <1>7, <1>8, <1>9, <1>10, <1>11, <1>12, <1>13, <1>14,
     <1>15, <1>16, <1>17, <1>18
     DEF Install!Next, Install!BootStep, Install!Recovery, Install!Activation, Install!Proceed,
     Install!Processes, Install!Boot

(* Manifests and locks have a number for every root.                       *)
LEMMA ProjectTypes ==
  ASSUME InstallInv, Install!Next \/ UNCHANGED installVars
  PROVE  ProjectsTyped'
<1>0. Install!TypeOK /\ LeaseInv /\ TargetInv /\ ForceInv
  BY DEF InstallInv
<1>a. /\ Marks \in Nat \ {0} /\ InstallFaults \in Nat
      /\ "boot" \notin Roots /\ "free" \notin Roots
      /\ \A r \in Roots : Requirements[r] \subseteq Nat
  BY PartsAssumption DEF PartsAssumption
<1>b. Roots \subseteq Install!Processes /\ "boot" \in Install!Processes
  BY DEF Install!Processes, Install!Boot
<1>d. /\ manifest \in Install!Projects /\ projectLock \in Install!Projects
      /\ nextManifest \in {<<>>} \cup Install!Projects
      /\ session = <<>> \/ (session.manifest \in Install!Projects /\ session.lock \in Install!Projects)
  BY <1>0 DEF Install!TypeOK, Install!None
<1>e. \A r \in Roots : installPc[r] \in Planned =>
        target[r].manifest \in Install!Projects /\ target[r].lock \in Install!Projects
  BY <1>0 DEF TargetInv, Loaded
<1>f. \A r \in Install!Processes : installPc[r] = "republish" => nextManifest \in Install!Projects
  BY <1>0, <1>d DEF ForceInv
<1>1. ASSUME NEW p \in Roots, NEW q \in Requirements[p],
             Install!ReadManifest(p, q)
      PROVE  ProjectsTyped'
  BY <1>1, <1>d DEF Install!ReadManifest, Install!Go, Install!Pair, Install!files,
     Install!None, ProjectsTyped
<1>2. ASSUME NEW p \in Roots,
             Install!ReadLock(p)
      PROVE  ProjectsTyped'
  BY <1>2, <1>d DEF Install!ReadLock, Install!Leave, Install!Go, Install!files, Install!None,
     Install!Free, ProjectsTyped
<1>3. ASSUME NEW p \in Roots,
             Install!Acquire(p, "loaded")
      PROVE  ProjectsTyped'
  BY <1>3, <1>d DEF Install!Acquire, Install!Go, Install!Leave, Install!files, Install!None,
     Install!Free, ProjectsTyped
<1>4. CASE Install!Acquire("boot", "idle")
  BY <1>4, <1>d DEF Install!Acquire, Install!Go, Install!Leave, Install!files, Install!None,
     Install!Free, ProjectsTyped
<1>5. ASSUME NEW p \in Install!Processes,
             Install!Examine(p)
      PROVE  ProjectsTyped'
  BY <1>5, <1>d DEF Install!Examine, Install!Go, Install!Leave, Install!files, Install!None,
     Install!Free, ProjectsTyped
<1>6. ASSUME NEW p \in Install!Processes,
             Install!Republish(p)
      PROVE  ProjectsTyped'
  <2>1. nextManifest \in Install!Projects /\ manifest' = nextManifest /\ UNCHANGED <<projectLock, nextManifest, session>>
    BY <1>6, <1>f DEF Install!Republish, Install!Go
  <2> QED
    BY <1>d, <2>1 DEF ProjectsTyped
<1>7. ASSUME NEW p \in Install!Processes,
             Install!Unstage(p)
      PROVE  ProjectsTyped'
  BY <1>7, <1>d DEF Install!Unstage, Install!Go, Install!None, ProjectsTyped
<1>8. ASSUME NEW p \in Install!Processes,
             Install!Forget(p)
      PROVE  ProjectsTyped'
  BY <1>8, <1>d DEF Install!Forget, Install!Go, Install!Leave, Install!None, Install!Free,
     Install!Boot, ProjectsTyped
<1>9. ASSUME NEW p \in Roots,
             Install!Begin(p)
      PROVE  ProjectsTyped'
  <2>1. target[p].manifest \in Install!Projects /\ target[p].lock \in Install!Projects
    BY <1>9, <1>e DEF Planned, Install!Begin, Install!Go
  <2> QED
    BY <1>9, <1>d, <2>1 DEF Install!Begin, Install!Session, Install!None, ProjectsTyped
<1>10. ASSUME NEW p \in Roots,
             Install!Mark(p)
      PROVE  ProjectsTyped'
  <2>1. target[p].manifest \in Install!Projects /\ target[p].lock \in Install!Projects
    BY <1>10, <1>e DEF Planned, Install!Mark, Install!Go
  <2> QED
    BY <1>10, <1>d, <2>1 DEF Install!Mark, Install!Session, Install!None, ProjectsTyped
<1>11. ASSUME NEW p \in Roots,
             Install!Stage(p)
      PROVE  ProjectsTyped'
  <2>1. target[p].manifest \in Install!Projects /\ target[p].lock \in Install!Projects
    BY <1>11, <1>e DEF Planned, Install!Stage, Install!Go
  <2> QED
    BY <1>11, <1>d, <2>1 DEF Install!Stage, Install!Session, Install!None, ProjectsTyped
<1>12. ASSUME NEW p \in Roots,
             Install!Swap(p)
      PROVE  ProjectsTyped'
  <2>1. target[p].manifest \in Install!Projects /\ target[p].lock \in Install!Projects
    BY <1>12, <1>e DEF Planned, Install!Swap, Install!Go
  <2> QED
    BY <1>12, <1>d, <2>1 DEF Install!Swap, Install!Session, Install!None, ProjectsTyped
<1>13. ASSUME NEW p \in Roots,
             Install!Publish(p)
      PROVE  ProjectsTyped'
  <2>1. target[p].manifest \in Install!Projects /\ target[p].lock \in Install!Projects
    BY <1>13, <1>e DEF Planned, Install!Publish, Install!Go
  <2> QED
    BY <1>13, <1>d, <2>1 DEF Install!Publish, Install!Session, Install!None, ProjectsTyped
<1>14. ASSUME NEW p \in Roots,
             Install!Clean(p)
      PROVE  ProjectsTyped'
  BY <1>14, <1>d DEF Install!Clean, Install!Go, Install!None, ProjectsTyped
<1>15. ASSUME NEW p \in Roots,
             Install!Commit(p)
      PROVE  ProjectsTyped'
  <2>1. target[p].manifest \in Install!Projects /\ target[p].lock \in Install!Projects
    BY <1>15, <1>e DEF Planned, Install!Commit, Install!Go
  <2> QED
    BY <1>15, <1>d, <2>1 DEF Install!Commit, Install!Session, Install!None, ProjectsTyped
<1>16. ASSUME NEW p \in Roots,
             Install!Close(p)
      PROVE  ProjectsTyped'
  <2>1. target[p].manifest \in Install!Projects /\ target[p].lock \in Install!Projects
    BY <1>16, <1>e DEF Planned, Install!Close, Install!Go
  <2> QED
    BY <1>16, <1>d, <2>1 DEF Install!Close, Install!Session, Install!None, ProjectsTyped
<1>17. ASSUME NEW p \in Install!Processes,
             Install!Fails(p)
      PROVE  ProjectsTyped'
  BY <1>17, <1>d DEF Install!Fails, Install!Leave, Install!files, Install!None, Install!Free,
     ProjectsTyped
<1>18. CASE UNCHANGED installVars
  BY <1>18, <1>d DEF installVars, ProjectsTyped
<1> QED
  BY <1>1, <1>2, <1>3, <1>4, <1>5, <1>6, <1>7, <1>8, <1>9, <1>10, <1>11, <1>12, <1>13, <1>14,
     <1>15, <1>16, <1>17, <1>18
     DEF Install!Next, Install!BootStep, Install!Recovery, Install!Activation, Install!Proceed,
     Install!Processes, Install!Boot

(* Whoever is past the acquisition holds the lease, and nobody else does.  *)
LEMMA LeaseKeeps ==
  ASSUME InstallInv, Install!Next \/ UNCHANGED installVars
  PROVE  LeaseInv'
<1>0. Install!TypeOK /\ LeaseInv /\ TargetInv /\ ForceInv
  BY DEF InstallInv
<1>a. /\ "boot" \notin Roots /\ "free" \notin Install!Processes /\ Marks \in Nat \ {0}
      /\ \A r \in Roots : Requirements[r] \subseteq Nat
  BY PartsAssumption DEF PartsAssumption, Install!Processes, Install!Boot
<1>b. Roots \subseteq Install!Processes /\ "boot" \in Install!Processes
  BY DEF Install!Processes, Install!Boot
<1>d. /\ installPc \in [Install!Processes -> Install!Steps]
      /\ marks \in [Install!Processes -> 0 .. Marks]
  BY <1>0 DEF Install!TypeOK
<1>1. ASSUME NEW p \in Roots, NEW q \in Requirements[p],
             Install!ReadManifest(p, q)
      PROVE  LeaseInv'
  BY <1>1, <1>0, <1>a, <1>b, <1>d DEF Install!ReadManifest, Install!Go, Install!Pair,
     Install!files, Install!None, LeaseInv, Leased, Planned
<1>2. ASSUME NEW p \in Roots,
             Install!ReadLock(p)
      PROVE  LeaseInv'
  BY <1>2, <1>0, <1>a, <1>b, <1>d DEF Install!ReadLock, Install!Leave, Install!Go,
     Install!files, Install!None, Install!Free, LeaseInv, Leased, Planned
<1>3. ASSUME NEW p \in Roots,
             Install!Acquire(p, "loaded")
      PROVE  LeaseInv'
  BY <1>3, <1>0, <1>a, <1>b, <1>d DEF Install!Acquire, Install!Go, Install!Leave,
     Install!files, Install!None, Install!Free, LeaseInv, Leased, Planned
<1>4. CASE Install!Acquire("boot", "idle")
  BY <1>4, <1>0, <1>a, <1>b, <1>d DEF Install!Acquire, Install!Go, Install!Leave,
     Install!files, Install!None, Install!Free, LeaseInv, Leased, Planned
<1>5. ASSUME NEW p \in Install!Processes,
             Install!Examine(p)
      PROVE  LeaseInv'
  BY <1>5, <1>0, <1>a, <1>b, <1>d DEF Install!Examine, Install!Go, Install!Leave,
     Install!files, Install!None, Install!Free, LeaseInv, Leased, Planned
<1>6. ASSUME NEW p \in Install!Processes,
             Install!Republish(p)
      PROVE  LeaseInv'
  BY <1>6, <1>0, <1>a, <1>b, <1>d DEF Install!Republish, Install!Go, Install!Pair, LeaseInv,
     Leased, Planned
<1>7. ASSUME NEW p \in Install!Processes,
             Install!Unstage(p)
      PROVE  LeaseInv'
  BY <1>7, <1>0, <1>a, <1>b, <1>d DEF Install!Unstage, Install!Go, Install!None, LeaseInv,
     Leased, Planned
<1>8. ASSUME NEW p \in Install!Processes,
             Install!Forget(p)
      PROVE  LeaseInv'
  BY <1>8, <1>0, <1>a, <1>b, <1>d DEF Install!Forget, Install!Go, Install!Leave, Install!None,
     Install!Free, Install!Boot, LeaseInv, Leased, Planned
<1>9. ASSUME NEW p \in Roots,
             Install!Begin(p)
      PROVE  LeaseInv'
  BY <1>9, <1>0, <1>a, <1>b, <1>d DEF Install!Begin, Install!Go, Install!Session, LeaseInv,
     Leased, Planned
<1>10. ASSUME NEW p \in Roots,
             Install!Mark(p)
      PROVE  LeaseInv'
  BY <1>10, <1>0, <1>a, <1>b, <1>d DEF Install!Mark, Install!Go, Install!Leave,
     Install!Session, Install!StageFirst, Install!None, Install!Free, LeaseInv, Leased, Planned
<1>11. ASSUME NEW p \in Roots,
             Install!Stage(p)
      PROVE  LeaseInv'
  BY <1>11, <1>0, <1>a, <1>b, <1>d DEF Install!Stage, Install!Go, LeaseInv, Leased, Planned
<1>12. ASSUME NEW p \in Roots,
             Install!Swap(p)
      PROVE  LeaseInv'
  BY <1>12, <1>0, <1>a, <1>b, <1>d DEF Install!Swap, Install!Go, LeaseInv, Leased, Planned
<1>13. ASSUME NEW p \in Roots,
             Install!Publish(p)
      PROVE  LeaseInv'
  BY <1>13, <1>0, <1>a, <1>b, <1>d DEF Install!Publish, Install!Go, LeaseInv, Leased, Planned
<1>14. ASSUME NEW p \in Roots,
             Install!Clean(p)
      PROVE  LeaseInv'
  BY <1>14, <1>0, <1>a, <1>b, <1>d DEF Install!Clean, Install!Go, Install!None, LeaseInv,
     Leased, Planned
<1>15. ASSUME NEW p \in Roots,
             Install!Commit(p)
      PROVE  LeaseInv'
  BY <1>15, <1>0, <1>a, <1>b, <1>d DEF Install!Commit, Install!Go, Install!Session, LeaseInv,
     Leased, Planned
<1>16. ASSUME NEW p \in Roots,
             Install!Close(p)
      PROVE  LeaseInv'
  BY <1>16, <1>0, <1>a, <1>b, <1>d DEF Install!Close, Install!Leave, Install!None,
     Install!Free, LeaseInv, Leased, Planned
<1>17. ASSUME NEW p \in Install!Processes,
             Install!Fails(p)
      PROVE  LeaseInv'
  BY <1>17, <1>0, <1>a, <1>b, <1>d DEF Install!Fails, Install!Leave, Install!files,
     Install!None, Install!Free, LeaseInv, Leased, Planned
<1>18. CASE UNCHANGED installVars
  BY <1>18, <1>0, <1>a, <1>b, <1>d DEF installVars, LeaseInv, Leased, Planned
<1> QED
  BY <1>1, <1>2, <1>3, <1>4, <1>5, <1>6, <1>7, <1>8, <1>9, <1>10, <1>11, <1>12, <1>13, <1>14,
     <1>15, <1>16, <1>17, <1>18
     DEF Install!Next, Install!BootStep, Install!Recovery, Install!Activation, Install!Proceed,
     Install!Processes, Install!Boot

(* load_named_install_target merges a whole project.                       *)
LEMMA MergedIsProject ==
  ASSUME NEW p \in Roots, target[p] \in Loading, projectLock \in Install!Projects
  PROVE  Install!Merged(p) \in Install!Projects
<1>1. \A q \in Nat : Install!Version(q) \in Nat
  BY DEF Install!Version
<1>2. target[p].manifest \in [Roots -> Nat] /\ projectLock \in [Roots -> Nat]
  BY DEF Loading, Install!Projects
<1>3. \A r \in Roots : Install!Version(target[p].manifest[r]) \in Nat /\ projectLock[r] \in Nat
  BY <1>1, <1>2
<1> QED
  BY <1>3 DEF Install!Merged, Install!Projects

(* A target is none, a manifest, or a manifest with its lock.              *)
LEMMA TargetTypes ==
  ASSUME InstallInv, Install!Next \/ UNCHANGED installVars
  PROVE  target' \in [Install!Processes -> {<<>>} \cup Loading \cup Loaded]
<1>0. Install!TypeOK /\ LeaseInv /\ TargetInv /\ ForceInv
  BY DEF InstallInv
<1>a. /\ "boot" \notin Roots /\ "free" \notin Install!Processes /\ Marks \in Nat \ {0}
      /\ \A r \in Roots : Requirements[r] \subseteq Nat
  BY PartsAssumption DEF PartsAssumption, Install!Processes, Install!Boot
<1>b. Roots \subseteq Install!Processes /\ "boot" \in Install!Processes
  BY DEF Install!Processes, Install!Boot
<1>d. /\ installPc \in [Install!Processes -> Install!Steps]
      /\ marks \in [Install!Processes -> 0 .. Marks]
  BY <1>0 DEF Install!TypeOK
<1>e. /\ manifest \in Install!Projects /\ projectLock \in Install!Projects
      /\ target \in [Install!Processes -> {<<>>} \cup Loading \cup Loaded]
  BY <1>0 DEF Install!TypeOK, TargetInv
<1>1. ASSUME NEW p \in Roots, NEW q \in Requirements[p],
             Install!ReadManifest(p, q)
      PROVE  target' \in [Install!Processes -> {<<>>} \cup Loading \cup Loaded]
  <2>1. [manifest EXCEPT ![p] = q] \in Install!Projects
    BY <1>a, <1>e DEF Install!Projects
  <2>2. Install!Pair([manifest EXCEPT ![p] = q], <<>>) \in Loading
    BY <2>1 DEF Install!Pair, Loading
  <2> QED
    BY <1>1, <2>2, <1>e DEF Install!ReadManifest, Install!None
<1>2. ASSUME NEW p \in Roots,
             Install!ReadLock(p)
      PROVE  target' \in [Install!Processes -> {<<>>} \cup Loading \cup Loaded]
  <2>1. target[p] \in Loading /\ Install!Merged(p) \in Install!Projects
    BY <1>2, <1>0, <1>e, MergedIsProject DEF Install!ReadLock, TargetInv
  <2>2. [target[p] EXCEPT !.lock = Install!Merged(p)] \in Loaded
    BY <2>1 DEF Loading, Loaded
  <2>3. CASE Install!Leave(p)
    BY <2>3, <1>e DEF Install!Leave, Install!None
  <2>4. CASE target' = [target EXCEPT ![p].lock = Install!Merged(p)]
    BY <2>2, <2>4, <1>b, <1>e
  <2> QED
    BY <1>2, <2>3, <2>4 DEF Install!ReadLock
<1>3. ASSUME NEW p \in Roots,
             Install!Acquire(p, "loaded")
      PROVE  target' \in [Install!Processes -> {<<>>} \cup Loading \cup Loaded]
  BY <1>3, <1>e DEF Install!Acquire, Install!Go, Install!Leave, Install!files, Install!None,
     Install!Free
<1>4. CASE Install!Acquire("boot", "idle")
  BY <1>4, <1>e DEF Install!Acquire, Install!Go, Install!Leave, Install!files, Install!None,
     Install!Free
<1>5. ASSUME NEW p \in Install!Processes,
             Install!Examine(p)
      PROVE  target' \in [Install!Processes -> {<<>>} \cup Loading \cup Loaded]
  BY <1>5, <1>e DEF Install!Examine, Install!Go, Install!Leave, Install!files, Install!None,
     Install!Free
<1>6. ASSUME NEW p \in Install!Processes,
             Install!Republish(p)
      PROVE  target' \in [Install!Processes -> {<<>>} \cup Loading \cup Loaded]
  BY <1>6, <1>e DEF Install!Republish, Install!Go, Install!Pair
<1>7. ASSUME NEW p \in Install!Processes,
             Install!Unstage(p)
      PROVE  target' \in [Install!Processes -> {<<>>} \cup Loading \cup Loaded]
  BY <1>7, <1>e DEF Install!Unstage, Install!Go, Install!None
<1>8. ASSUME NEW p \in Install!Processes,
             Install!Forget(p)
      PROVE  target' \in [Install!Processes -> {<<>>} \cup Loading \cup Loaded]
  BY <1>8, <1>e DEF Install!Forget, Install!Go, Install!Leave, Install!None, Install!Free,
     Install!Boot
<1>9. ASSUME NEW p \in Roots,
             Install!Begin(p)
      PROVE  target' \in [Install!Processes -> {<<>>} \cup Loading \cup Loaded]
  BY <1>9, <1>e DEF Install!Begin, Install!Go, Install!Session
<1>10. ASSUME NEW p \in Roots,
             Install!Mark(p)
      PROVE  target' \in [Install!Processes -> {<<>>} \cup Loading \cup Loaded]
  BY <1>10, <1>e DEF Install!Mark, Install!Go, Install!Leave, Install!Session,
     Install!StageFirst, Install!None, Install!Free
<1>11. ASSUME NEW p \in Roots,
             Install!Stage(p)
      PROVE  target' \in [Install!Processes -> {<<>>} \cup Loading \cup Loaded]
  BY <1>11, <1>e DEF Install!Stage, Install!Go
<1>12. ASSUME NEW p \in Roots,
             Install!Swap(p)
      PROVE  target' \in [Install!Processes -> {<<>>} \cup Loading \cup Loaded]
  BY <1>12, <1>e DEF Install!Swap, Install!Go
<1>13. ASSUME NEW p \in Roots,
             Install!Publish(p)
      PROVE  target' \in [Install!Processes -> {<<>>} \cup Loading \cup Loaded]
  BY <1>13, <1>e DEF Install!Publish, Install!Go
<1>14. ASSUME NEW p \in Roots,
             Install!Clean(p)
      PROVE  target' \in [Install!Processes -> {<<>>} \cup Loading \cup Loaded]
  BY <1>14, <1>e DEF Install!Clean, Install!Go, Install!None
<1>15. ASSUME NEW p \in Roots,
             Install!Commit(p)
      PROVE  target' \in [Install!Processes -> {<<>>} \cup Loading \cup Loaded]
  BY <1>15, <1>e DEF Install!Commit, Install!Go, Install!Session
<1>16. ASSUME NEW p \in Roots,
             Install!Close(p)
      PROVE  target' \in [Install!Processes -> {<<>>} \cup Loading \cup Loaded]
  BY <1>16, <1>e DEF Install!Close, Install!Leave, Install!None, Install!Free
<1>17. ASSUME NEW p \in Install!Processes,
             Install!Fails(p)
      PROVE  target' \in [Install!Processes -> {<<>>} \cup Loading \cup Loaded]
  BY <1>17, <1>e DEF Install!Fails, Install!Leave, Install!files, Install!None, Install!Free
<1>18. CASE UNCHANGED installVars
  BY <1>18, <1>e DEF installVars
<1> QED
  BY <1>1, <1>2, <1>3, <1>4, <1>5, <1>6, <1>7, <1>8, <1>9, <1>10, <1>11, <1>12, <1>13, <1>14,
     <1>15, <1>16, <1>17, <1>18
     DEF Install!Next, Install!BootStep, Install!Recovery, Install!Activation, Install!Proceed,
     Install!Processes, Install!Boot

(* A target is planned before the lease is asked for.                      *)
LEMMA TargetKeeps ==
  ASSUME InstallInv, Install!Next \/ UNCHANGED installVars
  PROVE  TargetInv'
<1>0. Install!TypeOK /\ LeaseInv /\ TargetInv /\ ForceInv
  BY DEF InstallInv
<1>a. /\ "boot" \notin Roots /\ "free" \notin Install!Processes /\ Marks \in Nat \ {0}
      /\ \A r \in Roots : Requirements[r] \subseteq Nat
  BY PartsAssumption DEF PartsAssumption, Install!Processes, Install!Boot
<1>b. Roots \subseteq Install!Processes /\ "boot" \in Install!Processes
  BY DEF Install!Processes, Install!Boot
<1>d. /\ installPc \in [Install!Processes -> Install!Steps]
      /\ marks \in [Install!Processes -> 0 .. Marks]
  BY <1>0 DEF Install!TypeOK
<1>e. /\ manifest \in Install!Projects /\ projectLock \in Install!Projects
      /\ target \in [Install!Processes -> {<<>>} \cup Loading \cup Loaded]
  BY <1>0 DEF Install!TypeOK, TargetInv
<1>f. target' \in [Install!Processes -> {<<>>} \cup Loading \cup Loaded]
  BY TargetTypes
<1>1. ASSUME NEW p \in Roots, NEW q \in Requirements[p],
             Install!ReadManifest(p, q)
      PROVE  TargetInv'
  <2>1. [manifest EXCEPT ![p] = q] \in Install!Projects
    BY <1>a, <1>e DEF Install!Projects
  <2>2. Install!Pair([manifest EXCEPT ![p] = q], <<>>) \in Loading
    BY <2>1 DEF Install!Pair, Loading
  <2>3. /\ installPc[p] = "idle" /\ installPc' = [installPc EXCEPT ![p] = "loading"] /\ UNCHANGED marks
        /\ target' = [target EXCEPT ![p] = Install!Pair([manifest EXCEPT ![p] = q], <<>>)]
    BY <1>1 DEF Install!ReadManifest, Install!Go, Install!None
  <2> QED
    BY <2>2, <2>3, <1>0, <1>b, <1>d, <1>e, <1>f DEF TargetInv, Planned, Active
<1>2. ASSUME NEW p \in Roots,
             Install!ReadLock(p)
      PROVE  TargetInv'
  <2>1. target[p] \in Loading /\ Install!Merged(p) \in Install!Projects
    BY <1>2, <1>0, <1>e, MergedIsProject DEF Install!ReadLock, TargetInv
  <2>2. [target[p] EXCEPT !.lock = Install!Merged(p)] \in Loaded
    BY <2>1 DEF Loading, Loaded
  <2>3. CASE Install!Leave(p)
    BY <2>3, <1>0, <1>b, <1>d, <1>e, <1>f DEF Install!Leave, TargetInv, Planned, Active
  <2>4. CASE /\ installPc[p] = "loading" /\ installPc' = [installPc EXCEPT ![p] = "loaded"]
             /\ target' = [target EXCEPT ![p].lock = Install!Merged(p)] /\ UNCHANGED marks
    <3>1. target'[p] \in Loaded
      BY <2>2, <2>4, <1>b, <1>e
    <3> QED
      BY <2>4, <3>1, <1>0, <1>b, <1>d, <1>e, <1>f DEF TargetInv, Planned, Active
  <2> QED
    BY <1>2, <2>3, <2>4 DEF Install!ReadLock, Install!Go
<1>3. ASSUME NEW p \in Roots,
             Install!Acquire(p, "loaded")
      PROVE  TargetInv'
  BY <1>3, <1>0, <1>a, <1>b, <1>d, <1>e, <1>f DEF Install!Acquire, Install!Go, Install!Leave,
     Install!files, Install!None, Install!Free, TargetInv, Planned, Active
<1>4. CASE Install!Acquire("boot", "idle")
  BY <1>4, <1>0, <1>a, <1>b, <1>d, <1>e, <1>f DEF Install!Acquire, Install!Go, Install!Leave,
     Install!files, Install!None, Install!Free, TargetInv, Planned, Active
<1>5. ASSUME NEW p \in Install!Processes,
             Install!Examine(p)
      PROVE  TargetInv'
  BY <1>5, <1>0, <1>a, <1>b, <1>d, <1>e, <1>f DEF Install!Examine, Install!Go, Install!Leave,
     Install!files, Install!None, Install!Free, TargetInv, Planned, Active
<1>6. ASSUME NEW p \in Install!Processes,
             Install!Republish(p)
      PROVE  TargetInv'
  BY <1>6, <1>0, <1>a, <1>b, <1>d, <1>e, <1>f DEF Install!Republish, Install!Go, Install!Pair,
     TargetInv, Planned, Active
<1>7. ASSUME NEW p \in Install!Processes,
             Install!Unstage(p)
      PROVE  TargetInv'
  BY <1>7, <1>0, <1>a, <1>b, <1>d, <1>e, <1>f DEF Install!Unstage, Install!Go, Install!None,
     TargetInv, Planned, Active
<1>8. ASSUME NEW p \in Install!Processes,
             Install!Forget(p)
      PROVE  TargetInv'
  BY <1>8, <1>0, <1>a, <1>b, <1>d, <1>e, <1>f DEF Install!Forget, Install!Go, Install!Leave,
     Install!None, Install!Free, Install!Boot, TargetInv, Planned, Active
<1>9. ASSUME NEW p \in Roots,
             Install!Begin(p)
      PROVE  TargetInv'
  BY <1>9, <1>0, <1>a, <1>b, <1>d, <1>e, <1>f DEF Install!Begin, Install!Go, Install!Session,
     TargetInv, Planned, Active
<1>10. ASSUME NEW p \in Roots,
             Install!Mark(p)
      PROVE  TargetInv'
  BY <1>10, <1>0, <1>a, <1>b, <1>d, <1>e, <1>f DEF Install!Mark, Install!Go, Install!Leave,
     Install!Session, Install!StageFirst, Install!None, Install!Free, TargetInv, Planned, Active
<1>11. ASSUME NEW p \in Roots,
             Install!Stage(p)
      PROVE  TargetInv'
  BY <1>11, <1>0, <1>a, <1>b, <1>d, <1>e, <1>f DEF Install!Stage, Install!Go, TargetInv,
     Planned, Active
<1>12. ASSUME NEW p \in Roots,
             Install!Swap(p)
      PROVE  TargetInv'
  BY <1>12, <1>0, <1>a, <1>b, <1>d, <1>e, <1>f DEF Install!Swap, Install!Go, TargetInv,
     Planned, Active
<1>13. ASSUME NEW p \in Roots,
             Install!Publish(p)
      PROVE  TargetInv'
  BY <1>13, <1>0, <1>a, <1>b, <1>d, <1>e, <1>f DEF Install!Publish, Install!Go, TargetInv,
     Planned, Active
<1>14. ASSUME NEW p \in Roots,
             Install!Clean(p)
      PROVE  TargetInv'
  BY <1>14, <1>0, <1>a, <1>b, <1>d, <1>e, <1>f DEF Install!Clean, Install!Go, Install!None,
     TargetInv, Planned, Active
<1>15. ASSUME NEW p \in Roots,
             Install!Commit(p)
      PROVE  TargetInv'
  BY <1>15, <1>0, <1>a, <1>b, <1>d, <1>e, <1>f DEF Install!Commit, Install!Go, Install!Session,
     TargetInv, Planned, Active
<1>16. ASSUME NEW p \in Roots,
             Install!Close(p)
      PROVE  TargetInv'
  BY <1>16, <1>0, <1>a, <1>b, <1>d, <1>e, <1>f DEF Install!Close, Install!Leave, Install!None,
     Install!Free, TargetInv, Planned, Active
<1>17. ASSUME NEW p \in Install!Processes,
             Install!Fails(p)
      PROVE  TargetInv'
  BY <1>17, <1>0, <1>a, <1>b, <1>d, <1>e, <1>f DEF Install!Fails, Install!Leave, Install!files,
     Install!None, Install!Free, TargetInv, Planned, Active
<1>18. CASE UNCHANGED installVars
  BY <1>18, <1>0, <1>a, <1>b, <1>d, <1>e, <1>f DEF installVars, TargetInv, Planned, Active
<1> QED
  BY <1>1, <1>2, <1>3, <1>4, <1>5, <1>6, <1>7, <1>8, <1>9, <1>10, <1>11, <1>12, <1>13, <1>14,
     <1>15, <1>16, <1>17, <1>18
     DEF Install!Next, Install!BootStep, Install!Recovery, Install!Activation, Install!Proceed,
     Install!Processes, Install!Boot

(* What is in force is whole, at every step of activation and recovery.    *)
LEMMA ForceKeeps ==
  ASSUME InstallInv, Install!Next \/ UNCHANGED installVars
  PROVE  ForceInv'
<1>0. Install!TypeOK /\ LeaseInv /\ TargetInv /\ ForceInv
  BY DEF InstallInv
<1>a. /\ "boot" \notin Roots /\ "free" \notin Install!Processes /\ Marks \in Nat \ {0}
      /\ \A r \in Roots : Requirements[r] \subseteq Nat
  BY PartsAssumption DEF PartsAssumption, Install!Processes, Install!Boot
<1>b. Roots \subseteq Install!Processes /\ "boot" \in Install!Processes
  BY DEF Install!Processes, Install!Boot
<1>d. /\ installPc \in [Install!Processes -> Install!Steps]
      /\ marks \in [Install!Processes -> 0 .. Marks]
  BY <1>0 DEF Install!TypeOK
<1>e. /\ manifest \in Install!Projects /\ projectLock \in Install!Projects
      /\ target \in [Install!Processes -> {<<>>} \cup Loading \cup Loaded]
  BY <1>0 DEF Install!TypeOK, TargetInv
<1>f. /\ session = <<>> \/ (session.manifest \in Install!Projects /\ session.lock \in Install!Projects)
      /\ inForce \in Loaded
  BY <1>0 DEF Install!TypeOK, Install!None, ForceInv
<1>g. \A p, q \in Install!Processes : installPc[p] \in Leased /\ installPc[q] \in Leased => p = q
  BY <1>0 DEF LeaseInv
<1>1. ASSUME NEW p \in Roots, NEW q \in Requirements[p],
             Install!ReadManifest(p, q)
      PROVE  ForceInv'
  BY <1>1, <1>0, <1>b, <1>d, <1>e, <1>f, <1>g DEF Install!ReadManifest, Install!Go,
     Install!Pair, Install!files, Install!None, ForceInv, Install!ProjectIsWhole,
     Install!LockIsTarget, Leased, Planned, Active
<1>2. ASSUME NEW p \in Roots,
             Install!ReadLock(p)
      PROVE  ForceInv'
  BY <1>2, <1>0, <1>b, <1>d, <1>e, <1>f, <1>g DEF Install!ReadLock, Install!Leave, Install!Go,
     Install!files, Install!None, Install!Free, ForceInv, Install!ProjectIsWhole,
     Install!LockIsTarget, Leased, Planned, Active
<1>3. ASSUME NEW p \in Roots,
             Install!Acquire(p, "loaded")
      PROVE  ForceInv'
  BY <1>3, <1>0, <1>b, <1>d, <1>e, <1>f, <1>g DEF Install!Acquire, Install!Go, Install!Leave,
     Install!files, Install!None, Install!Free, ForceInv, Install!ProjectIsWhole,
     Install!LockIsTarget, Leased, Planned, Active
<1>4. CASE Install!Acquire("boot", "idle")
  BY <1>4, <1>0, <1>b, <1>d, <1>e, <1>f, <1>g DEF Install!Acquire, Install!Go, Install!Leave,
     Install!files, Install!None, Install!Free, ForceInv, Install!ProjectIsWhole,
     Install!LockIsTarget, Leased, Planned, Active
<1>5. ASSUME NEW p \in Install!Processes,
             Install!Examine(p)
      PROVE  ForceInv'
  BY <1>5, <1>0, <1>b, <1>d, <1>e, <1>f, <1>g DEF Install!Examine, Install!Go, Install!Leave,
     Install!files, Install!None, Install!Free, ForceInv, Install!ProjectIsWhole,
     Install!LockIsTarget, Leased, Planned, Active, Install!Unresolvable, Install!Published
<1>6. ASSUME NEW p \in Install!Processes,
             Install!Republish(p)
      PROVE  ForceInv'
  <2>1. installPc[p] = "republish" /\ installPc[p] \in Leased /\ p \in Install!Processes
    BY <1>6, <1>b DEF Install!Republish, Install!Go, Leased, Planned
  <2>2. \A q \in Install!Processes : q # p => installPc'[q] \notin Leased
    BY <1>6, <2>1, <1>d, <1>g DEF Install!Republish, Install!Go, Install!Leave
  <2>3. /\ session # <<>> /\ projectLock = session.lock /\ nextManifest = session.manifest
        /\ installPc'[p] = "unstage" /\ manifest' = nextManifest /\ UNCHANGED <<projectLock, nextManifest, session>>
        /\ inForce' = [manifest |-> session.manifest, lock |-> session.lock]
    BY <1>6, <2>1, <1>0, <1>d DEF Install!Republish, Install!Go, Install!Pair, ForceInv
  <2>4. inForce' \in Loaded /\ projectLock' = inForce'.lock /\ manifest' = inForce'.manifest
    BY <2>3, <1>f DEF Loaded
  <2> QED
    BY <2>2, <2>3, <2>4, <1>b DEF ForceInv, Install!ProjectIsWhole, Install!LockIsTarget, Install!None, Leased, Planned, Active
<1>7. ASSUME NEW p \in Install!Processes,
             Install!Unstage(p)
      PROVE  ForceInv'
  BY <1>7, <1>0, <1>b, <1>d, <1>e, <1>f, <1>g DEF Install!Unstage, Install!Go, Install!None,
     ForceInv, Install!ProjectIsWhole, Install!LockIsTarget, Leased, Planned, Active
<1>8. ASSUME NEW p \in Install!Processes,
             Install!Forget(p)
      PROVE  ForceInv'
  <2>1. installPc[p] = "forget" /\ installPc[p] \in Leased /\ p \in Install!Processes
    BY <1>8, <1>b DEF Install!Forget, Install!Go, Leased, Planned
  <2>2. \A q \in Install!Processes : q # p => installPc'[q] \notin Leased
    BY <1>8, <2>1, <1>d, <1>g DEF Install!Forget, Install!Go, Install!Leave
  <2>3. /\ installPc'[p] \in {"idle", "begin"} /\ session' = <<>> /\ UNCHANGED <<manifest, projectLock, nextManifest, inForce>>
        /\ manifest = inForce.manifest /\ projectLock = inForce.lock
    BY <1>8, <2>1, <1>0, <1>d DEF Install!Forget, Install!Go, Install!Leave, Install!None, ForceInv, Install!ProjectIsWhole
  <2> QED
    BY <2>2, <2>3, <1>b, <1>f DEF ForceInv, Install!ProjectIsWhole, Install!LockIsTarget, Install!None, Leased, Planned, Active
<1>9. ASSUME NEW p \in Roots,
             Install!Begin(p)
      PROVE  ForceInv'
  BY <1>9, <1>0, <1>b, <1>d, <1>e, <1>f, <1>g DEF Install!Begin, Install!Go, Install!Session,
     ForceInv, Install!ProjectIsWhole, Install!LockIsTarget, Install!None, Leased, Planned,
     Active
<1>10. ASSUME NEW p \in Roots,
             Install!Mark(p)
      PROVE  ForceInv'
  <2>1. installPc[p] = "mark" /\ installPc[p] \in Leased /\ p \in Install!Processes
    BY <1>10, <1>b DEF Install!Mark, Install!Go, Leased, Planned
  <2>2. \A q \in Install!Processes : q # p => installPc'[q] \notin Leased
    BY <1>10, <2>1, <1>d, <1>g DEF Install!Mark, Install!Go, Install!Leave
  <2>3. /\ UNCHANGED <<manifest, projectLock, nextManifest, inForce>>
        /\ manifest = inForce.manifest /\ projectLock = inForce.lock
    BY <1>10, <2>1, <1>0 DEF Install!Mark, ForceInv, Install!ProjectIsWhole
  <2>4. CASE Install!Leave(p) /\ UNCHANGED session
    <3>1. installPc'[p] = "idle"
      BY <2>1, <2>4, <1>d DEF Install!Leave
    <3> QED
      BY <2>2, <2>3, <2>4, <3>1, <1>b, <1>f DEF ForceInv, Install!ProjectIsWhole, Install!LockIsTarget, Install!None, Leased, Planned, Active
  <2>5. CASE /\ Install!Go(p, "mark", IF marks[p] + 1 = Marks THEN "stage" ELSE "mark")
             /\ session' = Install!Session(p, IF marks'[p] = Marks THEN "ready" ELSE "preparing")
             /\ UNCHANGED target
    <3>1. installPc'[p] \in {"stage", "mark"}
      BY <2>1, <2>5, <1>d DEF Install!Go
    <3>2. session'.manifest = target'[p].manifest /\ session'.lock = target'[p].lock
      BY <2>5 DEF Install!Session
    <3>3. session' # <<>>
      <4>1. "manifest" \in DOMAIN session'
        BY <2>5 DEF Install!Session
      <4> QED
        BY <4>1
    <3> QED
      BY <2>2, <2>3, <3>1, <3>2, <3>3, <1>b, <1>f DEF ForceInv, Install!ProjectIsWhole, Install!LockIsTarget, Install!None, Leased, Planned, Active
  <2> QED
    BY <1>10, <2>4, <2>5 DEF Install!Mark, Install!StageFirst
<1>11. ASSUME NEW p \in Roots,
             Install!Stage(p)
      PROVE  ForceInv'
  BY <1>11, <1>0, <1>b, <1>d, <1>e, <1>f, <1>g DEF Install!Stage, Install!Go, ForceInv,
     Install!ProjectIsWhole, Install!LockIsTarget, Install!None, Leased, Planned, Active
<1>12. ASSUME NEW p \in Roots,
             Install!Swap(p)
      PROVE  ForceInv'
  <2>1. installPc[p] = "swap" /\ installPc[p] \in Leased /\ p \in Install!Processes
    BY <1>12, <1>b DEF Install!Swap, Install!Go, Leased, Planned
  <2>2. \A q \in Install!Processes : q # p => installPc'[q] \notin Leased
    BY <1>12, <2>1, <1>d, <1>g DEF Install!Swap, Install!Go, Install!Leave
  <2>3. /\ installPc'[p] = "publish" /\ projectLock' = target[p].lock /\ inForce' = target[p]
        /\ UNCHANGED <<manifest, nextManifest, session, target>>
    BY <1>12, <2>1, <1>d DEF Install!Swap, Install!Go
  <2>4. /\ session # <<>> /\ session.manifest = target[p].manifest /\ session.lock = target[p].lock
        /\ nextManifest = target[p].manifest /\ target[p] \in Loaded
    BY <2>1, <1>12, <1>0 DEF ForceInv, TargetInv, Active, Planned
  <2>5. Install!ProjectIsWhole'
    BY <2>3, <2>4 DEF Install!ProjectIsWhole, Install!LockIsTarget, Install!None
  <2> QED
    BY <2>2, <2>3, <2>4, <2>5, <1>b DEF ForceInv, Leased, Planned, Active
<1>13. ASSUME NEW p \in Roots,
             Install!Publish(p)
      PROVE  ForceInv'
  BY <1>13, <1>0, <1>b, <1>d, <1>e, <1>f, <1>g DEF Install!Publish, Install!Go, ForceInv,
     Install!ProjectIsWhole, Install!LockIsTarget, Install!None, Leased, Planned, Active
<1>14. ASSUME NEW p \in Roots,
             Install!Clean(p)
      PROVE  ForceInv'
  BY <1>14, <1>0, <1>b, <1>d, <1>e, <1>f, <1>g DEF Install!Clean, Install!Go, Install!None,
     ForceInv, Install!ProjectIsWhole, Install!LockIsTarget, Leased, Planned, Active
<1>15. ASSUME NEW p \in Roots,
             Install!Commit(p)
      PROVE  ForceInv'
  BY <1>15, <1>0, <1>b, <1>d, <1>e, <1>f, <1>g DEF Install!Commit, Install!Go, Install!Session,
     ForceInv, Install!ProjectIsWhole, Install!LockIsTarget, Install!None, Leased, Planned,
     Active
<1>16. ASSUME NEW p \in Roots,
             Install!Close(p)
      PROVE  ForceInv'
  BY <1>16, <1>0, <1>b, <1>d, <1>e, <1>f, <1>g DEF Install!Close, Install!Leave, Install!None,
     Install!Free, ForceInv, Install!ProjectIsWhole, Install!LockIsTarget, Leased, Planned,
     Active
<1>17. ASSUME NEW p \in Install!Processes,
             Install!Fails(p)
      PROVE  ForceInv'
  BY <1>17, <1>0, <1>b, <1>d, <1>e, <1>f, <1>g DEF Install!Fails, Install!Leave, Install!files,
     Install!None, Install!Free, ForceInv, Install!ProjectIsWhole, Install!LockIsTarget,
     Leased, Planned, Active
<1>18. CASE UNCHANGED installVars
  BY <1>18, <1>0, <1>b, <1>d, <1>e, <1>f, <1>g DEF installVars, ForceInv,
     Install!ProjectIsWhole, Install!LockIsTarget, Install!None, Leased, Planned, Active
<1> QED
  BY <1>1, <1>2, <1>3, <1>4, <1>5, <1>6, <1>7, <1>8, <1>9, <1>10, <1>11, <1>12, <1>13, <1>14,
     <1>15, <1>16, <1>17, <1>18
     DEF Install!Next, Install!BootStep, Install!Recovery, Install!Activation, Install!Proceed,
     Install!Processes, Install!Boot

(* activation.rs and session.rs: lease, target, journal and files at every *)
(* step of installs, recoveries and boots.                                 *)
THEOREM InstallInvAlways == PartsSpec => []InstallInv
<1>1. PartsInit => InstallInv
  <2> SUFFICES ASSUME Install!Init
               PROVE  InstallInv
    BY DEF PartsInit
  <2>1. /\ "boot" \notin Roots /\ "free" \notin Install!Processes /\ Marks \in Nat \ {0}
        /\ InstallFaults \in Nat /\ Roots \subseteq Install!Processes /\ "boot" \in Install!Processes
    BY PartsAssumption DEF PartsAssumption, Install!Processes, Install!Boot
  <2>2. /\ manifest \in Install!Projects /\ projectLock \in Install!Projects
        /\ inForce = [manifest |-> manifest, lock |-> projectLock]
    BY DEF Install!Init, Install!Projects, Install!Pair
  <2>3. Install!TypeOK
    BY <2>1, <2>2 DEF Install!Init, Install!TypeOK, Install!Steps, Install!None, Install!Free
  <2>4. LeaseInv /\ TargetInv
    BY <2>1 DEF Install!Init, LeaseInv, TargetInv, Leased, Planned, Active, Install!Free, Install!None
  <2>5. ForceInv
    BY <2>1, <2>2 DEF Install!Init, ForceInv, Loaded, Install!ProjectIsWhole, Active
  <2> QED
    BY <2>3, <2>4, <2>5 DEF InstallInv
<1>2. [PartsNext]_partsVars => Install!Next \/ UNCHANGED installVars
  <2>1. CASE UNCHANGED partsVars
    BY <2>1 DEF partsVars
  <2>2. CASE PartsNext
    BY <2>2 DEF PartsNext
  <2> QED
    BY <2>1, <2>2
<1>3. InstallInv /\ [PartsNext]_partsVars => InstallInv'
  <2> SUFFICES ASSUME InstallInv, Install!Next \/ UNCHANGED installVars
               PROVE  InstallInv'
    BY <1>2
  <2>1. Install!TypeOK'
    BY StepTypes, ProjectTypes DEF Install!TypeOK, ProjectsTyped, Install!None, Install!Free
  <2> QED
    BY <2>1, LeaseKeeps, TargetKeeps, ForceKeeps DEF InstallInv
<1> QED
  BY <1>1, <1>3, PTL DEF PartsSpec

(* activate_project_target and its recovery: whoever died, manifest and    *)
(* lock are those of one activation, or the session makes them so.         *)
THEOREM ProjectsStayWhole == PartsSpec => []ProjectIsWhole
<1>1. InstallInv => ProjectIsWhole
  BY DEF InstallInv, ForceInv, ProjectIsWhole
<1> QED
  BY <1>1, InstallInvAlways, PTL
-----------------------------------------------------------------------------
(***************************************************************************)
(* TaskPublication: the allocation of OIDs.                                *)
(***************************************************************************)
(* An instance counts as this module does.                                 *)
LEMMA SameCardinality ==
  ASSUME NEW S
  PROVE  Publish!Cardinality(S) = Cardinality(S)
BY DEF Publish!Cardinality, Cardinality

RankIn(x, S) == Publish!Cardinality({y \in S : y < x})

(* A larger number has a larger rank.                                      *)
LEMMA RankGrows ==
  ASSUME NEW S, IsFiniteSet(S), S \subseteq Nat, NEW x \in S, NEW y \in S, x < y
  PROVE  RankIn(x, S) < RankIn(y, S)
<1> DEFINE X == {z \in S : z < x}
           Y == {z \in S : z < y}
<1>1. IsFiniteSet(Y) /\ X \in SUBSET Y /\ x \in Y /\ x \notin X
  <2>1. Y \in SUBSET S
    OBVIOUS
  <2>2. IsFiniteSet(Y)
    BY <2>1, FS_Subset
  <2>3. x \in Nat /\ y \in Nat /\ \A z \in S : z \in Nat
    OBVIOUS
  <2>4. x \in Y /\ x \notin X /\ \A z \in X : z \in Y
    BY <2>3
  <2> QED
    BY <2>2, <2>4
<1> HIDE DEF X, Y
<1>2. /\ IsFiniteSet(X) /\ Cardinality(X) <= Cardinality(Y)
      /\ Cardinality(Y) = Cardinality(X) => Y = X
  BY <1>1, FS_Subset
<1>3. Cardinality(X) \in Nat /\ Cardinality(Y) \in Nat
  BY <1>1, <1>2, FS_CardinalityType
<1>4. Cardinality(X) < Cardinality(Y)
  BY <1>1, <1>2, <1>3
<1> QED
  BY <1>4, SameCardinality DEF RankIn, X, Y

(* The ranks of a set are numbers below its cardinality.                   *)
LEMMA RankBelow ==
  ASSUME NEW S, IsFiniteSet(S), S \subseteq Nat, NEW x \in S
  PROVE  RankIn(x, S) \in 0 .. Cardinality(S) - 1
<1> DEFINE X == {z \in S : z < x}
<1>1. X \in SUBSET S /\ x \notin X
  OBVIOUS
<1> HIDE DEF X
<1>2. /\ IsFiniteSet(X) /\ Cardinality(X) <= Cardinality(S)
      /\ Cardinality(S) = Cardinality(X) => S = X
  BY <1>1, FS_Subset
<1>3. Cardinality(X) \in Nat /\ Cardinality(S) \in Nat
  BY <1>2, FS_CardinalityType
<1>4. Cardinality(X) \in 0 .. Cardinality(S) - 1
  BY <1>1, <1>2, <1>3
<1> QED
  BY <1>4, SameCardinality DEF RankIn, X

(* Different members have different ranks.                                 *)
LEMMA RankDiffers ==
  ASSUME NEW S, IsFiniteSet(S), S \subseteq Nat, NEW x \in S, NEW y \in S,
         RankIn(x, S) = RankIn(y, S)
  PROVE  x = y
<1>1. x < y \/ y < x \/ x = y
  BY S \subseteq Nat
<1>2. x < y => RankIn(x, S) < RankIn(y, S)
  BY RankGrows
<1>3. y < x => RankIn(y, S) < RankIn(x, S)
  BY RankGrows
<1>4. RankIn(x, S) \in Nat /\ RankIn(y, S) \in Nat
  <2>1. Cardinality(S) \in Nat
    BY FS_CardinalityType
  <2>2. RankIn(x, S) \in 0 .. Cardinality(S) - 1
    BY RankBelow
  <2>3. RankIn(y, S) \in 0 .. Cardinality(S) - 1
    BY RankBelow
  <2> QED
    BY <2>1, <2>2, <2>3
<1> QED
  BY <1>1, <1>2, <1>3, <1>4

(* And every number below the cardinality is a rank.                       *)
LEMMA RankTaken ==
  ASSUME NEW S, IsFiniteSet(S), S \subseteq Nat, NEW k \in 0 .. Cardinality(S) - 1
  PROVE  \E o \in S : RankIn(o, S) = k
<1> DEFINE n == Cardinality(S)
           K == 0 .. n - 1
           f == [o \in S |-> RankIn(o, S)]
<1>1. n \in Nat
  BY FS_CardinalityType
<1>2. IsFiniteSet(K) /\ Cardinality(K) = n
  <2>1. 0 \in Int /\ n - 1 \in Int /\ (n > 0 \/ n = 0)
    BY <1>1
  <2>2. IsFiniteSet(0 .. n - 1) /\ Cardinality(0 .. n - 1) = IF 0 > n - 1 THEN 0 ELSE (n - 1) - 0 + 1
    BY <2>1, FS_Interval
  <2> QED
    BY <2>1, <2>2, <1>1
<1>3. f \in [S -> K]
  BY RankBelow
<1>4. \A x, y \in S : f[x] = f[y] => x = y
  BY RankDiffers
<1>5. f \in Injection(S, K)
  BY <1>3, <1>4 DEF Injection, IsInjective
<1>6. f \in Surjection(S, K)
  BY <1>2, <1>5, FS_Injection
<1>7. \E o \in S : f[o] = k
  BY <1>6 DEF Surjection
<1> QED
  BY <1>7

(* What is chosen by rank is there and has that rank.                      *)
LEMMA ChosenByRank ==
  ASSUME NEW S, IsFiniteSet(S), S \subseteq Nat, NEW k \in 0 .. Cardinality(S) - 1
  PROVE  LET o == CHOOSE c \in S : RankIn(c, S) = k IN o \in S /\ RankIn(o, S) = k
<1>1. \E o \in S : RankIn(o, S) = k
  BY RankTaken
<1> QED
  BY <1>1, Zenon

(* There are as many free OIDs as symbols that need one.                   *)
LEMMA EnoughOids ==
  ASSUME NEW kept, Bindings(kept), NEW ids \in SUBSET Symbols, DOMAIN kept \subseteq ids
  PROVE  LET new  == ids \ DOMAIN kept
             free == (1 .. LastOid) \ {kept[i] : i \in DOMAIN kept}
         IN  /\ IsFiniteSet(new) /\ new \subseteq Nat
             /\ IsFiniteSet(free) /\ free \subseteq Nat
             /\ Cardinality(new) <= Cardinality(free)
<1> DEFINE D == DOMAIN kept
           V == {kept[i] : i \in D}
           O == 1 .. LastOid
<1>1. IsFiniteSet(Symbols) /\ Symbols \subseteq Nat /\ LastOid \in Nat /\ Cardinality(Symbols) <= LastOid
  BY SymbolsAssumption DEF SymbolsAssumption
<1>2. IsFiniteSet(ids) /\ Cardinality(ids) <= Cardinality(Symbols)
  BY <1>1, FS_Subset
<1>3. D \in SUBSET ids
  OBVIOUS
<1>4. IsFiniteSet(D)
  BY <1>2, <1>3, FS_Subset
<1>5. kept \in Surjection(D, V)
  BY DEF Bindings, Surjection
<1>6. IsFiniteSet(V) /\ Cardinality(V) <= Cardinality(D)
  BY <1>4, <1>5, FS_Surjection
<1>7. IsFiniteSet(O) /\ Cardinality(O) = LastOid
  <2>1. 1 \in Int /\ LastOid \in Int
    BY <1>1
  <2>2. IsFiniteSet(1 .. LastOid) /\ Cardinality(1 .. LastOid) = IF 1 > LastOid THEN 0 ELSE LastOid - 1 + 1
    BY <2>1, FS_Interval
  <2> QED
    BY <2>2, <1>1
<1>8. V \subseteq O
  BY DEF Bindings
<1> HIDE DEF D, V, O
<1>9. IsFiniteSet(O \ V) /\ Cardinality(O \ V) = Cardinality(O) - Cardinality(O \cap V)
  BY <1>7, FS_Difference
<1>10. IsFiniteSet(ids \ D) /\ Cardinality(ids \ D) = Cardinality(ids) - Cardinality(ids \cap D)
  BY <1>2, FS_Difference
<1>11. O \cap V = V /\ ids \cap D = D
  BY <1>3, <1>8
<1>12. /\ Cardinality(V) \in Nat /\ Cardinality(D) \in Nat /\ Cardinality(ids) \in Nat
       /\ Cardinality(Symbols) \in Nat
  BY <1>1, <1>2, <1>4, <1>6, FS_CardinalityType
<1>13. Cardinality(ids \ D) <= Cardinality(O \ V)
  <2>1. Cardinality(O \ V) = LastOid - Cardinality(V)
    BY <1>7, <1>9, <1>11
  <2>2. Cardinality(ids \ D) = Cardinality(ids) - Cardinality(D)
    BY <1>10, <1>11
  <2> QED
    BY <2>1, <2>2, <1>1, <1>2, <1>6, <1>12
<1>14. O \ V \subseteq Nat /\ ids \ D \subseteq Nat
  <2>1. O \subseteq Nat
    BY <1>1 DEF O
  <2>2. ids \subseteq Nat
    BY <1>1
  <2> QED
    BY <2>1, <2>2
<1> QED
  BY <1>9, <1>10, <1>13, <1>14 DEF D, V, O

(* allocation in service_oid.rs: bindings are kept, and what is new takes  *)
(* OIDs that nobody has.                                                   *)
LEMMA AllocateBinds ==
  ASSUME NEW kept, Bindings(kept), NEW ids \in SUBSET Symbols, DOMAIN kept \subseteq ids
  PROVE  Bindings(Publish!Allocate(kept, ids)) /\ DOMAIN Publish!Allocate(kept, ids) = ids
<1> DEFINE new  == ids \ DOMAIN kept
           free == (1 .. LastOid) \ {kept[i] : i \in DOMAIN kept}
           got(i) == CHOOSE o \in free : RankIn(o, free) = RankIn(i, new)
           rel == [i \in ids |-> IF i \in DOMAIN kept THEN kept[i] ELSE got(i)]
<1>1. Publish!Allocate(kept, ids) = rel
  BY DEF Publish!Allocate, RankIn
<1>2. /\ IsFiniteSet(new) /\ new \subseteq Nat /\ IsFiniteSet(free) /\ free \subseteq Nat
      /\ Cardinality(new) <= Cardinality(free)
  BY EnoughOids
<1>3. free \subseteq 1 .. LastOid /\ \A i \in DOMAIN kept : kept[i] \in 1 .. LastOid /\ kept[i] \notin free
  BY DEF Bindings
<1>4. Injective(kept)
  BY DEF Bindings
<1>5. \A i \in ids : i \in DOMAIN kept \/ i \in new
  OBVIOUS
<1> HIDE DEF new, free
<1>6. \A i \in new : got(i) \in free /\ RankIn(got(i), free) = RankIn(i, new)
  <2> SUFFICES ASSUME NEW i \in new
               PROVE  got(i) \in free /\ RankIn(got(i), free) = RankIn(i, new)
    OBVIOUS
  <2>1. RankIn(i, new) \in 0 .. Cardinality(new) - 1
    BY <1>2, RankBelow
  <2>2. Cardinality(new) \in Nat /\ Cardinality(free) \in Nat
    BY <1>2, FS_CardinalityType
  <2>3. RankIn(i, new) \in 0 .. Cardinality(free) - 1
    BY <1>2, <2>1, <2>2
  <2> QED
    BY <1>2, <2>3, ChosenByRank
<1> HIDE DEF got
<1>7. \A i, j \in new : got(i) = got(j) => i = j
  BY <1>2, <1>6, RankDiffers
<1>8. \A i \in ids : rel[i] = IF i \in DOMAIN kept THEN kept[i] ELSE got(i)
  OBVIOUS
<1>9. \A i \in ids : rel[i] \in 1 .. LastOid
  BY <1>3, <1>5, <1>6, <1>8
<1>10. DOMAIN rel = ids /\ rel = [i \in DOMAIN rel |-> rel[i]]
  OBVIOUS
<1> HIDE DEF rel
<1>11. \A i, j \in ids : rel[i] = rel[j] => i = j
  <2> SUFFICES ASSUME NEW i \in ids, NEW j \in ids, rel[i] = rel[j]
               PROVE  i = j
    OBVIOUS
  <2>1. CASE i \in DOMAIN kept /\ j \in DOMAIN kept
    BY <2>1, <1>4, <1>8 DEF Injective
  <2>2. CASE i \in DOMAIN kept /\ j \notin DOMAIN kept
    BY <2>2, <1>3, <1>5, <1>6, <1>8
  <2>3. CASE i \notin DOMAIN kept /\ j \in DOMAIN kept
    BY <2>3, <1>3, <1>5, <1>6, <1>8
  <2>4. CASE i \notin DOMAIN kept /\ j \notin DOMAIN kept
    BY <2>4, <1>5, <1>7, <1>8
  <2> QED
    BY <2>1, <2>2, <2>3, <2>4
<1> QED
  BY <1>1, <1>9, <1>10, <1>11 DEF Bindings, Injective

(* Fewer bindings are bindings.                                            *)
LEMMA KeepBinds ==
  ASSUME NEW rel, Bindings(rel), NEW ids
  PROVE  Bindings(Publish!Keep(rel, ids)) /\ DOMAIN Publish!Keep(rel, ids) = ids \cap DOMAIN rel
BY DEF Bindings, Injective, Publish!Keep

(* An index that is bound anew has the new bindings.                       *)
LEMMA RebindBinds ==
  ASSUME NEW index, NEW rel
  PROVE  Publish!Rebind(index, rel).rel = rel
BY DEF Publish!Rebind

(* The empty index binds nothing.                                          *)
LEMMA NothingBound ==
  /\ Bindings(Publish!NoIndex.rel) /\ Publish!Fresh.rel = Publish!NoIndex.rel
  /\ Publish!NoIntent.new = Publish!NoIndex /\ Publish!NoIntent.index = {}
  /\ DOMAIN Publish!NoIndex.rel = {}
BY DEF Publish!NoIndex, Publish!Fresh, Publish!NoIntent, Bindings, Injective

(* Every table covers an index that binds no Task.                         *)
LEMMA NoTaskCovered ==
  ASSUME image \in Images, NEW table, NEW rel, Publish!AllTasks \cap DOMAIN rel = {}
  PROVE  Covers(table, rel)
BY DEF Covers

(* reconcile_rel_index leaves exactly the native symbols bound.            *)
LEMMA LinkedBinds ==
  ASSUME OidInv
  PROVE  /\ Bindings(Publish!Linked.rel) /\ DOMAIN Publish!Linked.rel = Native[image]
         /\ Publish!AllTasks \cap DOMAIN Publish!Linked.rel = {}
<1> DEFINE kept == Publish!Keep(oidIndex.rel, Native[image])
<1>1. Native[image] \in SUBSET Symbols
  BY DEF Symbols, OidInv
<1>2. Bindings(kept) /\ DOMAIN kept \subseteq Native[image]
  BY KeepBinds DEF OidInv
<1>3. /\ Bindings(Publish!Allocate(kept, Native[image]))
      /\ DOMAIN Publish!Allocate(kept, Native[image]) = Native[image]
  BY <1>1, <1>2, AllocateBinds
<1>4. Publish!Linked.rel = Publish!Allocate(kept, Native[image])
  BY RebindBinds DEF Publish!Linked
<1>5. Publish!AllTasks \cap Native[image] = {}
  BY SymbolsAssumption DEF SymbolsAssumption, Publish!AllTasks, OidInv
<1> QED
  BY <1>3, <1>4, <1>5

(* reconcile_task_oids binds the Tasks of this image and of no other.      *)
LEMMA ReconciledBinds ==
  ASSUME OidInv
  PROVE  /\ Bindings(Publish!Reconciled.rel)
         /\ Publish!AllTasks \cap DOMAIN Publish!Reconciled.rel = TaskIds[image]
<1> DEFINE others == DOMAIN oidIndex.rel \ Publish!AllTasks
           ids == others \cup TaskIds[image]
           kept == Publish!Keep(oidIndex.rel, ids)
<1>1. ids \in SUBSET Symbols
  BY DEF Symbols, OidInv, Bindings
<1>2. Bindings(kept) /\ DOMAIN kept \subseteq ids
  <2>1. Bindings(oidIndex.rel)
    BY DEF OidInv
  <2>2. \A some : /\ Bindings(Publish!Keep(oidIndex.rel, some))
                  /\ DOMAIN Publish!Keep(oidIndex.rel, some) = some \cap DOMAIN oidIndex.rel
    BY <2>1, KeepBinds
  <2> QED
    BY <2>2
<1>3. Bindings(Publish!Allocate(kept, ids)) /\ DOMAIN Publish!Allocate(kept, ids) = ids
  BY <1>1, <1>2, AllocateBinds
<1>4. Publish!Reconciled.rel = Publish!Allocate(kept, ids)
  BY RebindBinds DEF Publish!Reconciled
<1>5. TaskIds[image] \subseteq Publish!AllTasks
  BY DEF Publish!AllTasks, OidInv
<1> QED
  BY <1>3, <1>4, <1>5

(* What is staged covers what is reconciled, and for this image it is      *)
(* what was built.                                                         *)
LEMMA StagedCovers ==
  ASSUME OidInv
  PROVE  /\ Covers(Publish!Staged, Publish!Reconciled.rel)
         /\ {e \in Publish!Staged : e.image = image} = Publish!Built
         /\ TaskIds[image] # {} => Publish!Staged # {}
<1>1. \A t \in TaskIds[image] : /\ Publish!Entry(image, t, Publish!Reconciled.rel) \in Publish!Built
                                /\ Publish!Entry(image, t, Publish!Reconciled.rel).image = image
  BY DEF Publish!Built, Publish!Entry
<1>2. \A e \in Publish!Built : e.image = image
  BY DEF Publish!Built, Publish!Entry
<1>3. Publish!Built \subseteq Publish!Staged /\ \A e \in Publish!Staged : e.image = image => e \in Publish!Built
  BY DEF Publish!Staged
<1>4. Covers(Publish!Staged, Publish!Reconciled.rel)
  BY <1>1, <1>3, ReconciledBinds DEF Covers, OidInv
<1> QED
  BY <1>1, <1>2, <1>3, <1>4

(* No two symbols ever share an OID.                                       *)
LEMMA OidKeeps ==
  ASSUME PublishInv, Publish!Next \/ UNCHANGED publishVars
  PROVE  OidInv'
<1>0. OidInv /\ IntentInv /\ CoverInv /\ TableInv
  BY DEF PublishInv
<1>a. /\ Bindings(Publish!Linked.rel) /\ Bindings(Publish!Reconciled.rel)
      /\ Bindings(Publish!NoIndex.rel) /\ Publish!Fresh.rel = Publish!NoIndex.rel
      /\ Publish!NoIntent.new = Publish!NoIndex
  BY <1>0, LinkedBinds, ReconciledBinds, NothingBound
<1>1. CASE Publish!Boot
  BY <1>1, <1>0, <1>a DEF Publish!Boot, Publish!Go, Publish!disk, Publish!bounds, OidInv
<1>2. CASE Publish!OpenOid
  BY <1>2, <1>0, <1>a DEF Publish!OpenOid, Publish!Go, Publish!disk, Publish!bounds, OidInv
<1>3. CASE Publish!CreateFresh
  BY <1>3, <1>0, <1>a DEF Publish!CreateFresh, Publish!WriteSealed, Publish!SetTrustedHead,
     Publish!bounds, OidInv
<1>4. CASE Publish!PrepareCore
  BY <1>4, <1>0, <1>a DEF Publish!PrepareCore, Publish!Recover, Publish!ClearIntent,
     Publish!WriteSealed, Publish!SetTrustedHead, Publish!bounds, Publish!Go, Publish!disk,
     OidInv
<1>5. CASE Publish!LinkNative
  BY <1>5, <1>0, <1>a DEF Publish!LinkNative, Publish!WriteSealed, Publish!SetTrustedHead,
     Publish!bounds, Publish!Go, Publish!disk, OidInv
<1>6. CASE Publish!StageImage
  BY <1>6, <1>0, <1>a DEF Publish!StageImage, Publish!bounds, OidInv
<1>7. CASE Publish!WriteIntent
  BY <1>7, <1>0, <1>a DEF Publish!WriteIntent, Publish!bounds, OidInv
<1>8. CASE Publish!ReplaceOid
  BY <1>8, <1>0, <1>a DEF Publish!ReplaceOid, Publish!WriteSealed, Publish!SetTrustedHead,
     Publish!bounds, OidInv
<1>9. CASE Publish!Publish
  BY <1>9, <1>0, <1>a DEF Publish!Publish, Publish!bounds, OidInv
<1>10. CASE Publish!Finish
  BY <1>10, <1>0, <1>a DEF Publish!Finish, Publish!Recover, Publish!ClearIntent,
     Publish!bounds, Publish!Go, Publish!disk, OidInv
<1>11. CASE Publish!Activate
  BY <1>11, <1>0, <1>a DEF Publish!Activate, Publish!Go, Publish!disk, Publish!bounds, OidInv
<1>12. CASE Publish!Edit
  BY <1>12, <1>0, <1>a DEF Publish!Edit, Publish!disk, OidInv
<1>13. CASE Publish!Crash
  BY <1>13, <1>0, <1>a DEF Publish!Crash, Publish!disk, OidInv
<1>14. CASE UNCHANGED publishVars
  BY <1>14, <1>0, <1>a DEF publishVars, OidInv
<1> QED
  BY <1>1, <1>2, <1>3, <1>4, <1>5, <1>6, <1>7, <1>8, <1>9, <1>10, <1>11, <1>12, <1>13, <1>14
     DEF Publish!Next, Publish!BootStep

(* A pending intent names only images that are there, and publishes the    *)
(* Tasks of one image.                                                    *)
LEMMA IntentKeeps ==
  ASSUME PublishInv, Publish!Next \/ UNCHANGED publishVars
  PROVE  IntentInv'
<1>0. OidInv /\ IntentInv /\ CoverInv /\ TableInv
  BY DEF PublishInv
<1>a. /\ Publish!Fresh.rel = Publish!NoIndex.rel /\ Publish!NoIntent.new = Publish!NoIndex
      /\ Publish!NoIntent.index = {}
  BY NothingBound
<1>1. CASE Publish!Boot
  BY <1>1, <1>0, <1>a DEF Publish!Boot, Publish!Go, Publish!disk, Publish!bounds, IntentInv,
     Pending
<1>2. CASE Publish!OpenOid
  BY <1>2, <1>0, <1>a DEF Publish!OpenOid, Publish!Go, Publish!disk, Publish!bounds, IntentInv,
     Pending
<1>3. CASE Publish!CreateFresh
  BY <1>3, <1>0, <1>a DEF Publish!CreateFresh, Publish!WriteSealed, Publish!SetTrustedHead,
     Publish!bounds, IntentInv, Pending
<1>4. CASE Publish!PrepareCore
  BY <1>4, <1>0, <1>a DEF Publish!PrepareCore, Publish!Recover, Publish!ClearIntent,
     Publish!WriteSealed, Publish!SetTrustedHead, Publish!bounds, Publish!Go, Publish!disk,
     IntentInv, Pending, Publish!RecoveredCti, Publish!RollsForward, Publish!Discards
<1>5. CASE Publish!LinkNative
  BY <1>5, <1>0, <1>a DEF Publish!LinkNative, Publish!WriteSealed, Publish!SetTrustedHead,
     Publish!bounds, Publish!Go, Publish!disk, IntentInv, Pending
<1>6. CASE Publish!StageImage
  BY <1>6, <1>0, <1>a DEF Publish!StageImage, Publish!bounds, IntentInv, Pending
<1>7. CASE Publish!WriteIntent
  <2>0. stage = "assemble" /\ ~Pending /\ UNCHANGED <<oidIndex, trusted, ctiIndex, images, image>>
        /\ Publish!Built \subseteq images
    BY <1>7, <1>0 DEF Publish!WriteIntent, Publish!bounds, IntentInv
  <2>1. CASE stage' = "activate" /\ UNCHANGED intent /\ (TaskIds[image] = {} \/ (Publish!Reconciled = oidIndex /\ Publish!Staged = ctiIndex))
    BY <2>0, <2>1, <1>0 DEF IntentInv, Pending
  <2>2. CASE /\ intent' = [old |-> oidIndex, new |-> Publish!Reconciled, index |-> Publish!Staged]
             /\ stage' = (IF Publish!Reconciled = oidIndex THEN "publish" ELSE "replace") /\ TaskIds[image] # {}
    <3>1. /\ intent'.old = oidIndex /\ intent'.new = Publish!Reconciled /\ intent'.index = Publish!Staged
          /\ stage' \in {"publish", "replace"} /\ (stage' = "publish" => Publish!Reconciled = oidIndex)
      BY <2>2
    <3>2. Covers(Publish!Staged, Publish!Reconciled.rel) /\ Publish!Staged # {}
          /\ {e \in Publish!Staged : e.image = image} = Publish!Built
      BY <1>0, <2>2, StagedCovers
    <3>3. Pending'
      BY <3>1, <3>2, NothingBound DEF Pending
    <3>4. Publish!Staged \subseteq images
      BY <1>0, <2>0 DEF Publish!Staged, CoverInv
    <3> QED
      BY <2>0, <3>1, <3>2, <3>3, <3>4 DEF IntentInv
  <2> QED
    BY <1>7, <2>1, <2>2 DEF Publish!WriteIntent
<1>8. CASE Publish!ReplaceOid
  BY <1>8, <1>0, <1>a DEF Publish!ReplaceOid, Publish!WriteSealed, Publish!SetTrustedHead,
     Publish!bounds, IntentInv, Pending
<1>9. CASE Publish!Publish
  BY <1>9, <1>0, <1>a DEF Publish!Publish, Publish!bounds, IntentInv, Pending
<1>10. CASE Publish!Finish
  BY <1>10, <1>0, <1>a DEF Publish!Finish, Publish!Recover, Publish!ClearIntent,
     Publish!bounds, Publish!Go, Publish!disk, IntentInv, Pending, Publish!RecoveredCti,
     Publish!RollsForward, Publish!Discards
<1>11. CASE Publish!Activate
  BY <1>11, <1>0, <1>a DEF Publish!Activate, Publish!Go, Publish!disk, Publish!bounds,
     IntentInv, Pending
<1>12. CASE Publish!Edit
  BY <1>12, <1>0, <1>a DEF Publish!Edit, Publish!disk, IntentInv, Pending
<1>13. CASE Publish!Crash
  BY <1>13, <1>0, <1>a DEF Publish!Crash, Publish!disk, IntentInv, Pending
<1>14. CASE UNCHANGED publishVars
  BY <1>14, <1>0, <1>a DEF publishVars, IntentInv, Pending
<1> QED
  BY <1>1, <1>2, <1>3, <1>4, <1>5, <1>6, <1>7, <1>8, <1>9, <1>10, <1>11, <1>12, <1>13, <1>14
     DEF Publish!Next, Publish!BootStep

(* Unless a publication is pending, the Tasks that have an OID have images. *)
LEMMA CoverKeeps ==
  ASSUME PublishInv, Publish!Next \/ UNCHANGED publishVars
  PROVE  CoverInv'
<1>0. OidInv /\ IntentInv /\ CoverInv /\ TableInv
  BY DEF PublishInv
<1>a. /\ Publish!Fresh.rel = Publish!NoIndex.rel /\ Publish!NoIntent.new = Publish!NoIndex
      /\ Publish!NoIntent.index = {}
  BY NothingBound
<1>b. \A table : Covers(table, Publish!Linked.rel) /\ Covers(table, Publish!NoIndex.rel)
  BY <1>0, LinkedBinds, NothingBound, NoTaskCovered DEF OidInv
<1>1. CASE Publish!Boot
  BY <1>1, <1>0, <1>a, <1>b DEF Publish!Boot, Publish!Go, Publish!disk, Publish!bounds,
     CoverInv, Pending
<1>2. CASE Publish!OpenOid
  BY <1>2, <1>0, <1>a, <1>b DEF Publish!OpenOid, Publish!Go, Publish!disk, Publish!bounds,
     CoverInv, Pending
<1>3. CASE Publish!CreateFresh
  BY <1>3, <1>0, <1>a, <1>b DEF Publish!CreateFresh, Publish!WriteSealed,
     Publish!SetTrustedHead, Publish!bounds, CoverInv, Pending
<1>4. CASE Publish!PrepareCore
  BY <1>4, <1>0, <1>a, <1>b DEF Publish!PrepareCore, Publish!Recover, Publish!ClearIntent,
     Publish!WriteSealed, Publish!SetTrustedHead, Publish!bounds, Publish!Go, Publish!disk,
     CoverInv, Pending, Publish!RecoveredCti, Publish!RollsForward, Publish!Discards, IntentInv
<1>5. CASE Publish!LinkNative
  BY <1>5, <1>0, <1>a, <1>b DEF Publish!LinkNative, Publish!WriteSealed,
     Publish!SetTrustedHead, Publish!bounds, Publish!Go, Publish!disk, CoverInv, Pending,
     IntentInv
<1>6. CASE Publish!StageImage
  BY <1>6, <1>0, <1>a, <1>b DEF Publish!StageImage, Publish!bounds, CoverInv, Pending
<1>7. CASE Publish!WriteIntent
  <2>0. stage = "assemble" /\ ~Pending /\ UNCHANGED <<oidIndex, trusted, ctiIndex, images, image>>
        /\ Publish!Built \subseteq images
    BY <1>7, <1>0 DEF Publish!WriteIntent, Publish!bounds, IntentInv
  <2>1. CASE stage' = "activate" /\ UNCHANGED intent /\ (TaskIds[image] = {} \/ (Publish!Reconciled = oidIndex /\ Publish!Staged = ctiIndex))
    BY <2>0, <2>1, <1>0 DEF CoverInv, Pending
  <2>2. CASE /\ intent' = [old |-> oidIndex, new |-> Publish!Reconciled, index |-> Publish!Staged]
             /\ stage' = (IF Publish!Reconciled = oidIndex THEN "publish" ELSE "replace") /\ TaskIds[image] # {}
    <3>1. /\ intent'.old = oidIndex /\ intent'.new = Publish!Reconciled /\ intent'.index = Publish!Staged
          /\ stage' \in {"publish", "replace"} /\ (stage' = "publish" => Publish!Reconciled = oidIndex)
      BY <2>2
    <3>2. Covers(Publish!Staged, Publish!Reconciled.rel) /\ Publish!Staged # {}
          /\ {e \in Publish!Staged : e.image = image} = Publish!Built
      BY <1>0, <2>2, StagedCovers
    <3>3. Pending'
      BY <3>1, <3>2, NothingBound DEF Pending
    <3> QED
      BY <2>0, <3>1, <3>3, <1>0 DEF CoverInv
  <2> QED
    BY <1>7, <2>1, <2>2 DEF Publish!WriteIntent
<1>8. CASE Publish!ReplaceOid
  BY <1>8, <1>0, <1>a, <1>b DEF Publish!ReplaceOid, Publish!WriteSealed,
     Publish!SetTrustedHead, Publish!bounds, CoverInv, Pending, IntentInv
<1>9. CASE Publish!Publish
  BY <1>9, <1>0, <1>a, <1>b DEF Publish!Publish, Publish!bounds, CoverInv, Pending, IntentInv
<1>10. CASE Publish!Finish
  BY <1>10, <1>0, <1>a, <1>b DEF Publish!Finish, Publish!Recover, Publish!ClearIntent,
     Publish!bounds, Publish!Go, Publish!disk, CoverInv, Pending, Publish!RecoveredCti,
     Publish!RollsForward, Publish!Discards, IntentInv
<1>11. CASE Publish!Activate
  BY <1>11, <1>0, <1>a, <1>b DEF Publish!Activate, Publish!Go, Publish!disk, Publish!bounds,
     CoverInv, Pending
<1>12. CASE Publish!Edit
  BY <1>12, <1>0, <1>a, <1>b DEF Publish!Edit, Publish!disk, CoverInv, Pending
<1>13. CASE Publish!Crash
  BY <1>13, <1>0, <1>a, <1>b DEF Publish!Crash, Publish!disk, CoverInv, Pending
<1>14. CASE UNCHANGED publishVars
  BY <1>14, <1>0, <1>a, <1>b DEF publishVars, CoverInv, Pending
<1> QED
  BY <1>1, <1>2, <1>3, <1>4, <1>5, <1>6, <1>7, <1>8, <1>9, <1>10, <1>11, <1>12, <1>13, <1>14
     DEF Publish!Next, Publish!BootStep

(* What is published for the compiled image are its Tasks.                 *)
LEMMA TableKeeps ==
  ASSUME PublishInv, Publish!Next \/ UNCHANGED publishVars
  PROVE  TableInv'
<1>0. OidInv /\ IntentInv /\ CoverInv /\ TableInv
  BY DEF PublishInv
<1>a. /\ Publish!Fresh.rel = Publish!NoIndex.rel /\ Publish!NoIntent.new = Publish!NoIndex
      /\ Publish!NoIntent.index = {}
  BY NothingBound
<1>1. CASE Publish!Boot
  BY <1>1, <1>0, <1>a DEF Publish!Boot, Publish!Go, Publish!disk, Publish!bounds, TableInv,
     Publish!Table
<1>2. CASE Publish!OpenOid
  BY <1>2, <1>0, <1>a DEF Publish!OpenOid, Publish!Go, Publish!disk, Publish!bounds, TableInv,
     Publish!Table
<1>3. CASE Publish!CreateFresh
  BY <1>3, <1>0, <1>a DEF Publish!CreateFresh, Publish!WriteSealed, Publish!SetTrustedHead,
     Publish!bounds, TableInv, Publish!Table
<1>4. CASE Publish!PrepareCore
  BY <1>4, <1>0, <1>a DEF Publish!PrepareCore, Publish!Recover, Publish!ClearIntent,
     Publish!WriteSealed, Publish!SetTrustedHead, Publish!bounds, Publish!Go, Publish!disk,
     TableInv, Publish!Table, Publish!RecoveredCti, Publish!RollsForward, Publish!Discards,
     IntentInv
<1>5. CASE Publish!LinkNative
  BY <1>5, <1>0, <1>a DEF Publish!LinkNative, Publish!WriteSealed, Publish!SetTrustedHead,
     Publish!bounds, Publish!Go, Publish!disk, TableInv, Publish!Table
<1>6. CASE Publish!StageImage
  BY <1>6, <1>0, <1>a DEF Publish!StageImage, Publish!bounds, TableInv, Publish!Table
<1>7. CASE Publish!WriteIntent
  <2>0. stage = "assemble" /\ ~Pending /\ UNCHANGED <<oidIndex, trusted, ctiIndex, images, image>>
        /\ Publish!Built \subseteq images
    BY <1>7, <1>0 DEF Publish!WriteIntent, Publish!bounds, IntentInv
  <2>1. CASE stage' = "activate" /\ UNCHANGED intent /\ (TaskIds[image] = {} \/ (Publish!Reconciled = oidIndex /\ Publish!Staged = ctiIndex))
    <3>1. CASE TaskIds[image] = {}
      BY <2>0, <3>1 DEF TableInv
    <3>2. CASE TaskIds[image] # {}
      <4>1. {e \in ctiIndex : e.image = image} = Publish!Built /\ Publish!Reconciled.rel = oidIndex.rel
        BY <2>1, <3>2, <1>0, StagedCovers
      <4>2. Publish!Table(image) = {Publish!Entry(image, t, oidIndex.rel) : t \in TaskIds[image]}
        BY <4>1 DEF Publish!Built, Publish!Table
      <4>3. Publish!Table(image)' = Publish!Table(image)
        BY <2>0 DEF Publish!Table
      <4> QED
        BY <2>0, <2>1, <4>2, <4>3 DEF TableInv
    <3> QED
      BY <3>1, <3>2
  <2>2. CASE /\ intent' = [old |-> oidIndex, new |-> Publish!Reconciled, index |-> Publish!Staged]
             /\ stage' = (IF Publish!Reconciled = oidIndex THEN "publish" ELSE "replace") /\ TaskIds[image] # {}
    <3>1. /\ intent'.old = oidIndex /\ intent'.new = Publish!Reconciled /\ intent'.index = Publish!Staged
          /\ stage' \in {"publish", "replace"} /\ (stage' = "publish" => Publish!Reconciled = oidIndex)
      BY <2>2
    <3>2. Covers(Publish!Staged, Publish!Reconciled.rel) /\ Publish!Staged # {}
          /\ {e \in Publish!Staged : e.image = image} = Publish!Built
      BY <1>0, <2>2, StagedCovers
    <3>3. Pending'
      BY <3>1, <3>2, NothingBound DEF Pending
    <3>4. {e \in Publish!Staged : e.image = image}
            = {Publish!Entry(image, t, Publish!Reconciled.rel) : t \in TaskIds[image]}
      BY <3>2 DEF Publish!Built
    <3> QED
      BY <2>0, <3>1, <3>4 DEF TableInv
  <2> QED
    BY <1>7, <2>1, <2>2 DEF Publish!WriteIntent
<1>8. CASE Publish!ReplaceOid
  BY <1>8, <1>0, <1>a DEF Publish!ReplaceOid, Publish!WriteSealed, Publish!SetTrustedHead,
     Publish!bounds, TableInv, Publish!Table
<1>9. CASE Publish!Publish
  BY <1>9, <1>0, <1>a DEF Publish!Publish, Publish!bounds, TableInv, Publish!Table, IntentInv
<1>10. CASE Publish!Finish
  BY <1>10, <1>0, <1>a DEF Publish!Finish, Publish!Recover, Publish!ClearIntent,
     Publish!bounds, Publish!Go, Publish!disk, TableInv, Publish!Table, Publish!RecoveredCti,
     Publish!RollsForward, Publish!Discards, IntentInv, Pending
<1>11. CASE Publish!Activate
  BY <1>11, <1>0, <1>a DEF Publish!Activate, Publish!Go, Publish!disk, Publish!bounds,
     TableInv, Publish!Table
<1>12. CASE Publish!Edit
  BY <1>12, <1>0, <1>a DEF Publish!Edit, Publish!disk, TableInv, Publish!Table
<1>13. CASE Publish!Crash
  BY <1>13, <1>0, <1>a DEF Publish!Crash, Publish!disk, TableInv, Publish!Table
<1>14. CASE UNCHANGED publishVars
  BY <1>14, <1>0, <1>a DEF publishVars, TableInv, Publish!Table
<1> QED
  BY <1>1, <1>2, <1>3, <1>4, <1>5, <1>6, <1>7, <1>8, <1>9, <1>10, <1>11, <1>12, <1>13, <1>14
     DEF Publish!Next, Publish!BootStep

(* container_task_assembly.rs: the indexes, the images and the intent at   *)
(* every step of every boot.                                               *)
THEOREM PublishInvAlways == PartsSpec => []PublishInv
<1>1. PartsInit => PublishInv
  <2> SUFFICES ASSUME Publish!Init
               PROVE  PublishInv
    BY DEF PartsInit
  <2>1. /\ image \in Images /\ oidIndex = Publish!NoIndex /\ ctiIndex = {} /\ images = {}
        /\ intent = Publish!NoIntent /\ stage = "down"
    BY DEF Publish!Init
  <2>2. OidInv /\ Covers(ctiIndex, oidIndex.rel)
    BY <2>1, NothingBound, NoTaskCovered DEF OidInv
  <2> QED
    BY <2>1, <2>2, NothingBound DEF PublishInv, IntentInv, CoverInv, TableInv, Pending
<1>2. [PartsNext]_partsVars => Publish!Next \/ UNCHANGED publishVars
  <2>1. CASE UNCHANGED partsVars
    BY <2>1 DEF partsVars
  <2>2. CASE PartsNext
    BY <2>2 DEF PartsNext
  <2> QED
    BY <2>1, <2>2
<1>3. PublishInv /\ [PartsNext]_partsVars => PublishInv'
  <2> SUFFICES ASSUME PublishInv, Publish!Next \/ UNCHANGED publishVars
               PROVE  PublishInv'
    BY <1>2
  <2> QED
    BY OidKeeps, IntentKeeps, CoverKeeps, TableKeeps DEF PublishInv
<1> QED
  BY <1>1, <1>3, PTL DEF PartsSpec

(* assemble_container_task_cache and its recovery: wherever a boot stops,  *)
(* no Task OID is without its image, and a backend that serves finds       *)
(* exactly its Tasks.                                                      *)
THEOREM TasksKeepImages == PartsSpec => []TasksHaveImages
<1>1. PublishInv => TasksHaveImages
  <2> SUFFICES ASSUME PublishInv
               PROVE  Publish!TasksHaveImages
    BY DEF TasksHaveImages
  <2>1. ctiIndex \subseteq images /\ (~Pending => Covers(ctiIndex, oidIndex.rel))
    BY DEF PublishInv, CoverInv
  <2>2. Injective(oidIndex.rel)
    BY DEF PublishInv, OidInv, Bindings
  <2>3. ASSUME stage = "up", TaskIds[image] # {}
        PROVE  /\ Publish!Loads(image)
               /\ Publish!Table(image) = {Publish!Entry(image, t, oidIndex.rel) : t \in TaskIds[image]}
    <3>1. ~Pending /\ Publish!Table(image) = {Publish!Entry(image, t, oidIndex.rel) : t \in TaskIds[image]}
      BY <2>3 DEF PublishInv, IntentInv, TableInv
    <3>2. Publish!Table(image) # {} /\ Publish!Table(image) \subseteq images
      BY <2>1, <2>3, <3>1 DEF Publish!Table
    <3> QED
      BY <3>1, <3>2 DEF Publish!Loads, Pending
  <2> QED
    BY <2>1, <2>2, <2>3 DEF Publish!TasksHaveImages, Covers, Injective, Pending
<1> QED
  BY <1>1, PublishInvAlways, PTL

(***************************************************************************)
(* Folds.  The folds of the community modules are functions on the subsets *)
(* of what they range over; what they compute is shown by way of the       *)
(* smallest subset for which it fails.                                     *)
(***************************************************************************)

(* A set of numbers that is not empty has a least one: what replaces        *)
(* induction below.                                                        *)
LEMMA Least ==
  ASSUME NEW P \in SUBSET Nat, P # {}
  PROVE  \E m \in P : \A k \in P : m <= k
<1>1. PICK m \in P : \A k \in P : ~(<<k, m>> \in OpToRel(<, Nat))
  BY NatLessThanWellFounded, WFMin
<1>2. \A k \in P : ~(k < m)
  BY <1>1 DEF OpToRel
<1> QED
  BY <1>2

(* A subset from which an element is taken is smaller.                     *)
LEMMA TakenIsSmaller ==
  ASSUME NEW S, IsFiniteSet(S), NEW T \in SUBSET S, NEW x \in T
  PROVE  /\ IsFiniteSet(T) /\ Cardinality(T) \in Nat \ {0}
         /\ Cardinality(T \ {x}) = Cardinality(T) - 1
         /\ T \ {x} \in SUBSET S
<1>1. IsFiniteSet(T)
  BY FS_Subset
<1>2. Cardinality(T) \in Nat /\ Cardinality(T \ {x}) \in Nat
  BY <1>1, FS_CardinalityType, FS_RemoveElement
<1>3. Cardinality(T) # 0
  BY <1>1, FS_EmptySet
<1>4. Cardinality(T \ {x}) = Cardinality(T) - 1
  BY <1>1, FS_RemoveElement
<1> QED
  BY <1>1, <1>2, <1>3, <1>4

IsFold(g, S, base, pick, step) ==
  \A T \in SUBSET S :
    g[T] = IF T = {} THEN base ELSE step[pick[T]][g[T \ {pick[T]}]]

Folding(S, X, base, pick, step) ==
  /\ IsFiniteSet(S) /\ base \in X /\ step \in [S -> [X -> X]]
  /\ \A T \in SUBSET S : T # {} => pick[T] \in T

(* A fold over a finite set is defined: there is a function on its subsets *)
(* that satisfies the equation of the fold.                                *)
LEMMA FoldIsDefined ==
  ASSUME NEW S, NEW X, NEW base, NEW pick, NEW step, Folding(S, X, base, pick, step)
  PROVE  \E g \in [SUBSET S -> X] : IsFold(g, S, base, pick, step)
<1>0. /\ IsFiniteSet(S) /\ base \in X /\ step \in [S -> [X -> X]]
      /\ \A T \in SUBSET S : T # {} => pick[T] \in T
  BY DEF Folding
<1> USE <1>0
<1> DEFINE Small(k) == {T \in SUBSET S : Cardinality(T) <= k}
           Folds(g, T) == g[T] = IF T = {} THEN base ELSE step[pick[T]][g[T \ {pick[T]}]]
           Good(k) == \E g \in [Small(k) -> X] : \A T \in Small(k) : Folds(g, T)
           Bad == {k \in Nat : ~Good(k)}
<1>1. \A T \in SUBSET S : IsFiniteSet(T) /\ Cardinality(T) \in Nat
  BY FS_Subset, FS_CardinalityType
<1>2. Bad = {}
  <2> SUFFICES ASSUME Bad # {} PROVE FALSE
    OBVIOUS
  <2>1. PICK m \in Bad : \A k \in Bad : m <= k
    <3> HIDE DEF Good
    <3> QED
      BY Least
  <2>2. CASE m = 0
    <3> DEFINE g == [T \in Small(0) |-> base]
    <3>1. \A T \in Small(0) : T = {}
      BY <1>1, FS_EmptySet
    <3>2. g \in [Small(0) -> X] /\ \A T \in Small(0) : Folds(g, T)
      BY <3>1
    <3> QED
      BY <2>1, <2>2, <3>2
  <2>3. CASE m # 0
    <3>1. m - 1 \in Nat /\ m - 1 \notin Bad
      <4> HIDE DEF Good
      <4> QED
        BY <2>1, <2>3
    <3>2. PICK g \in [Small(m - 1) -> X] : \A T \in Small(m - 1) : Folds(g, T)
      BY <3>1
    <3> DEFINE h == [T \in Small(m) |->
                       IF T = {} THEN base ELSE step[pick[T]][g[T \ {pick[T]}]]]
    <3>3. \A T \in Small(m) : T # {} =>
            pick[T] \in S /\ T \ {pick[T]} \in Small(m - 1)
      BY <3>1, <1>1, TakenIsSmaller
    <3>4. h \in [Small(m) -> X]
      BY <3>2, <3>3
    <3>5. \A T \in Small(m - 1) : T \in Small(m) /\ h[T] = g[T]
      <4> SUFFICES ASSUME NEW T \in Small(m - 1) PROVE T \in Small(m) /\ h[T] = g[T]
        OBVIOUS
      <4>1. T \in Small(m)
        BY <3>1, <1>1
      <4>2. h[T] = IF T = {} THEN base ELSE step[pick[T]][g[T \ {pick[T]}]]
        BY <4>1
      <4> QED
        BY <3>2, <4>1, <4>2
    <3>6. \A T \in Small(m) : Folds(h, T)
      <4> SUFFICES ASSUME NEW T \in Small(m) PROVE Folds(h, T)
        OBVIOUS
      <4> QED
        BY <3>3, <3>5
    <3> QED
      BY <2>1, <3>4, <3>6
  <2> QED
    BY <2>2, <2>3
<1>3. Good(Cardinality(S))
  <2> HIDE DEF Good
  <2> QED
    BY <1>1, <1>2
<1>4. Small(Cardinality(S)) = SUBSET S
  BY <1>1, FS_Subset
<1> QED
  BY <1>3, <1>4 DEF IsFold

(***************************************************************************)
(* Sums, as MapThenSumSet computes them.                                   *)
(***************************************************************************)
Picked(T) == CHOOSE x \in T : TRUE

IsSum(h, S, g) ==
  h = [T \in SUBSET S |-> IF T = {} THEN 0 ELSE g[Picked(T)] + h[T \ {Picked(T)}]]

(* There is such a sum over every finite set.                              *)
LEMMA SumExists ==
  ASSUME NEW S, IsFiniteSet(S), NEW g \in [S -> Nat]
  PROVE  \E h : IsSum(h, S, g)
<1> DEFINE pick == [T \in SUBSET S |-> Picked(T)]
           step == [x \in S |-> [n \in Nat |-> g[x] + n]]
<1>1. \A T \in SUBSET S : T # {} => pick[T] \in T
  BY DEF Picked
<1>2. step \in [S -> [Nat -> Nat]]
  OBVIOUS
<1>3. PICK h \in [SUBSET S -> Nat] : IsFold(h, S, 0, pick, step)
  <2> HIDE DEF pick, step
  <2>1. Folding(S, Nat, 0, pick, step)
    BY <1>1, <1>2 DEF Folding
  <2> QED
    BY <2>1, FoldIsDefined, Zenon
<1>4. \A T \in SUBSET S :
        h[T] = IF T = {} THEN 0 ELSE g[Picked(T)] + h[T \ {Picked(T)}]
  <2> SUFFICES ASSUME NEW T \in SUBSET S, T # {}
               PROVE  h[T] = g[Picked(T)] + h[T \ {Picked(T)}]
    BY <1>3 DEF IsFold
  <2>1. pick[T] = Picked(T) /\ pick[T] \in S /\ h[T \ {pick[T]}] \in Nat
    BY <1>1
  <2>2. step[pick[T]][h[T \ {pick[T]}]] = g[pick[T]] + h[T \ {pick[T]}]
    BY <2>1
  <2> QED
    BY <1>3, <2>1, <2>2 DEF IsFold
<1> QED
  BY <1>4 DEF IsSum

(* A sum of numbers is a number.                                           *)
LEMMA SumTyped ==
  ASSUME NEW S, IsFiniteSet(S), NEW g \in [S -> Nat], NEW h, IsSum(h, S, g)
  PROVE  h \in [SUBSET S -> Nat]
<1> DEFINE Bad == {k \in Nat : \E T \in SUBSET S : Cardinality(T) = k /\ h[T] \notin Nat}
<1>1. Bad = {}
  <2> SUFFICES ASSUME Bad # {} PROVE FALSE
    OBVIOUS
  <2>1. PICK m \in Bad : \A k \in Bad : m <= k
    BY Least
  <2>2. PICK T \in SUBSET S : Cardinality(T) = m /\ h[T] \notin Nat
    BY <2>1
  <2>3. T # {}
    BY <2>2 DEF IsSum
  <2>4. Picked(T) \in T /\ h[T] = g[Picked(T)] + h[T \ {Picked(T)}]
    BY <2>3 DEF IsSum, Picked
  <2>5. h[T \ {Picked(T)}] \in Nat
    BY <2>1, <2>2, <2>4, TakenIsSmaller, SMTT(30)
  <2> QED
    BY <2>2, <2>4, <2>5
<1>2. \A T \in SUBSET S : Cardinality(T) \in Nat
  BY FS_Subset, FS_CardinalityType
<1> QED
  BY <1>1, <1>2 DEF IsSum

(* It depends only on what is summed.                                      *)
LEMMA SumAgrees ==
  ASSUME NEW S, IsFiniteSet(S), NEW g, NEW h, IsSum(h, S, g),
         NEW R, NEW e, NEW k, IsSum(k, R, e),
         NEW T \in SUBSET S, T \subseteq R, \A x \in T : g[x] = e[x]
  PROVE  h[T] = k[T]
<1> DEFINE Bad == {n \in Nat : \E U \in SUBSET T : Cardinality(U) = n /\ h[U] # k[U]}
<1>1. Bad = {}
  <2> SUFFICES ASSUME Bad # {} PROVE FALSE
    OBVIOUS
  <2>1. PICK m \in Bad : \A n \in Bad : m <= n
    BY Least
  <2>2. PICK U \in SUBSET T : Cardinality(U) = m /\ h[U] # k[U]
    BY <2>1
  <2>3. U # {}
    BY <2>2 DEF IsSum
  <2>4. /\ Picked(U) \in U /\ h[U] = g[Picked(U)] + h[U \ {Picked(U)}]
        /\ k[U] = e[Picked(U)] + k[U \ {Picked(U)}]
    BY <2>3 DEF IsSum, Picked
  <2>5. h[U \ {Picked(U)}] = k[U \ {Picked(U)}]
    BY <2>1, <2>2, <2>4, TakenIsSmaller
  <2> QED
    BY <2>2, <2>4, <2>5
<1>2. Cardinality(T) \in Nat
  BY FS_Subset, FS_CardinalityType
<1> QED
  BY <1>1, <1>2

(* Any element can be taken out first.                                     *)
LEMMA SumSplits ==
  ASSUME NEW S, IsFiniteSet(S), NEW g \in [S -> Nat], NEW h, IsSum(h, S, g),
         NEW T \in SUBSET S, NEW x \in T
  PROVE  h[T] = g[x] + h[T \ {x}]
<1> DEFINE Wrong(U, y) == h[U] # g[y] + h[U \ {y}]
           Bad == {n \in Nat : \E U \in SUBSET S : \E y \in U : Cardinality(U) = n /\ Wrong(U, y)}
<1>1. Bad = {}
  <2> SUFFICES ASSUME Bad # {} PROVE FALSE
    OBVIOUS
  <2>1. PICK m \in Bad : \A n \in Bad : m <= n
    BY Least
  <2>2. PICK U \in SUBSET S : \E y \in U : Cardinality(U) = m /\ Wrong(U, y)
    BY <2>1
  <2>3. PICK y \in U : Wrong(U, y)
    BY <2>2
  <2>4. PICK c \in U : h[U] = g[c] + h[U \ {c}]
    BY <2>3, ZenonT(30) DEF IsSum, Picked
  <2>5. c # y
    BY <2>3, <2>4
  <2>6. \A z \in U : Cardinality(U \ {z}) = m - 1 /\ m - 1 \in Nat /\ U \ {z} \in SUBSET S
    <3> TAKE z \in U
    <3>1. Cardinality(U) = m
      BY <2>2
    <3>2. /\ Cardinality(U) \in Nat \ {0} /\ Cardinality(U \ {z}) = Cardinality(U) - 1
          /\ U \ {z} \in SUBSET S
      BY TakenIsSmaller, Zenon
    <3> QED
      BY <3>1, <3>2
  <2>7. m \in Nat /\ m - 1 \notin Bad
    <3> HIDE DEF Wrong
    <3> QED
      BY <2>1, <2>4, <2>6
  <2>8. ~Wrong(U \ {c}, y) /\ ~Wrong(U \ {y}, c)
    <3> HIDE DEF Wrong
    <3> QED
      BY <2>4, <2>5, <2>6, <2>7
  <2>9. (U \ {c}) \ {y} = (U \ {y}) \ {c}
    OBVIOUS
  <2>10. h \in [SUBSET S -> Nat]
    BY SumTyped
  <2>11. /\ g[c] \in Nat /\ g[y] \in Nat /\ h[(U \ {c}) \ {y}] \in Nat
    BY <2>3, <2>4, <2>10
  <2>12. /\ h[U \ {c}] = g[y] + h[(U \ {c}) \ {y}]
         /\ h[U \ {y}] = g[c] + h[(U \ {c}) \ {y}]
    BY <2>8, <2>9
  <2> QED
    BY <2>3, <2>4, <2>11, <2>12
<1>2. Cardinality(T) \in Nat
  BY FS_Subset, FS_CardinalityType
<1> QED
  BY <1>1, <1>2

(* The sum over a set and the sum without one of its elements.             *)
LEMMA SumWithout ==
  ASSUME NEW S, IsFiniteSet(S), NEW g \in [S -> Nat], NEW h, IsSum(h, S, g), NEW x \in S,
         NEW e, \A y \in S \ {x} : e[y] = g[y], NEW k, IsSum(k, S \ {x}, e)
  PROVE  h[S] = g[x] + k[S \ {x}] /\ g[x] \in Nat /\ h[S] \in Nat /\ k[S \ {x}] \in Nat
<1> DEFINE R == S \ {x}
<1>1. h[S] = g[x] + h[R]
  BY SumSplits
<1>2. h[R] = k[R]
  <2>1. R \in SUBSET S /\ R \subseteq R /\ \A y \in R : g[y] = e[y]
    OBVIOUS
  <2> HIDE DEF R
  <2>2. IsSum(k, R, e)
    BY DEF R
  <2> QED
    BY <2>1, <2>2, SumAgrees
<1>3. h \in [SUBSET S -> Nat]
  BY SumTyped
<1>4. h[R] \in Nat /\ h[S] \in Nat /\ g[x] \in Nat
  BY <1>3
<1> QED
  BY <1>1, <1>2, <1>4

(***************************************************************************)
(* QuickDb.  What filters allocate.                                        *)
(***************************************************************************)
Total(fs) == Quick!MapThenSumSet(LAMBDA n : Quick!Bytes(fs[n]), DOMAIN fs)

LayerSum(S) == Quick!MapThenSumSet(LAMBDA l : LayerBytes[l], S)

Counts(f) == Quick!Bytes(f) \in Nat

(* registry_bytes is a sum over the registry.                              *)
LEMMA TotalIsSum ==
  ASSUME NEW fs, IsFiniteSet(DOMAIN fs), \A n \in DOMAIN fs : Counts(fs[n])
  PROVE  \E h : /\ IsSum(h, DOMAIN fs, [n \in DOMAIN fs |-> Quick!Bytes(fs[n])])
                /\ Total(fs) = h[DOMAIN fs]
<1> DEFINE S == DOMAIN fs
           g == [n \in S |-> Quick!Bytes(fs[n])]
           Equation(h) == h = [T \in SUBSET S |->
                                 IF T = {} THEN 0
                                 ELSE Quick!Bytes(fs[CHOOSE x \in T : TRUE])
                                        + h[T \ {CHOOSE x \in T : TRUE}]]
           iter == CHOOSE h : Equation(h)
<1>1. \A T \in SUBSET S : T # {} => g[Picked(T)] = Quick!Bytes(fs[CHOOSE x \in T : TRUE])
  BY DEF Picked
<1>2. ASSUME NEW h PROVE IsSum(h, S, g) <=> Equation(h)
  <2> HIDE DEF g
  <2>1. \A T \in SUBSET S : T # {} =>
          g[Picked(T)] + h[T \ {Picked(T)}]
            = Quick!Bytes(fs[CHOOSE x \in T : TRUE]) + h[T \ {CHOOSE x \in T : TRUE}]
    BY <1>1 DEF Picked
  <2> QED
    BY <2>1 DEF IsSum
<1>3. \E h : IsSum(h, S, g)
  BY SumExists DEF Counts
<1>4. Equation(iter)
  <2> HIDE DEF Equation, g
  <2> QED
    BY <1>2, <1>3
<1>5. Total(fs) = iter[S]
  BY Zenon DEF Total, Quick!MapThenSumSet, Quick!MapThenFoldSet
<1>6. IsSum(iter, S, g)
  <2> HIDE DEF Equation, iter, g
  <2> QED
    BY <1>2, <1>4
<1> QED
  BY <1>5, <1>6

(* The same for the layers of a filter.                                    *)
LEMMA LayerSumIsSum ==
  ASSUME NEW S \in SUBSET (1 .. MaxLayers)
  PROVE  \E h : IsSum(h, S, [l \in S |-> LayerBytes[l]]) /\ LayerSum(S) = h[S]
<1> DEFINE g == [l \in S |-> LayerBytes[l]]
           Equation(h) == h = [T \in SUBSET S |->
                                 IF T = {} THEN 0
                                 ELSE LayerBytes[CHOOSE x \in T : TRUE]
                                        + h[T \ {CHOOSE x \in T : TRUE}]]
           iter == CHOOSE h : Equation(h)
<1>1. \A T \in SUBSET S : T # {} => g[Picked(T)] = LayerBytes[CHOOSE x \in T : TRUE]
  BY DEF Picked
<1>2. ASSUME NEW h PROVE IsSum(h, S, g) <=> Equation(h)
  <2> HIDE DEF g
  <2>1. \A T \in SUBSET S : T # {} =>
          g[Picked(T)] + h[T \ {Picked(T)}]
            = LayerBytes[CHOOSE x \in T : TRUE] + h[T \ {CHOOSE x \in T : TRUE}]
    BY <1>1 DEF Picked
  <2> QED
    BY <2>1 DEF IsSum
<1>3. \E h : IsSum(h, S, g)
  <2>1. IsFiniteSet(S)
    <3>1. 1 \in Int /\ MaxLayers \in Int
      BY FiltersAssumption DEF FiltersAssumption
    <3> QED
      BY <3>1, FS_Interval, FS_Subset, Zenon
  <2>2. g \in [S -> Nat]
    BY FiltersAssumption DEF FiltersAssumption
  <2> HIDE DEF g
  <2> QED
    BY <2>1, <2>2, SumExists
<1>4. Equation(iter)
  <2> HIDE DEF Equation, g
  <2> QED
    BY <1>2, <1>3
<1>5. LayerSum(S) = iter[S]
  BY Zenon DEF LayerSum, Quick!MapThenSumSet, Quick!MapThenFoldSet
<1>6. IsSum(iter, S, g)
  <2> HIDE DEF Equation, iter, g
  <2> QED
    BY <1>2, <1>4
<1> QED
  BY <1>5, <1>6

(* What one filter allocates can be taken out of the sum.                  *)
LEMMA TotalWithout ==
  ASSUME NEW fs, IsFiniteSet(DOMAIN fs), \A n \in DOMAIN fs : Counts(fs[n]),
         NEW n \in DOMAIN fs
  PROVE  LET rest == [m \in DOMAIN fs \ {n} |-> fs[m]]
         IN  /\ Total(fs) = Quick!Bytes(fs[n]) + Total(rest)
             /\ Total(fs) \in Nat /\ Total(rest) \in Nat
<1> DEFINE S == DOMAIN fs
           R == S \ {n}
           rest == [m \in R |-> fs[m]]
           g == [m \in S |-> Quick!Bytes(fs[m])]
           e == [m \in R |-> Quick!Bytes(rest[m])]
<1>1. g \in [S -> Nat] /\ e \in [R -> Nat] /\ \A m \in R : g[m] = e[m]
  BY DEF Counts
<1>2. IsFiniteSet(R) /\ DOMAIN rest = R /\ \A m \in R : Counts(rest[m])
  BY FS_RemoveElement
<1>3. PICK h : IsSum(h, S, g) /\ Total(fs) = h[S]
  BY TotalIsSum
<1>4. \E k : IsSum(k, R, e) /\ Total(rest) = k[R]
  <2> HIDE DEF rest
  <2> QED
    BY <1>2, TotalIsSum
<1>5. PICK k : IsSum(k, R, e) /\ Total(rest) = k[R]
  BY <1>4
<1> HIDE DEF g, e, rest
<1>6. h[S] = g[n] + k[R] /\ h[S] \in Nat /\ k[R] \in Nat
  BY <1>1, <1>3, <1>5, SumWithout
<1>7. g[n] = Quick!Bytes(fs[n])
  BY DEF g
<1> QED
  BY <1>3, <1>5, <1>6, <1>7 DEF rest

Summable(S, g) == IsFiniteSet(S) /\ g \in [S -> Nat]
SameOn(S, g, e) == \A y \in S : e[y] = g[y]

(* The same step for sums in general.                                      *)
LEMMA SumRest ==
  ASSUME NEW S, NEW x \in S, NEW g, Summable(S, g), NEW h, IsSum(h, S, g),
         NEW e, SameOn(S \ {x}, g, e), NEW k, IsSum(k, S \ {x}, e)
  PROVE  h[S] = g[x] + k[S \ {x}] /\ h[S] \in Nat /\ k[S \ {x}] \in Nat
BY SumWithout DEF Summable, SameOn

(* A further layer adds what it allocates, and the first one is always in. *)
LEMMA LayersAdd ==
  ASSUME NEW k \in 1 .. MaxLayers
  PROVE  /\ LayerSum(1 .. k) \in Nat
         /\ LayerSum(1 .. 1) <= LayerSum(1 .. k)
         /\ k < MaxLayers => LayerSum(1 .. (k + 1)) = LayerSum(1 .. k) + LayerBytes[k + 1]
<1> DEFINE g(S) == [l \in S |-> LayerBytes[l]]
<1>0. MaxLayers \in Nat /\ LayerBytes \in [1 .. MaxLayers -> Nat]
  BY FiltersAssumption DEF FiltersAssumption
<1>1. ASSUME NEW S \in SUBSET (1 .. MaxLayers)
      PROVE  IsFiniteSet(S) /\ g(S) \in [S -> Nat]
  <2>1. IsFiniteSet(S)
    <3>1. 1 \in Int /\ MaxLayers \in Int
      BY <1>0
    <3> QED
      BY <3>1, FS_Interval, FS_Subset, Zenon
  <2> QED
    BY <1>0, <2>1
<1>2. ASSUME NEW S \in SUBSET (1 .. MaxLayers), NEW x \in S
      PROVE  /\ LayerSum(S) = LayerBytes[x] + LayerSum(S \ {x})
             /\ LayerSum(S) \in Nat /\ LayerSum(S \ {x}) \in Nat
  <2> DEFINE R == S \ {x}
  <2>1. R \in SUBSET (1 .. MaxLayers)
    OBVIOUS
  <2>a. PICK a : a = g(S)
    OBVIOUS
  <2>b. PICK b : b = g(R)
    OBVIOUS
  <2>2. PICK h : IsSum(h, S, a) /\ LayerSum(S) = h[S]
    BY <2>a, LayerSumIsSum
  <2>3. PICK i : IsSum(i, R, b) /\ LayerSum(R) = i[R]
    BY <2>1, <2>b, LayerSumIsSum
  <2>4. IsFiniteSet(S) /\ a \in [S -> Nat]
    BY <1>1, <2>a
  <2>5. \A y \in R : a[y] = b[y]
    BY <2>a, <2>b
  <2>6. a[x] = LayerBytes[x] /\ LayerBytes[x] \in Nat
    BY <1>0, <2>a
  <2> HIDE DEF g
  <2>7. /\ h[S] = a[x] + i[S \ {x}] /\ h[S] \in Nat /\ i[S \ {x}] \in Nat
    <3>1. IsSum(h, S, a) /\ IsSum(i, S \ {x}, b) /\ \A y \in S \ {x} : b[y] = a[y]
      BY <2>2, <2>3, <2>5
    <3> QED
      <4>1. Summable(S, a) /\ SameOn(S \ {x}, a, b)
        BY <2>4, <3>1 DEF Summable, SameOn
      <4> QED
        BY <3>1, <4>1, SumRest, Zenon
  <2> QED
    BY <2>2, <2>3, <2>6, <2>7
<1>3. LayerSum({}) = 0
  <2>1. PICK h : IsSum(h, {}, g({})) /\ LayerSum({}) = h[{}]
    BY LayerSumIsSum
  <2> QED
    BY <2>1 DEF IsSum
<1>4. 1 .. k \in SUBSET (1 .. MaxLayers) /\ 1 \in 1 .. k /\ 1 .. 1 \in SUBSET (1 .. MaxLayers)
  BY <1>0
<1>5. LayerSum(1 .. k) = LayerBytes[1] + LayerSum((1 .. k) \ {1})
      /\ LayerSum(1 .. k) \in Nat /\ LayerSum((1 .. k) \ {1}) \in Nat
  BY <1>2, <1>4
<1>6. LayerSum(1 .. 1) = LayerBytes[1] + LayerSum({})
  <2>1. (1 .. 1) \ {1} = {} /\ 1 \in 1 .. 1
    OBVIOUS
  <2> QED
    BY <1>2, <1>4, <2>1
<1>7. ASSUME k < MaxLayers
      PROVE  LayerSum(1 .. (k + 1)) = LayerSum(1 .. k) + LayerBytes[k + 1]
  <2>1. /\ 1 .. (k + 1) \in SUBSET (1 .. MaxLayers) /\ k + 1 \in 1 .. (k + 1)
        /\ (1 .. (k + 1)) \ {k + 1} = 1 .. k /\ LayerBytes[k + 1] \in Nat
    BY <1>0, <1>7
  <2>2. LayerSum(1 .. (k + 1)) = LayerBytes[k + 1] + LayerSum((1 .. (k + 1)) \ {k + 1})
    BY <1>2, <2>1
  <2>3. LayerSum((1 .. (k + 1)) \ {k + 1}) = LayerSum(1 .. k)
    BY <2>1, Zenon
  <2> QED
    BY <1>5, <2>1, <2>2, <2>3
<1>8. LayerBytes[1] \in Nat
  BY <1>0
<1> QED
  BY <1>3, <1>5, <1>6, <1>7, <1>8

(***************************************************************************)
(* QuickDb.  The invariant of the registry.                                *)
(***************************************************************************)
Layer == [Slots -> 0 .. CounterMax]

FilterRec == [kind : Quick!Kinds, layers : Seq(Layer), writes : Nat, ready : BOOLEAN,
              poisoned : BOOLEAN]

Shaped(f) == Len(f.layers) \in 1 .. MaxLayers /\ (f.kind # "scalable" => Len(f.layers) = 1)

Filter == {f \in FilterRec : Shaped(f)}

Bag == [Values -> Nat]

\* One token for every position that every occurrence of a value meets, of the
\* values that a counter can count.
Tokens(bag, s) ==
  {t \in Values \X (Nat \X Nat) :
     /\ t[2][1] \in 1 .. bag[t[1]] /\ t[2][2] \in DOMAIN Hash[1][t[1]]
     /\ Hash[1][t[1]][t[2][2]] = s /\ Quick!Countable(t[1])}

\* The counters cover the tokens.
CountersCover(count, bag) ==
  \A s \in Slots : IsFiniteSet(Tokens(bag, s)) /\ Cardinality(Tokens(bag, s)) <= count[s]

Holds(f, bag) ==
  IF f.kind = "counting" THEN CountersCover(f.layers[1], bag)
  ELSE \A v \in Values : bag[v] > 0 => Quick!Contains(f, v)

Sound(f, bag) == (f.ready => ~f.poisoned) /\ (~f.poisoned => Holds(f, bag))

QuickInv ==
  /\ IsFiniteSet(DOMAIN filters) /\ DOMAIN filters \subseteq Names
  /\ filters = [n \in DOMAIN filters |-> filters[n]]
  /\ \A n \in DOMAIN filters : filters[n] \in Filter /\ Sound(filters[n], known[n])
  /\ known \in [Names -> [Values -> 0 .. CounterMax]]
  /\ Total(filters) <= MaxBytes

(***************************************************************************)
(* Tokens.                                                                 *)
(***************************************************************************)
Hits(v, s) == {i \in DOMAIN Hash[1][v] : Hash[1][v][i] = s}

\* The tokens that an occurrence of the value brings.
Share(v, s) == IF Quick!Countable(v) THEN Quick!Times(1, v, s) ELSE 0

(* A hash is a sequence of positions and meets each a number of times.     *)
LEMMA HashTyped ==
  ASSUME NEW v \in Values
  PROVE  /\ Hash[1][v] \in Seq(Slots)
         /\ \A s : /\ IsFiniteSet(Hits(v, s)) /\ Quick!Times(1, v, s) \in Nat
                   /\ Quick!Times(1, v, s) = Cardinality(Hits(v, s))
                   /\ Share(v, s) \in Nat
                   /\ s \in Slots => Share(v, s) <= CounterMax
<1>1. 1 \in 1 .. MaxLayers /\ Hash \in [1 .. MaxLayers -> [Values -> Seq(Slots)]]
  BY FiltersAssumption DEF FiltersAssumption
<1>2. Hash[1][v] \in Seq(Slots)
  BY <1>1
<1>3. IsFiniteSet(DOMAIN Hash[1][v])
  <2>1. DOMAIN Hash[1][v] = 1 .. Len(Hash[1][v]) /\ Len(Hash[1][v]) \in Int /\ 1 \in Int
    BY <1>2
  <2> QED
    BY <2>1, FS_Interval
<1>4. ASSUME NEW s
      PROVE  IsFiniteSet(Hits(v, s)) /\ Cardinality(Hits(v, s)) \in Nat
  <2>1. Hits(v, s) \in SUBSET DOMAIN Hash[1][v]
    BY DEF Hits
  <2>2. IsFiniteSet(Hits(v, s))
    BY <1>3, <2>1, FS_Subset
  <2> QED
    BY <2>2, FS_CardinalityType
<1>5. ASSUME NEW s PROVE Quick!Times(1, v, s) = Cardinality(Hits(v, s))
  BY DEF Quick!Times, Hits, Quick!Cardinality, Cardinality
<1>6. ASSUME NEW s
      PROVE  Share(v, s) \in Nat /\ (s \in Slots => Share(v, s) <= CounterMax)
  BY <1>4, <1>5, FiltersAssumption DEF FiltersAssumption, Share, Quick!Countable
<1> QED
  BY <1>2, <1>4, <1>5, <1>6

(* One more occurrence of a value brings a token for every time its hash   *)
(* meets the position, if it can be counted.                               *)
LEMMA TokenStep ==
  ASSUME NEW low \in Bag, NEW v \in Values, NEW s \in Slots, IsFiniteSet(Tokens(low, s)),
         NEW high, high = [low EXCEPT ![v] = @ + 1]
  PROVE  /\ IsFiniteSet(Tokens(high, s))
         /\ Cardinality(Tokens(high, s)) = Cardinality(Tokens(low, s)) + Share(v, s)
         /\ Cardinality(Tokens(low, s)) \in Nat /\ Tokens(low, s) \in SUBSET Tokens(high, s)
<1> DEFINE H == {i \in Hits(v, s) : Quick!Countable(v)}
           f == [i \in H |-> <<v, <<low[v] + 1, i>>>>]
           New == {t \in Values \X (Nat \X Nat) :
                     t[1] = v /\ t[2][1] = low[v] + 1 /\ t[2][2] \in H}
<1>0. low[v] \in Nat /\ \A u \in Values : high[u] = IF u = v THEN low[v] + 1 ELSE low[u]
  BY DEF Bag
<1>1. H \in SUBSET Nat
  BY HashTyped DEF Hits
<1>2. f \in Bijection(H, New)
  <2>1. \A i \in H : f[i] \in New
    BY <1>0, <1>1
  <2>2. \A t \in New : t = f[t[2][2]] /\ t[2][2] \in H
    BY <1>0, <1>1
  <2>3. \A i, j \in H : f[i] = f[j] => i = j
    OBVIOUS
  <2> HIDE DEF New, H
  <2>4. f \in [H -> New]
    BY <2>1
  <2>5. \A t \in New : \E i \in H : f[i] = t
    BY <2>2
  <2> HIDE DEF f
  <2> QED
    BY <2>3, <2>4, <2>5 DEF Bijection, Injection, Surjection, IsInjective
<1>3. IsFiniteSet(New) /\ Cardinality(New) = Share(v, s)
  <2>1. IsFiniteSet(H) /\ Cardinality(H) = Share(v, s)
    <3>1. CASE Quick!Countable(v)
      <4>1. H = Hits(v, s)
        BY <3>1
      <4> HIDE DEF H
      <4> QED
        BY <3>1, <4>1, HashTyped DEF Share
    <3>2. CASE ~Quick!Countable(v)
      <4>1. H = {}
        BY <3>2
      <4> HIDE DEF H
      <4> QED
        BY <3>2, <4>1, FS_EmptySet DEF Share
    <3> QED
      BY <3>1, <3>2
  <2>2. ExistsBijection(H, New)
    BY <1>2 DEF ExistsBijection
  <2> HIDE DEF H, New
  <2> QED
    BY <2>1, <2>2, FS_Bijection
<1>4. Tokens(high, s) = Tokens(low, s) \cup New
  <2>1. ASSUME NEW t \in Values \X (Nat \X Nat)
        PROVE  t \in Tokens(high, s) <=> t \in Tokens(low, s) \cup New
    <3>1. t[1] \in Values /\ t[2][1] \in Nat
      OBVIOUS
    <3>2. t[2][1] \in 1 .. high[t[1]]
            <=> t[2][1] \in 1 .. low[t[1]] \/ (t[1] = v /\ t[2][1] = low[v] + 1)
      <4>1. low[t[1]] \in Nat
        BY <3>1 DEF Bag
      <4>2. CASE t[1] = v
        BY <1>0, <3>1, <4>1, <4>2
      <4>3. CASE t[1] # v
        BY <1>0, <3>1, <4>1, <4>3
      <4> QED
        BY <4>2, <4>3
    <3> QED
      BY <3>2 DEF Tokens, Hits
  <2>2. Tokens(high, s) \subseteq Values \X (Nat \X Nat)
        /\ Tokens(low, s) \cup New \subseteq Values \X (Nat \X Nat)
    BY DEF Tokens
  <2> QED
    BY <2>1, <2>2
<1>5. Tokens(low, s) \cap New = {}
  BY <1>0 DEF Tokens
<1> HIDE DEF New
<1>6. IsFiniteSet(Tokens(low, s) \cup New)
      /\ Cardinality(Tokens(low, s) \cup New)
           = Cardinality(Tokens(low, s)) + Cardinality(New)
             - Cardinality(Tokens(low, s) \cap New)
  BY <1>3, FS_Union
<1>7. Cardinality({}) = 0 /\ Cardinality(Tokens(low, s)) \in Nat /\ Share(v, s) \in Nat
  BY FS_EmptySet, FS_CardinalityType, HashTyped
<1>8. IsFiniteSet(Tokens(high, s)) /\ Tokens(low, s) \in SUBSET Tokens(high, s)
  BY <1>4, <1>6
<1>9. Cardinality(Tokens(high, s))
        = Cardinality(Tokens(low, s)) + Share(v, s) - 0
  BY <1>3, <1>4, <1>5, <1>6, <1>7, Zenon
<1>10. \A a, b, c \in Nat : a = b + c - 0 => a = b + c
  OBVIOUS
<1>11. Cardinality(Tokens(high, s)) \in Nat
  BY <1>8, FS_CardinalityType
<1> QED
  BY <1>7, <1>8, <1>9, <1>10, <1>11, ZenonT(30)

(* The empty bag has no tokens.                                            *)
LEMMA NoTokens ==
  ASSUME NEW s
  PROVE  Tokens(Quick!Nothing, s) = {}
BY DEF Tokens, Quick!Nothing

(* A value in the bag has a token at every position its hash meets.        *)
LEMMA TokenOf ==
  ASSUME NEW bag \in Bag, NEW v \in Values, bag[v] > 0, Quick!Countable(v),
         NEW s \in Quick!Touches(1, v)
  PROVE  Tokens(bag, s) # {} /\ s \in Slots
<1>1. PICK i \in DOMAIN Hash[1][v] : Hash[1][v][i] = s
  BY DEF Quick!Touches
<1>2. Hash[1][v] \in Seq(Slots)
  BY HashTyped
<1>3. i \in Nat /\ s \in Slots
  BY <1>1, <1>2
<1>4. bag[v] \in Nat /\ 1 \in 1 .. bag[v]
  BY DEF Bag
<1>5. <<v, <<1, i>>>> \in Tokens(bag, s)
  BY <1>1, <1>3, <1>4 DEF Tokens
<1> QED
  BY <1>3, <1>5

(***************************************************************************)
(* One addition.                                                           *)
(***************************************************************************)

(* Counters that fit count every value that can be counted, and no other   *)
(* value takes anything from them: where it wraps a counter, the counter   *)
(* was zero.                                                               *)
LEMMA CountedAdds ==
  ASSUME NEW count \in Layer, NEW v \in Values, Quick!Fits(count, v)
  PROVE  /\ Quick!Counted(count, v) \in Layer
         /\ \A s \in Slots : Quick!Counted(count, v)[s] >= count[s] + Share(v, s)
<1>0. CounterMax \in Nat \ {0}
  BY FiltersAssumption DEF FiltersAssumption
<1>1. \A x, m \in Nat : x % (m + 1) \in 0 .. m
  OBVIOUS
<1>2. \A x, m \in Nat : x <= m => x % (m + 1) = x
  OBVIOUS
<1>3. ASSUME NEW s \in Slots
      PROVE  /\ Quick!Counted(count, v)[s] >= count[s] + Share(v, s)
             /\ Quick!Counted(count, v)[s] \in 0 .. CounterMax
  <2> DEFINE now == Quick!Counted(count, v)[s]
             t == Quick!Times(1, v, s)
             share == Share(v, s)
             c == count[s]
  <2>1. now = (c + t) % (CounterMax + 1)
    BY DEF Quick!Counted
  <2>2. c \in 0 .. CounterMax /\ t \in Nat /\ share \in Nat
    BY HashTyped DEF Layer
  <2>3. (share = t /\ t <= CounterMax) \/ share = 0
    BY HashTyped DEF Share, Quick!Countable
  <2>4. CASE s \in Quick!Touches(1, v)
    <3>1. c <= IF t > CounterMax THEN 0 ELSE CounterMax - t
      BY <2>4 DEF Quick!Fits
    <3> HIDE DEF now, t, share, c
    <3>2. CASE t > CounterMax
      <4>1. c = 0 /\ share = 0 /\ c + t \in Nat
        BY <1>0, <2>2, <2>3, <3>1, <3>2
      <4>2. now \in 0 .. CounterMax
        BY <1>0, <1>1, <2>1, <4>1
      <4> QED
        BY <4>1, <4>2 DEF now, share, c
    <3>3. CASE t <= CounterMax
      <4>1. c + t \in Nat /\ c + t <= CounterMax
        BY <1>0, <2>2, <3>1, <3>3
      <4>2. now = c + t
        BY <1>0, <1>2, <2>1, <4>1
      <4>3. now \in 0 .. CounterMax /\ now >= c + share
        BY <1>0, <2>2, <2>3, <4>1, <4>2
      <4> QED
        BY <4>3 DEF now, share, c
    <3> QED
      BY <1>0, <2>2, <3>2, <3>3
  <2>5. CASE s \notin Quick!Touches(1, v)
    <3>1. Hits(v, s) = {}
      BY <2>5 DEF Hits, Quick!Touches
    <3>2. t = 0
      BY <3>1, HashTyped, FS_EmptySet
    <3> HIDE DEF now, t, share, c
    <3>3. c + t \in Nat /\ c + t <= CounterMax /\ share = 0
      BY <1>0, <2>2, <2>3, <3>2
    <3>4. now = c
      BY <1>0, <1>2, <2>1, <2>2, <3>2, <3>3
    <3>5. now \in 0 .. CounterMax /\ now >= c + share
      BY <2>2, <3>3, <3>4
    <3> QED
      BY <3>5 DEF now, share, c
  <2> QED
    BY <2>4, <2>5
<1>4. Quick!Counted(count, v) \in Layer
  BY <1>3 DEF Layer, Quick!Counted
<1> QED
  BY <1>3, <1>4

(* Marks are counters too.                                                 *)
LEMMA MarkedTyped ==
  ASSUME NEW layer \in Layer, NEW l, NEW v
  PROVE  /\ Quick!Marked(layer, l, v) \in Layer /\ Quick!Empty \in Layer
         /\ \A s \in Slots : Quick!Marked(layer, l, v)[s] =
              IF s \in Quick!Touches(l, v) THEN 1 ELSE layer[s]
<1>1. 0 \in 0 .. CounterMax /\ 1 \in 0 .. CounterMax
  BY FiltersAssumption DEF FiltersAssumption
<1> QED
  BY <1>1 DEF Layer, Quick!Marked, Quick!Empty

(* What a filter allocates depends on its kind and its number of layers.   *)
LEMMA BytesAre ==
  ASSUME NEW f \in Filter
  PROVE  /\ Quick!Bytes(f) = IF f.kind = "counting" THEN CountingBytes
                             ELSE LayerSum(1 .. Len(f.layers))
         /\ Counts(f)
<1>1. DOMAIN f.layers = 1 .. Len(f.layers) /\ Len(f.layers) \in 1 .. MaxLayers
  BY DEF Filter, FilterRec, Shaped
<1>2. LayerSum(1 .. Len(f.layers)) \in Nat /\ CountingBytes \in Nat
  BY <1>1, LayersAdd, FiltersAssumption DEF FiltersAssumption
<1>3. Quick!Bytes(f) = IF f.kind = "counting" THEN CountingBytes
                       ELSE LayerSum(1 .. Len(f.layers))
  BY <1>1, Zenon DEF Quick!Bytes, LayerSum
<1> QED
  BY <1>2, <1>3 DEF Counts

(* A filter by its fields.                                                 *)
LEMMA FilterFields ==
  ASSUME NEW f \in Filter
  PROVE  /\ f.kind \in {"bloom", "counting", "scalable"} /\ f.writes \in Nat
         /\ f.ready \in BOOLEAN /\ f.poisoned \in BOOLEAN /\ f.layers \in Seq(Layer)
         /\ Len(f.layers) \in 1 .. MaxLayers /\ DOMAIN f.layers = 1 .. Len(f.layers)
         /\ f.kind # "scalable" => Len(f.layers) = 1
         /\ \A l \in 1 .. Len(f.layers) : f.layers[l] \in Layer
         /\ f.layers[1] \in Layer /\ 1 \in 1 .. Len(f.layers)
BY DEF Filter, FilterRec, Shaped, Quick!Kinds

(* Positions of a hash are slots.                                          *)
LEMMA TouchesSlots ==
  ASSUME NEW l \in 1 .. MaxLayers, NEW v \in Values
  PROVE  Quick!Touches(l, v) \subseteq Slots
<1>1. Hash[l][v] \in Seq(Slots)
  BY FiltersAssumption DEF FiltersAssumption
<1> QED
  BY <1>1 DEF Quick!Touches

(* A full scalable filter grows by an empty layer.                         *)
LEMMA GrownTyped ==
  ASSUME NEW f \in Filter, f.kind = "scalable", NEW limit \in Int, Quick!Bytes(f) <= limit,
         Quick!NeedsLayer(f) => Quick!MayGrow(f, limit)
  PROVE  LET g == Quick!Grown(f)
         IN  /\ g \in Filter /\ g.kind = f.kind /\ Quick!Bytes(g) <= limit
             /\ g.ready = f.ready /\ g.poisoned = f.poisoned
             /\ Len(f.layers) <= Len(g.layers)
             /\ \A l \in 1 .. Len(f.layers) : g.layers[l] = f.layers[l]
<1> DEFINE g == Quick!Grown(f)
<1>1. CASE ~Quick!NeedsLayer(f)
  BY <1>1, FilterFields DEF Quick!Grown
<1>2. CASE Quick!NeedsLayer(f)
  <2> DEFINE a == Append(f.layers, Quick!Empty)
  <2>1. g = [f EXCEPT !.layers = a, !.writes = 0]
    BY <1>2 DEF Quick!Grown
  <2>2. Len(f.layers) < MaxLayers /\ Quick!Bytes(f) + LayerBytes[Len(f.layers) + 1] <= limit
    BY <1>2 DEF Quick!MayGrow
  <2>3. Quick!Empty \in Layer
    BY FiltersAssumption DEF Quick!Empty, Layer, FiltersAssumption
  <2>4. /\ a \in Seq(Layer) /\ Len(a) = Len(f.layers) + 1
        /\ \A l \in 1 .. Len(f.layers) : a[l] = f.layers[l]
    BY <2>3, FilterFields
  <2> HIDE DEF a
  <2>5. g \in Filter /\ g.kind = f.kind /\ g.ready = f.ready /\ g.poisoned = f.poisoned
        /\ g.layers = a
    <3>1. g.kind = f.kind /\ g.ready = f.ready /\ g.poisoned = f.poisoned /\ g.layers = a
      BY <2>1 DEF Filter, FilterRec
    <3>2. g \in FilterRec
      <4> HIDE DEF g
      <4> QED
        BY <2>1, <2>4 DEF Filter, FilterRec
    <3>3. Len(a) \in 1 .. MaxLayers
      <4>1. MaxLayers \in Nat /\ Len(f.layers) \in 1 .. MaxLayers
        BY FilterFields, FiltersAssumption DEF FiltersAssumption
      <4> QED
        BY <2>2, <2>4, <4>1
    <3> HIDE DEF g
    <3> QED
      BY <3>1, <3>2, <3>3 DEF Filter, Shaped
  <2>6. Quick!Bytes(g) <= limit
    <3>1. /\ Quick!Bytes(g) = LayerSum(1 .. (Len(f.layers) + 1))
          /\ Quick!Bytes(f) = LayerSum(1 .. Len(f.layers))
      BY <2>4, <2>5, BytesAre
    <3>2. LayerSum(1 .. (Len(f.layers) + 1))
            = LayerSum(1 .. Len(f.layers)) + LayerBytes[Len(f.layers) + 1]
      BY <2>2, LayersAdd, FilterFields
    <3> QED
      BY <2>2, <3>1, <3>2
  <2>7. Len(f.layers) <= Len(g.layers)
    BY <2>4, <2>5, FilterFields
  <2> HIDE DEF g
  <2> QED
    BY <2>4, <2>5, <2>6, <2>7 DEF g
<1> QED
  BY <1>1, <1>2

MarkedLast(h, v, w) ==
  LET i == Len(h.layers)
  IN [h EXCEPT !.layers = [h.layers EXCEPT ![i] = Quick!Marked(h.layers[i], i, v)],
               !.writes = w]

(* Marks in the last layer.                                                *)
LEMMA MarkedLastTyped ==
  ASSUME NEW h \in Filter, NEW v \in Values, NEW w \in Nat
  PROVE  LET k == MarkedLast(h, v, w)
             i == Len(h.layers)
         IN  /\ k \in Filter /\ k.kind = h.kind /\ Quick!Bytes(k) = Quick!Bytes(h)
             /\ k.ready = h.ready /\ k.poisoned = h.poisoned
             /\ Len(k.layers) = i
             /\ \A s \in Quick!Touches(i, v) : k.layers[i][s] = 1
             /\ \A l \in 1 .. i : \A s \in Slots : h.layers[l][s] # 0 => k.layers[l][s] # 0
<1> DEFINE k == MarkedLast(h, v, w)
           i == Len(h.layers)
           m == Quick!Marked(h.layers[i], i, v)
           e == [h.layers EXCEPT ![i] = m]
<1>1. i \in 1 .. Len(h.layers) /\ h.layers[i] \in Layer /\ i \in 1 .. MaxLayers
  BY FilterFields
<1>2. m \in Layer /\ \A s \in Slots : m[s] = IF s \in Quick!Touches(i, v) THEN 1
                                              ELSE h.layers[i][s]
  BY <1>1, MarkedTyped
<1>3. k = [h EXCEPT !.layers = e, !.writes = w]
  BY DEF MarkedLast
<1> HIDE DEF m, k
<1>4. e \in Seq(Layer) /\ Len(e) = i
      /\ \A l \in 1 .. i : e[l] = IF l = i THEN m ELSE h.layers[l]
  BY <1>1, <1>2, FilterFields
<1> HIDE DEF e
<1>5. /\ k \in FilterRec /\ k.kind = h.kind /\ k.layers = e
      /\ k.ready = h.ready /\ k.poisoned = h.poisoned
  BY <1>3, <1>4 DEF Filter, FilterRec
<1>6. k \in Filter
  BY <1>4, <1>5, FilterFields DEF Filter, Shaped
<1>7. Quick!Bytes(k) = Quick!Bytes(h)
  <2>1. Len(k.layers) = Len(h.layers) /\ k.kind = h.kind
    BY <1>4, <1>5
  <2> QED
    BY <1>6, <2>1, BytesAre
<1>8. \A s \in Quick!Touches(i, v) : s \in Slots
  BY <1>1, TouchesSlots
<1>9. \A s \in Quick!Touches(i, v) : k.layers[i][s] = 1
  BY <1>1, <1>2, <1>4, <1>5, <1>8
<1>10. \A l \in 1 .. i : \A s \in Slots : h.layers[l][s] # 0 => k.layers[l][s] # 0
  BY <1>2, <1>4, <1>5
<1> QED
  BY <1>4, <1>5, <1>6, <1>7, <1>9, <1>10 DEF k

(* What an accepted addition yields.                                       *)
LEMMA InsertedTyped ==
  ASSUME NEW f \in Filter, NEW v \in Values, NEW limit \in Int, Quick!Bytes(f) <= limit,
         Quick!Accepts(f, v, limit)
  PROVE  LET g == Quick!Inserted(f, v)
         IN  /\ g \in Filter /\ g.kind = f.kind /\ Quick!Bytes(g) <= limit
             /\ g.ready = f.ready /\ g.poisoned = f.poisoned
             /\ f.kind = "counting" => g.layers[1] = Quick!Counted(f.layers[1], v)
             /\ f.kind # "counting" =>
                  /\ Len(f.layers) <= Len(g.layers)
                  /\ \A s \in Quick!Touches(Len(g.layers), v) : g.layers[Len(g.layers)][s] = 1
                  /\ \A l \in 1 .. Len(f.layers) : \A s \in Slots :
                       f.layers[l][s] # 0 => g.layers[l][s] # 0
<1> DEFINE g == Quick!Inserted(f, v)
<1>1. CASE f.kind = "counting"
  <2> DEFINE c == Quick!Counted(f.layers[1], v)
  <2>1. Quick!Fits(f.layers[1], v)
    BY <1>1 DEF Quick!Accepts
  <2>2. c \in Layer
    BY <2>1, CountedAdds, FilterFields
  <2> HIDE DEF c
  <2>3. g = [f EXCEPT !.layers = [f.layers EXCEPT ![1] = c]]
    BY <1>1 DEF Quick!Inserted, c
  <2>4. [f.layers EXCEPT ![1] = c] \in Seq(Layer) /\ Len([f.layers EXCEPT ![1] = c]) = 1
        /\ [f.layers EXCEPT ![1] = c][1] = c
    BY <1>1, <2>2, FilterFields
  <2>5. /\ g \in FilterRec /\ g.kind = f.kind /\ g.layers = [f.layers EXCEPT ![1] = c]
        /\ g.ready = f.ready /\ g.poisoned = f.poisoned
    BY <2>3, <2>4 DEF Filter, FilterRec
  <2>6. g \in Filter
    BY <2>4, <2>5, FilterFields DEF Filter, Shaped
  <2>7. Quick!Bytes(g) = Quick!Bytes(f)
    BY <1>1, <2>5, <2>6, BytesAre
  <2> HIDE DEF g
  <2> QED
    BY <1>1, <2>4, <2>5, <2>6, <2>7 DEF c, g
<1>3. CASE f.kind = "bloom"
  <2>1. Len(f.layers) = 1 /\ f.writes \in Nat
    BY <1>3, FilterFields
  <2>2. g = MarkedLast(f, v, f.writes)
    BY <1>3, <2>1 DEF Quick!Inserted, Filter, FilterRec, MarkedLast
  <2> HIDE DEF g
  <2> DEFINE i == Len(f.layers)
  <2>3. /\ g \in Filter /\ g.kind = f.kind /\ Quick!Bytes(g) = Quick!Bytes(f)
        /\ g.ready = f.ready /\ g.poisoned = f.poisoned
        /\ Len(g.layers) = i
        /\ \A s \in Quick!Touches(i, v) : g.layers[i][s] = 1
        /\ \A l \in 1 .. i : \A s \in Slots : f.layers[l][s] # 0 => g.layers[l][s] # 0
    BY <2>1, <2>2, MarkedLastTyped
  <2> QED
    BY <1>3, <2>1, <2>3 DEF g
<1>4. CASE f.kind = "scalable"
  <2> DEFINE h == Quick!Grown(f)
             i == Len(h.layers)
  <2>1. Quick!NeedsLayer(f) => Quick!MayGrow(f, limit)
    BY <1>4 DEF Quick!Accepts
  <2>2. /\ h \in Filter /\ h.kind = f.kind /\ Quick!Bytes(h) <= limit
        /\ h.ready = f.ready /\ h.poisoned = f.poisoned
        /\ Len(f.layers) <= Len(h.layers)
        /\ \A l \in 1 .. Len(f.layers) : h.layers[l] = f.layers[l]
    BY <1>4, <2>1, GrownTyped
  <2>3. g = MarkedLast(h, v, h.writes + 1)
    BY <1>4 DEF Quick!Inserted, MarkedLast
  <2>4. h.writes + 1 \in Nat
    BY <2>2, FilterFields
  <2> HIDE DEF g, h
  <2>5. /\ g \in Filter /\ g.kind = h.kind /\ Quick!Bytes(g) = Quick!Bytes(h)
        /\ g.ready = h.ready /\ g.poisoned = h.poisoned
        /\ Len(g.layers) = i
        /\ \A s \in Quick!Touches(i, v) : g.layers[i][s] = 1
        /\ \A l \in 1 .. i : \A s \in Slots : h.layers[l][s] # 0 => g.layers[l][s] # 0
    BY <2>2, <2>3, <2>4, MarkedLastTyped
  <2>6. \A l \in 1 .. Len(f.layers) : l \in 1 .. i
    BY <2>2, FilterFields
  <2>7. \A l \in 1 .. Len(f.layers) : \A s \in Slots :
          f.layers[l][s] # 0 => g.layers[l][s] # 0
    BY <2>2, <2>5, <2>6
  <2> QED
    BY <1>4, <2>2, <2>5, <2>7 DEF g
<1> QED
  BY <1>1, <1>3, <1>4, FilterFields

(* An addition, accepted or not.                                           *)
LEMMA AddOneTyped ==
  ASSUME NEW f \in Filter, NEW v \in Values, NEW limit \in Int, Quick!Bytes(f) <= limit
  PROVE  LET g == Quick!AddOne(f, v, limit)
         IN  /\ g \in Filter /\ g.kind = f.kind /\ Quick!Bytes(g) <= limit
             /\ ~Quick!Accepts(f, v, limit) => g.poisoned /\ ~g.ready
<1>1. CASE Quick!Accepts(f, v, limit)
  BY <1>1, InsertedTyped DEF Quick!AddOne
<1>2. CASE ~Quick!Accepts(f, v, limit)
  <2> DEFINE g == Quick!Failed(f)
  <2>1. /\ g \in FilterRec /\ g.kind = f.kind /\ g.layers = f.layers
        /\ g.poisoned /\ ~g.ready
    BY DEF Quick!Failed, Filter, FilterRec
  <2>2. g \in Filter
    BY <2>1, FilterFields DEF Filter, Shaped
  <2>3. Quick!Bytes(g) = Quick!Bytes(f)
    BY <2>1, <2>2, BytesAre
  <2>4. Quick!AddOne(f, v, limit) = g
    BY <1>2 DEF Quick!AddOne
  <2> HIDE DEF g
  <2> QED
    BY <2>1, <2>2, <2>3, <2>4
<1> QED
  BY <1>1, <1>2

(* A filter that holds a bag and takes a value holds it as well.           *)
LEMMA InsertedHolds ==
  ASSUME NEW f \in Filter, NEW v \in Values, NEW limit \in Int, Quick!Bytes(f) <= limit,
         Quick!Accepts(f, v, limit), NEW bag \in Bag, Holds(f, bag),
         NEW high \in Bag, high = bag \/ high = [bag EXCEPT ![v] = @ + 1]
  PROVE  Holds(Quick!Inserted(f, v), high)
<1> DEFINE g == Quick!Inserted(f, v)
<1>1. CASE f.kind = "counting"
  <2> DEFINE was == f.layers[1]
             now == Quick!Counted(was, v)
  <2>1. Quick!Fits(was, v) /\ was \in Layer
    BY <1>1, FilterFields DEF Quick!Accepts
  <2>2. now \in Layer /\ \A s \in Slots : now[s] >= was[s] + Share(v, s)
    BY <2>1, CountedAdds
  <2>3. CountersCover(was, bag)
    BY <1>1 DEF Holds
  <2>4. ASSUME NEW s \in Slots
        PROVE  IsFiniteSet(Tokens(high, s)) /\ Cardinality(Tokens(high, s)) <= now[s]
    <3>1. IsFiniteSet(Tokens(bag, s)) /\ Cardinality(Tokens(bag, s)) <= was[s]
      BY <2>3 DEF CountersCover
    <3>2. Cardinality(Tokens(bag, s)) \in Nat /\ Share(v, s) \in Nat
          /\ was[s] \in Nat /\ now[s] \in Nat
      BY <2>1, <2>2, <3>1, FS_CardinalityType, HashTyped DEF Layer
    <3>3. CASE high = bag
      <4>1. now[s] >= was[s] + Share(v, s)
        BY <2>2
      <4> HIDE DEF now, was
      <4> QED
        BY <3>1, <3>2, <3>3, <4>1
    <3>4. CASE high = [bag EXCEPT ![v] = @ + 1]
      <4>1. /\ IsFiniteSet(Tokens(high, s))
            /\ Cardinality(Tokens(high, s))
                 = Cardinality(Tokens(bag, s)) + Share(v, s)
        BY <3>1, <3>4, TokenStep
      <4>2. now[s] >= was[s] + Share(v, s)
        BY <2>2
      <4> HIDE DEF now, was
      <4> QED
        BY <3>1, <3>2, <4>1, <4>2
    <3> QED
      BY <3>3, <3>4
  <2>5. g.kind = "counting" /\ g.layers[1] = now
    BY <1>1, InsertedTyped
  <2> HIDE DEF g, now
  <2> QED
    BY <2>4, <2>5 DEF Holds, CountersCover, g
<1>2. CASE f.kind # "counting"
  <2>1. /\ g \in Filter /\ g.kind = f.kind /\ Len(f.layers) <= Len(g.layers)
        /\ \A s \in Quick!Touches(Len(g.layers), v) : g.layers[Len(g.layers)][s] = 1
        /\ \A l \in 1 .. Len(f.layers) : \A s \in Slots :
             f.layers[l][s] # 0 => g.layers[l][s] # 0
    BY <1>2, InsertedTyped
  <2>2. /\ DOMAIN g.layers = 1 .. Len(g.layers) /\ DOMAIN f.layers = 1 .. Len(f.layers)
        /\ Len(g.layers) \in 1 .. MaxLayers /\ Len(f.layers) \in 1 .. MaxLayers
        /\ MaxLayers \in Nat
    BY <2>1, FilterFields, FiltersAssumption DEF FiltersAssumption
  <2> HIDE DEF g
  <2>3. Quick!Contains(g, v)
    BY <2>1, <2>2 DEF Quick!Contains
  <2>4. ASSUME NEW u \in Values, Quick!Contains(f, u) PROVE Quick!Contains(g, u)
    <3>1. PICK l \in 1 .. Len(f.layers) : \A s \in Quick!Touches(l, u) : f.layers[l][s] # 0
      BY <2>2, <2>4 DEF Quick!Contains
    <3>2. l \in 1 .. MaxLayers /\ l \in 1 .. Len(g.layers)
      BY <2>1, <2>2
    <3>3. \A s \in Quick!Touches(l, u) : s \in Slots
      BY <3>2, TouchesSlots
    <3>4. \A s \in Quick!Touches(l, u) : g.layers[l][s] # 0
      BY <2>1, <3>1, <3>3
    <3> QED
      BY <2>2, <3>2, <3>4 DEF Quick!Contains
  <2>5. ASSUME NEW u \in Values, high[u] > 0 PROVE Quick!Contains(g, u)
    <3>1. u = v \/ bag[u] > 0
      BY <2>5 DEF Bag
    <3>2. bag[u] > 0 => Quick!Contains(f, u)
      BY <1>2 DEF Holds
    <3> QED
      BY <2>3, <2>4, <3>1, <3>2
  <2>6. Holds(g, high)
    BY <1>2, <2>1, <2>5 DEF Holds
  <2> QED
    BY <2>6 DEF g
<1> QED
  BY <1>1, <1>2

(* What is held is answered.                                               *)
LEMMA HeldIsContained ==
  ASSUME NEW f \in Filter, NEW bag \in Bag, Holds(f, bag), NEW v \in Values, bag[v] > 0,
         f.kind = "counting" => Quick!Countable(v)
  PROVE  Quick!Contains(f, v)
<1>1. CASE f.kind # "counting"
  BY <1>1 DEF Holds
<1>2. CASE f.kind = "counting"
  <2>1. CountersCover(f.layers[1], bag) /\ f.layers[1] \in Layer /\ 1 \in DOMAIN f.layers
    BY <1>2, FilterFields DEF Holds
  <2>2. ASSUME NEW s \in Quick!Touches(1, v) PROVE f.layers[1][s] # 0
    <3>1. Tokens(bag, s) # {} /\ s \in Slots
      BY <1>2, TokenOf
    <3>2. IsFiniteSet(Tokens(bag, s)) /\ Cardinality(Tokens(bag, s)) <= f.layers[1][s]
      BY <2>1, <3>1 DEF CountersCover
    <3>3. Cardinality(Tokens(bag, s)) \in Nat /\ Cardinality(Tokens(bag, s)) # 0
      BY <3>1, <3>2, FS_CardinalityType, FS_EmptySet
    <3>4. f.layers[1][s] \in Nat
      BY <2>1, <3>1 DEF Layer
    <3> QED
      BY <3>2, <3>3, <3>4
  <2> QED
    BY <2>1, <2>2 DEF Quick!Contains
<1> QED
  BY <1>1, <1>2

(* An empty bag is held by every filter.                                   *)
LEMMA NothingIsHeld ==
  ASSUME NEW f \in Filter
  PROVE  Holds(f, Quick!Nothing)
<1>1. CASE f.kind = "counting"
  <2>1. f.layers[1] \in Layer
    BY FilterFields
  <2>2. ASSUME NEW s \in Slots
        PROVE  /\ IsFiniteSet(Tokens(Quick!Nothing, s))
               /\ Cardinality(Tokens(Quick!Nothing, s)) <= f.layers[1][s]
    <3>1. IsFiniteSet({}) /\ Cardinality({}) = 0 /\ f.layers[1][s] >= 0
      BY <2>1, FS_EmptySet DEF Layer
    <3>2. Tokens(Quick!Nothing, s) = {}
      BY NoTokens
    <3> QED
      BY <3>1, <3>2
  <2> QED
    BY <1>1, <2>2 DEF Holds, CountersCover
<1>2. CASE f.kind # "counting"
  BY <1>2 DEF Holds, Quick!Nothing
<1> QED
  BY <1>1, <1>2

(***************************************************************************)
(* Additions one after the other.                                          *)
(***************************************************************************)
Result(limit) == [f : {g \in Filter : Quick!Bytes(g) <= limit}, ok : BOOLEAN]

AddNext(r, v, limit) ==
  IF ~r.ok THEN r
  ELSE [f |-> Quick!AddOne(r.f, v, limit), ok |-> Quick!Accepts(r.f, v, limit)]

Steps(r, f, values, limit) ==
  /\ r[0] = [f |-> f, ok |-> TRUE]
  /\ \A i \in 1 .. Len(values) : r[i] = AddNext(r[i - 1], values[i], limit)

(* The largest number of a set.                                            *)
LEMMA MaxIsMember ==
  ASSUME NEW n \in Nat, NEW T \in SUBSET (1 .. n), T # {}
  PROVE  Quick!Seqs!Max(T) \in T
<1> DEFINE B == {k \in Nat : \A y \in T : y <= k}
<1>1. n \in B
  OBVIOUS
<1>2. PICK m \in B : \A k \in B : m <= k
  <2> HIDE DEF B
  <2>1. B \in SUBSET Nat
    BY DEF B
  <2> QED
    BY <1>1, <2>1, Least
<1>3. m \in T
  <2> SUFFICES ASSUME m \notin T PROVE FALSE
    OBVIOUS
  <2>1. PICK y \in T : TRUE
    OBVIOUS
  <2>2. m \in Nat /\ m # 0
    BY <1>2, <2>1
  <2>3. m - 1 \in B
    BY <1>2, <2>2
  <2> QED
    BY <1>2, <2>2, <2>3
<1>4. \E x \in T : \A y \in T : x >= y
  BY <1>2, <1>3
<1> QED
  BY <1>4 DEF Quick!Seqs!Max

(* Of the first numbers it is the last.                                    *)
LEMMA MaxOfInterval ==
  ASSUME NEW n \in Nat \ {0}
  PROVE  Quick!Seqs!Max(1 .. n) = n
<1>1. \E x \in 1 .. n : \A y \in 1 .. n : x >= y
  <2>1. n \in 1 .. n
    OBVIOUS
  <2> QED
    BY <2>1
<1>2. Quick!Seqs!Max(1 .. n) \in 1 .. n /\ \A y \in 1 .. n : Quick!Seqs!Max(1 .. n) >= y
  BY <1>1 DEF Quick!Seqs!Max
<1> QED
  BY <1>2

(* The first numbers without the last.                                     *)
LEMMA Firsts ==
  ASSUME NEW n \in Nat, NEW i \in 1 .. n
  PROVE  /\ 1 .. i \in SUBSET (1 .. n) /\ 1 .. i # {} /\ (1 .. i) \ {i} = 1 .. (i - 1)
         /\ i - 1 \in 0 .. n /\ i \in 0 .. n /\ i \in Nat \ {0}
<1>1. i \in Nat \ {0} /\ i - 1 \in 0 .. n /\ i \in 0 .. n /\ i \in 1 .. i
  OBVIOUS
<1>2. \A x : x \in (1 .. i) \ {i} <=> x \in 1 .. (i - 1)
  BY <1>1
<1>3. 1 .. i \in SUBSET (1 .. n)
  BY <1>1
<1>4. (1 .. i) \ {i} = 1 .. (i - 1)
  BY <1>2, Zenon
<1> QED
  BY <1>1, <1>3, <1>4

(* A further addition to a result.                                         *)
LEMMA AddNextTyped ==
  ASSUME NEW limit \in Int, NEW r \in Result(limit), NEW v \in Values
  PROVE  AddNext(r, v, limit) \in Result(limit)
<1>1. r.f \in Filter /\ Quick!Bytes(r.f) <= limit /\ r.ok \in BOOLEAN
  BY DEF Result
<1>2. Quick!AddOne(r.f, v, limit) \in {g \in Filter : Quick!Bytes(g) <= limit}
  BY <1>1, AddOneTyped
<1>3. Quick!Accepts(r.f, v, limit) \in BOOLEAN
  <2>1. r.f.kind \in {"bloom", "counting", "scalable"}
    BY <1>1, FilterFields
  <2>2. Quick!Fits(r.f.layers[1], v) \in BOOLEAN
    BY Zenon DEF Quick!Fits
  <2> QED
    BY <2>1, <2>2 DEF Quick!Accepts
<1> QED
  BY <1>1, <1>2, <1>3 DEF AddNext, Result

(* A list is added value by value.                                         *)
LEMMA AddAllSteps ==
  ASSUME NEW limit \in Int, NEW f \in Filter, Quick!Bytes(f) <= limit,
         NEW values \in Seq(Values)
  PROVE  \E r : Steps(r, f, values, limit) /\ Quick!AddAll(f, values, limit) = r[Len(values)]
<1> DEFINE D == DOMAIN values
           X == Result(limit)
           base == [f |-> f, ok |-> TRUE]
           pick == [T \in SUBSET D |-> Quick!Seqs!Max(T)]
           step == [i \in D |-> [x \in X |-> AddNext(x, values[i], limit)]]
           Next1(x, v) == IF ~x.ok THEN x
                          ELSE [f |-> Quick!AddOne(x.f, v, limit),
                                ok |-> Quick!Accepts(x.f, v, limit)]
           Equation(h) == h = [T \in SUBSET D |->
                                 IF T = {} THEN base
                                 ELSE Next1(h[T \ {Quick!Seqs!Max(T)}],
                                            values[Quick!Seqs!Max(T)])]
           iter == CHOOSE h : Equation(h)
<1>1. /\ Len(values) \in Nat /\ D = 1 .. Len(values) /\ IsFiniteSet(D)
      /\ \A i \in D : values[i] \in Values
  <2>1. Len(values) \in Nat /\ D = 1 .. Len(values) /\ \A i \in D : values[i] \in Values
    OBVIOUS
  <2>2. 1 \in Int /\ Len(values) \in Int
    BY <2>1
  <2> QED
    BY <2>1, <2>2, FS_Interval
<1>2. base \in X
  BY DEF Result
<1>3. \A T \in SUBSET D : T # {} => Quick!Seqs!Max(T) \in T
  BY <1>1, MaxIsMember
<1>4. step \in [D -> [X -> X]]
  <2> HIDE DEF X
  <2>1. \A i \in D : \A x \in X : AddNext(x, values[i], limit) \in X
    BY <1>1, AddNextTyped DEF X
  <2> HIDE DEF D
  <2> QED
    BY <2>1
<1>5. PICK h \in [SUBSET D -> X] : IsFold(h, D, base, pick, step)
  <2>1. \A T \in SUBSET D : T # {} => pick[T] \in T
    BY <1>3
  <2>2. IsFiniteSet(D)
    BY <1>1
  <2> HIDE DEF D, X, base, pick, step
  <2> QED
    <3>1. base \in X
      BY <1>2
    <3>2. step \in [D -> [X -> X]]
      BY <1>4
    <3>3. \A T \in SUBSET D : T # {} => pick[T] \in T
      BY <2>1
    <3>4. IsFiniteSet(D)
      BY <2>2
    <3>5. Folding(D, X, base, pick, step)
      BY <3>1, <3>2, <3>3, <3>4 DEF Folding
    <3> QED
      BY <3>5, FoldIsDefined, Zenon
<1>6. Equation(h)
  <2>1. ASSUME NEW T \in SUBSET D, T # {}
        PROVE  h[T] = AddNext(h[T \ {Quick!Seqs!Max(T)}], values[Quick!Seqs!Max(T)], limit)
    <3> DEFINE i == Quick!Seqs!Max(T)
    <3>1. i \in D /\ h[T \ {i}] \in X /\ pick[T] = i
      <4> HIDE DEF X
      <4> QED
        BY <1>3, <1>5, <2>1
    <3>2. h[T] = step[i][h[T \ {i}]]
      <4> HIDE DEF step, i, base, X
      <4> QED
        BY <1>5, <2>1, <3>1 DEF IsFold
    <3> HIDE DEF i, X
    <3>3. step[i][h[T \ {i}]] = AddNext(h[T \ {i}], values[i], limit)
      BY <3>1
    <3> QED
      BY <3>2, <3>3 DEF i
  <2>2. h[{}] = base
    BY <1>5 DEF IsFold
  <2> HIDE DEF D, X, base
  <2>3. \A T \in SUBSET D : h[T] = IF T = {} THEN base
                                   ELSE AddNext(h[T \ {Quick!Seqs!Max(T)}],
                                                values[Quick!Seqs!Max(T)], limit)
    BY <2>1, <2>2
  <2> QED
    BY <1>5, <2>3 DEF AddNext
<1>7. Equation(iter)
  <2> HIDE DEF Equation
  <2> QED
    BY <1>6
<1>8. Quick!AddAll(f, values, limit) = iter[D]
  BY Zenon DEF Quick!AddAll, Quick!Seqs!FoldLeft, Quick!Seqs!MapThenFoldSet
<1> DEFINE r == [i \in 0 .. Len(values) |-> iter[1 .. i]]
<1>9. r[0] = base
  <2>1. 1 .. 0 = {} /\ 0 \in 0 .. Len(values)
    BY <1>1
  <2>2. iter[{}] = base
    <3> HIDE DEF iter, base
    <3> QED
      BY <1>7
  <2> HIDE DEF iter, base
  <2> QED
    BY <2>1, <2>2
<1>10. ASSUME NEW i \in 1 .. Len(values)
       PROVE  r[i] = AddNext(r[i - 1], values[i], limit)
  <2>1. /\ 1 .. i \in SUBSET D /\ 1 .. i # {} /\ (1 .. i) \ {i} = 1 .. (i - 1)
        /\ i - 1 \in 0 .. Len(values) /\ i \in 0 .. Len(values) /\ i \in Nat \ {0}
    <3>1. Len(values) \in Nat /\ i \in 1 .. Len(values) /\ D = 1 .. Len(values)
      BY <1>1
    <3> HIDE DEF D
    <3> QED
      BY <3>1, Firsts
  <2>2. Quick!Seqs!Max(1 .. i) = i
    BY <2>1, MaxOfInterval
  <2> HIDE DEF iter, base, D
  <2>3. iter[1 .. i] = Next1(iter[(1 .. i) \ {Quick!Seqs!Max(1 .. i)}],
                             values[Quick!Seqs!Max(1 .. i)])
    <3> HIDE DEF Next1
    <3> QED
      BY <1>7, <2>1
  <2>4. iter[1 .. i] = AddNext(iter[1 .. (i - 1)], values[i], limit)
    BY <2>1, <2>2, <2>3 DEF AddNext
  <2> QED
    BY <2>1, <2>4
<1>11. r[Len(values)] = iter[D]
  <2>1. Len(values) \in 0 .. Len(values)
    BY <1>1
  <2> HIDE DEF iter, D
  <2> QED
    BY <1>1, <2>1
<1> HIDE DEF iter, r
<1> QED
  BY <1>8, <1>9, <1>10, <1>11 DEF Steps

(***************************************************************************)
(* What the caller reported, value by value.                               *)
(***************************************************************************)
Up(values, i, v) == {j \in 1 .. i : values[j] = v}

Reckoned(bag, values, i, cap) ==
  [v \in Values |-> IF bag[v] + Cardinality(Up(values, i, v)) <= cap
                    THEN bag[v] + Cardinality(Up(values, i, v)) ELSE cap]

(* A further value occurs once more, the others as often as before.        *)
LEMMA UpGrows ==
  ASSUME NEW values \in Seq(Values), NEW i \in 1 .. Len(values), NEW v
  PROVE  /\ Cardinality(Up(values, i - 1, v)) \in Nat
         /\ Cardinality(Up(values, i, v)) =
              IF v = values[i] THEN Cardinality(Up(values, i - 1, v)) + 1
              ELSE Cardinality(Up(values, i - 1, v))
<1>1. i - 1 \in Nat /\ i \in Nat /\ \A j : j \in 1 .. i <=> j \in 1 .. (i - 1) \/ j = i
  <2>1. Len(values) \in Nat
    OBVIOUS
  <2> QED
    BY <2>1
<1>2. i \notin Up(values, i - 1, v)
  BY <1>1 DEF Up
<1>3. Up(values, i, v) = IF v = values[i] THEN Up(values, i - 1, v) \cup {i}
                         ELSE Up(values, i - 1, v)
  BY <1>1 DEF Up
<1>4. IsFiniteSet(Up(values, i - 1, v))
  <2>1. 1 \in Int /\ i - 1 \in Int
    BY <1>1
  <2>2. IsFiniteSet(1 .. (i - 1))
    BY <2>1, FS_Interval
  <2>3. Up(values, i - 1, v) \in SUBSET (1 .. (i - 1))
    BY DEF Up
  <2> QED
    BY <2>2, <2>3, FS_Subset
<1>5. Cardinality(Up(values, i - 1, v)) \in Nat
  BY <1>4, FS_CardinalityType
<1>6. Cardinality(Up(values, i - 1, v) \cup {i}) = Cardinality(Up(values, i - 1, v)) + 1
  BY <1>2, <1>4, FS_AddElement
<1> QED
  BY <1>3, <1>5, <1>6

(* So the bag stays as it is or has one more of the value.                 *)
LEMMA ReckonedStep ==
  ASSUME NEW bag \in Bag, NEW values \in Seq(Values), NEW i \in 1 .. Len(values),
         NEW cap \in Nat
  PROVE  LET low == Reckoned(bag, values, i - 1, cap)
             high == Reckoned(bag, values, i, cap)
         IN  /\ low \in Bag /\ high \in Bag
             /\ high = low \/ high = [low EXCEPT ![values[i]] = @ + 1]
<1> DEFINE low == Reckoned(bag, values, i - 1, cap)
           high == Reckoned(bag, values, i, cap)
           Before(v) == Cardinality(Up(values, i - 1, v))
           After(v) == Cardinality(Up(values, i, v))
<1>1. \A v : Before(v) \in Nat /\ After(v) = IF v = values[i] THEN Before(v) + 1 ELSE Before(v)
  BY UpGrows
<1>2. /\ low = [v \in Values |-> IF bag[v] + Before(v) <= cap THEN bag[v] + Before(v) ELSE cap]
      /\ high = [v \in Values |-> IF bag[v] + After(v) <= cap THEN bag[v] + After(v) ELSE cap]
  BY DEF Reckoned
<1> HIDE DEF low, high, Before, After
<1>3. \A v \in Values : bag[v] \in Nat
  BY DEF Bag
<1>4. ASSUME NEW v \in Values
      PROVE  /\ low[v] \in Nat /\ high[v] \in Nat
             /\ v # values[i] => high[v] = low[v]
             /\ v = values[i] => high[v] = low[v] \/ high[v] = low[v] + 1
  <2>1. bag[v] \in Nat /\ Before(v) \in Nat
        /\ After(v) = IF v = values[i] THEN Before(v) + 1 ELSE Before(v)
    BY <1>1, <1>3
  <2>2. /\ low[v] = IF bag[v] + Before(v) <= cap THEN bag[v] + Before(v) ELSE cap
        /\ high[v] = IF bag[v] + After(v) <= cap THEN bag[v] + After(v) ELSE cap
    BY <1>2
  <2>3. CASE v = values[i]
    BY <2>1, <2>2, <2>3
  <2>4. CASE v # values[i]
    BY <2>1, <2>2, <2>4
  <2> QED
    BY <2>3, <2>4
<1>5. low \in Bag /\ high \in Bag
  BY <1>2, <1>4 DEF Bag
<1>6. CASE high[values[i]] = low[values[i]]
  <2>1. \A v \in Values : high[v] = low[v]
    BY <1>4, <1>6
  <2>2. high = low
    BY <1>5, <2>1 DEF Bag
  <2> QED
    BY <1>5, <2>2 DEF low, high
<1>7. CASE high[values[i]] # low[values[i]]
  <2>1. values[i] \in Values
    OBVIOUS
  <2>2. \A v \in Values : high[v] = IF v = values[i] THEN low[v] + 1 ELSE low[v]
    BY <1>4, <1>7
  <2>3. high = [low EXCEPT ![values[i]] = @ + 1]
    BY <1>5, <2>1, <2>2 DEF Bag
  <2> QED
    BY <1>5, <2>3 DEF low, high
<1> QED
  BY <1>6, <1>7

(* Before the first value the bag is what it was, cut at the cap.          *)
LEMMA ReckonedStart ==
  ASSUME NEW bag \in Bag, NEW values, NEW cap \in Nat
  PROVE  LET start == Reckoned(bag, values, 0, cap)
         IN  /\ \A v \in Values : start[v] > 0 => bag[v] > 0
             /\ (\A v \in Values : bag[v] <= cap) => start = bag
             /\ start \in Bag
<1>1. \A v : Up(values, 0, v) = {}
  BY DEF Up
<1>2. \A v : Cardinality(Up(values, 0, v)) = 0
  BY <1>1, FS_EmptySet
<1>3. \A v \in Values : bag[v] \in Nat
  BY DEF Bag
<1>4. \A v \in Values : Reckoned(bag, values, 0, cap)[v] = IF bag[v] <= cap THEN bag[v] ELSE cap
  BY <1>2, <1>3 DEF Reckoned
<1>5. Reckoned(bag, values, 0, cap) \in Bag
  BY <1>2, <1>3 DEF Bag, Reckoned
<1>6. (\A v \in Values : bag[v] <= cap) => Reckoned(bag, values, 0, cap) = bag
  BY <1>4, <1>5 DEF Bag
<1>7. \A v \in Values : Reckoned(bag, values, 0, cap)[v] > 0 => bag[v] > 0
  BY <1>3, <1>4
<1> QED
  BY <1>5, <1>6, <1>7

Cap(kind) == IF kind = "counting" THEN CounterMax ELSE 1

(* The bag after an operation, as the model writes it.                     *)
LEMMA ReportedIsReckoned ==
  ASSUME NEW n, NEW bag \in [Values -> 0 .. CounterMax], NEW values \in Seq(Values)
  PROVE  LET after == Quick!Reported(n, bag, values)
         IN  /\ after = Reckoned(bag, values, Len(values), Cap(filters[n].kind))
             /\ after \in [Values -> 0 .. CounterMax]
<1> DEFINE cap == Cap(filters[n].kind)
<1>1. cap \in Nat /\ cap <= CounterMax /\ CounterMax \in Nat
  BY FiltersAssumption DEF FiltersAssumption, Cap
<1>2. \A a, b \in Nat : Quick!Min({a, b}) = IF a <= b THEN a ELSE b
  <2> TAKE a, b \in Nat
  <2>1. \E x \in {a, b} : \A y \in {a, b} : x <= y
    OBVIOUS
  <2>2. Quick!Min({a, b}) \in {a, b} /\ \A y \in {a, b} : Quick!Min({a, b}) <= y
    BY <2>1 DEF Quick!Min
  <2> QED
    BY <2>2
<1>3. \A v : Quick!Cardinality({i \in DOMAIN values : values[i] = v})
               = Cardinality(Up(values, Len(values), v))
  <2>1. DOMAIN values = 1 .. Len(values)
    OBVIOUS
  <2> QED
    BY <2>1 DEF Up, Quick!Cardinality, Cardinality
<1>4. ASSUME NEW v PROVE Cardinality(Up(values, Len(values), v)) \in Nat
  <2>1. 1 \in Int /\ Len(values) \in Int
    OBVIOUS
  <2>2. IsFiniteSet(1 .. Len(values)) /\ Up(values, Len(values), v) \in SUBSET (1 .. Len(values))
    BY <2>1, FS_Interval DEF Up
  <2> QED
    BY <2>2, FS_Subset, FS_CardinalityType
<1>5. Quick!Reported(n, bag, values)
        = [v \in Values |-> Quick!Min({bag[v] + Cardinality(Up(values, Len(values), v)), cap})]
  BY <1>3 DEF Quick!Reported, Cap
<1>6. ASSUME NEW v \in Values
      PROVE  LET c == bag[v] + Cardinality(Up(values, Len(values), v))
             IN  /\ Quick!Min({c, cap}) = IF c <= cap THEN c ELSE cap
                 /\ Quick!Min({c, cap}) \in 0 .. CounterMax
  <2>1. bag[v] + Cardinality(Up(values, Len(values), v)) \in Nat
    BY <1>4
  <2> HIDE DEF cap
  <2> QED
    BY <1>1, <1>2, <2>1
<1> HIDE DEF cap
<1>7. Quick!Reported(n, bag, values) = Reckoned(bag, values, Len(values), cap)
  BY <1>5, <1>6 DEF Reckoned
<1>8. Quick!Reported(n, bag, values) \in [Values -> 0 .. CounterMax]
  BY <1>5, <1>6
<1> QED
  BY <1>7, <1>8 DEF cap

(* After every step of a list of additions: what it has come to.           *)
Stage(r, f, bag) ==
  /\ r.f \in Filter /\ Quick!Bytes(r.f) \in Nat /\ r.f.kind = f.kind /\ Sound(r.f, bag)
  /\ r.ok => r.f.ready = f.ready /\ r.f.poisoned = f.poisoned
  /\ ~r.ok => r.f.poisoned /\ ~r.f.ready

(* One of them.                                                            *)
LEMMA StageStep ==
  ASSUME NEW f, NEW limit \in Int, NEW r \in Result(limit), NEW v \in Values,
         NEW low \in Bag, NEW high \in Bag, high = low \/ high = [low EXCEPT ![v] = @ + 1],
         Stage(r, f, low)
  PROVE  AddNext(r, v, limit) \in Result(limit) /\ Stage(AddNext(r, v, limit), f, high)
<1> DEFINE g == Quick!AddOne(r.f, v, limit)
           next == AddNext(r, v, limit)
<1>1. next \in Result(limit)
  BY AddNextTyped
<1>2. next.f \in Filter /\ Quick!Bytes(next.f) \in Nat
  <2>1. next.f \in Filter
    BY <1>1 DEF Result
  <2> QED
    BY <2>1, BytesAre DEF Counts
<1>3. r.f \in Filter /\ Quick!Bytes(r.f) <= limit
  BY DEF Result
<1>4. CASE ~r.ok
  <2>1. next = r /\ r.f.poisoned /\ ~r.f.ready
    BY <1>4 DEF AddNext, Stage
  <2> HIDE DEF next
  <2> QED
    BY <1>1, <1>2, <1>4, <2>1 DEF Stage, Sound, next
<1>5. CASE r.ok /\ ~Quick!Accepts(r.f, v, limit)
  <2>1. next.f = g /\ ~next.ok
    BY <1>5 DEF AddNext
  <2>2. g.kind = r.f.kind /\ g.poisoned /\ ~g.ready
    BY <1>3, <1>5, AddOneTyped
  <2> HIDE DEF next, g
  <2> QED
    BY <1>1, <1>2, <2>1, <2>2 DEF Stage, Sound, next
<1>6. CASE r.ok /\ Quick!Accepts(r.f, v, limit)
  <2>1. next.f = Quick!Inserted(r.f, v) /\ next.ok
    BY <1>6 DEF AddNext, Quick!AddOne
  <2>2. next.f.kind = r.f.kind /\ next.f.ready = r.f.ready /\ next.f.poisoned = r.f.poisoned
    BY <1>3, <1>6, <2>1, InsertedTyped
  <2>3. ~r.f.poisoned => Holds(r.f, low)
    BY DEF Stage, Sound
  <2>4. ~r.f.poisoned => Holds(next.f, high)
    BY <1>3, <1>6, <2>1, <2>3, InsertedHolds
  <2> HIDE DEF next
  <2> QED
    BY <1>1, <1>2, <1>6, <2>1, <2>2, <2>4 DEF Stage, Sound, next
<1> QED
  BY <1>4, <1>5, <1>6

(* A list of additions, up to its end or the first that fails.             *)
LEMMA AddAllSound ==
  ASSUME NEW f \in Filter, NEW limit \in Int, Quick!Bytes(f) <= limit,
         NEW bag \in [Values -> 0 .. CounterMax], NEW values \in Seq(Values), Sound(f, bag)
  PROVE  LET r == Quick!AddAll(f, values, limit)
         IN  /\ r \in Result(limit)
             /\ Stage(r, f, Reckoned(bag, values, Len(values), Cap(f.kind)))
<1> DEFINE cap == Cap(f.kind)
           After(i) == Reckoned(bag, values, i, cap)
<1>1. PICK r : Steps(r, f, values, limit) /\ Quick!AddAll(f, values, limit) = r[Len(values)]
  BY AddAllSteps
<1>2. CounterMax \in Nat /\ cap \in Nat /\ bag \in Bag /\ Len(values) \in Nat
  BY FiltersAssumption DEF FiltersAssumption, Bag, Cap
<1> DEFINE Good(i) == r[i] \in Result(limit) /\ Stage(r[i], f, After(i))
           Bad == {k \in Nat : k <= Len(values) /\ ~Good(k)}
<1>3. Good(0)
  <2>1. r[0] = [f |-> f, ok |-> TRUE]
    BY <1>1 DEF Steps
  <2>2. r[0] \in Result(limit)
    BY <2>1 DEF Result
  <2>3. Holds(f, bag) => Holds(f, After(0))
    <3>1. CASE f.kind = "counting"
      <4>1. \A v \in Values : bag[v] <= cap
        BY <3>1, <1>2 DEF Cap
      <4>2. After(0) = bag
        <5> HIDE DEF cap
        <5> QED
          BY <1>2, <4>1, ReckonedStart
      <4> HIDE DEF After
      <4> QED
        BY <4>2
    <3>2. CASE f.kind # "counting"
      <4>1. \A v \in Values : After(0)[v] > 0 => bag[v] > 0
        <5> HIDE DEF cap
        <5> QED
          BY <1>2, ReckonedStart
      <4> HIDE DEF After
      <4> QED
        BY <3>2, <4>1 DEF Holds
    <3> QED
      BY <3>1, <3>2
  <2>4. Quick!Bytes(f) \in Nat
    BY BytesAre DEF Counts
  <2> HIDE DEF After
  <2>5. Stage(r[0], f, After(0))
    BY <2>1, <2>3, <2>4 DEF Stage, Sound
  <2> QED
    BY <2>2, <2>5
<1>4. ASSUME NEW i \in 1 .. Len(values), Good(i - 1) PROVE Good(i)
  <2>1. r[i] = AddNext(r[i - 1], values[i], limit)
    BY <1>1 DEF Steps
  <2>2. /\ After(i - 1) \in Bag /\ After(i) \in Bag
        /\ After(i) = After(i - 1) \/ After(i) = [After(i - 1) EXCEPT ![values[i]] = @ + 1]
    <3> HIDE DEF cap
    <3> QED
      BY <1>2, ReckonedStep, SMTT(30)
  <2>3. values[i] \in Values
    OBVIOUS
  <2> HIDE DEF After
  <2>4. /\ AddNext(r[i - 1], values[i], limit) \in Result(limit)
        /\ Stage(AddNext(r[i - 1], values[i], limit), f, After(i))
    BY <1>4, <2>2, <2>3, StageStep
  <2> QED
    BY <2>1, <2>4
<1>5. Bad = {}
  <2> SUFFICES ASSUME Bad # {} PROVE FALSE
    OBVIOUS
  <2> HIDE DEF Good
  <2>1. PICK m \in Bad : \A k \in Bad : m <= k
    BY Least
  <2>2. m # 0
    BY <1>3, <2>1
  <2>3. m \in 1 .. Len(values) /\ m - 1 \in Nat /\ m - 1 <= Len(values) /\ m - 1 \notin Bad
    BY <1>2, <2>1, <2>2
  <2>4. Good(m - 1)
    BY <2>3
  <2> QED
    BY <1>4, <2>1, <2>3, <2>4
<1>6. Good(Len(values))
  <2> HIDE DEF Good
  <2> QED
    BY <1>2, <1>5
<1> QED
  BY <1>1, <1>6

(* A filter that is cleared is empty and takes no more space.              *)
LEMMA ClearedTyped ==
  ASSUME NEW f \in Filter
  PROVE  LET g == Quick!Cleared(f)
         IN  /\ g \in Filter /\ g.kind = f.kind /\ Quick!Bytes(g) <= Quick!Bytes(f)
             /\ ~g.ready /\ ~g.poisoned /\ Sound(g, Quick!Nothing)
<1> DEFINE g == Quick!Cleared(f)
<1>1. Quick!Empty \in Layer /\ MaxLayers \in Nat \ {0}
  BY FiltersAssumption DEF FiltersAssumption, Quick!Empty, Layer
<1> DEFINE one == <<Quick!Empty>>
<1>2. one \in Seq(Layer) /\ Len(one) = 1
  BY <1>1
<1>3. g = [f EXCEPT !.layers = one, !.writes = 0, !.ready = FALSE, !.poisoned = FALSE]
  BY DEF Quick!Cleared
<1> HIDE DEF one, g
<1>4. /\ g \in FilterRec /\ g.kind = f.kind /\ g.layers = one
      /\ g.ready = FALSE /\ g.poisoned = FALSE
  BY <1>2, <1>3 DEF Filter, FilterRec
<1>5. g \in Filter
  <2>1. Len(g.layers) \in 1 .. MaxLayers /\ Len(g.layers) = 1
    <3>1. 1 \in 1 .. MaxLayers
      BY <1>1
    <3>2. Len(g.layers) = 1
      BY <1>2, <1>4, Zenon
    <3> QED
      BY <3>1, <3>2
  <2> QED
    BY <1>4, <2>1 DEF Filter, Shaped
<1>6. Quick!Bytes(g) <= Quick!Bytes(f)
  <2>1. Len(g.layers) = 1 /\ g.kind = f.kind
    BY <1>2, <1>4
  <2>2. Len(f.layers) \in 1 .. MaxLayers
    BY FilterFields
  <2>3. /\ LayerSum(1 .. 1) <= LayerSum(1 .. Len(f.layers))
        /\ CountingBytes \in Nat
    BY <2>2, LayersAdd, FiltersAssumption DEF FiltersAssumption
  <2>4. /\ Quick!Bytes(g) = IF f.kind = "counting" THEN CountingBytes ELSE LayerSum(1 .. 1)
        /\ Quick!Bytes(f) = IF f.kind = "counting" THEN CountingBytes
                            ELSE LayerSum(1 .. Len(f.layers))
    BY <1>5, <2>1, BytesAre
  <2> QED
    BY <2>3, <2>4
<1>7. Sound(g, Quick!Nothing)
  BY <1>4, <1>5, NothingIsHeld DEF Sound
<1> QED
  BY <1>4, <1>5, <1>6, <1>7 DEF g

(***************************************************************************)
(* The registry, step by step.                                             *)
(***************************************************************************)

(* There is room for what a filter has, next to the others.                *)
LEMMA LimitLeavesRoom ==
  ASSUME QuickInv, NEW n \in DOMAIN filters
  PROVE  LET rest == [m \in DOMAIN filters \ {n} |-> filters[m]]
         IN  /\ Quick!Limit(n) \in Int /\ Quick!Bytes(filters[n]) <= Quick!Limit(n)
             /\ Quick!Limit(n) = MaxBytes - Total(rest) /\ Total(rest) \in Nat
             /\ Total(rest) <= MaxBytes
<1> DEFINE rest == [m \in DOMAIN filters \ {n} |-> filters[m]]
<1>1. IsFiniteSet(DOMAIN filters) /\ Total(filters) <= MaxBytes /\ MaxBytes \in Nat
  BY FiltersAssumption DEF QuickInv, FiltersAssumption
<1>2. \A m \in DOMAIN filters : Counts(filters[m])
  BY BytesAre DEF QuickInv
<1>3. /\ Total(filters) = Quick!Bytes(filters[n]) + Total(rest)
      /\ Total(filters) \in Nat /\ Total(rest) \in Nat
  BY <1>1, <1>2, TotalWithout
<1>4. Quick!Bytes(filters[n]) \in Nat
  BY <1>2 DEF Counts
<1>5. Quick!RegistryBytes = Total(filters)
  BY Zenon DEF Quick!RegistryBytes, Total
<1> HIDE DEF rest
<1>6. Quick!Limit(n) = MaxBytes - (Total(filters) - Quick!Bytes(filters[n]))
  BY <1>5 DEF Quick!Limit
<1> QED
  BY <1>1, <1>3, <1>4, <1>6 DEF rest

(* A filter is replaced by one that fits into its place and holds what was *)
(* reported.                                                               *)
LEMMA FilterReplaced ==
  ASSUME QuickInv, NEW n \in DOMAIN filters,
         NEW g \in Filter, Quick!Bytes(g) <= Quick!Limit(n),
         NEW bag \in [Values -> 0 .. CounterMax], Sound(g, bag),
         filters' = [filters EXCEPT ![n] = g], known' = [known EXCEPT ![n] = bag]
  PROVE  QuickInv'
<1> DEFINE rest == [m \in DOMAIN filters \ {n} |-> filters[m]]
           rest2 == [m \in DOMAIN filters' \ {n} |-> filters'[m]]
<1>1. /\ IsFiniteSet(DOMAIN filters) /\ DOMAIN filters \subseteq Names
      /\ filters = [m \in DOMAIN filters |-> filters[m]]
      /\ \A m \in DOMAIN filters : filters[m] \in Filter /\ Sound(filters[m], known[m])
      /\ known \in [Names -> [Values -> 0 .. CounterMax]]
  BY DEF QuickInv
<1>2. /\ DOMAIN filters' = DOMAIN filters
      /\ \A m \in DOMAIN filters : filters'[m] = IF m = n THEN g ELSE filters[m]
      /\ filters' = [m \in DOMAIN filters' |-> filters'[m]]
  BY <1>1
<1>3. /\ known' \in [Names -> [Values -> 0 .. CounterMax]]
      /\ \A m \in Names : known'[m] = IF m = n THEN bag ELSE known[m]
  BY <1>1
<1>4. \A m \in DOMAIN filters' : filters'[m] \in Filter /\ Sound(filters'[m], known'[m])
  BY <1>1, <1>2, <1>3
<1>5. \A m \in DOMAIN filters' : Counts(filters'[m])
  BY <1>4, BytesAre
<1>6. Total(filters') = Quick!Bytes(filters'[n]) + Total(rest2) /\ Quick!Bytes(filters'[n]) \in Nat
  <2>1. PICK fs : fs = filters'
    OBVIOUS
  <2>2. IsFiniteSet(DOMAIN fs) /\ n \in DOMAIN fs /\ \A m \in DOMAIN fs : Counts(fs[m])
    BY <1>1, <1>2, <1>5, <2>1
  <2>3. Total(fs) = Quick!Bytes(fs[n]) + Total([m \in DOMAIN fs \ {n} |-> fs[m]])
    BY <2>2, TotalWithout
  <2>4. Quick!Bytes(fs[n]) \in Nat
    BY <2>2 DEF Counts
  <2> QED
    BY <2>1, <2>3, <2>4
<1>7. rest2 = rest
  BY <1>2
<1>8. /\ Quick!Limit(n) = MaxBytes - Total(rest) /\ Total(rest) \in Nat /\ MaxBytes \in Nat
  BY LimitLeavesRoom, FiltersAssumption DEF FiltersAssumption
<1>9. filters'[n] = g
  BY <1>2
<1> HIDE DEF rest, rest2
<1>10. Total(filters') <= MaxBytes
  BY <1>6, <1>7, <1>8, <1>9
<1> QED
  BY <1>1, <1>2, <1>3, <1>4, <1>10 DEF QuickInv

(* A filter that is not poisoned may be declared ready.                    *)
LEMMA SealedSound ==
  ASSUME NEW f \in Filter, ~f.poisoned, NEW bag, Sound(f, bag)
  PROVE  LET g == [f EXCEPT !.ready = TRUE]
         IN  g \in Filter /\ Quick!Bytes(g) = Quick!Bytes(f) /\ Sound(g, bag)
<1> DEFINE g == [f EXCEPT !.ready = TRUE]
<1>1. /\ g \in FilterRec /\ g.kind = f.kind /\ g.layers = f.layers /\ g.ready
      /\ g.poisoned = f.poisoned
  BY DEF Filter, FilterRec
<1> HIDE DEF g
<1>2. g \in Filter
  BY <1>1 DEF Filter, Shaped
<1>3. Quick!Bytes(g) = Quick!Bytes(f)
  BY <1>1, <1>2, BytesAre
<1>4. Holds(g, bag)
  <2>1. Holds(f, bag)
    BY DEF Sound
  <2> QED
    BY <1>1, <2>1 DEF Holds, Quick!Contains
<1> QED
  BY <1>1, <1>2, <1>3, <1>4 DEF g, Sound

(* A snapshot makes a filter ready if every value of it went in.           *)
LEMMA ReadySound ==
  ASSUME NEW limit \in Int, NEW r \in Result(limit), NEW f, NEW bag, Stage(r, f, bag),
         ~f.poisoned
  PROVE  /\ Quick!Ready(r) \in Filter /\ Quick!Bytes(Quick!Ready(r)) <= limit
         /\ Sound(Quick!Ready(r), bag)
<1>1. r.f \in Filter /\ Quick!Bytes(r.f) <= limit /\ Sound(r.f, bag)
  BY DEF Result, Stage
<1>2. CASE r.ok
  <2>1. ~r.f.poisoned
    BY <1>2 DEF Stage
  <2>2. Quick!Ready(r) = [r.f EXCEPT !.ready = TRUE]
    BY <1>2 DEF Quick!Ready
  <2> QED
    BY <1>1, <2>1, <2>2, SealedSound
<1>3. CASE ~r.ok
  BY <1>1, <1>3 DEF Quick!Ready
<1> QED
  BY <1>2, <1>3

(* With fewer values there are fewer tokens.                               *)
LEMMA FewerTokens ==
  ASSUME NEW low \in Bag, NEW v \in Values, NEW s
  PROVE  Tokens(low, s) \in SUBSET Tokens([low EXCEPT ![v] = @ + 1], s)
<1> DEFINE high == [low EXCEPT ![v] = @ + 1]
<1>1. \A u \in Values : low[u] \in Nat /\ high[u] \in Nat /\ low[u] <= high[u]
  BY DEF Bag
<1> HIDE DEF high
<1>2. \A u \in Values : \A k \in Nat : k \in 1 .. low[u] => k \in 1 .. high[u]
  BY <1>1
<1>3. ASSUME NEW t \in Tokens(low, s) PROVE t \in Tokens(high, s)
  BY <1>2 DEF Tokens
<1> QED
  BY <1>3 DEF high

(* What is known to be in a counting filter can be taken out, if it can be *)
(* counted.                                                                *)
LEMMA RemovedSound ==
  ASSUME NEW f \in Filter, f.kind = "counting", ~f.poisoned,
         NEW bag \in [Values -> 0 .. CounterMax], Sound(f, bag),
         NEW v \in Values, bag[v] > 0, Quick!Countable(v)
  PROVE  LET count == f.layers[1]
             g == [f EXCEPT !.layers[1] = [s \in Slots |-> count[s] - Quick!Times(1, v, s)]]
             low == [bag EXCEPT ![v] = @ - 1]
         IN  /\ \A s \in Quick!Touches(1, v) : count[s] >= Quick!Times(1, v, s)
             /\ g \in Filter /\ Quick!Bytes(g) = Quick!Bytes(f) /\ Sound(g, low)
             /\ low \in [Values -> 0 .. CounterMax]
<1> DEFINE count == f.layers[1]
           less == [s \in Slots |-> count[s] - Quick!Times(1, v, s)]
           e == [f.layers EXCEPT ![1] = less]
           g == [f EXCEPT !.layers[1] = less]
           low == [bag EXCEPT ![v] = @ - 1]
<1>0. CounterMax \in Nat
  BY FiltersAssumption DEF FiltersAssumption
<1>1. low \in [Values -> 0 .. CounterMax] /\ low \in Bag /\ bag = [low EXCEPT ![v] = @ + 1]
  <2>1. bag[v] \in 0 .. CounterMax /\ bag[v] - 1 \in 0 .. CounterMax /\ bag[v] - 1 + 1 = bag[v]
    BY <1>0
  <2>2. low \in [Values -> 0 .. CounterMax]
    BY <2>1
  <2>3. \A u \in Values : low[u] = IF u = v THEN bag[v] - 1 ELSE bag[u]
    OBVIOUS
  <2>4. \A n \in 0 .. CounterMax : n \in Nat
    BY <1>0
  <2> HIDE DEF low
  <2>5. low \in Bag
    BY <2>2, <2>4 DEF Bag
  <2>6. bag = [low EXCEPT ![v] = @ + 1]
    BY <2>1, <2>2, <2>3
  <2> QED
    BY <2>2, <2>5, <2>6
<1>2. count \in Layer /\ Len(f.layers) = 1
  BY FilterFields
<1>3. CountersCover(count, bag)
  BY DEF Sound, Holds
<1> HIDE DEF count, low
<1>4. ASSUME NEW s \in Slots
      PROVE  /\ IsFiniteSet(Tokens(low, s)) /\ Quick!Times(1, v, s) \in Nat
             /\ count[s] \in 0 .. CounterMax
             /\ Cardinality(Tokens(low, s)) \in Nat
             /\ Cardinality(Tokens(low, s)) + Quick!Times(1, v, s) <= count[s]
  <2>1. IsFiniteSet(Tokens(bag, s)) /\ Cardinality(Tokens(bag, s)) <= count[s]
    BY <1>3 DEF CountersCover
  <2>2. IsFiniteSet(Tokens(low, s))
    BY <1>1, <2>1, FewerTokens, FS_Subset
  <2>3. /\ Cardinality(Tokens(bag, s)) = Cardinality(Tokens(low, s)) + Share(v, s)
        /\ Cardinality(Tokens(low, s)) \in Nat /\ Share(v, s) = Quick!Times(1, v, s)
    BY <1>1, <2>2, TokenStep DEF Share
  <2>4. Quick!Times(1, v, s) \in Nat /\ count[s] \in 0 .. CounterMax
    BY <1>2, HashTyped DEF Layer
  <2> QED
    BY <2>1, <2>2, <2>3, <2>4
<1>5. ASSUME NEW s \in Slots
      PROVE  /\ less[s] \in 0 .. CounterMax /\ Cardinality(Tokens(low, s)) <= less[s]
             /\ Quick!Times(1, v, s) <= count[s]
  <2>1. less[s] = count[s] - Quick!Times(1, v, s)
    OBVIOUS
  <2> HIDE DEF less
  <2> QED
    BY <1>0, <1>4, <2>1
<1>6. less \in Layer
  BY <1>5 DEF Layer
<1>7. \A s \in Quick!Touches(1, v) : count[s] >= Quick!Times(1, v, s)
  <2>1. 1 \in 1 .. MaxLayers
    BY FiltersAssumption DEF FiltersAssumption
  <2>2. \A s \in Quick!Touches(1, v) : s \in Slots
    BY <2>1, TouchesSlots
  <2>3. \A s \in Slots : Quick!Times(1, v, s) \in Nat /\ count[s] \in 0 .. CounterMax
    BY <1>4
  <2> QED
    BY <1>0, <1>5, <2>2, <2>3
<1>8. g = [f EXCEPT !.layers = e]
  BY DEF Filter, FilterRec
<1>9. e \in Seq(Layer) /\ Len(e) = 1 /\ e[1] = less
  <2> HIDE DEF less
  <2> QED
    BY <1>2, <1>6, FilterFields
<1> HIDE DEF e, g
<1>10. /\ g \in FilterRec /\ g.kind = f.kind /\ g.layers = e
       /\ g.ready = f.ready /\ g.poisoned = f.poisoned
  BY <1>8, <1>9 DEF Filter, FilterRec
<1>11. g \in Filter
  BY <1>9, <1>10, FilterFields DEF Filter, Shaped
<1>12. Quick!Bytes(g) = Quick!Bytes(f)
  BY <1>10, <1>11, BytesAre
<1> HIDE DEF less
<1>13. Sound(g, low)
  BY <1>4, <1>5, <1>9, <1>10 DEF Sound, Holds, CountersCover
<1> QED
  BY <1>1, <1>7, <1>11, <1>12, <1>13 DEF g, less, low, count

(* What cannot be counted is never taken out.                              *)
LEMMA UncountableStays ==
  ASSUME NEW f \in Filter, f.kind = "counting",
         NEW bag \in [Values -> 0 .. CounterMax], Sound(f, bag),
         NEW v \in Values, bag[v] > 0, ~Quick!Countable(v)
  PROVE  LET low == [bag EXCEPT ![v] = @ - 1]
         IN  /\ ~(\A s \in Quick!Touches(1, v) : f.layers[1][s] >= Quick!Times(1, v, s))
             /\ Sound(f, low) /\ low \in [Values -> 0 .. CounterMax]
<1> DEFINE count == f.layers[1]
           low == [bag EXCEPT ![v] = @ - 1]
<1>0. CounterMax \in Nat
  BY FiltersAssumption DEF FiltersAssumption
<1>1. count \in Layer
  BY FilterFields
<1>2. ~(\A s \in Quick!Touches(1, v) : count[s] >= Quick!Times(1, v, s))
  <2>1. PICK s \in Slots : Quick!Times(1, v, s) \in Nat /\ Quick!Times(1, v, s) > CounterMax
    BY <1>0, HashTyped DEF Quick!Countable
  <2>2. Hits(v, s) # {}
    BY <1>0, <2>1, HashTyped, FS_EmptySet
  <2>3. s \in Quick!Touches(1, v)
    BY <2>2 DEF Hits, Quick!Touches
  <2>4. count[s] \in 0 .. CounterMax
    BY <1>1 DEF Layer
  <2>5. ~(count[s] >= Quick!Times(1, v, s))
    BY <1>0, <2>1, <2>4
  <2> QED
    BY <2>3, <2>5
<1>3. low \in [Values -> 0 .. CounterMax] /\ low \in Bag /\ bag = [low EXCEPT ![v] = @ + 1]
  <2>1. bag[v] \in 0 .. CounterMax /\ bag[v] - 1 \in 0 .. CounterMax /\ bag[v] - 1 + 1 = bag[v]
    BY <1>0
  <2>2. low \in [Values -> 0 .. CounterMax]
    BY <2>1
  <2>3. \A u \in Values : low[u] = IF u = v THEN bag[v] - 1 ELSE bag[u]
    OBVIOUS
  <2>4. \A n \in 0 .. CounterMax : n \in Nat
    BY <1>0
  <2> HIDE DEF low
  <2>5. low \in Bag
    BY <2>2, <2>4 DEF Bag
  <2>6. bag = [low EXCEPT ![v] = @ + 1]
    BY <2>1, <2>2, <2>3
  <2> QED
    BY <2>2, <2>5, <2>6
<1> HIDE DEF low
<1>4. CountersCover(count, bag) => CountersCover(count, low)
  <2> SUFFICES ASSUME CountersCover(count, bag), NEW s \in Slots
               PROVE  /\ IsFiniteSet(Tokens(low, s))
                      /\ Cardinality(Tokens(low, s)) <= count[s]
    BY DEF CountersCover
  <2>1. IsFiniteSet(Tokens(bag, s)) /\ Cardinality(Tokens(bag, s)) <= count[s]
    BY DEF CountersCover
  <2>2. IsFiniteSet(Tokens(low, s))
    BY <1>3, <2>1, FewerTokens, FS_Subset
  <2>3. /\ Cardinality(Tokens(bag, s)) = Cardinality(Tokens(low, s)) + Share(v, s)
        /\ Cardinality(Tokens(low, s)) \in Nat /\ Share(v, s) = 0
    BY <1>3, <2>2, TokenStep DEF Share
  <2> QED
    BY <2>1, <2>2, <2>3
<1>5. Sound(f, low)
  BY <1>4 DEF Sound, Holds
<1> QED
  BY <1>2, <1>3, <1>5 DEF low

(* An empty registry.                                                      *)
LEMMA QuickStarts ==
  Quick!Init => QuickInv
<1> SUFFICES ASSUME Quick!Init PROVE QuickInv
  OBVIOUS
<1>1. filters = <<>> /\ known = [n \in Names |-> Quick!Nothing]
  BY DEF Quick!Init
<1>2. DOMAIN filters = {} /\ filters = [n \in DOMAIN filters |-> filters[n]]
  BY <1>1
<1>3. IsFiniteSet(DOMAIN filters)
  BY <1>2, FS_EmptySet
<1>4. Total(filters) = 0
  <2>1. PICK h : /\ IsSum(h, DOMAIN filters, [n \in DOMAIN filters |-> Quick!Bytes(filters[n])])
                 /\ Total(filters) = h[DOMAIN filters]
    BY <1>2, <1>3, TotalIsSum
  <2> QED
    BY <1>2, <2>1 DEF IsSum
<1>5. CounterMax \in Nat /\ MaxBytes \in Nat
  BY FiltersAssumption DEF FiltersAssumption
<1>6. Quick!Nothing \in [Values -> 0 .. CounterMax]
  BY <1>5 DEF Quick!Nothing
<1>7. known \in [Names -> [Values -> 0 .. CounterMax]]
  BY <1>1, <1>6
<1> QED
  BY <1>2, <1>3, <1>4, <1>5, <1>7 DEF QuickInv

(* A new filter is paid for.                                               *)
LEMMA CreateKeeps ==
  ASSUME QuickInv, NEW n \in Names, NEW k \in Quick!Kinds, Quick!Create(n, k)
  PROVE  QuickInv'
<1> DEFINE f == [kind |-> k, layers |-> <<Quick!Empty>>, writes |-> 0, ready |-> FALSE,
                 poisoned |-> FALSE]
           D == DOMAIN filters
           one == <<Quick!Empty>>
<1>1. Quick!Empty \in Layer /\ 1 \in 1 .. MaxLayers
      /\ Quick!Nothing \in [Values -> 0 .. CounterMax] /\ MaxBytes \in Nat
  BY FiltersAssumption DEF FiltersAssumption, Quick!Empty, Layer, Quick!Nothing
<1>2. one \in Seq(Layer) /\ Len(one) = 1
  BY <1>1
<1>3. f = [kind |-> k, layers |-> one, writes |-> 0, ready |-> FALSE, poisoned |-> FALSE]
  OBVIOUS
<1>4. /\ n \notin D /\ Quick!RegistryBytes + Quick!Bytes(f) <= MaxBytes
      /\ filters' = [m \in D \cup {n} |-> IF m = n THEN f ELSE filters[m]]
      /\ known' = [known EXCEPT ![n] = Quick!Nothing]
  BY DEF Quick!Create
<1> HIDE DEF one, f
<1>5. f \in Filter /\ ~f.ready
  <2>1. f \in FilterRec /\ f.layers = one /\ f.kind = k /\ ~f.ready
    BY <1>2, <1>3 DEF FilterRec
  <2>2. Len(f.layers) = 1
    BY <1>2, <2>1
  <2> QED
    BY <1>1, <2>1, <2>2 DEF Filter, Shaped
<1>6. Sound(f, Quick!Nothing)
  BY <1>5, NothingIsHeld DEF Sound
<1>7. /\ IsFiniteSet(D) /\ D \subseteq Names /\ filters = [m \in D |-> filters[m]]
      /\ \A m \in D : filters[m] \in Filter /\ Sound(filters[m], known[m])
      /\ known \in [Names -> [Values -> 0 .. CounterMax]]
  BY DEF QuickInv
<1>8. /\ known' \in [Names -> [Values -> 0 .. CounterMax]]
      /\ \A m \in Names : known'[m] = IF m = n THEN Quick!Nothing ELSE known[m]
  BY <1>1, <1>4, <1>7
<1>9. PICK fs : fs = filters'
  OBVIOUS
<1>10. /\ DOMAIN fs = D \cup {n} /\ fs[n] = f /\ \A m \in D : fs[m] = filters[m]
       /\ fs = [m \in DOMAIN fs |-> fs[m]]
  BY <1>4, <1>9
<1>11. IsFiniteSet(DOMAIN fs) /\ DOMAIN fs \subseteq Names
  BY <1>7, <1>10, FS_AddElement
<1>12. \A m \in DOMAIN fs : fs[m] \in Filter /\ Sound(fs[m], known'[m])
  BY <1>4, <1>5, <1>6, <1>7, <1>8, <1>10
<1>13. Total(fs) <= MaxBytes
  <2>1. \A m \in DOMAIN fs : Counts(fs[m])
    BY <1>12, BytesAre
  <2>2. Total(fs) = Quick!Bytes(fs[n]) + Total([m \in DOMAIN fs \ {n} |-> fs[m]])
    BY <1>10, <1>11, <2>1, TotalWithout
  <2>3. [m \in DOMAIN fs \ {n} |-> fs[m]] = filters
    BY <1>4, <1>7, <1>10, ZenonT(30)
  <2>4. Total(filters) = Quick!RegistryBytes
    BY Zenon DEF Quick!RegistryBytes, Total
  <2>5. Total(filters) \in Nat /\ Quick!Bytes(f) \in Nat
    <3>1. \A m \in DOMAIN fs \ {n} : Counts(filters[m])
      BY <1>4, <1>10, <2>1
    <3>2. Quick!Bytes(f) \in Nat
      BY <1>10, <2>1 DEF Counts
    <3>3. Total([m \in DOMAIN fs \ {n} |-> fs[m]]) \in Nat
      BY <1>10, <1>11, <2>1, TotalWithout
    <3> QED
      BY <2>3, <3>2, <3>3
  <2> QED
    BY <1>4, <1>10, <2>2, <2>3, <2>4, <2>5
<1> QED
  BY <1>8, <1>9, <1>10, <1>11, <1>12, <1>13 DEF QuickInv

(* A filter that is dropped leaves room.                                   *)
LEMMA DropKeeps ==
  ASSUME QuickInv, NEW n \in DOMAIN filters, Quick!DropFilter(n)
  PROVE  QuickInv'
<1> DEFINE D == DOMAIN filters
<1>1. /\ filters' = [m \in D \ {n} |-> filters[m]]
      /\ known' = [known EXCEPT ![n] = Quick!Nothing]
  BY DEF Quick!DropFilter
<1>2. /\ IsFiniteSet(D) /\ D \subseteq Names
      /\ \A m \in D : filters[m] \in Filter /\ Sound(filters[m], known[m])
      /\ known \in [Names -> [Values -> 0 .. CounterMax]]
  BY DEF QuickInv
<1>3. Quick!Nothing \in [Values -> 0 .. CounterMax]
  BY FiltersAssumption DEF FiltersAssumption, Quick!Nothing
<1>4. /\ known' \in [Names -> [Values -> 0 .. CounterMax]]
      /\ \A m \in D \ {n} : known'[m] = known[m]
  BY <1>1, <1>2, <1>3
<1>5. /\ DOMAIN filters' = D \ {n} /\ \A m \in D \ {n} : filters'[m] = filters[m]
      /\ filters' = [m \in DOMAIN filters' |-> filters'[m]]
  BY <1>1
<1>6. IsFiniteSet(D \ {n})
  BY <1>2, FS_RemoveElement
<1>7. Total([m \in D \ {n} |-> filters[m]]) <= MaxBytes
  BY LimitLeavesRoom
<1>8. Total(filters') <= MaxBytes
  BY <1>1, <1>7
<1> QED
  BY <1>2, <1>4, <1>5, <1>6, <1>8 DEF QuickInv

(* Additions, snapshots, clearing, sealing.                                *)
LEMMA FillingKeeps ==
  ASSUME QuickInv, NEW n \in DOMAIN filters,
         \/ \E values \in Snapshots :
              Quick!Add(n, values) \/ Quick!LoadSnapshot(n, values)
              \/ Quick!RebuildSnapshot(n, values)
         \/ Quick!Clear(n) \/ Quick!Seal(n)
  PROVE  QuickInv'
<1> DEFINE f == filters[n]
           limit == Quick!Limit(n)
<1>1. /\ f \in Filter /\ limit \in Int /\ Quick!Bytes(f) <= limit /\ Sound(f, known[n])
      /\ n \in Names /\ known[n] \in [Values -> 0 .. CounterMax]
      /\ known \in [Names -> [Values -> 0 .. CounterMax]]
  BY LimitLeavesRoom DEF QuickInv
<1>2. Quick!Nothing \in [Values -> 0 .. CounterMax]
  BY FiltersAssumption DEF FiltersAssumption, Quick!Nothing
<1>3. LET g == Quick!Cleared(f)
      IN  /\ g \in Filter /\ g.kind = f.kind /\ Quick!Bytes(g) <= limit
          /\ ~g.poisoned /\ Sound(g, Quick!Nothing)
  <2>1. /\ Quick!Cleared(f) \in Filter /\ Quick!Bytes(Quick!Cleared(f)) <= Quick!Bytes(f)
        /\ Quick!Cleared(f).kind = f.kind /\ ~Quick!Cleared(f).poisoned
        /\ Sound(Quick!Cleared(f), Quick!Nothing)
    <3> HIDE DEF f
    <3> QED
      BY <1>1, ClearedTyped
  <2>2. Quick!Bytes(Quick!Cleared(f)) \in Nat /\ Quick!Bytes(f) \in Nat
    BY <1>1, <2>1, BytesAre DEF Counts
  <2> QED
    BY <1>1, <2>1, <2>2
<1>4. ASSUME NEW values \in Seq(Values), NEW g \in Filter, g.kind = f.kind,
             Quick!Bytes(g) <= limit,
             NEW bag \in [Values -> 0 .. CounterMax], Sound(g, bag)
      PROVE  LET r == Quick!AddAll(g, values, limit)
                 after == Quick!Reported(n, bag, values)
             IN  r \in Result(limit) /\ Stage(r, g, after)
                 /\ after \in [Values -> 0 .. CounterMax]
  <2>1. /\ Quick!AddAll(g, values, limit) \in Result(limit)
        /\ Stage(Quick!AddAll(g, values, limit), g,
                 Reckoned(bag, values, Len(values), Cap(g.kind)))
    BY <1>1, <1>4, AddAllSound
  <2>2. /\ Quick!Reported(n, bag, values)
             = Reckoned(bag, values, Len(values), Cap(filters[n].kind))
        /\ Quick!Reported(n, bag, values) \in [Values -> 0 .. CounterMax]
    BY ReportedIsReckoned
  <2> QED
    BY <1>4, <2>1, <2>2
<1>5. Snapshots \subseteq Seq(Values)
  BY FiltersAssumption DEF FiltersAssumption
<1>6. ASSUME NEW values \in Snapshots, Quick!Add(n, values) PROVE QuickInv'
  <2> DEFINE r == Quick!AddAll(f, values, limit)
             after == Quick!Reported(n, known[n], values)
  <2>1. r \in Result(limit) /\ Stage(r, f, after) /\ after \in [Values -> 0 .. CounterMax]
    BY <1>1, <1>4, <1>5
  <2>2. r.f \in Filter /\ Quick!Bytes(r.f) <= limit /\ Sound(r.f, after)
    <3> HIDE DEF r, after
    <3> QED
      BY <2>1 DEF Result, Stage
  <2>3. filters' = [filters EXCEPT ![n] = r.f] /\ known' = [known EXCEPT ![n] = after]
    BY <1>6 DEF Quick!Add
  <2> HIDE DEF r, after
  <2> QED
    BY <2>1, <2>2, <2>3, FilterReplaced
<1>7. ASSUME NEW values \in Snapshots, Quick!LoadSnapshot(n, values) PROVE QuickInv'
  <2> DEFINE r == Quick!AddAll(f, values, limit)
             after == Quick!Reported(n, known[n], values)
             g == Quick!Ready(r)
  <2>1. r \in Result(limit) /\ Stage(r, f, after) /\ after \in [Values -> 0 .. CounterMax]
    BY <1>1, <1>4, <1>5
  <2>2. ~f.poisoned
    BY <1>7 DEF Quick!LoadSnapshot
  <2>3. g \in Filter /\ Quick!Bytes(g) <= limit /\ Sound(g, after)
    <3> HIDE DEF r, after, f, limit
    <3> QED
      BY <1>1, <2>1, <2>2, ReadySound
  <2>4. filters' = [filters EXCEPT ![n] = g] /\ known' = [known EXCEPT ![n] = after]
    BY <1>7 DEF Quick!LoadSnapshot
  <2> HIDE DEF g, after
  <2> QED
    BY <2>1, <2>3, <2>4, FilterReplaced
<1>8. ASSUME NEW values \in Snapshots, Quick!RebuildSnapshot(n, values) PROVE QuickInv'
  <2> DEFINE c == Quick!Cleared(f)
             r == Quick!AddAll(c, values, limit)
             after == Quick!Reported(n, Quick!Nothing, values)
             g == Quick!Ready(r)
  <2>1. r \in Result(limit) /\ Stage(r, c, after) /\ after \in [Values -> 0 .. CounterMax]
    BY <1>2, <1>3, <1>4, <1>5
  <2>2. ~c.poisoned
    BY <1>3
  <2>3. g \in Filter /\ Quick!Bytes(g) <= limit /\ Sound(g, after)
    <3> HIDE DEF r, after, c, limit
    <3> QED
      BY <1>1, <2>1, <2>2, ReadySound
  <2>4. filters' = [filters EXCEPT ![n] = g] /\ known' = [known EXCEPT ![n] = after]
    BY <1>8 DEF Quick!RebuildSnapshot
  <2> HIDE DEF g, after
  <2> QED
    BY <2>1, <2>3, <2>4, FilterReplaced
<1>9. ASSUME Quick!Clear(n) PROVE QuickInv'
  <2> DEFINE c == Quick!Cleared(f)
  <2>1. filters' = [filters EXCEPT ![n] = c] /\ known' = [known EXCEPT ![n] = Quick!Nothing]
    BY <1>9 DEF Quick!Clear
  <2>2. c \in Filter /\ Quick!Bytes(c) <= limit /\ Sound(c, Quick!Nothing)
    BY <1>3
  <2> HIDE DEF c
  <2> QED
    BY <1>2, <2>1, <2>2, FilterReplaced
<1>10. ASSUME Quick!Seal(n) PROVE QuickInv'
  <2> DEFINE g == [f EXCEPT !.ready = TRUE]
  <2>1. ~f.poisoned /\ filters' = [filters EXCEPT ![n] = g] /\ known' = known
    BY <1>10 DEF Quick!Seal
  <2>2. g \in Filter /\ Quick!Bytes(g) = Quick!Bytes(f) /\ Sound(g, known[n])
    BY <1>1, <2>1, SealedSound
  <2>3. known' = [known EXCEPT ![n] = known[n]]
    BY <1>1, <2>1
  <2> HIDE DEF g
  <2> QED
    BY <1>1, <2>1, <2>2, <2>3, FilterReplaced
<1> QED
  BY <1>6, <1>7, <1>8, <1>9, <1>10

(* A known deletion.                                                       *)
LEMMA RemoveKeeps ==
  ASSUME QuickInv, NEW n \in DOMAIN filters, NEW v \in Values, Quick!Remove(n, v)
  PROVE  QuickInv'
<1> DEFINE f == filters[n]
           count == f.layers[1]
           g == [f EXCEPT !.layers[1] = [s \in Slots |-> count[s] - Quick!Times(1, v, s)]]
           low == [known[n] EXCEPT ![v] = @ - 1]
<1>1. /\ f \in Filter /\ Quick!Bytes(f) <= Quick!Limit(n) /\ Sound(f, known[n])
      /\ known[n] \in [Values -> 0 .. CounterMax]
      /\ known \in [Names -> [Values -> 0 .. CounterMax]]
  BY LimitLeavesRoom DEF QuickInv
<1>2. f.ready /\ f.kind = "counting" /\ known[n][v] > 0
  BY DEF Quick!Remove
<1>3. ~f.poisoned
  BY <1>1, <1>2 DEF Sound
<1>4. known' = [known EXCEPT ![n] = low]
  BY DEF Quick!Remove
<1>5. CASE Quick!Countable(v)
  <2>1. /\ \A s \in Quick!Touches(1, v) : count[s] >= Quick!Times(1, v, s)
        /\ g \in Filter /\ Quick!Bytes(g) = Quick!Bytes(f) /\ Sound(g, low)
        /\ low \in [Values -> 0 .. CounterMax]
    <3> HIDE DEF f
    <3> QED
      BY <1>1, <1>2, <1>3, <1>5, RemovedSound
  <2>2. filters' = [filters EXCEPT ![n] = g]
    BY <2>1 DEF Quick!Remove
  <2> HIDE DEF g, low
  <2> QED
    BY <1>1, <1>4, <2>1, <2>2, FilterReplaced
<1>6. CASE ~Quick!Countable(v)
  <2>1. /\ ~(\A s \in Quick!Touches(1, v) : count[s] >= Quick!Times(1, v, s))
        /\ Sound(f, low) /\ low \in [Values -> 0 .. CounterMax]
    <3> HIDE DEF f
    <3> QED
      BY <1>1, <1>2, <1>6, UncountableStays
  <2>2. filters' = filters
    BY <2>1 DEF Quick!Remove
  <2>3. filters' = [filters EXCEPT ![n] = f]
    BY <2>2 DEF QuickInv
  <2> HIDE DEF f, low
  <2> QED
    BY <1>1, <1>4, <2>1, <2>3, FilterReplaced
<1> QED
  BY <1>5, <1>6

(* Every step of the registry.                                             *)
LEMMA QuickKeeps ==
  QuickInv /\ [Quick!Next]_quickVars => QuickInv'
<1> SUFFICES ASSUME QuickInv, [Quick!Next]_quickVars PROVE QuickInv'
  OBVIOUS
<1>1. CASE \E n \in Names : \E k \in Quick!Kinds : Quick!Create(n, k)
  BY <1>1, CreateKeeps
<1>2. CASE \E n \in DOMAIN filters :
             \/ \E values \in Snapshots :
                  Quick!Add(n, values) \/ Quick!LoadSnapshot(n, values)
                  \/ Quick!RebuildSnapshot(n, values)
             \/ Quick!Clear(n) \/ Quick!Seal(n)
  BY <1>2, FillingKeeps
<1>3. CASE \E n \in DOMAIN filters : \E v \in Values : Quick!Remove(n, v)
  BY <1>3, RemoveKeeps
<1>4. CASE \E n \in DOMAIN filters : Quick!DropFilter(n)
  BY <1>4, DropKeeps
<1>5. CASE UNCHANGED quickVars
  <2>1. filters' = filters /\ known' = known
    BY <1>5 DEF quickVars
  <2> QED
    BY <2>1 DEF QuickInv
<1> QED
  BY <1>1, <1>2, <1>3, <1>4, <1>5, Zenon DEF Quick!Next

(* What it says of the filters.                                            *)
LEMMA QuickHolds ==
  QuickInv => Quick!TypeOK /\ Quick!MissingIsMissing /\ Quick!BudgetKept
<1> SUFFICES ASSUME QuickInv
             PROVE  Quick!TypeOK /\ Quick!MissingIsMissing /\ Quick!BudgetKept
  OBVIOUS
<1>1. /\ DOMAIN filters \subseteq Names /\ Total(filters) <= MaxBytes
      /\ \A n \in DOMAIN filters : filters[n] \in Filter /\ Sound(filters[n], known[n])
      /\ known \in [Names -> [Values -> 0 .. CounterMax]]
  BY DEF QuickInv
<1>2. Quick!BudgetKept
  <2>1. Quick!RegistryBytes = Total(filters)
    BY Zenon DEF Quick!RegistryBytes, Total
  <2>2. \A n \in DOMAIN filters : ~(filters[n].ready /\ filters[n].poisoned)
    BY <1>1 DEF Sound
  <2> QED
    BY <1>1, <2>1, <2>2 DEF Quick!BudgetKept
<1>3. ASSUME NEW n \in DOMAIN filters, filters[n].ready, NEW v \in Values, known[n][v] > 0,
             filters[n].kind = "counting" => Quick!Countable(v)
      PROVE  Quick!Contains(filters[n], v)
  <2>1. known[n] \in Bag
    <3>1. CounterMax \in Nat /\ known[n] \in [Values -> 0 .. CounterMax]
      BY <1>1, FiltersAssumption DEF FiltersAssumption
    <3> QED
      BY <3>1 DEF Bag
  <2>2. filters[n] \in Filter /\ Holds(filters[n], known[n])
    BY <1>1, <1>3 DEF Sound
  <2> QED
    BY <1>3, <2>1, <2>2, HeldIsContained
<1>4. ASSUME NEW n \in DOMAIN filters
      PROVE  /\ filters[n].kind \in Quick!Kinds /\ filters[n].writes \in Nat
             /\ filters[n].ready \in BOOLEAN /\ filters[n].poisoned \in BOOLEAN
             /\ \A l \in DOMAIN filters[n].layers :
                  filters[n].layers[l] \in [Slots -> 0 .. CounterMax]
  <2>1. filters[n] \in Filter
    BY <1>1
  <2> QED
    BY <2>1, FilterFields DEF Quick!Kinds, Layer
<1>5. Quick!TypeOK
  BY <1>1, <1>4 DEF Quick!TypeOK
<1>6. Quick!MissingIsMissing
  BY <1>3 DEF Quick!MissingIsMissing
<1> QED
  BY <1>2, <1>5, <1>6

(***************************************************************************)
(* The types of the parts.  The two loops below have nothing else that is  *)
(* a safety property: their promises are progress.                         *)
(***************************************************************************)

(* supervisor.rs: no task is restarted more often than its policy allows.  *)
THEOREM TaskTypesAlways == PartsSpec => []Task!TypeOK
<1>0. MaxRestarts \in Nat
  BY LoopsAssumption DEF LoopsAssumption
<1>1. PartsInit => Task!TypeOK
  <2> SUFFICES ASSUME Task!Init
               PROVE  Task!TypeOK
    BY DEF PartsInit
  <2> QED
    BY <1>0 DEF Task!Init, Task!TypeOK
<1>2. [PartsNext]_partsVars => Task!Next \/ UNCHANGED taskVars
  <2>1. CASE UNCHANGED partsVars
    BY <2>1 DEF partsVars
  <2>2. CASE PartsNext
    BY <2>2 DEF PartsNext
  <2> QED
    BY <2>1, <2>2
<1>3. Task!TypeOK /\ [PartsNext]_partsVars => Task!TypeOK'
  <2> SUFFICES ASSUME Task!TypeOK, Task!Next \/ UNCHANGED taskVars
               PROVE  Task!TypeOK'
    BY <1>2
  <2>1. ASSUME NEW t \in Tasks, Task!TaskEnds(t)
        PROVE  Task!TypeOK'
    BY <2>1 DEF Task!TaskEnds, Task!TypeOK
  <2>2. ASSUME NEW t \in Tasks, Task!Join(t)
        PROVE  Task!TypeOK'
    <3>1. task' = [task EXCEPT ![t] = "none"] /\ factories' = factories \ {t}
      BY <2>2 DEF Task!Join
    <3>2. /\ sleeping' \subseteq Tasks
          /\ tries' = tries \/ (tries[t] < MaxRestarts /\ tries' = [tries EXCEPT ![t] = @ + 1])
      <4>1. tries[t] \in 0 .. MaxRestarts
        BY DEF Task!TypeOK
      <4> QED
        BY <1>0, <2>2, <4>1 DEF Task!Join, Task!Exhausted, Task!TypeOK
    <3>3. tries' \in [Tasks -> 0 .. MaxRestarts]
      <4>1. tries \in [Tasks -> 0 .. MaxRestarts]
        BY DEF Task!TypeOK
      <4> QED
        BY <1>0, <3>2, <4>1
    <3> QED
      BY <3>1, <3>2, <3>3 DEF Task!TypeOK
  <2>3. ASSUME NEW t \in Tasks, Task!Wake(t)
        PROVE  Task!TypeOK'
    BY <2>3 DEF Task!Wake, Task!FactoryKept, Task!TypeOK
  <2>4. CASE UNCHANGED taskVars
    BY <2>4 DEF taskVars, Task!TypeOK
  <2> QED
    BY <2>1, <2>2, <2>3, <2>4 DEF Task!Next
<1> QED
  BY <1>1, <1>3, PTL DEF PartsSpec

(* error_reporter_daemon.rs: a poll has at most MAX_REQUESTS_PER_POLL      *)
(* entries, and one at hand exactly while it is decided, logged, removed.  *)
THEOREM ErTypesAlways == PartsSpec => []Er!TypeOK
<1>0. MaxPerPoll \in Nat /\ IsFiniteSet(Requests)
  BY LoopsAssumption DEF LoopsAssumption
<1>1. \A S : Er!Cardinality(S) = Cardinality(S)
  BY DEF Er!Cardinality, Cardinality
<1>2. ASSUME NEW S \in SUBSET Requests
      PROVE  /\ IsFiniteSet(S) /\ Cardinality(S) \in Nat
             /\ \A r : Cardinality(S \ {r}) <= Cardinality(S) /\ Cardinality(S \ {r}) \in Nat
  <2>1. IsFiniteSet(S)
    BY <1>0, FS_Subset
  <2>2. ASSUME NEW r
        PROVE  Cardinality(S \ {r}) <= Cardinality(S) /\ Cardinality(S \ {r}) \in Nat
    <3>1. S \ {r} \in SUBSET S
      OBVIOUS
    <3>2. IsFiniteSet(S \ {r}) /\ Cardinality(S \ {r}) <= Cardinality(S)
      BY <2>1, <3>1, FS_Subset
    <3> QED
      BY <3>2, FS_CardinalityType
  <2> QED
    BY <2>1, <2>2, FS_CardinalityType
<1>3. Cardinality({}) = 0
  BY FS_EmptySet
<1>4. PartsInit => Er!TypeOK
  <2> SUFFICES ASSUME Er!Init
               PROVE  Er!TypeOK
    BY DEF PartsInit
  <2> QED
    BY <1>0, <1>1, <1>3 DEF Er!Init, Er!TypeOK
<1>5. [PartsNext]_partsVars => Er!Next \/ UNCHANGED erVars
  <2>1. CASE UNCHANGED partsVars
    BY <2>1 DEF partsVars
  <2>2. CASE PartsNext
    BY <2>2 DEF PartsNext
  <2> QED
    BY <2>1, <2>2
<1>6. Er!TypeOK /\ [PartsNext]_partsVars => Er!TypeOK'
  <2> SUFFICES ASSUME Er!TypeOK, Er!Next \/ UNCHANGED erVars
               PROVE  Er!TypeOK'
    BY <1>5
  <2>1. ASSUME NEW r \in Requests, Er!Ask(r) \/ Er!TakeAnswer(r) \/ Er!GiveUp(r)
        PROVE  Er!TypeOK'
    BY <2>1, <1>1 DEF Er!Ask, Er!TakeAnswer, Er!GiveUp, Er!Asks, Er!Forget, Er!daemon,
       Er!TypeOK
  <2>2. ASSUME NEW r \in Requests, Er!AskerDies(r) \/ Er!Age(r)
        PROVE  Er!TypeOK'
    BY <2>2, <1>1 DEF Er!AskerDies, Er!Age, Er!Asks, Er!daemon, Er!TypeOK
  <2>3. CASE Er!Poll
    <3>1. /\ todo' \subseteq req /\ dpc = "idle" /\ dpc' = "entry"
          /\ Cardinality(todo') = MaxPerPoll \/ Cardinality(todo') < MaxPerPoll
          /\ UNCHANGED <<asker, req, resp, old, cur>>
      BY <2>3, <1>1 DEF Er!Poll
    <3>2. Cardinality(todo') <= MaxPerPoll
      <4>1. todo' \in SUBSET Requests
        BY <3>1 DEF Er!TypeOK
      <4>2. Cardinality(todo') \in Nat
        BY <1>2, <4>1
      <4>3. Cardinality(todo') = MaxPerPoll \/ Cardinality(todo') < MaxPerPoll
        BY <3>1
      <4> QED
        BY <1>0, <4>2, <4>3
    <3> QED
      BY <1>1, <3>1, <3>2 DEF Er!TypeOK
  <2>4. CASE Er!ReadEntry
    <3>1. PICK r \in todo : /\ todo' = todo \ {r} /\ dpc = "entry"
                            /\ \/ dpc' = "publish" /\ cur' = {r} /\ UNCHANGED req
                               \/ req' = req \ {r} /\ UNCHANGED <<dpc, cur>>
                            /\ UNCHANGED <<asker, resp, old>>
      BY <2>4 DEF Er!ReadEntry
    <3>2. todo \in SUBSET Requests /\ Cardinality(todo) <= MaxPerPoll
      BY <1>1 DEF Er!TypeOK
    <3>3. Cardinality(todo') <= MaxPerPoll
      <4>1. /\ Cardinality(todo) \in Nat /\ Cardinality(todo \ {r}) \in Nat
            /\ Cardinality(todo \ {r}) <= Cardinality(todo)
        BY <1>2, <3>2
      <4> QED
        BY <1>0, <3>1, <3>2, <4>1
    <3> QED
      BY <1>1, <3>1, <3>2, <3>3 DEF Er!TypeOK
  <2>5. CASE Er!EndPoll \/ Er!Remove
    BY <2>5, <1>1 DEF Er!EndPoll, Er!Remove, Er!TypeOK
  <2>6. CASE Er!Publish \/ Er!Log \/ Er!DaemonDies
    BY <2>6, <1>0, <1>1, <1>3 DEF Er!Publish, Er!Log, Er!DaemonDies, Er!TypeOK
  <2>7. CASE UNCHANGED erVars
    BY <2>7, <1>1 DEF erVars, Er!TypeOK
  <2> QED
    BY <2>1, <2>2, <2>3, <2>4, <2>5, <2>6, <2>7 DEF Er!Next, Er!DaemonStep
<1> QED
  BY <1>4, <1>6, PTL DEF PartsSpec

(* An entry that was built names the image and a Task of it.               *)
TypedEntry(e) ==
  e.image \in Images /\ e.task \in TaskIds[e.image] /\ e.oid \in 1 .. LastOid

PublishTypes == Publish!TypeOK /\ intent.new.gen \in Nat

(* What is built, staged and bound anew is well typed.                     *)
LEMMA BuiltTyped ==
  ASSUME OidInv, PublishTypes
  PROVE  /\ \A e \in Publish!Built : TypedEntry(e)
         /\ \A e \in Publish!Staged : TypedEntry(e)
         /\ Publish!Reconciled.gen \in Nat /\ Publish!Linked.gen \in Nat
         /\ \A i \in DOMAIN Publish!Reconciled.rel : Publish!Reconciled.rel[i] \in 1 .. LastOid
         /\ \A i \in DOMAIN Publish!Linked.rel : Publish!Linked.rel[i] \in 1 .. LastOid
<1>1. /\ Bindings(Publish!Reconciled.rel) /\ Bindings(Publish!Linked.rel)
      /\ TaskIds[image] \subseteq DOMAIN Publish!Reconciled.rel
  BY ReconciledBinds, LinkedBinds
<1>2. image \in Images /\ oidIndex.gen \in Nat /\ \A e \in ctiIndex : TypedEntry(e)
  BY DEF PublishTypes, Publish!TypeOK, TypedEntry
<1>3. ASSUME NEW e \in Publish!Built PROVE TypedEntry(e)
  <2>1. PICK t \in TaskIds[image] : e = Publish!Entry(image, t, Publish!Reconciled.rel)
    BY DEF Publish!Built
  <2>2. e.image = image /\ e.task = t /\ e.oid = Publish!Reconciled.rel[t]
    BY <2>1 DEF Publish!Entry
  <2>3. Publish!Reconciled.rel[t] \in 1 .. LastOid
    BY <1>1 DEF Bindings
  <2> QED
    BY <1>2, <2>2, <2>3 DEF TypedEntry
<1>4. \A e \in Publish!Staged : TypedEntry(e)
  BY <1>2, <1>3 DEF Publish!Staged
<1>5. Publish!Reconciled.gen \in Nat /\ Publish!Linked.gen \in Nat
  BY <1>2 DEF Publish!Reconciled, Publish!Linked, Publish!Rebind
<1> QED
  BY <1>1, <1>3, <1>4, <1>5 DEF Bindings

Stages == {"down", "open", "create", "created", "recover", "clear", "persist", "persisted",
           "link", "linked", "assemble", "replace", "replaced", "publish", "finish",
           "finished", "activate", "up"}

\* What a step may make of the indexes, the images, the intent and the boot.
PublishChange ==
  /\ oidIndex' \in {oidIndex, Publish!NoIndex, Publish!Fresh, Publish!Linked, intent.new}
  /\ trusted' = trusted \/ trusted' = TRUE \/ trusted' = FALSE
  /\ ctiIndex' = ctiIndex \/ ctiIndex' = intent.index
  /\ images' = images \/ \E e \in Publish!Built : images' = images \cup {e}
  /\ \/ intent' = intent \/ intent' = Publish!NoIntent
     \/ intent' = [old |-> oidIndex, new |-> Publish!Reconciled, index |-> Publish!Staged]
  /\ stage' \in Stages

(* Every step of a boot makes one of these changes.                        *)
LEMMA PublishChanges ==
  ASSUME stage \in Stages, Publish!Next \/ UNCHANGED publishVars
  PROVE  PublishChange
<1>1. CASE Publish!Boot
  BY <1>1 DEF Publish!Boot, Publish!Go, Publish!disk, Publish!bounds, PublishChange,
     Stages
<1>2. CASE Publish!OpenOid
  BY <1>2 DEF Publish!OpenOid, Publish!Go, Publish!disk, Publish!bounds, PublishChange,
     Stages
<1>3. CASE Publish!CreateFresh
  BY <1>3 DEF Publish!CreateFresh, Publish!WriteSealed, Publish!SetTrustedHead,
     Publish!bounds, PublishChange, Stages
<1>4. CASE Publish!PrepareCore
  BY <1>4 DEF Publish!PrepareCore, Publish!Recover, Publish!ClearIntent,
     Publish!WriteSealed, Publish!SetTrustedHead, Publish!bounds, Publish!Go,
     Publish!disk, Publish!RecoveredCti, PublishChange, Stages
<1>5. CASE Publish!LinkNative
  BY <1>5 DEF Publish!LinkNative, Publish!WriteSealed, Publish!SetTrustedHead,
     Publish!bounds, Publish!Go, Publish!disk, PublishChange, Stages
<1>6. CASE Publish!StageImage
  BY <1>6 DEF Publish!StageImage, Publish!bounds, PublishChange, Stages
<1>7. CASE Publish!WriteIntent
  BY <1>7 DEF Publish!WriteIntent, Publish!bounds, PublishChange, Stages
<1>8. CASE Publish!ReplaceOid
  BY <1>8 DEF Publish!ReplaceOid, Publish!WriteSealed, Publish!SetTrustedHead,
     Publish!bounds, PublishChange, Stages
<1>9. CASE Publish!Publish
  BY <1>9 DEF Publish!Publish, Publish!bounds, PublishChange, Stages
<1>10. CASE Publish!Finish
  BY <1>10 DEF Publish!Finish, Publish!Recover, Publish!ClearIntent, Publish!bounds,
     Publish!Go, Publish!disk, Publish!RecoveredCti, PublishChange, Stages
<1>11. CASE Publish!Activate
  BY <1>11 DEF Publish!Activate, Publish!Go, Publish!disk, Publish!bounds,
     PublishChange, Stages
<1>12. CASE Publish!Edit
  BY <1>12 DEF Publish!Edit, Publish!disk, PublishChange, Stages
<1>13. CASE Publish!Crash
  BY <1>13 DEF Publish!Crash, Publish!disk, PublishChange, Stages
<1>14. CASE UNCHANGED publishVars
  BY <1>14 DEF publishVars, PublishChange
<1> QED
  BY <1>1, <1>2, <1>3, <1>4, <1>5, <1>6, <1>7, <1>8, <1>9, <1>10, <1>11, <1>12, <1>13,
     <1>14 DEF Publish!Next, Publish!BootStep

(* So types are kept.                                                      *)
LEMMA PublishTypesKeep ==
  ASSUME PublishInv, PublishInv', PublishTypes, Publish!Next \/ UNCHANGED publishVars
  PROVE  PublishTypes'
<1>1. /\ oidIndex.gen \in Nat /\ intent.new.gen \in Nat /\ trusted \in BOOLEAN
      /\ \A e \in ctiIndex : TypedEntry(e)
      /\ \A e \in images : TypedEntry(e)
      /\ \A e \in intent.index : TypedEntry(e)
      /\ stage \in Stages
  BY DEF PublishTypes, Publish!TypeOK, TypedEntry, Stages
<1>2. PublishChange
  BY <1>1, PublishChanges
<1>3. /\ \A e \in Publish!Built : TypedEntry(e)
      /\ \A e \in Publish!Staged : TypedEntry(e)
      /\ Publish!Reconciled.gen \in Nat /\ Publish!Linked.gen \in Nat
  BY BuiltTyped DEF PublishInv
<1>4. /\ Publish!Fresh.gen = 1 /\ Publish!NoIndex.gen = 0
      /\ Publish!NoIntent.new = Publish!NoIndex /\ Publish!NoIntent.index = {}
  BY DEF Publish!Fresh, Publish!NoIndex, Publish!NoIntent
<1>5. oidIndex'.gen \in Nat
  BY <1>1, <1>2, <1>3, <1>4 DEF PublishChange
<1>6. intent'.new.gen \in Nat /\ \A e \in intent'.index : TypedEntry(e)
  BY <1>1, <1>2, <1>3, <1>4 DEF PublishChange
<1>7. (\A e \in ctiIndex' : TypedEntry(e)) /\ (\A e \in images' : TypedEntry(e))
  BY <1>1, <1>2, <1>3 DEF PublishChange
<1>8. trusted' \in BOOLEAN
  BY <1>1, <1>2, Zenon DEF PublishChange
<1>9. /\ \A i \in DOMAIN oidIndex'.rel : oidIndex'.rel[i] \in 1 .. LastOid
      /\ image' \in Images
  BY DEF PublishInv, OidInv, Bindings
<1>10. stage' \in Stages
  BY <1>2 DEF PublishChange
<1> QED
  BY <1>5, <1>6, <1>7, <1>8, <1>9, <1>10 DEF PublishTypes, Publish!TypeOK, TypedEntry, Stages

(* The indexes, the intent and the images stay well typed.                 *)
THEOREM PublishTypesAlways == PartsSpec => []PublishTypes
<1>1. PartsInit => PublishTypes
  <2> SUFFICES ASSUME Publish!Init
               PROVE  PublishTypes
    BY DEF PartsInit
  <2>1. /\ image \in Images /\ oidIndex = Publish!NoIndex /\ ctiIndex = {} /\ images = {}
        /\ intent = Publish!NoIntent /\ stage = "down" /\ trusted = FALSE
    BY DEF Publish!Init
  <2>2. Publish!NoIndex.gen = 0 /\ DOMAIN Publish!NoIndex.rel = {}
        /\ Publish!NoIntent.new = Publish!NoIndex /\ Publish!NoIntent.index = {}
    BY DEF Publish!NoIndex, Publish!NoIntent
  <2>3. trusted \in BOOLEAN
    BY <2>1, Zenon
  <2> QED
    BY <2>1, <2>2, <2>3 DEF PublishTypes, Publish!TypeOK
<1>2. [PartsNext]_partsVars => Publish!Next \/ UNCHANGED publishVars
  <2>1. CASE UNCHANGED partsVars
    BY <2>1 DEF partsVars
  <2>2. CASE PartsNext
    BY <2>2 DEF PartsNext
  <2> QED
    BY <2>1, <2>2
<1>3. PublishInv /\ PublishInv' /\ PublishTypes /\ [PartsNext]_partsVars => PublishTypes'
  BY <1>2, PublishTypesKeep
<1> QED
  BY <1>1, <1>3, PublishInvAlways, PTL DEF PartsSpec

(***************************************************************************)
(* QuickDb, for the whole.                                                 *)
(***************************************************************************)

(* quickdb.rs: the registry, its filters and what was reported, at every   *)
(* step.                                                                   *)
THEOREM QuickInvAlways == PartsSpec => []QuickInv
<1>1. PartsInit => QuickInv
  BY QuickStarts DEF PartsInit
<1>2. [PartsNext]_partsVars => [Quick!Next]_quickVars
  <2>1. CASE UNCHANGED partsVars
    BY <2>1 DEF partsVars
  <2>2. CASE PartsNext
    BY <2>2 DEF PartsNext
  <2> QED
    BY <2>1, <2>2
<1>3. QuickInv /\ [PartsNext]_partsVars => QuickInv'
  BY <1>2, QuickKeeps
<1> QED
  BY <1>1, <1>3, PTL DEF PartsSpec

(* Filter::ready, contains and the budget, for every choice of positions:  *)
(* a value that was reported and not deleted is never called missing by a  *)
(* ready filter, whatever other values share its positions, unless the     *)
(* filter counts and the value itself meets one position more often than a *)
(* counter can count; all filters stay within the budget; and every part   *)
(* stays within its types.                                                 *)
THEOREM FiltersStaySound == PartsSpec => []FiltersSound
<1>1. PartsInit => IInv
  BY IInvStarts DEF PartsInit
<1>2. [PartsNext]_partsVars => [Next]_vars
  <2>1. CASE UNCHANGED partsVars
    BY <2>1 DEF partsVars
  <2>2. CASE PartsNext
    BY <2>2 DEF PartsNext
  <2> QED
    BY <2>1, <2>2
<1>3. IInv /\ [PartsNext]_partsVars => IInv'
  BY <1>2, IInvKeeps
<1>4. /\ IInv => TypeOK
      /\ UpdateInv => Update!TypeOK
      /\ InstallInv => Install!TypeOK
      /\ PublishTypes => Publish!TypeOK
  BY DEF IInv, UpdateInv, InstallInv, PublishTypes
<1>5. /\ QuickInv /\ TypeOK /\ Update!TypeOK /\ Task!TypeOK /\ Er!TypeOK /\ Memory!TypeOK
      /\ Install!TypeOK /\ Publish!TypeOK
      => FiltersSound
  BY QuickHolds DEF FiltersSound
<1> QED
  BY <1>1, <1>3, <1>4, <1>5, QuickInvAlways, UpdateInvAlways, TaskTypesAlways, ErTypesAlways,
     MemoryTypesAlways, InstallInvAlways, PublishTypesAlways, PTL DEF PartsSpec
=============================================================================
