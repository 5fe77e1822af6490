--------------------------- MODULE MCBackendParts ---------------------------
(***************************************************************************)
(* Parts of the backend and of its neighbours that share no state, checked *)
(* in one run: `subject` is chosen in the initial state and only the steps *)
(* of that part are taken.                                                 *)
(***************************************************************************)
EXTENDS MotherSupervisor, FiniteSets, Sequences

CONSTANTS
  Files, Last,                       \* BinaryUpdate
  Handles, MemoryLeases, MaxGen,     \* GroupMemory
  Roots, Requirements, Marks,        \* ProjectActivation
  Images, Native, TaskIds, LastOid,  \* TaskPublication
  Tasks, MaxRestarts, MaxPerPoll,    \* TaskSupervisor, ErRecovery
  Names, Values, Slots, Hash, Snapshots, CounterMax, Capacity, LayerBytes, CountingBytes,
  MaxFilters, MaxBytes, MaxLayers,   \* QuickDb
  UpdateFaults, InstallFaults, MaxEdits, MaxCrashes   \* their bounds

\* Every symbol an image may bind: native ones and Container Tasks.
Symbols == UNION {Native[i] \cup TaskIds[i] : i \in Images}

ASSUME PartsAssumption ==
  /\ Files \in Nat \ {0} /\ Last \in Nat \ {0} /\ MaxGen \in Nat /\ Marks \in Nat \ {0}
  /\ Roots \cap {"boot", "free"} = {} /\ \A r \in Roots : Requirements[r] \subseteq Nat \ {0}
  /\ {UpdateFaults, InstallFaults, MaxEdits, MaxCrashes} \subseteq Nat

\* The two kinds of symbols are told apart, and there are OIDs for all of them.
ASSUME SymbolsAssumption ==
  /\ IsFiniteSet(Symbols) /\ Symbols \subseteq Nat
  /\ LastOid \in Nat /\ Cardinality(Symbols) <= LastOid
  /\ \A i, j \in Images : Native[i] \cap TaskIds[j] = {}

ASSUME LoopsAssumption ==
  MaxRestarts \in Nat /\ MaxPerPoll \in Nat /\ IsFiniteSet(Requests)

ASSUME FiltersAssumption ==
  /\ MaxLayers \in Nat \ {0} /\ CounterMax \in Nat \ {0}
  /\ {CountingBytes, MaxFilters, MaxBytes} \subseteq Nat
  /\ {Capacity, LayerBytes} \subseteq [1 .. MaxLayers -> Nat]
  /\ Hash \in [1 .. MaxLayers -> [Values -> Seq(Slots)]] /\ Snapshots \subseteq Seq(Values)

VARIABLES
  subject,
  installed, saved, staged, journal, hpc, pos, recover, bpc, bver, ready, leased,
  proved, updateFaults,
  task, factories, tries, sleeping,
  asker, req, resp, old, dpc, todo, cur,
  lock, reading, held, wpc, repair, gen, marker, first, second,
  manifest, projectLock, nextManifest, session, lease, installPc, target, marks, inForce,
  installFaults,
  filters, known,
  oidIndex, trusted, ctiIndex, images, intent, stage, image, edits, deaths

Update == INSTANCE BinaryUpdate
            WITH MaxFaults <- UpdateFaults, faults <- updateFaults
Task == INSTANCE TaskSupervisor
          WITH attempts <- tries
Er == INSTANCE ErRecovery
Memory == INSTANCE GroupMemory WITH Leases <- MemoryLeases
Install == INSTANCE ProjectActivation
             WITH MaxFaults <- InstallFaults, lock <- projectLock, staged <- nextManifest,
                  journal <- session, pc <- installPc, faults <- installFaults
Quick == INSTANCE QuickDb
Publish == INSTANCE TaskPublication
             WITH crashes <- deaths

updateVars == <<installed, saved, staged, journal, hpc, pos, recover, bpc, bver, ready,
                leased, proved, updateFaults>>
taskVars == <<task, factories, tries, sleeping>>
erVars == <<asker, req, resp, old, dpc, todo, cur>>
memoryVars == <<lock, reading, held, wpc, repair, gen, marker, first, second>>
installVars == <<manifest, projectLock, nextManifest, session, lease, installPc, target,
                 marks, inForce, installFaults>>
quickVars == <<filters, known>>
publishVars == <<oidIndex, trusted, ctiIndex, images, intent, stage, image, edits, deaths>>
partsVars == <<subject, vars, updateVars, taskVars, erVars, memoryVars,
               installVars, quickVars, publishVars>>

PartsInit ==
  /\ subject \in {"mother", "update", "task", "er", "memory", "install", "quick", "publish"}
  /\ Init /\ Update!Init /\ Task!Init /\ Er!Init /\ Memory!Init
  /\ Install!Init /\ Quick!Init /\ Publish!Init
  /\ subject # "publish" => image = CHOOSE i \in Images : TRUE

PartsNext ==
  /\ \/ /\ subject = "mother" /\ Next
        /\ UNCHANGED <<updateVars, taskVars, erVars, memoryVars, installVars, quickVars,
                       publishVars>>
     \/ /\ subject = "update" /\ Update!Next
        /\ UNCHANGED <<vars, taskVars, erVars, memoryVars, installVars, quickVars,
                       publishVars>>
     \/ /\ subject = "task" /\ Task!Next
        /\ UNCHANGED <<vars, updateVars, erVars, memoryVars, installVars, quickVars,
                       publishVars>>
     \/ /\ subject = "er" /\ Er!Next
        /\ UNCHANGED <<vars, updateVars, taskVars, memoryVars, installVars, quickVars,
                       publishVars>>
     \/ /\ subject = "memory" /\ Memory!Next
        /\ UNCHANGED <<vars, updateVars, taskVars, erVars, installVars, quickVars,
                       publishVars>>
     \/ /\ subject = "install" /\ Install!Next
        /\ UNCHANGED <<vars, updateVars, taskVars, erVars, memoryVars, quickVars,
                       publishVars>>
     \/ /\ subject = "quick" /\ Quick!Next
        /\ UNCHANGED <<vars, updateVars, taskVars, erVars, memoryVars, installVars,
                       publishVars>>
     \/ /\ subject = "publish" /\ Publish!Next
        /\ UNCHANGED <<vars, updateVars, taskVars, erVars, memoryVars, installVars,
                       quickVars>>
  /\ UNCHANGED subject

\* The values of the run: requirements 1 and 2 resolve to the same version; two
\* images have the same Tasks and the third calls a native symbol; values share
\* positions, one meets a position twice and one more often than a counter counts.
SomeRequirements == [a |-> {1, 2}, b |-> {3}]
SomeNative == <<{}, {}, {1}>>
SomeTasks == <<{11}, {11}, {11, 12}>>
SomeHash == <<[a |-> <<1, 1>>, b |-> <<1, 2>>, c |-> <<3, 2, 2, 2, 2>>],
              [a |-> <<1, 2>>, b |-> <<3, 2>>, c |-> <<1, 3>>]>>
SomeSnapshots == {<<"a">>, <<"b">>, <<"c", "a">>}
SomeCapacity == <<1, 2>>
-----------------------------------------------------------------------------
\* Every part's own fairness, while it is the subject; each module says what
\* justifies it.
Moves(s, step) == subject = s /\ step

PartsFairness ==
  /\ WF_vars(Moves("mother", SuperviseStep)) /\ WF_vars(Moves("mother", ProcessStep))
  /\ WF_vars(Moves("mother", WorkersExit))
  /\ WF_vars(Moves("mother", ShutdownJoined \/ ShutdownAborts))
  /\ SF_vars(Moves("mother", StartWorkers)) /\ SF_vars(Moves("mother", SpawnReady))
  /\ WF_updateVars(Moves("update", Update!HelperStep))
  /\ WF_updateVars(Moves("update", Update!HandOff))
  /\ WF_updateVars(Moves("update", Update!LeaseCloses))
  /\ WF_updateVars(Moves("update", Update!Boot))
  /\ WF_updateVars(Moves("update", Update!Recover))
  /\ \A t \in Tasks : /\ SF_taskVars(Moves("task", Task!Join(t)))
                       /\ WF_taskVars(Moves("task", Task!Wake(t)))
  /\ \A r \in Requests : /\ WF_erVars(Moves("er", Er!TakeAnswer(r) \/ Er!GiveUp(r)))
                         /\ WF_erVars(Moves("er", Er!Age(r)))
  /\ WF_erVars(Moves("er", Er!DaemonStep)) /\ SF_erVars(Moves("er", Er!ReadEntry))
  /\ \A p \in Roots : WF_installVars(Moves("install", Install!Proceed(p)))
  /\ WF_installVars(Moves("install", Install!Recovery("boot")))
  /\ SF_installVars(Moves("install", Install!Acquire("boot", "idle") /\ lease = "free"))
  /\ WF_publishVars(Moves("publish", Publish!BootStep))

PartsSpec == PartsInit /\ [][PartsNext]_partsVars /\ PartsFairness
-----------------------------------------------------------------------------
(* QuickDb: what is missing from a ready filter is missing from what it was  *)
(* given, and the filters share their budget.  The types of all parts ride   *)
(* along.                                                                    *)
FiltersSound ==
  /\ Quick!MissingIsMissing /\ Quick!BudgetKept
  /\ TypeOK /\ Update!TypeOK /\ Task!TypeOK /\ Er!TypeOK /\ Memory!TypeOK
  /\ Install!TypeOK /\ Quick!TypeOK /\ Publish!TypeOK

(* BinaryUpdate: between any two file operations of install and restore the  *)
(* previous bundle can be put back, and without a journal it is whole.       *)
BundleSafe == Update!BundleSafe

(* BinaryUpdate: install, rollback and recovery implement an atomic switch   *)
(* to a version whose candidate was seen healthy (AtomicBundle).             *)
SwitchIsAtomic == Update!SwitchIsAtomic

(* GroupMemory: a read lease exposes one whole, unchanging payload.          *)
LeaseIsStable == Memory!LeaseIsStable

(* ProjectActivation: manifest and lock in force are those of one            *)
(* activation, or the journal and the staged manifest make them so.          *)
ProjectIsWhole == Install!ProjectIsWhole

(* TaskPublication: wherever a boot stops, no Task OID is left without its   *)
(* image, and a backend that serves finds exactly the Tasks it compiled.     *)
TasksHaveImages == Publish!TasksHaveImages

(* Something always comes of it.  MotherSupervisor: a Mother that exited is  *)
(* replaced, and no worker survives the shutdown of the backend.             *)
(* TaskSupervisor: a failed task is restarted while it has attempts left.    *)
(* BinaryUpdate: whatever died, a backend runs again once it is started.     *)
(* ErRecovery: no request file stays in the queue for ever.                  *)
(* ProjectActivation: an interrupted activation is resolved by a later       *)
(* start, unless it was to change a requirement only.                        *)
(* TaskPublication: a backend started again comes up, unless the OID index   *)
(* was rebuilt under a pending publication.                                  *)
PartsSettle ==
  /\ subject = "mother" => MotherRecovers /\ NoWorkerSurvives
  /\ subject = "task" => Task!FailedTaskRestarts
  /\ subject = "update" => Update!BackendReturns
  /\ subject = "er" => Er!RequestsDrain
  /\ subject = "install" => Install!ActivationResolves
  /\ subject = "publish" => Publish!BootsComplete
=============================================================================
