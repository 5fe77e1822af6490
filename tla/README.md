# RBE in TLA+

A verification project for the Rust Backend Engine. It models the parts of RBE
in which several tasks, processes or machines change shared state, or in which
a crash between two file operations matters, checks them with TLC on small
instances and proves the safety properties it checks with TLAPS for every
value of the constants. Paths below are relative to the root of the
repository; `PROJECT.json` maps every definition to its lines.

## 1. The system

RBE runs `.route` and `.service` programs behind an HTTP backend. One backend
process starts helper processes (the maintenance responder, CONTROL ER, the
vault, Service Mother, the container runtime, the Video Manager) and a Cloud
Node daemon keeps the project's stored files and a provider or peer in step.

| Part | State it keeps | Operations | Hard behaviour |
|---|---|---|---|
| Service manager (`engine/crates/service-runtime/src/manager.rs`) | per service a `Managed` record behind a tokio mutex: child, attempts, `exit_observed`, `restarting`, active calls, last activity | boot (during which calls are served already), monitor tick, call/event, cold activation, explicit restart, health probe, idle stop, shutdown | five kinds of task share the record; the mutex is released during backoff and explicit spawns, held during cold activation |
| Service Mother supervision and restart queue (`backend/src/service_mother.rs`, `service_control.rs`) | the Mother child, the endpoint shared by all handles, request files | supervise, spawn, shutdown; submit, poll, expire | crashes of Mother with live workers, shutdown in the middle of a spawn, a request file that cannot be removed |
| CONTROL ER (`backend/src/er_recovery.rs`) | request and response files, decision log | ask, decide, poll | 450 ms timeout against a late answer, a poll that fails half way |
| Task supervisor (`engine/crates/supervisor`) | factories, attempts, backoff | register, run | backoff inside the only loop |
| Binary updates (`backend/src/binary_updates.rs`) | journal, staged and previous bundles, helper | stage, hand over, install, await readiness, commit or roll back | a crash between any two file operations |
| Group memory (`group-memory`) | mapped region with generation and write marker under a file lock | read, write and repair leases | dying writers, several leases of one handle |
| Installs (`install-runtime`, `install-orchestrator`) | manifest, `rbe.lock`, staged manifest, session journal, lease | plan, stage, journal, swap, publish, recover | two installs and a boot, interrupted sessions |
| Task publication (`route-engine/src/{container_task_assembly,service_oid,oid_security,oid_cache_bootstrap,rel_native_link,rel_oid_bridge}.rs`, `container-runtime-core` task cache and loader) | OID index and the Vault's trusted head, Container Task index, image files, the intent `index.pending-txn` | open or rebuild, recover, link natively, stage, publish, load | two indexes and a head replaced one after the other, a crash between any two |
| QuickDB (`route-engine/src/quickdb.rs`) | Bloom filters with readiness, counters, layers, a shared budget | create, add, load, rebuild, remove, clear, seal, drop | full counters, lists that fail half way, growth at the budget |
| Storage outbox (`storage-sync-journal`, `container-runtime-core` storage, `cloud-node/src/ingest.rs`) | project file, `pending/`, `ready/`, lock file, Cloud Node object | prepare, write, commit, cancel; recover, scan, store, acknowledge | the reader takes no lock; either side may crash at any file access |
| Provider synchronisation (`cloud-node/src/provider_sync*.rs`) | store root, local history and HEAD; provider's HEAD, commits, snapshots | adopt, commit, compare, push, pull, repeated passes | several machines, lost answers, providers without conditional puts |
| Watched directory (`cloud-node/src/local_sync.rs`, `main.rs`) | directory, store, provider | status, pull, restore, bootstrap fill, take over, synchronise | users edit while a cycle runs, a cycle dies half way and leaves temporaries or half an object |
| Peer recovery (`cloud-node/src/{client,recovery,store}.rs`, `backend/src/maintenance_notice.rs`) | plan, progress, partial files, staging and live trees | negotiate, send, resume, complete, swap, reopen | late requests of old sessions, torn chunks, the two-rename swap |
| Registry (`cloud-node/src/registry_ingest.rs`, `sync.rs`) | objects under a marker | validate, store, remove stale, commit; scan | a replacement interrupted anywhere, also inside a removal, a scan in the middle |
| Container runtime (`container-runtime/crates/*`) | queues, Swamps, journal, results, generations, Environment processes, crash circuit | submit, rebalance, run, cancel, restart, drain, replace | cancel against dispatch and result, restart against running work, torn journal lines |
| Video Manager (`engine/crates/video-manager`) | jobs, quarantine, staging, assets; live sessions and their runtime | reserve, download, process, publish, recover; reserve, start, end, stop | a crash at any file or row, end requests against transitions |
| REL/RELC, routes, API, security, vault, RPX, SDK | compiled programs, configuration, credentials | parse, compile, serve | mostly pure or I/O |

The parts meet as follows. The backend's `supervise` task owns Mother; Mother
runs the service manager, polls the restart queue, and on a whole restart exits
and is replaced. The monitor and `supervise` ask CONTROL ER for a directive and
fall back to their own policy. A container worker hands its task to the
Environment supervisor. Storage writes leave intents that Cloud Node ingests;
the store that results is what provider synchronisation commits and publishes,
what a watched directory is compared with, and what a peer recovers.

## 2. Modules

| Module | Models | State and actions in the code |
|---|---|---|
| `ServiceManager` | one managed service | `process`, `attempts`, `exitObserved`, `restarting`, `guards` are the fields of `Managed` (`guards` is the set of owners that `active_calls` counts); `locked` is the mutex held across an await; one program counter per task. An action is the code between two awaits. Calls come at any time, the other requests once the boot is over (`Booted`): the restart queue is polled, and the Mother's address printed, after `start_prepared` (service_mother.rs:250-268). A child outside the record is the program counter of the task that owns it. |
| `MotherSupervisor` | `supervise`, the shared endpoint, the restart queue, Mother and its workers | `mother`/`workers` are the processes of the current generation, `orphans` workers of older ones, `endpoint` the generation the client addresses |
| `ErRecovery` | the request and response files of CONTROL ER | one asker per request, one daemon whose poll is a sequence of file operations |
| `TaskSupervisor` | `register`, `spawn_task`, `run` | `sleeping` is the backoff inside the loop |
| `BinaryUpdate` | an update and its recovery, one file operation a step | three directories, the journal, the helper (`hpc`), the backend (`bpc`) |
| `AtomicBundle` | what an update promises: the effective bundle changes in one step, to a version whose candidate was seen healthy | refined by `BinaryUpdate` under the mapping in its `Atomic == INSTANCE AtomicBundle` |
| `GroupMemory` | one region, several handles | flock state per handle, marker, generation, a payload of two halves |
| `ProjectActivation` | installs and the booting backend on one project | manifest, lock, staged manifest, session journal, install lease |
| `QuickDb` | the filters of a Service | the registry; `known` is what the caller's database has |
| `TaskPublication` | the indexes of Container Tasks over the boots of one project | `oidIndex`, `ctiIndex`, `images`, `intent` are the files; `trusted` says that the Vault's head is the digest of the OID index file; `stage` is how far a boot has come, one write a step |
| `StorageJournal` | the outbox for one path | `file`, `pending`, `ready`, `stored`, `lock` are the files; `promised` is a history variable: the write of the present content returned success |
| `ProviderSync` | nodes sharing one provider | `root`, `head`, `known` per node; `rhead`, `rcommits`, `rsnaps` at the provider; the locals of the transaction and its guard |
| `LocalSync` | one node's cycle over a watched directory | the trees of directory, store and provider, including the temporaries that restores may leave in the directory; `unreadable` and `husks` are objects whose payload or manifest is missing; the loops of scan, restore, fill and take-over file by file |
| `PeerRecovery` | a client, the responder, the receiver and the store | requests in `net` stay there when the client gives up; `live`, `old`, `staging` are the directories of the swap |
| `RegistryIngest` | replacement of the registry and a scan | objects present and those without a payload, the marker, what the scan read |
| `ContainerRuntime` | executions from submission to outcome | global queue, Swamps, workers' hands, journal with torn lines, results, cancel and restart calls, generations |
| `EnvironmentExecution` | `execute`, `cancel_execution`, `restart` of the Environment supervisor and the child process | tables of owners and cancellations on both sides, worker processes, the artifact crash circuit |
| `VideoDownload`, `VideoLive` | the download job and the live session with its coordinator | rows and files of a job; sessions, end requests, runtime resources |
| `MCBackendParts`, `MCNodeParts` | small instances of parts that share no state, checked in one run | `subject` is chosen in the initial state and only the steps of that part are taken; both take the constants of the parts they prove something about as their own, so that the theorems hold for all of them |
| `MCServiceManager`, `MCStorageJournal`, `MCProviderSync` | TLC instances | symmetry, policies, the serial journal with fairness, the hybrid service |
| `*Proofs` | theorems | one module per proved component, one each for the parts of `MCNodeParts` and `MCBackendParts` |

The modules meet where the code does: a whole restart in `MotherSupervisor`
starts a new `ServiceManager` from `Init`; `StorageJournal`'s `stored` is
content that `ProviderSync` counts in `root`; `LocalSync` takes a whole
`synchronize_provider` as one step that may take effect and still fail, which
is what `ProviderSync` models in detail; the runner of `ContainerRuntime` is
`EnvironmentExecution`; the directive `ErRecovery` delivers is an operator in
`ServiceManager` and a choice in `MotherSupervisor`. A definition that precedes
a mapped one and is used by nothing (`IdleDueIgnoringCalls`, `PutUnchecked`,
`FitsOnce`, ...) is a mutated form of it, named under `mutants`.

Abstractions worth knowing:

* Time is a choice: a timeout, a stable window, an idle period or a backoff may
  have passed or not. Counters saturate at `AttemptCap` as the `u32` does.
* `ServiceManager` has one service, `StorageJournal` one path,
  `EnvironmentExecution` one Environment and artifact: others share nothing
  with it.
* `ProviderSync` represents a commit by its whole history, so commits that
  differ only in time are one; byte audits are reduced to whether the snapshot
  is there, and the store's swap is one step (`PeerRecovery` has its steps).
* `PeerRecovery` picks a representative fresh session: sessions are only
  compared with each other.
* `QuickDb` takes the hash as a constant function from values to positions, and
  what a layer takes and allocates as constants of the layer. In the run a layer
  doubles the one before, one value meets a position twice and one meets a
  position more often than a counter counts.
* `TaskPublication` names a Task image by what it is built from (image, OID,
  Task, OIDs of the native symbols), which is what its digest tells apart; a
  failing Vault call ends a boot and is the same as a crash there. Task and
  native symbols share one range of OIDs, large enough for the project.
* `LocalSync` has plain files: directories in the way of a file, symbolic links
  and pending storage writes are left out. A temporary of a restore is in the
  directory once the process has died before the rename; while the cycle runs
  nothing else looks at it. `LocalSync` and `RegistryIngest` take an object out
  of the store in one step or die in the middle of it; a value that the store
  did not have may be left as a directory without a manifest.
* `GroupMemory` has any number of leases per handle, the run has one.
* `VideoLive`'s driver moves sessions while its resources are up, which is
  between its start and its stop.

## 3. Runs

Passing runs:

| Run | Instance | Shows |
|---|---|---|
| `service_safety` | 2 callers, 1 restart, 1 probe, counters to 2, all modes and policies (2.5 million states) | after boot no install over a live child (`LiveChildKept`: monitor, restart and activation; the boot's own install is excepted); the idle stop spares calls and probes; nothing is installed after shutdown took the child; a successful drain is final; a pending restart has an owner; only a call or an operator ends "stopped" |
| `service_liveness` | 1 caller, 1 restart, hybrid service | every exit is resolved, every restart ends, shutdown returns and all tasks with it (`TasksSettle`) |
| `backend_parts` | see below | see below |
| `node_parts` | see below | see below |
| `journal_ingested` | 2 writers, 1 pass, 2 contents, 2 levels, no pass during a write | no writer touches what another staged (`StagedIsOurs`), no successful write is lost, and it reaches Cloud Node |
| `provider_default` | 2 nodes, policy fail, conditional puts, 2 edits, 1 failure | no published commit is dropped; a pull destroys nothing that is in no history |
| `provider_converges` | 2 nodes, one prefers local and one remote, no conditional puts, an edit during a synchronisation, 1 failure | HEAD always leads to a complete history and snapshot; local histories have no gaps; the nodes agree in the end |
| `container_lifecycle` | 2 executions, 2 Swamps, any 2 of cancel, restart, drain with replacement, death | an execution is held in one place (`HeldOnce`), a cancellation that returned true shows and is not replayed (`CancelRepresented`), the journal says what is unfinished (`JournalFaithful`), a restart runs nothing twice (`StartsOnce`), every execution ends in an outcome (`EventuallyResolved`) |
| `environment_execution` | 2 executions of one artifact, one cancelled, 1 restart or death | an accepted cancellation wins over dispatch and result; no worker or table entry outlives its answer; one probe of an open circuit; every dispatched execution returns |

`backend_parts` (78 000 states), by subject:

| Subject | Instance | Properties |
|---|---|---|
| mother | 2 request files, counter to 2 | `EndpointIsCurrent`, `NoMotherAfterShutdown`; replaced and drained in the end |
| update | 3 files, 3 versions, 3 deaths or failed operations | `BundleSafe`; `SwitchIsAtomic`: `BinaryUpdate` implements `AtomicBundle`; a backend runs again |
| task | 3 tasks, 2 restarts each | a failed task is restarted while it has attempts left |
| er | 2 requests, a daemon that dies | no request file stays |
| memory | 2 handles with one lease each (`MemoryLeases = {1}`), 3 generations | `LeaseIsStable` |
| install | 2 installs, a boot, 1 death or failed write | `ProjectIsWhole`; an interrupted activation is resolved |
| publish | 3 images (two with the same Tasks, one with a native symbol), 1 change of the sources, 2 crashes | `TasksHaveImages`: an indexed image is there, no Task OID without its image unless an intent is pending, a serving backend finds its Tasks; a backend started again comes up, except `Stranded` |
| quick | 2 filters of any kind, 3 values, one of which meets a position four times, counters to 3, 2 layers, budget 6 | `FiltersSound`: no value reported to a ready filter is missing from it, unless the filter counts and the value itself is not countable; the budget holds |

`node_parts` (396 000 states, three minutes), by subject:

| Subject | Instance | Properties |
|---|---|---|
| peer | 2 resources of 2 chunks, 3 snapshots, 4 sessions, 2 faults | `StoreSafe`, `AckedIsDurable`, `SignalIsHonest`; the peers agree in the end |
| video | 2 jobs, 2 faults | `MediaSafe`; every job ends ready or failed |
| live | 2 sessions, 1 end request, 1 fault | `MediaSafe`; a reservation gets its runtime, a shutdown ends the coordinator |
| registry | 3 paths, 2 exports, 2 faults | `RegistryIsWhole`: one export, and every object readable; an interrupted replacement is completed, unless a removal was torn |
| watched | 2 files and 1 name of a temporary, 2 edits or pushes, 1 fault (also inside a copy, a store or a removal), a rename that does not replace | `LocalSyncSafe`: only what users changed is taken over, and left temporaries, and nothing users wrote before the cycle looked is overwritten; directory, store and provider agree, unless an object is half stored or half removed |

In both, `PartsSettle` is the liveness of all subjects, and the type of every
part is checked with one of its invariants.

Runs in which TLC refutes a statement of the repository:

| Run | Statement | What happens |
|---|---|---|
| `service_duplicate_respawn` | docs/service-runtime.md:127, a delayed restart "is superseded instead of creating a duplicate child" | a call revives the service during the backoff, an explicit restart sets `restarting` again, and the monitor's re-check takes that for its own |
| `journal_write_lost` | storage-sync-journal/src/lib.rs:97, `false` from commit means a newer write superseded the intent | a pass during the write removes the staged intent; commit returns `false`, which counts as success, and nothing describes the new file |
| `container_requeue` | container-runtime/README.md:122, a restart "requeues work that has not started" | requeued tasks keep the generation of their submission and are refused as stale |

### Seen on the way

Behaviour that TLC showed while the models were explored, that the properties
except by name or that needs another instance:

* An explicit restart can give up without a child when a caller's failed
  activation clears `restarting` (docs/service-runtime.md:187 promises a retry).
* Fabric answers calls before `start_prepared` has started the services
  (service_mother.rs:244), so the start hook of one can activate another that
  still waits for its own start. `start_prepared` then installs a second child
  without a look at the record (manager.rs:387): the first one is killed with
  its calls in flight. With the boot's install in `LiveChildKept` TLC shows it
  in six steps.
* An empty node whose push is refused, and a node whose first pull died after
  the swap, commit a branch of their own (doc/cloud-node.md:234).
* Two leases of one group-memory handle share a flock: dropping one unlocks the
  other (`Leases = {1, 2}`, nine steps). `read_lease(&self)` admits two.
* An activation that changes requirements only cannot be told apart from one
  that never happened, and its session stays unresolved; two installs that
  planned against the same project lose one of the updates.
* A cycle of the watched directory that dies between a pull and the end of its
  restore is not repaired by the next ordinary cycle (local_sync.rs:571 says it
  is): old files are taken for edits and missing ones for deletions, and both
  are pushed. `sync --bootstrap` repairs the missing ones.
* A file edited after the cycle looked at the directory is overwritten by the
  restore, under `conflictPolicy: fail` too.
* `restore_payload_atomic` copies into a `.part` file next to its target, in the
  watched directory (local_sync.rs:541), and the walk filters no name: a death
  during the copy leaves a file that the next cycle stores and publishes.
  Nothing removes it afterwards.
* An object is removed with `remove_dir_all` (local_sync.rs:509,
  registry_ingest.rs:342). A death in the middle may leave a manifest without
  its payload: every later scan of the store fails (sync.rs:251-261), the one at
  the start of an ingestion too, so the marker stays and nothing repairs it.
  A directory without a manifest, which a death in `store_file` leaves as well,
  fails `verify`, and with it every push, until a pull replaces the store.
  `LocalSettles` and `RegistryReturns` except the two by name.
* A value whose hash meets one position sixteen times wraps a four-bit counter
  to zero, because the room is computed with `saturating_sub`
  (quickdb.rs:573): just added, it is reported missing. With sixteen hash
  functions and an odd number of slots some values do. `MissingIsMissing`
  excepts them (`Countable`) and no other value; without the exception it fails
  in three steps.
* The OID index file is written before the Vault's head. A crash (or a failing
  Vault call) between the two, while an intent is pending, makes the next boot
  rebuild the index, and the intent then matches neither index: this boot and
  every later one refuses recovery until `index.pending-txn` is removed by hand.
  container_task_assembly.rs:300 says recovery is deterministic after a crash at
  any point, oid_cache_bootstrap.rs:4 that stale cache state never makes
  compilation fail for good. `BootsComplete` without its exception (`Stranded`)
  fails in 22 steps; only a first publication over a fresh index is spared.
* A cancellation of a running execution that the journal records with a torn
  line is lost with the next death: after a second death the execution is
  replayed as if nobody had cancelled it. The proof of `CancelRepresented` asked
  for it and TLC shows it with three events; the property excepts executions
  whose line was `blotted`.
* `acknowledge` compares and then removes whatever `ready` holds by then
  (storage-sync-journal/src/lib.rs:227).

### Bounds

Two callers are needed for one to activate while the other waits at the mutex;
one restart and the monitor already give two independent spawners. An
`AttemptCap` of 2 reaches saturation and the crash-loop threshold. Two writers
are needed for contention on the lock; two contents and two levels make an
intent stale in either field. Two nodes give every relation between histories.
`MaxPasses` is 2 where the code has 4: the first pass acts and the second
confirms. Two executions, two Swamps and two events let a cancel meet a restart
or a death; one more event only repeats. Three files make a first, a middle and
a last one; three faults hit an update, its rollback and the recovery of that.
Two chunks of two resources have an order within and between resources; with
two faults at most two late requests, the receiver's and a fresh session are
alive at once, hence four. Two edits and two files let a user and a peer change
the same file or different ones. Counters to 3 with values that meet a position
twice reach the full counter from below and exactly, and one that meets a
position four times wraps it. One temporary is enough for one fault: it leaves
at most one. Other `Max...` constants
bound the environment only. Of two crashes in `TaskPublication` the second
hits the recovery from the first.

### Fairness

* `ServiceManager`: a task that has begun goes on. Its sleeps, calls, stops and
  spawns have timeouts, and tokio's mutex is first come first served, hence SF
  for steps that need it. `SpawnFairness`: `try_wait` and spawning do not fail
  for ever. Nobody is obliged to call, restart or shut down.
* `MotherSupervisor`: every wait of the two tasks ends by timeout or exit; a
  worker exits when its stdin closes; replacements do not fail for ever (SF).
* `StorageJournal`: the daemon polls for ever and its passes do not all fail;
  `Ingested` is conditional on the writers coming to rest.
* `ProviderSync`, `LocalSync`, `PeerRecovery`: daemons poll and reconnect for
  ever; failures and edits are bounded.
* `BinaryUpdate`, `ProjectActivation`, `RegistryIngest`, `TaskPublication`: a process goes on
  until it dies, deaths are bounded, and somebody starts the backend (or runs
  the ingestion) again.
* `ContainerRuntime`, `EnvironmentExecution`: threads go on, the scheduler
  wakes by notification or timeout, a request to a dead process fails.
* `VideoDownload`, `VideoLive`: the worker and the coordinator go on; the
  periodic scan comes due.
* `TaskSupervisor`, `ErRecovery`: the only loop goes on; joining and reading
  are SF because other tasks or entries may be taken first.

Deadlock checking is off where the system may stop: a service after its
shutdown, the supervisor after its own, parts that have no more work.

## 4. Proofs

| Module | Theorems | Argument |
|---|---|---|
| `ServiceManagerProofs` | `TypeCorrect`, `NoLiveChildReplaced`, `IdleStopIsSafe`, `ShutdownLeavesNoChild`, `DrainIsFinal`, `RestartNeverOrphaned`, `StoppedStaysStopped` | `IInv` is inductive: the mutex has exactly one holder (`MutexInv`); `guards` is exactly the set of calls and probes in flight (`GuardInv`), without which an idle stop could miss one; what the holder checked stays true while it awaits (`HolderInv`); the shutdown flag and the positions of the other tasks (`ShutdownInv`), needed because admission is checked before the mutex; who owns a pending restart without a child (`OwnerInv`). The action property follows from `IInv` and the lemma that CONTROL ER's directive agrees with the local policy. |
| `MotherSupervisorProofs` | `TypeCorrect`, `EndpointNeverStale`, `ShutdownLeavesNoMother` | `LinksInv`: while an exit is handled the endpoint is empty and no process is alive; the task ends after its Mother, and main after the task |
| `StorageJournalProofs` | `TypeCorrect`, `StagedNeverSuperseded`, `SuccessfulWriteIsKept` | `IInv` ties every position of a writer to the lock and its intent. `SerialInv` adds that without overlap the staged intent is still there at commit (`WritersInv`) and that what a pass found out about the file still holds when it acts (`PassInv`). |
| `EnvironmentExecutionProofs` | `IInvAlways`, `CancellationWins`, `WorkersAreOwned`, `ProbesAreAccounted` | The supervisor's tables and the child's are linked by generation (`GenerationsInv`): an entry of an older generation belongs to nobody. `OwnersInv` and `ChildInv` say which position of an execution has an entry where, `MarksInv` where a cancellation mark still waits to be seen (without it a result could overtake an accepted cancellation), `CircuitInv` that a half-open circuit has a probe that will settle it. |
| `ProviderSyncProofs` | `IInvAlways`, `HistoriesAreWhole`, `NothingIsUnpublished`, `PullsKeepEdits` | Commits are histories, so the invariant says that whatever a node has read, remembers or is about to write is a complete chain at the provider or in its own store, and that a snapshot is there before the commit that names it, and the commit before HEAD. `NothingIsUnpublished` assumes conditional puts (`Atomic`) and that no node prefers its own side; `PullsKeepEdits` that no edit falls into a synchronisation (`~BusyEdits`). |
| `ContainerRuntimeProofs` | `IInvAlways`, `ExecutionsAreHeldOnce`, `CancelIsRepresented`, `JournalIsFaithful`, `ExecutionsStartOnce` | `DisjointInv`: queue, Swamps and hands are disjoint, also while a drain or a restart holds what it took; `LifeInv` ties the place of an execution to its generation and outcome; `CancelInv` and `PromiseInv` follow a cancellation from the call to its outcome; `JournalInv` relates the journal, its torn lines and what is unfinished; `RunsInv` counts the starts. |
| `NodePartsProofs` | `PeerInvAlways`, `StoreIsNeverLost`, `AcknowledgedStaysStaged`, `SignalsAreHonest` | `PeerRecovery`: `SwapInv` enumerates what the three directories hold at each step of the two-rename swap and of its repair; `NetInv` and `RequestInv` bound what a late request of an old session can carry; `StagedInv` says that the progress file never runs ahead of the bytes. |
| | `RegistryInvAlways`, `RegistryStaysWhole` | `ReplaceInv`: while a replacement is unfinished the marker stands and the objects are those of the new export plus a stale rest; an object without a payload keeps the marker for ever; `ScanInv`: what a scan has read belongs to one export unless it will notice the marker. |
| | `WatchedInvAlways`, `EditsTravelAndStay` | Contents are numbered by the edits (`ContentsInv`), which tells a user's version from a restored one; `DifferInv` and `EditedInv` say what a file that differs between directory and store must be: edited, a temporary, or not restored yet. |
| | `VideoInvAlways`, `LiveInvAlways`, `MediaIsSafe` | `RowsInv` and `WorkerInv`: a row and the files of its stage; `EndInv` orders the states of a live session and its end request, `OpenInv` and `DriverInv` tie runtime resources to the coordinator's position. |
| `BackendPartsProofs` | `UpdateInvAlways`, `BundleIsSafe`, `UpdatesSwitchAtomically` | `BinaryUpdate`: `PhaseInv` says at which steps of the helper there is a journal; `StagedInv` and `JournalInv` say file by file what is staged, saved and installed before and after the position of the helper, so that every file the journal names is either in place or in the backup; `HealthInv` that a version is committed only after it was seen healthy. The refinement maps each action to a stutter or to one switch of `AtomicBundle`: the switch of an update is the removal of the journal in `commit`. |
| | `MemoryInvAlways`, `LeasesAreStable` | `GroupMemory`: `LocksInv` ties the flock state of a handle to its writer or reader and keeps a writer alone; `PayloadInv` says what the two halves hold at each step of a write, and that the marker stands while they differ. Both theorems have the hypothesis that no handle has two read leases at once (`[]OneLeaseEach`), which is what makes the drop of a lease the drop of the handle's lock; types are proved without it (`MemoryTypesAlways`). |
| | `InstallInvAlways`, `ProjectsStayWhole` | `ProjectActivation`: `LeaseInv`, one process is past the lease; `TargetInv`, what it planned; `ForceInv`, how manifest, lock, staged manifest and journal agree with the target and with what was in force before, at each step of an activation and of a recovery. |
| | `PublishInvAlways`, `TasksKeepImages` | `TaskPublication`: `OidInv`, no two symbols share an OID, which rests on lemmas about hole-first allocation (the k-th new symbol takes the k-th free OID: ranks are injective, every rank below the number of free OIDs is taken, and there are enough of them); `IntentInv`, from which indexes to which a pending intent leads at each step; `CoverInv`, the Tasks an index binds are those of one image; `TableInv`, what is published for the compiled image. |
| | `QuickInvAlways`, `FiltersStaySound` | `QuickDb`: `QuickInv` says of every filter that no addition failed on that it covers what was reported (`Holds`). For the layers of a filter that is containment value by value; it is not enough for counters, which several values share and deletions take from. There a token is one position of one reported occurrence of a value, and a counter is at least the number of tokens at its position: an addition that was let through counts its new tokens without wrapping, a deletion takes those of one occurrence, and a value that is still there keeps a token at each of its positions, so none of them is zero. Only countable values have tokens: the addition of another one lets a counter wrap at that value's own positions, and never below the tokens of the others (`CountedAdds`). Lists are added by a fold, the budget is a sum over the filters; both are recursive functions of the community modules. Their defining equations are proved by least counterexample (`Least`, `FoldIsDefined`, `SumAgrees`), which needs no induction theorem; a sum then splits into one filter and the rest (`SumWithout`), and `AddAllSound` carries the invariant along a list up to the first failure. |
| | `TaskTypesAlways`, `ErTypesAlways`, `PublishTypesAlways` | Types of the two loops whose promises are progress, and of the publication, where they need `PublishInv`. |

They hold for any number of callers, restarts, probes, request files, writers,
consumers, nodes, executions, Swamps, resources, chunks, sessions, paths,
exports, downloads, files, versions, handles, project roots, images, symbols,
filters, values, tasks and faults, and for any contents and levels. Each
strengthened invariant was model-checked on the instance of its run before it
was proved. Assumptions, all named `...Assumption` in the module that declares
the constants and evaluated by TLC:

* `AttemptCap` is a positive number and the crash-loop threshold lies in
  1..`AttemptCap`; callers and probes are different tasks; levels are among
  1..3; `None` is no content, writer or intent.
* Peers: every resource has at least one chunk, 0 is no session (the code's
  sessions are random identifiers, 0 stands for none).
* `MCNodeParts`: exports are sets of registry paths and 0 is no export;
  temporaries have names of their own, as a process id and a time give them; an
  end request is retried at least four times (`Retries >= 4`, where the code's
  `LIVE_END_TRANSITION_RETRIES` in live.rs is 4): once for each change of the
  session it may meet; bounds are numbers.
* `MCBackendParts`: a bundle has at least one file and there is at least one
  version; project roots are not called `"boot"` or `"free"`, and requirements
  are positive numbers; symbols are numbered and finite in number, native ones
  and Tasks are told apart, and there are OIDs for all of them. The
  requests of CONTROL ER are finite in number and its limits are numbers.
  Hashes, sizes, capacities and budgets are any.
* No assumption but a hypothesis of two theorems: no handle of group memory has
  two read leases at once (`OneLeaseEach`); the code leaves that to its callers.

`SuccessfulWriteIsKept` is about `SerialSpec`, in which no pass overlaps
a write, as at boot, where the backend waits for the Cloud Node recovery before
it starts services; `journal_write_lost` shows that it fails for `Spec`.
`NodePartsProofs` and `BackendPartsProofs` are about `PartsSpec` of `MCNodeParts`
and of `MCBackendParts`: an initial state and the steps of one part are those of
the part's own module.

Only model-checked: all liveness (TLAPS 1.4.5 has no fairness or ENABLED
reasoning), which is what `ErRecovery` and `TaskSupervisor` are about, and the
refutations. Every invariant that a passing run checks, and every action
property, is proved.

## 5. Not modelled

`PROJECT.json` lists every part with the reason. In short: compilers, parsers
and formats (REL, RELC, images, archives), which are most of the source lines,
transform data beyond what TLC can enumerate; transports, sandboxing, ffmpeg,
command lines, developer tools and bindings are I/O without protocol state; the
HTTP handlers are stateless. Candidates that are left: the
collection of retired task images, the ER daemon's queue and spool, the vault process, the path
locks of `atomic-io`, the rate limiter.

## 6. Plan

The candidates of section 5, the retired task images and the ER daemon's queue
first: both are small protocols of files like those modelled here.
