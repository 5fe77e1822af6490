-------------------------- MODULE ContainerRuntime --------------------------
(***************************************************************************)
(* The Container controller: the life of an execution between the control  *)
(* connection that submits it and the outcome its client awaits.           *)
(* src/container-runtime/crates/container-runtime-core/src/runtime.rs with *)
(* environment.rs, swamp.rs and worker.rs, and the control handlers of     *)
(* container-bin/src/main.rs that drive them.                              *)
(*                                                                         *)
(* One Environment is modelled: Environments share nothing but the global  *)
(* queue, the lifecycle lock and the journal, and a task never changes     *)
(* Environment.  What a worker does with a task is EnvironmentExecution;   *)
(* here the runner refuses a task or runs it and returns.                 *)
(*                                                                         *)
(* Queues are sets: the order of executions is lost already in the journal *)
(* (pending_events collects a HashMap) and no property is about it.        *)
(***************************************************************************)
EXTENDS Naturals, FiniteSets, Sequences

CONSTANTS Exec,          \* executions a backend may submit
          Swamps,        \* the Environment's Swamps, one worker each
          RebalanceMin,  \* a Swamp with fewer queued tasks is left alone
          MaxResults,    \* outcomes kept for clients (RESULT_STORE_MAX_RECORDS)
          MaxEvents,     \* bound on cancel calls, Environment refresh
                         \* drains and deaths of the process, taken together
          Torn           \* whether a death may cut a journal line short

ASSUME ContainerAssumption ==
  /\ IsFiniteSet(Exec) /\ IsFiniteSet(Swamps) /\ Swamps # {}
  /\ RebalanceMin \in Nat \ {0} /\ MaxResults \in Nat \ {0}
  /\ MaxEvents \in Nat
  /\ Torn \in BOOLEAN

VARIABLES
  accepting,   \* the control server's accepting flag
  sub,         \* how far the submission of an execution has come
  taskGen,     \* the Environment generation in an execution's provenance
  live, cancelled,           \* ExecutionLifecycle
  journal,     \* executions that pending_events reads back from the journal
  tail,        \* the execution whose last event lacks its newline, and whether
               \* it was pending before that event
  globalQueue, \* Runtime::global_queue
  drained,     \* what rebalance_once took from it and has not yet enqueued
  swampQueue,  \* Swamp::queue
  hand,        \* tasks a dispatcher has popped and not yet sent
  busy,        \* tasks of the current Swamps' workers
  orphans,     \* tasks of workers whose Swamp a restart has replaced
  requeue,     \* restart_environment's pending tasks
  stage,       \* runner and completion of a task in a worker
  result,      \* what that task's runner returned
  results,     \* ResultStore, oldest first
  kpc, kexec, kremoved,      \* the cancel call in progress
  rpc,         \* the restart in progress
  dpc,         \* the refresh drain in progress
  gen,         \* the controller's generation of the Environment, from 1
  procGen,     \* generation of the Environment process, 0 while there is none
  \* history
  runs,        \* how often an execution's runner reached the child
  outcome,     \* the outcome last published for an execution
  acked,       \* executions whose cancel call returned true
  blotted,     \* executions one of whose events was merged into a torn line
  deaths,      \* ends of a container process
  events       \* counts towards MaxEvents

queues == <<globalQueue, drained, swampQueue, hand, busy, orphans, requeue>>
cancelVars == <<kpc, kexec, kremoved, acked>>
restartVars == <<rpc, gen, procGen>>
journalVars == <<journal, tail, blotted>>
workerVars == <<stage, result, runs>>
resultVars == <<results, outcome>>
processVars == <<dpc, deaths, events>>
vars == <<accepting, sub, taskGen, live, cancelled, queues, cancelVars,
          restartVars, journalVars, workerVars, resultVars, processVars>>

NoTail == <<>>

\* One more of the bounded outside events.
Event == events < MaxEvents /\ events' = events + 1

Init ==
  /\ accepting = TRUE
  /\ sub = [e \in Exec |-> "new"]
  /\ taskGen = [e \in Exec |-> 1]
  /\ live = {} /\ cancelled = {}
  /\ journal = {} /\ tail = NoTail /\ blotted = {}
  /\ globalQueue = {} /\ drained = {} /\ requeue = {} /\ orphans = {}
  /\ swampQueue = [s \in Swamps |-> {}]
  /\ hand = [s \in Swamps |-> {}]
  /\ busy = [s \in Swamps |-> {}]
  /\ stage = [e \in Exec |-> "none"]
  /\ result = [e \in Exec |-> "none"]
  /\ results = <<>>
  /\ outcome = [e \in Exec |-> "none"]
  /\ kpc = "idle" /\ kexec = {} /\ kremoved = FALSE
  /\ rpc = "idle" /\ dpc = "idle"
  /\ gen = 1 /\ procGen = 1
  /\ runs = [e \in Exec |-> 0]
  /\ acked = {}
  /\ deaths = 0 /\ events = 0
-----------------------------------------------------------------------------
(* The execution journal. *)

\* Journal::append of an event that leaves e pending or not.  A line that does
\* not end in a newline swallows the event appended after it: the merged line
\* parses as neither.
JournalAppend(e, pending) ==
  IF tail = NoTail
    THEN /\ journal' = IF pending THEN journal \cup {e} ELSE journal \ {e}
         /\ UNCHANGED <<tail, blotted>>
    ELSE /\ journal' = IF tail[2] THEN journal \cup {tail[1]}
                                  ELSE journal \ {tail[1]}
         /\ tail' = NoTail
         /\ blotted' = blotted \cup {tail[1], e}

\* The records kept: the oldest goes when there is one too many.
Evicted(added) == IF Len(added) > MaxResults THEN Tail(added) ELSE added

\* The records without the one of e, if there is one: every record of e took
\* the place of the one before.
Retained(e) ==
  LET at == {i \in DOMAIN results : results[i][1] = e}
      i  == CHOOSE j \in at : TRUE
  IN  IF at = {} THEN results
      ELSE SubSeq(results, 1, i - 1) \o SubSeq(results, i + 1, Len(results))

\* record_execution_outcome: the newest outcome of e replaces an older one and
\* the oldest records are evicted above the bound.
Record(e, kind) ==
  /\ results' = Evicted(Append(Retained(e), <<e, kind>>))
  /\ outcome' = [outcome EXCEPT ![e] = kind]
-----------------------------------------------------------------------------
(* Submission: the Execute handler and submit_with_policy. *)

\* The handler reads accepting and the generation before it submits.
Admit(e) ==
  /\ sub[e] = "new" /\ accepting
  /\ sub' = [sub EXCEPT ![e] = "admitted"]
  /\ taskGen' = [taskGen EXCEPT ![e] = gen]
  /\ UNCHANGED <<accepting, live, cancelled, queues, cancelVars, restartVars,
                 journalVars, workerVars, resultVars, processVars>>

SubmitLive(e) ==
  /\ sub[e] = "admitted"
  /\ sub' = [sub EXCEPT ![e] = "live"]
  /\ live' = live \cup {e}
  /\ UNCHANGED <<accepting, taskGen, cancelled, queues, cancelVars,
                 restartVars, journalVars, workerVars, resultVars, processVars>>

SubmitJournal(e) ==
  /\ sub[e] = "live"
  /\ sub' = [sub EXCEPT ![e] = "journaled"]
  /\ JournalAppend(e, TRUE)
  /\ UNCHANGED <<accepting, taskGen, live, cancelled, queues, cancelVars,
                 restartVars, workerVars, resultVars, processVars>>

SubmitPush(e) ==
  /\ sub[e] = "journaled"
  /\ sub' = [sub EXCEPT ![e] = "returned"]
  /\ globalQueue' = globalQueue \cup {e}
  /\ UNCHANGED <<accepting, taskGen, live, cancelled, drained, swampQueue, hand,
                 busy, orphans, requeue, cancelVars, restartVars, journalVars,
                 workerVars, resultVars, processVars>>
-----------------------------------------------------------------------------
(* The scheduler thread and the Swamp dispatchers. *)

RebalanceDrain ==
  /\ globalQueue # {} /\ drained = {}
  /\ drained' = globalQueue /\ globalQueue' = {}
  /\ UNCHANGED <<accepting, sub, taskGen, live, cancelled, swampQueue, hand,
                 busy, orphans, requeue, cancelVars, restartVars, journalVars,
                 workerVars, resultVars, processVars>>

\* The cheapest Swamp gets the task; declared costs are arbitrary, so any may.
RebalanceEnqueue(e, s) ==
  /\ e \in drained
  /\ drained' = drained \ {e}
  /\ swampQueue' = [swampQueue EXCEPT ![s] = @ \cup {e}]
  /\ UNCHANGED <<accepting, sub, taskGen, live, cancelled, globalQueue, hand,
                 busy, orphans, requeue, cancelVars, restartVars, journalVars,
                 workerVars, resultVars, processVars>>

\* EnvironmentRuntime::rebalance moves half of one queue to another Swamp.
Rebalance(s, t) ==
  /\ s # t /\ Cardinality(swampQueue[s]) >= RebalanceMin
  /\ \E half \in SUBSET swampQueue[s] :
       /\ Cardinality(half) = Cardinality(swampQueue[s]) \div 2
       /\ swampQueue' = [swampQueue EXCEPT ![s] = @ \ half, ![t] = @ \cup half]
  /\ UNCHANGED <<accepting, sub, taskGen, live, cancelled, globalQueue, drained,
                 hand, busy, orphans, requeue, cancelVars, restartVars,
                 journalVars, workerVars, resultVars, processVars>>

\* The dispatcher sees an idle worker and pops a task ...
Pop(s, e) ==
  /\ busy[s] = {} /\ hand[s] = {} /\ e \in swampQueue[s]
  /\ swampQueue' = [swampQueue EXCEPT ![s] = @ \ {e}]
  /\ hand' = [hand EXCEPT ![s] = {e}]
  /\ UNCHANGED <<accepting, sub, taskGen, live, cancelled, globalQueue, drained,
                 busy, orphans, requeue, cancelVars, restartVars, journalVars,
                 workerVars, resultVars, processVars>>

\* ... and hands it over: only the dispatcher sends, so try_send succeeds.
Send(s, e) ==
  /\ e \in hand[s]
  /\ hand' = [hand EXCEPT ![s] = {}]
  /\ busy' = [busy EXCEPT ![s] = {e}]
  /\ stage' = [stage EXCEPT ![e] = "start"]
  /\ UNCHANGED <<accepting, sub, taskGen, live, cancelled, globalQueue, drained,
                 swampQueue, orphans, requeue, cancelVars, restartVars,
                 journalVars, result, runs, resultVars, processVars>>
-----------------------------------------------------------------------------
(* A worker: the runner, then the completion callback. *)

Worker(e, from, to) ==
  /\ stage[e] = from /\ stage' = [stage EXCEPT ![e] = to]

\* A marked execution is not started.
RunnerStart(e) ==
  /\ IF e \in cancelled
       THEN Worker(e, "start", "complete")
            /\ result' = [result EXCEPT ![e] = "finished"]
       ELSE Worker(e, "start", "dispatch") /\ UNCHANGED result
  /\ UNCHANGED <<accepting, sub, taskGen, live, cancelled, queues, cancelVars,
                 restartVars, journalVars, runs, resultVars, processVars>>

\* EnvironmentProcessSupervisor::execute refuses an execution whose provenance
\* generation is not that of the live process, or that finds no process.
Dispatch(e) ==
  /\ IF procGen = taskGen[e]
       THEN /\ Worker(e, "dispatch", "child")
            /\ runs' = [runs EXCEPT ![e] = @ + 1]
            /\ UNCHANGED result
       ELSE /\ Worker(e, "dispatch", "complete")
            /\ result' = [result EXCEPT ![e] = "finished"]
            /\ UNCHANGED runs
  /\ UNCHANGED <<accepting, sub, taskGen, live, cancelled, queues, cancelVars,
                 restartVars, journalVars, resultVars, processVars>>

\* The child answers with output or an error, its process is gone, or the last
\* look at the cancellation mark turns the output into an error: the completion
\* callback treats them alike.
RunnerReturn(e) ==
  /\ Worker(e, "child", "complete")
  /\ result' = [result EXCEPT ![e] = "finished"]
  /\ UNCHANGED <<accepting, sub, taskGen, live, cancelled, queues, cancelVars,
                 restartVars, journalVars, runs, resultVars, processVars>>

\* A completion that reports what the runner returned.
ResultAsReturned(e) == result[e]

\* The outcome is a cancelled one iff the mark came before completion.
CompletedAs(e) == IF e \in cancelled THEN "cancelled" ELSE result[e]

\* Completion takes the lifecycle lock once to read and clear both marks.
Complete(e) ==
  /\ Worker(e, "complete", "publish")
  /\ result' = [result EXCEPT ![e] = CompletedAs(e)]
  /\ live' = live \ {e} /\ cancelled' = cancelled \ {e}
  /\ UNCHANGED <<accepting, sub, taskGen, queues, cancelVars, restartVars,
                 journalVars, runs, resultVars, processVars>>

Publish(e) ==
  /\ Worker(e, "publish", "journal")
  /\ Record(e, result[e])
  /\ UNCHANGED <<accepting, sub, taskGen, live, cancelled, queues, cancelVars,
                 restartVars, journalVars, result, runs, processVars>>

\* The done or cancel event, after which the worker is idle again.
JournalDone(e) ==
  /\ Worker(e, "journal", "none")
  /\ JournalAppend(e, FALSE)
  /\ busy' = [s \in Swamps |-> busy[s] \ {e}]
  /\ orphans' = orphans \ {e}
  /\ UNCHANGED <<accepting, sub, taskGen, live, cancelled, globalQueue, drained,
                 swampQueue, hand, requeue, cancelVars, restartVars, result,
                 runs, resultVars, processVars>>
-----------------------------------------------------------------------------
(* Runtime::cancel, one call at a time. *)

\* A call for an execution that is no longer live returns false and changes
\* nothing; otherwise it marks the execution.
CancelMark(e) ==
  /\ Event /\ kpc = "idle"
  /\ sub[e] = "returned" /\ e \in live
  /\ cancelled' = cancelled \cup {e}
  /\ kpc' = "global" /\ kexec' = {e} /\ kremoved' = FALSE
  /\ UNCHANGED <<accepting, sub, taskGen, live, queues, acked, restartVars,
                 journalVars, workerVars, resultVars, dpc, deaths>>

\* A cancel that looks for the task without taking it out.
LeavesQueued(q) == q

\* The queue without the cancelled execution (retain).
WithoutCancelled(q) == q \ kexec

CancelGlobal ==
  /\ kpc = "global" /\ kpc' = "swamps"
  /\ kremoved' = (kexec \subseteq globalQueue)
  /\ globalQueue' = WithoutCancelled(globalQueue)
  /\ UNCHANGED <<accepting, sub, taskGen, live, cancelled, drained, swampQueue,
                 hand, busy, orphans, requeue, kexec, acked,
                 restartVars, journalVars, workerVars, resultVars, processVars>>

\* cancel_queued_by_string; a task found in no queue is left to the runner and
\* the Environment supervisor is told.
CancelSwamps ==
  /\ kpc = "swamps" /\ kpc' = "journal"
  /\ kremoved' = (kremoved \/ \E s \in Swamps : kexec \subseteq swampQueue[s])
  /\ swampQueue' = [s \in Swamps |-> WithoutCancelled(swampQueue[s])]
  /\ UNCHANGED <<accepting, sub, taskGen, live, cancelled, globalQueue, drained,
                 hand, busy, orphans, requeue, kexec, acked,
                 restartVars, journalVars, workerVars, resultVars, processVars>>

\* A cancel event only for tasks that were still queued.
JournalsQueuedCancel(e) ==
  IF kremoved THEN JournalAppend(e, FALSE) ELSE UNCHANGED journalVars

\* append_cancel_string, whether or not the task was still queued.
JournalsCancel(e) == JournalAppend(e, FALSE)

CancelJournal ==
  /\ kpc = "journal"
  /\ \E e \in kexec : JournalsCancel(e)
  /\ kpc' = IF kremoved THEN "clear" ELSE "idle"
  /\ acked' = IF kremoved THEN acked ELSE acked \cup kexec
  /\ UNCHANGED <<accepting, sub, taskGen, live, cancelled, queues, kexec,
                 kremoved, restartVars, workerVars, resultVars, processVars>>

CancelClear ==
  /\ kpc = "clear" /\ kpc' = "publish"
  /\ live' = live \ kexec /\ cancelled' = cancelled \ kexec
  /\ UNCHANGED <<accepting, sub, taskGen, queues, kexec, kremoved,
                 acked, restartVars, journalVars, workerVars, resultVars, processVars>>

CancelPublish ==
  /\ kpc = "publish" /\ kpc' = "idle"
  /\ \E e \in kexec : Record(e, "cancelled")
  /\ acked' = acked \cup kexec
  /\ UNCHANGED <<accepting, sub, taskGen, live, cancelled, queues, kexec,
                 kremoved, restartVars, journalVars, workerVars, processVars>>
-----------------------------------------------------------------------------
(* RestartEnvironment: restart_environment, then a new Environment process. *)

Restart(from, to) == rpc = from /\ rpc' = to

\* A restart that also takes back what a dispatcher has popped ...
WaitingOrPopped(s) == swampQueue[s] \cup hand[s]

\* drain_all: the tasks of a Swamp that no worker will find once it is replaced.
Waiting(s) == swampQueue[s]

\* EnvironmentRuntime::restart drains every Swamp and replaces it.  A worker
\* keeps the task it has, and the old dispatcher still sends the one it popped.
RestartDrain ==
  /\ Restart("idle", "push") /\ accepting /\ Event
  /\ requeue' = UNION {Waiting(s) : s \in Swamps}
  /\ orphans' = orphans \cup UNION {busy[s] \cup hand[s] : s \in Swamps}
  /\ swampQueue' = [s \in Swamps |-> {}]
  /\ hand' = [s \in Swamps |-> {}] /\ busy' = [s \in Swamps |-> {}]
  /\ stage' = [e \in Exec |->
                 IF \E s \in Swamps : e \in hand[s] THEN "start" ELSE stage[e]]
  /\ UNCHANGED <<accepting, sub, taskGen, live, cancelled, globalQueue, drained,
                 cancelVars, gen, procGen, journalVars, result, runs,
                 resultVars, dpc, deaths>>

\* A restart that forgets what it drained.
NothingBack == globalQueue

\* The drained tasks go back to the global queue.
PushedBack == globalQueue \cup requeue

RestartPush ==
  /\ Restart("push", "bump")
  /\ globalQueue' = PushedBack /\ requeue' = {}
  /\ UNCHANGED <<accepting, sub, taskGen, live, cancelled, drained, swampQueue,
                 hand, busy, orphans, cancelVars, gen, procGen,
                 journalVars, workerVars, resultVars, processVars>>

RestartBump ==
  /\ Restart("bump", "kill")
  /\ gen' = gen + 1
  /\ UNCHANGED <<accepting, sub, taskGen, live, cancelled, queues, cancelVars,
                 procGen, journalVars, workerVars,
                 resultVars, processVars>>

\* EnvironmentProcessSupervisor::restart kills the process it takes from the
\* table, then starts one of the new generation, which may fail.
RestartKill ==
  /\ Restart("kill", "spawn")
  /\ procGen' = 0
  /\ UNCHANGED <<accepting, sub, taskGen, live, cancelled, queues, cancelVars,
                 gen, journalVars, workerVars, resultVars,
                 processVars>>

RestartSpawn ==
  /\ Restart("spawn", "idle")
  /\ procGen' \in {gen, 0}
  /\ UNCHANGED <<accepting, sub, taskGen, live, cancelled, queues, cancelVars,
                 gen, journalVars, workerVars, resultVars,
                 processVars>>
-----------------------------------------------------------------------------
(* PrepareRefresh: stop accepting, poll is_idle, report ready or time out. *)

Drain(from, to) ==
  /\ dpc = from /\ dpc' = to
  /\ UNCHANGED <<sub, taskGen, live, cancelled, queues, cancelVars, restartVars,
                 journalVars, workerVars, resultVars, deaths>>

DrainBegin == Drain("idle", "queue") /\ Event /\ accepting' = FALSE

\* is_idle reads the global queue first ...
DrainQueue ==
  Drain("queue", "swamps") /\ globalQueue = {} /\ UNCHANGED <<accepting, events>>

\* ... and then the queues and the workers of the Environment's Swamps.
SwampsIdle == \A s \in Swamps : swampQueue[s] = {} /\ busy[s] = {}

DrainSwamps ==
  /\ Drain("swamps", IF SwampsIdle THEN "ready" ELSE "queue")
  /\ UNCHANGED <<accepting, events>>

DrainTimeout == Drain("queue", "idle") /\ accepting' = TRUE /\ UNCHANGED events

\* Resume: the backend could not start the replacement.
Resume == Drain("ready", "idle") /\ accepting' = TRUE /\ UNCHANGED events
-----------------------------------------------------------------------------
(* Death of the container process and Runtime::build of the next one. *)

\* The journal events some thread is about to append.
Appending ==
  {<<e, TRUE>> : e \in {x \in Exec : sub[x] = "live"}}
    \cup {<<e, FALSE>> : e \in {x \in Exec : stage[x] = "journal"}}
    \cup {<<e, FALSE>> : e \in IF kpc = "journal" THEN kexec ELSE {}}

\* writeln! writes the line and its newline separately: a death in between
\* leaves a line the next append runs into.
TornWrite(a) ==
  /\ Torn
  /\ IF tail = NoTail
       THEN /\ journal' = IF a[2] THEN journal \cup {a[1]} ELSE journal \ {a[1]}
            /\ tail' = <<a[1], a[1] \in journal>>
            /\ UNCHANGED blotted
       ELSE /\ journal' = IF tail[2] THEN journal \cup {tail[1]}
                                     ELSE journal \ {tail[1]}
            /\ blotted' = blotted \cup {tail[1], a[1]}
            /\ UNCHANGED tail

\* Nothing but the journal survives.  A submission that had not returned is
\* lost to its client; what the journal still has pending is queued again.
Recovered ==
  /\ live' = journal' /\ globalQueue' = journal' /\ cancelled' = {}
  /\ sub' = [e \in Exec |-> IF sub[e] \in {"new", "returned"} THEN sub[e]
                                                              ELSE "lost"]
  /\ drained' = {} /\ requeue' = {} /\ orphans' = {}
  /\ swampQueue' = [s \in Swamps |-> {}]
  /\ hand' = [s \in Swamps |-> {}] /\ busy' = [s \in Swamps |-> {}]
  /\ stage' = [e \in Exec |-> "none"] /\ result' = [e \in Exec |-> "none"]
  /\ results' = <<>> /\ outcome' = [e \in Exec |-> "none"]
  /\ kpc' = "idle" /\ kexec' = {} /\ kremoved' = FALSE
  /\ rpc' = "idle" /\ dpc' = "idle" /\ accepting' = TRUE
  /\ gen' = 1 /\ procGen' = 1

Crash ==
  /\ Event /\ deaths' = deaths + 1
  /\ \/ UNCHANGED journalVars
     \/ \E a \in Appending : TornWrite(a)
  /\ Recovered
  /\ UNCHANGED <<taskGen, runs, acked>>

\* A drain that reported ready ends with the replacement of this process.
Replace ==
  /\ dpc = "ready" /\ deaths' = deaths + 1
  /\ UNCHANGED journalVars
  /\ Recovered
  /\ UNCHANGED <<taskGen, runs, acked, events>>
-----------------------------------------------------------------------------
Submit(e) == Admit(e) \/ SubmitLive(e) \/ SubmitJournal(e) \/ SubmitPush(e)

Scheduler ==
  \/ RebalanceDrain
  \/ \E e \in Exec, s \in Swamps : RebalanceEnqueue(e, s)

Dispatcher(s) == \E e \in Exec : Pop(s, e) \/ Send(s, e)

RunTask(e) ==
  \/ RunnerStart(e) \/ Dispatch(e) \/ RunnerReturn(e)
  \/ Complete(e) \/ Publish(e) \/ JournalDone(e)

CancelRest ==
  CancelGlobal \/ CancelSwamps \/ CancelJournal \/ CancelClear \/ CancelPublish

RestartRest == RestartPush \/ RestartBump \/ RestartKill \/ RestartSpawn

DrainRest == DrainQueue \/ DrainSwamps \/ DrainTimeout

Next ==
  \/ \E e \in Exec : Submit(e) \/ RunTask(e) \/ CancelMark(e)
  \/ Scheduler \/ \E s \in Swamps : Dispatcher(s)
  \/ \E s, t \in Swamps : Rebalance(s, t)
  \/ CancelRest
  \/ RestartDrain \/ RestartRest
  \/ DrainBegin \/ DrainRest \/ Resume \/ Replace
  \/ Crash

\* Every thread of the container keeps running: the scheduler loop and the
\* dispatchers wake at least once a second, a worker's child answers within its
\* wall time, and a handler runs to its end.
Fairness ==
  /\ \A e \in Exec : WF_vars(SubmitLive(e) \/ SubmitJournal(e) \/ SubmitPush(e))
  /\ \A e \in Exec : WF_vars(RunTask(e))
  /\ WF_vars(Scheduler)
  /\ \A s \in Swamps : WF_vars(Dispatcher(s))
  /\ WF_vars(CancelRest) /\ WF_vars(RestartRest)

Spec == Init /\ [][Next]_vars /\ Fairness
-----------------------------------------------------------------------------
Stages == {"none", "start", "dispatch", "child", "complete", "publish", "journal"}
Kinds == {"none", "finished", "cancelled"}

\* Every variable keeps its type, and the result store its bound
\* (record_execution_outcome evicts the oldest record above it).
TypeOK ==
  /\ accepting \in BOOLEAN
  /\ sub \in [Exec -> {"new", "admitted", "live", "journaled", "returned", "lost"}]
  /\ taskGen \in [Exec -> Nat \ {0}]
  /\ live \subseteq Exec /\ cancelled \subseteq Exec
  /\ journal \subseteq Exec /\ blotted \subseteq Exec
  /\ tail = NoTail \/ tail \in Exec \X BOOLEAN
  /\ globalQueue \subseteq Exec /\ drained \subseteq Exec
  /\ orphans \subseteq Exec /\ requeue \subseteq Exec
  /\ swampQueue \in [Swamps -> SUBSET Exec]
  /\ hand \in [Swamps -> SUBSET Exec] /\ busy \in [Swamps -> SUBSET Exec]
  /\ stage \in [Exec -> Stages] /\ result \in [Exec -> Kinds]
  /\ results \in Seq(Exec \X Kinds) /\ Len(results) <= MaxResults
  /\ outcome \in [Exec -> Kinds]
  /\ kpc \in {"idle", "global", "swamps", "journal", "clear", "publish"}
  /\ kexec \subseteq Exec /\ kremoved \in BOOLEAN
  /\ rpc \in {"idle", "push", "bump", "kill", "spawn"}
  /\ dpc \in {"idle", "queue", "swamps", "ready"}
  /\ gen \in Nat \ {0} /\ procGen \in Nat
  /\ runs \in [Exec -> Nat]
  /\ acked \subseteq Exec
  /\ deaths \in Nat /\ events \in 0..MaxEvents

\* The places where the container keeps an execution it has taken over: the
\* lists of the controller, and the queue and worker of a Swamp.
Lists(e) ==
  {p \in {"global", "drained", "requeue", "orphans"} :
     e \in CASE p = "global"  -> globalQueue
             [] p = "drained" -> drained
             [] p = "requeue" -> requeue
             [] p = "orphans" -> orphans}

Slots(e) ==
  {p \in Swamps \X {"queued", "popped", "running"} :
     e \in CASE p[2] = "queued"  -> swampQueue[p[1]]
             [] p[2] = "popped"  -> hand[p[1]]
             [] p[2] = "running" -> busy[p[1]]}

Nowhere(e) == Lists(e) = {} /\ Slots(e) = {}

\* A task the cancel call has taken out of its queue and answers for itself.
TakenByCancel(e) == e \in kexec /\ kremoved /\ kpc # "idle"

\* No queue hand-over loses or duplicates an execution: one that is live and
\* has been pushed is in exactly one queue, list or worker, whatever rebalance,
\* restart, cancellation and dispatch do meanwhile - unless the cancel call
\* removed it from its queue and is about to publish its outcome.  The queues
\* and the result store keep their types and the store its bound.
HeldOnce ==
  /\ TypeOK
  /\ \A e \in Exec :
       /\ Cardinality(Lists(e)) + Cardinality(Slots(e)) <= 1
       /\ e \in live /\ sub[e] \in {"returned", "lost"} =>
            (Nowhere(e) <=> TakenByCancel(e))

\* doc/runtime.md: a cancel that wins the lifecycle transition is represented
\* as cancelled.  Once cancel has returned true, the only outcome a client can
\* see is a cancelled one, and if nobody holds the task any more there is one.
\* A torn journal line may swallow the cancel event; a second death then lets
\* the execution run again (JournalFaithful), so its blotted ones are excepted.
CancelRepresented ==
  \A e \in acked \ blotted :
    /\ outcome[e] \in {"none", "cancelled"}
    /\ Nowhere(e) /\ ~TakenByCancel(e) /\ deaths = 0 =>
         outcome[e] = "cancelled"

\* The README of the container: an execution whose cancel returned true is not
\* replayed after a container restart, and one whose submission returned is, as
\* long as no outcome of it was published.  A torn journal line breaks both for
\* the executions it blots out.
JournalFaithful ==
  \A e \in Exec \ blotted :
    /\ e \in acked => e \notin journal
    /\ sub[e] = "returned" /\ e \in live /\ e \notin cancelled => e \in journal

RunsOnce == \A e \in Exec : runs[e] <= 1 + deaths

\* Restarting an Environment never runs an execution twice: only a death of the
\* container process lets one run again (at-least-once across crashes).  And a
\* client that has read an outcome can rely on it: within one container process
\* the execution does not start afterwards.
StartsOnce ==
  /\ []RunsOnce
  /\ [][\A e \in Exec :
          stage[e] # "child" /\ stage'[e] = "child" => outcome[e] = "none"]_vars

\* Every execution a client holds the id of ends in an outcome: nothing stays
\* in a queue, a list or a worker for ever.  After a death of the container it
\* may instead have left the journal (its cancellation was recorded).
EventuallyResolved ==
  \A e \in Exec :
    (e \in live /\ sub[e] = "returned")
      ~> (outcome[e] # "none" \/ (e \notin journal /\ deaths > 0))

\* The README of the container: an Environment restart "requeues work that has
\* not started" - so an execution that only a worker of the new Swamps starts
\* does not fail because the process it reaches is of a later generation than
\* its submission.
RequeuedWorkRuns ==
  [][\A e \in Exec :
       e \notin orphans /\ stage[e] = "dispatch" /\ stage'[e] = "complete" =>
         procGen <= taskGen[e]]_vars
=============================================================================
