---------------------------- MODULE TaskSupervisor ----------------------------
(***************************************************************************)
(* The in-process supervisor of the backend's own tasks: one loop that     *)
(* joins whatever task ends, sleeps its backoff and starts it again.       *)
(* src/engine/crates/supervisor/src/lib.rs                                 *)
(***************************************************************************)
EXTENDS Naturals

CONSTANTS Tasks, MaxRestarts   \* RestartPolicy::max_restarts

VARIABLES task,      \* "running", "failed" or "clean" until joined, then "none"
          factories, \* the tasks that have a factory
          attempts,  \* restart attempts of a task
          sleeping   \* the task whose backoff is slept, or {}

vars == <<task, factories, attempts, sleeping>>

\* register, for every task, before run.
Init ==
  /\ task = [t \in Tasks |-> "running"] /\ factories = Tasks
  /\ attempts = [t \in Tasks |-> 0] /\ sleeping = {}

\* A task panics, returns an error or returns.
TaskEnds(t) ==
  /\ task[t] = "running" /\ \E how \in {"failed", "clean"} : task' = [task EXCEPT ![t] = how]
  /\ UNCHANGED <<factories, attempts, sleeping>>

Exhausted(t) == attempts[t] >= MaxRestarts

\* join_next_with_id: a clean exit retires the task, and so does its last failure.
Join(t) ==
  /\ sleeping = {} /\ task[t] \in {"failed", "clean"}
  /\ task' = [task EXCEPT ![t] = "none"] /\ factories' = factories \ {t}
  /\ IF task[t] = "failed" /\ t \in factories /\ ~Exhausted(t)
       THEN sleeping' = {t} /\ attempts' = [attempts EXCEPT ![t] = @ + 1]
       ELSE UNCHANGED <<sleeping, attempts>>

\* A restart that does not keep the factory for the next one.
FactorySpent(t) == factories

FactoryKept(t) == factories \cup {t}

\* The backoff is over.
Wake(t) ==
  /\ t \in sleeping /\ sleeping' = {} /\ task' = [task EXCEPT ![t] = "running"]
  /\ factories' = FactoryKept(t)
  /\ UNCHANGED attempts

Next == \E t \in Tasks : TaskEnds(t) \/ Join(t) \/ Wake(t)

\* The loop runs, and join_next returns every ended task at some time; tasks
\* end when they please.
Fairness == \A t \in Tasks : SF_vars(Join(t)) /\ WF_vars(Wake(t))

Spec == Init /\ [][Next]_vars /\ Fairness
-----------------------------------------------------------------------------
TypeOK ==
  /\ task \in [Tasks -> {"running", "failed", "clean", "none"}]
  /\ factories \subseteq Tasks /\ sleeping \subseteq Tasks
  /\ attempts \in [Tasks -> 0 .. MaxRestarts]

(***************************************************************************)
(* A task that fails is started again as long as it has attempts left,     *)
(* although the backoff of another task is slept in the same loop.         *)
(***************************************************************************)
FailedTaskRestarts ==
  \A t \in Tasks :
    (task[t] = "failed" /\ attempts[t] < MaxRestarts) ~> (task[t] = "running")
=============================================================================
