--------------------- MODULE EnvironmentExecutionProofs ---------------------
(***************************************************************************)
(* Proofs about the execution of a task by an Environment, for any finite  *)
(* set of executions, any set of cancelled ones, any crash threshold and   *)
(* any number of deaths and restarts of the process.                       *)
(***************************************************************************)
EXTENDS EnvironmentExecution, FiniteSetTheorems, TLAPS

(***************************************************************************)
(* The inductive invariant.  A generation is never given out twice; an     *)
(* execution is owned exactly between its registration and its release,    *)
(* under the generation it resolved; a handler runs in the process that    *)
(* the execution resolved to.                                              *)
(***************************************************************************)
GenerationsInv ==
  /\ procGen < nextGen /\ tableGen < nextGen
  /\ \A e \in Exec : xgen[e] < nextGen
  /\ \A e \in Exec : xpc[e] \in {"resolved", "owned", "permitted"} => xgen[e] # 0

OwnedPcs == {"owned", "permitted", "waiting", "answered"}

OwnersInv ==
  \A e \in Exec :
    /\ owner[e] # 0 => xpc[e] \in OwnedPcs /\ owner[e] = xgen[e]
    /\ xpc[e] \in OwnedPcs => owner[e] # 0
    /\ xpc[e] \in {"idle", "resolved", "owned"} => permit[e] = "none"
    /\ InFlight(e) => permit[e] # "none"
    /\ permit[e] = "none" => wpc[e] = "none"
    /\ xpc[e] = "permitted" => wpc[e] = "none"

ChildInv ==
  \A e \in Exec :
    /\ wpc[e] \notin {"none", "done"} => procGen # 0
    /\ wpc[e] # "done" => reply[e] \in {"none", "infrastructure"}
    /\ e \in worker \cup active => wpc[e] \in {"spawned", "poll", "receive", "stopped"}

(***************************************************************************)
(* Where a cancellation that returned true, or is about to, is remembered: *)
(* a mark in the controller until execute returns; a mark in the child     *)
(* until its handler stops, unless the process the mark was sent to died   *)
(* before the request arrived: no later process has its generation.        *)
(***************************************************************************)
MarksInv ==
  \A e \in Exec :
    /\ kpc[e] \in {"marked", "pending"} => e \in supCancelled \/ xpc[e] = "returned"
    /\ kpc[e] = "pending" => permit[e] = "none"
    /\ kpc[e] \in {"route", "send", "accepted"} =>
         xpc[e] # "idle" /\ kgen[e] = xgen[e] /\ kgen[e] # 0
    /\ kpc[e] = "accepted" =>
         /\ \/ e \in childCancelled /\ BeforeResult(e)
            \/ wpc[e] \in {"stopped", "done"}
            \/ wpc[e] = "none" /\ procGen # xgen[e]
         /\ reply[e] \in {"none", "cancelled", "infrastructure"}

(***************************************************************************)
(* Only a cooled circuit has a probe, and then nothing else of the         *)
(* artifact is in flight.                                                  *)
(***************************************************************************)
Probes(e) == InFlight(e) /\ permit[e] = "probe"

CircuitInv ==
  /\ \A e \in Exec : Probes(e) => probe /\ open = "cooled"
  /\ probe => \E e \in Exec : Probes(e)
  /\ \A e, f \in Exec : Probes(e) /\ Probes(f) => e = f
  /\ open = "cooled" => \A e \in Exec : InFlight(e) => permit[e] = "probe"

IInv == TypeOK /\ GenerationsInv /\ OwnersInv /\ ChildInv /\ MarksInv /\ CircuitInv
-----------------------------------------------------------------------------
(* The invariant holds initially.                                          *)
LEMMA InitIInv == Init => IInv
<1> SUFFICES ASSUME Init PROVE IInv
  OBVIOUS
<1>0. probe \in BOOLEAN
  BY Zenon DEF Init
<1>1. TypeOK
  BY <1>0, EnvironmentAssumption DEF Init, TypeOK, Replies, EnvironmentAssumption
<1>2. GenerationsInv
  BY DEF Init, GenerationsInv
<1>3. OwnersInv
  BY DEF Init, OwnersInv, OwnedPcs, InFlight
<1>4. ChildInv
  BY DEF Init, ChildInv
<1>5. MarksInv
  BY DEF Init, MarksInv
<1>6. CircuitInv
  BY DEF Init, CircuitInv, Probes, InFlight
<1> QED
  BY <1>1, <1>2, <1>3, <1>4, <1>5, <1>6 DEF IInv

(* Generations: a restart gives out nextGen, larger than every one before. *)
LEMMA GenerationsStep ==
  ASSUME IInv, [Next]_vars
  PROVE  GenerationsInv'
<1> USE DEF IInv, TypeOK, GenerationsInv
<1>1. CASE UNCHANGED <<xpc, xgen, tableGen, procGen, nextGen>>
  BY <1>1
<1>2. ASSUME NEW e \in Exec, Resolve(e)
      PROVE  GenerationsInv'
  BY <1>2 DEF Resolve, Execute, procVars
<1>3. ASSUME NEW e \in Exec, Own(e)
      PROVE  GenerationsInv'
  BY <1>3 DEF Own, Execute, procVars
<1>4. ASSUME NEW e \in Exec, Acquire(e)
      PROVE  GenerationsInv'
  BY <1>4 DEF Acquire, Execute, procVars
<1>5. ASSUME NEW e \in Exec, SendExecute(e) \/ ReadReply(e) \/ ReleaseOwner(e) \/ Settle(e)
      PROVE  GenerationsInv'
  BY <1>5 DEF SendExecute, ReadReply, ReleaseOwner, Settle, Execute, procVars
<1>6. CASE ChildDies \/ RestartRemove \/ RestartKill \/ RestartSpawn
  BY <1>6 DEF ChildDies, RestartRemove, RestartKill, RestartSpawn, Gone, supVars
<1>7. ASSUME NEW e \in Exec, ChildStep(e) \/ ChildFrame(e)
      PROVE  UNCHANGED <<xpc, xgen, tableGen, procGen, nextGen>>
  BY <1>7 DEF ChildStep, ChildFrame, ChildReceive, ChildSpawn, ChildCheck, ChildPoll,
     ChildCleanup, supVars, procVars
<1>8. ASSUME NEW e \in Exec, CancelMark(e) \/ CancelStep(e)
      PROVE  UNCHANGED <<xpc, xgen, tableGen, procGen, nextGen>>
  BY <1>8 DEF CancelMark, CancelStep, CancelLookup, CancelRoute, CancelSend, supVars, procVars
<1>9. ASSUME Cooldown \/ UNCHANGED vars
      PROVE  UNCHANGED <<xpc, xgen, tableGen, procGen, nextGen>>
  BY <1>9 DEF Cooldown, vars, supVars, procVars
<1> QED
  BY <1>1, <1>2, <1>3, <1>4, <1>5, <1>6, <1>7, <1>8, <1>9
     DEF Next, ExecuteStep, RestartStep

(* Typing.  The flag of the probe is Boolean ...                           *)
LEMMA ProbeFlagStep ==
  ASSUME IInv, [Next]_vars
  PROVE  probe' \in BOOLEAN
<1>1. probe \in BOOLEAN
  BY DEF IInv, TypeOK
<1>2. CASE UNCHANGED probe
  BY <1>1, <1>2, Zenon
<1>3. ASSUME NEW e \in Exec, Acquire(e)
      PROVE  probe' \in BOOLEAN
  BY <1>1, <1>3, Zenon DEF Acquire, circuitVars
<1>4. ASSUME NEW e \in Exec, Settle(e)
      PROVE  probe' \in BOOLEAN
  BY <1>1, <1>4, Zenon DEF Settle, RecordCrash, RecordNonCrash, Abort, circuitVars
<1>5. ASSUME NEW e \in Exec, ExecuteStep(e), ~Acquire(e), ~Settle(e)
      PROVE  UNCHANGED probe
  BY <1>5 DEF ExecuteStep, Resolve, Own, SendExecute, ReadReply, ReleaseOwner, circuitVars
<1>6. ASSUME NEW e \in Exec, ChildStep(e) \/ ChildFrame(e)
      PROVE  UNCHANGED probe
  BY <1>6 DEF ChildStep, ChildFrame, ChildReceive, ChildSpawn, ChildCheck, ChildPoll,
     ChildCleanup, circuitVars
<1>7. ASSUME NEW e \in Exec, CancelMark(e) \/ CancelStep(e)
      PROVE  UNCHANGED probe
  BY <1>7 DEF CancelMark, CancelStep, CancelLookup, CancelRoute, CancelSend, circuitVars
<1>8. ASSUME \/ Cooldown \/ ChildDies \/ RestartRemove \/ RestartStep \/ UNCHANGED vars
      PROVE  UNCHANGED probe
  BY <1>8 DEF Cooldown, ChildDies, RestartRemove, RestartStep, RestartKill, RestartSpawn,
     vars, circuitVars
<1> QED
  BY <1>2, <1>3, <1>4, <1>5, <1>6, <1>7, <1>8 DEF Next

(* ... and everything else stays in its set.                               *)
LEMMA TypeStep ==
  ASSUME IInv, [Next]_vars
  PROVE  TypeOK'
<1> USE ProbeFlagStep, EnvironmentAssumption DEF IInv, TypeOK, EnvironmentAssumption
<1>1. ASSUME NEW e \in Exec, Resolve(e) \/ Own(e)
      PROVE  TypeOK'
  BY <1>1 DEF Resolve, Own, Execute, childVars, cancelVars, circuitVars, procVars
<1>2. ASSUME NEW e \in Exec, Acquire(e)
      PROVE  TypeOK'
  BY <1>2 DEF Acquire, Permit, Release, Execute, childVars, cancelVars, circuitVars, procVars
<1>3. ASSUME NEW e \in Exec, SendExecute(e) \/ ReadReply(e) \/ ReleaseOwner(e)
      PROVE  TypeOK'
  BY <1>3 DEF SendExecute, ReadReply, ReleaseOwner, Release, Execute, Replies, childVars,
     cancelVars, circuitVars, procVars
<1>4. ASSUME NEW e \in Exec, Settle(e)
      PROVE  TypeOK'
  <2>1. crashes' \in 0 .. CrashThreshold /\ open' \in {"closed", "open", "cooled"}
    BY <1>4 DEF Settle, RecordCrash, RecordNonCrash, Abort, circuitVars
  <2> QED
    BY <1>4, <2>1 DEF Settle, Execute, childVars, cancelVars, procVars
<1>5. ASSUME NEW e \in Exec, ChildReceive(e) \/ ChildSpawn(e) \/ ChildCheck(e)
      PROVE  TypeOK'
  BY <1>5 DEF ChildReceive, ChildSpawn, ChildCheck, Child, Answer, Replies, supVars,
     cancelVars, circuitVars, procVars
<1>6. ASSUME NEW e \in Exec, ChildPoll(e) \/ ChildFrame(e) \/ ChildCleanup(e)
      PROVE  TypeOK'
  BY <1>6 DEF ChildPoll, ChildFrame, ChildCleanup, Child, Answer, Reaped, Replies, supVars,
     cancelVars, circuitVars, procVars
<1>7. CASE ChildDies \/ RestartRemove \/ RestartKill \/ RestartSpawn
  BY <1>7 DEF ChildDies, RestartRemove, RestartKill, RestartSpawn, Gone, Fault, supVars,
     childVars, cancelVars, circuitVars
<1>8. ASSUME NEW e \in Exec, CancelMark(e) \/ CancelLookup(e)
      PROVE  TypeOK'
  BY <1>8 DEF CancelMark, CancelLookup, Cancel, supVars, childVars, circuitVars, procVars
<1>9. ASSUME NEW e \in Exec, CancelRoute(e) \/ CancelSend(e)
      PROVE  TypeOK'
  BY <1>9 DEF CancelRoute, CancelSend, Cancel, supVars, childVars, circuitVars, procVars
<1>10. CASE Cooldown \/ UNCHANGED vars
  BY <1>10 DEF Cooldown, vars, supVars, childVars, cancelVars, circuitVars, procVars
<1> QED
  BY <1>1, <1>2, <1>3, <1>4, <1>5, <1>6, <1>7, <1>8, <1>9, <1>10
     DEF Next, ExecuteStep, ChildStep, CancelStep, RestartStep

(* Ownership and the permit follow the steps of execute.                   *)
LEMMA OwnersStep ==
  ASSUME IInv, [Next]_vars
  PROVE  OwnersInv'
<1> USE DEF IInv, TypeOK, OwnersInv, OwnedPcs, InFlight
<1>1. ASSUME NEW e \in Exec, Resolve(e) \/ Own(e)
      PROVE  OwnersInv'
  BY <1>1 DEF Resolve, Own, Execute, childVars, GenerationsInv
<1>2. ASSUME NEW e \in Exec, Acquire(e)
      PROVE  OwnersInv'
  BY <1>2 DEF Acquire, Permit, Release, Execute, childVars
<1>3. ASSUME NEW e \in Exec, SendExecute(e) \/ ReadReply(e)
      PROVE  OwnersInv'
  BY <1>3 DEF SendExecute, ReadReply, Execute
<1>4. ASSUME NEW e \in Exec, ReleaseOwner(e) \/ Settle(e)
      PROVE  OwnersInv'
  BY <1>4 DEF ReleaseOwner, Settle, Release, Execute, childVars
<1>5. ASSUME NEW e \in Exec, ChildReceive(e) \/ ChildSpawn(e) \/ ChildCheck(e)
      PROVE  OwnersInv'
  BY <1>5 DEF ChildReceive, ChildSpawn, ChildCheck, Child, Answer, supVars
<1>6. ASSUME NEW e \in Exec, ChildPoll(e) \/ ChildFrame(e) \/ ChildCleanup(e)
      PROVE  OwnersInv'
  BY <1>6 DEF ChildPoll, ChildFrame, ChildCleanup, Child, Answer, supVars
<1>7. CASE ChildDies \/ RestartRemove \/ RestartKill \/ RestartSpawn
  BY <1>7 DEF ChildDies, RestartRemove, RestartKill, RestartSpawn, Gone, supVars, childVars
<1>8. ASSUME NEW e \in Exec, CancelMark(e) \/ CancelStep(e)
      PROVE  OwnersInv'
  BY <1>8 DEF CancelMark, CancelStep, CancelLookup, CancelRoute, CancelSend, supVars, childVars
<1>9. CASE Cooldown \/ UNCHANGED vars
  BY <1>9 DEF Cooldown, vars, supVars, childVars
<1> QED
  BY <1>1, <1>2, <1>3, <1>4, <1>5, <1>6, <1>7, <1>8, <1>9
     DEF Next, ExecuteStep, ChildStep, RestartStep

(* A handler runs in a live process, answers once, and its worker and its  *)
(* table entry go with it.                                                 *)
LEMMA ChildStepInv ==
  ASSUME IInv, [Next]_vars
  PROVE  ChildInv'
<1> USE DEF IInv, TypeOK, ChildInv
<1>1. ASSUME NEW e \in Exec, Resolve(e) \/ Own(e) \/ Acquire(e) \/ ReleaseOwner(e) \/ Settle(e)
      PROVE  ChildInv'
  BY <1>1 DEF Resolve, Own, Acquire, ReleaseOwner, Settle, childVars, procVars
<1>2. ASSUME NEW e \in Exec, SendExecute(e)
      PROVE  ChildInv'
  BY <1>2 DEF SendExecute, Reachable, Execute, procVars, GenerationsInv, OwnersInv
<1>3. ASSUME NEW e \in Exec, ReadReply(e)
      PROVE  ChildInv'
  BY <1>3 DEF ReadReply, Execute, procVars
<1>4. ASSUME NEW e \in Exec, ChildReceive(e) \/ ChildSpawn(e) \/ ChildCheck(e)
      PROVE  ChildInv'
  BY <1>4 DEF ChildReceive, ChildSpawn, ChildCheck, Child, Answer, procVars
<1>5. ASSUME NEW e \in Exec, ChildPoll(e) \/ ChildFrame(e) \/ ChildCleanup(e)
      PROVE  ChildInv'
  BY <1>5 DEF ChildPoll, ChildFrame, ChildCleanup, Child, Answer, Reaped, procVars
<1>6. CASE ChildDies \/ RestartRemove \/ RestartKill \/ RestartSpawn
  BY <1>6 DEF ChildDies, RestartRemove, RestartKill, RestartSpawn, Gone, childVars, GenerationsInv
<1>7. ASSUME NEW e \in Exec, CancelMark(e) \/ CancelStep(e)
      PROVE  ChildInv'
  BY <1>7 DEF CancelMark, CancelStep, CancelLookup, CancelRoute, CancelSend, childVars, procVars
<1>8. CASE Cooldown \/ UNCHANGED vars
  BY <1>8 DEF Cooldown, vars, childVars, procVars
<1> QED
  BY <1>1, <1>2, <1>3, <1>4, <1>5, <1>6, <1>7, <1>8
     DEF Next, ExecuteStep, ChildStep, RestartStep

(* The marks of a cancellation are not lost.                               *)
LEMMA MarksStep ==
  ASSUME IInv, [Next]_vars
  PROVE  MarksInv'
<1> USE DEF IInv, TypeOK, MarksInv, BeforeResult
<1>1. ASSUME NEW e \in Exec, Resolve(e)
      PROVE  MarksInv'
  BY <1>1 DEF Resolve, Execute, childVars, cancelVars, procVars, OwnersInv
<1>2. ASSUME NEW e \in Exec, Own(e) \/ ReleaseOwner(e)
      PROVE  MarksInv'
  BY <1>2 DEF Own, ReleaseOwner, Execute, childVars, cancelVars, procVars
<1>3. ASSUME NEW e \in Exec, Acquire(e)
      PROVE  MarksInv'
  BY <1>3 DEF Acquire, Pending, Permit, Execute, childVars, cancelVars, procVars
<1>4. ASSUME NEW e \in Exec, SendExecute(e)
      PROVE  MarksInv'
  BY <1>4 DEF SendExecute, Reachable, Execute, cancelVars, procVars, OwnersInv, ChildInv
<1>5. ASSUME NEW e \in Exec, ReadReply(e)
      PROVE  MarksInv'
  BY <1>5 DEF ReadReply, Execute, cancelVars, procVars
<1>6. ASSUME NEW e \in Exec, Settle(e)
      PROVE  MarksInv'
  BY <1>6 DEF Settle, Execute, childVars, cancelVars, procVars
<1>7. ASSUME NEW e \in Exec, ChildReceive(e) \/ ChildSpawn(e)
      PROVE  MarksInv'
  BY <1>7 DEF ChildReceive, ChildSpawn, Child, Answer, supVars, cancelVars, procVars
<1>8. ASSUME NEW e \in Exec, ChildCheck(e) \/ ChildPoll(e) \/ ChildFrame(e)
      PROVE  MarksInv'
  BY <1>8 DEF ChildCheck, ChildPoll, ChildFrame, SecondLook, Child, supVars, cancelVars, procVars
<1>9. ASSUME NEW e \in Exec, ChildCleanup(e)
      PROVE  MarksInv'
  BY <1>9 DEF ChildCleanup, Child, Answer, supVars, cancelVars, procVars
<1>10. CASE ChildDies \/ RestartKill
  BY <1>10 DEF ChildDies, RestartKill, Gone, supVars, cancelVars
<1>11. CASE RestartRemove \/ RestartSpawn
  BY <1>11 DEF RestartRemove, RestartSpawn, supVars, childVars, cancelVars, GenerationsInv
<1>12. ASSUME NEW e \in Exec, CancelMark(e)
      PROVE  MarksInv'
  BY <1>12 DEF CancelMark, Cancel, supVars, childVars, procVars
<1>13. ASSUME NEW e \in Exec, CancelLookup(e)
      PROVE  MarksInv'
  BY <1>13 DEF CancelLookup, Cancel, supVars, childVars, procVars, OwnersInv, OwnedPcs, InFlight
<1>14. ASSUME NEW e \in Exec, CancelRoute(e) \/ CancelSend(e)
      PROVE  MarksInv'
  BY <1>14 DEF CancelRoute, CancelSend, Cancel, supVars, childVars, procVars, ChildInv
<1>15. CASE Cooldown \/ UNCHANGED vars
  BY <1>15 DEF Cooldown, vars, supVars, childVars, cancelVars, procVars
<1> QED
  BY <1>1, <1>2, <1>3, <1>4, <1>5, <1>6, <1>7, <1>8, <1>9, <1>10, <1>11, <1>12, <1>13,
     <1>14, <1>15
     DEF Next, ExecuteStep, ChildStep, CancelStep, RestartStep

(* The circuit follows its probe: granted alone, gone with its answer.     *)
LEMMA CircuitStep ==
  ASSUME IInv, [Next]_vars
  PROVE  CircuitInv'
<1> USE DEF IInv, TypeOK, CircuitInv, Probes, InFlight
<1>1. CASE UNCHANGED <<xpc, permit, circuitVars>>
  BY <1>1 DEF circuitVars
<1>2. ASSUME NEW e \in Exec, Resolve(e) \/ Own(e)
      PROVE  CircuitInv'
  BY <1>2 DEF Resolve, Own, Execute, circuitVars
<1>3. ASSUME NEW e \in Exec, Acquire(e)
      PROVE  CircuitInv'
  <2>1. CASE xpc'[e] = "returned"
    BY <1>3, <2>1 DEF Acquire, Execute, circuitVars
  <2>2. CASE xpc'[e] # "returned"
    <3>1. /\ ~CircuitRefuses /\ open' = open /\ xpc[e] = "owned"
          /\ xpc' = [xpc EXCEPT ![e] = "permitted"]
          /\ permit' = [permit EXCEPT ![e] = Permit]
      BY <1>3, <2>2 DEF Acquire, Execute
    <3>2. probe' <=> open = "cooled"
      BY <1>3, <2>2, Zenon DEF Acquire, Execute, TypeOK
    <3> QED
      BY <3>1, <3>2 DEF CircuitRefuses, Permit
  <2> QED
    BY <2>1, <2>2
<1>4. ASSUME NEW e \in Exec, SendExecute(e) \/ ReadReply(e) \/ ReleaseOwner(e)
      PROVE  CircuitInv'
  BY <1>4 DEF SendExecute, ReadReply, ReleaseOwner, Execute, circuitVars
<1>5. ASSUME NEW e \in Exec, Settle(e)
      PROVE  CircuitInv'
  <2>0. /\ InFlight(e) /\ permit' = permit /\ xpc' = [xpc EXCEPT ![e] = "returned"]
        /\ \A f \in Exec : InFlight(f)' <=> f # e /\ InFlight(f)
    BY <1>5 DEF Settle, Execute
  <2>1. ASSUME permit[e] = "probe"
        PROVE  ~(\E f \in Exec : Probes(f)') /\ open' # "cooled" /\ ~probe'
    BY <1>5, <2>0, <2>1 DEF Settle, RecordCrash, RecordNonCrash, Abort
  <2>2. ASSUME permit[e] # "probe"
        PROVE  open # "cooled" /\ ~probe /\ open' # "cooled" /\ ~probe'
    BY <1>5, <2>0, <2>2 DEF Settle, RecordCrash, RecordNonCrash, Abort, circuitVars
  <2> QED
    BY <2>0, <2>1, <2>2
<1>6. CASE Cooldown
  BY <1>6 DEF Cooldown, supVars
<1>7. ASSUME NEW e \in Exec, ChildStep(e) \/ ChildFrame(e)
      PROVE  UNCHANGED <<xpc, permit, circuitVars>>
  BY <1>7 DEF ChildStep, ChildFrame, ChildReceive, ChildSpawn, ChildCheck, ChildPoll,
     ChildCleanup, supVars
<1>8. ASSUME NEW e \in Exec, CancelMark(e) \/ CancelStep(e)
      PROVE  UNCHANGED <<xpc, permit, circuitVars>>
  BY <1>8 DEF CancelMark, CancelStep, CancelLookup, CancelRoute, CancelSend, supVars
<1>9. ASSUME ChildDies \/ RestartRemove \/ RestartStep \/ UNCHANGED vars
      PROVE  UNCHANGED <<xpc, permit, circuitVars>>
  BY <1>9 DEF ChildDies, RestartRemove, RestartStep, RestartKill, RestartSpawn, vars, supVars
<1> QED
  BY <1>1, <1>2, <1>3, <1>4, <1>5, <1>6, <1>7, <1>8, <1>9 DEF Next, ExecuteStep
-----------------------------------------------------------------------------
(* The inductive invariant holds in every state of the specification.      *)
THEOREM IInvAlways == Spec => []IInv
<1>1. Init => IInv
  BY InitIInv
<1>2. IInv /\ [Next]_vars => IInv'
  BY GenerationsStep, TypeStep, OwnersStep, ChildStepInv, MarksStep, CircuitStep DEF IInv
<1> QED
  BY <1>1, <1>2, PTL DEF Spec

(* A cancellation that returned true wins: marked before an owner was      *)
(* registered, the execution is never dispatched; accepted by the child    *)
(* before a result, no result is answered (cancel_execution, execute and   *)
(* the three looks of the child).                                          *)
THEOREM CancellationWins == Spec => []CancelWins
<1>1. IInv => CancelWins
  BY DEF IInv, MarksInv, OwnersInv, CancelWins
<1> QED
  BY <1>1, IInvAlways, PTL

(* The tables keep their types and a worker process or an active entry     *)
(* belongs to a handler that still runs: WorkerChildGuard reaps it on      *)
(* every way out.                                                          *)
THEOREM WorkersAreOwned == Spec => []WorkersOwned
<1>1. IInv => WorkersOwned
  BY DEF IInv, TypeOK, ChildInv, WorkersOwned
<1> QED
  BY <1>1, IInvAlways, PTL

(* A set with one element, or none, is counted.                            *)
LEMMA CountOfOne ==
  ASSUME NEW S, NEW x \in S, \A y \in S : y = x
  PROVE  Cardinality(S) = 1
<1>1. S = {x}
  OBVIOUS
<1> QED
  BY <1>1, FS_Singleton

(* The half-open circuit has exactly one probe while the flag is set, and  *)
(* none otherwise (ArtifactCrashCircuit).                                  *)
THEOREM ProbesAreAccounted == Spec => []ProbeAccounted
<1>1. IInv => ProbeAccounted
  <2> SUFFICES ASSUME IInv PROVE ProbeAccounted
    OBVIOUS
  <2> DEFINE P == {e \in Exec : InFlight(e) /\ permit[e] = "probe"}
  <2>1. CASE probe
    <3>1. PICK x \in P : TRUE
      BY <2>1 DEF IInv, CircuitInv, Probes
    <3>2. \A y \in P : y = x
      BY <3>1 DEF IInv, CircuitInv, Probes
    <3>3. Cardinality(P) = 1
      BY <3>1, <3>2, CountOfOne
    <3> QED
      BY <2>1, <3>3 DEF ProbeAccounted
  <2>2. CASE ~probe
    <3>1. P = {}
      BY <2>2 DEF IInv, CircuitInv, Probes
    <3>2. Cardinality(P) = 0
      BY <3>1, FS_EmptySet
    <3> QED
      BY <2>2, <3>2 DEF ProbeAccounted
  <2> QED
    BY <2>1, <2>2
<1> QED
  BY <1>1, IInvAlways, PTL
=============================================================================
