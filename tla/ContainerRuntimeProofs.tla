----------------------- MODULE ContainerRuntimeProofs -----------------------
(***************************************************************************)
(* Proofs about the Container controller, for any finite sets of           *)
(* executions and Swamps, any bound of the result store, and any number of *)
(* cancel calls, restarts, drains and deaths of the process.               *)
(***************************************************************************)
EXTENDS ContainerRuntime, FiniteSetTheorems, SequenceTheorems, TLAPS

(***************************************************************************)
(* No execution is in two places.  A dispatcher holds one task at a time,  *)
(* for a worker that is idle.                                              *)
(***************************************************************************)
At(s) == swampQueue[s] \cup hand[s] \cup busy[s]
Listed == globalQueue \cup drained \cup requeue \cup orphans

DisjointInv ==
  /\ globalQueue \cap drained = {} /\ globalQueue \cap requeue = {}
  /\ globalQueue \cap orphans = {} /\ drained \cap requeue = {}
  /\ drained \cap orphans = {} /\ requeue \cap orphans = {}
  /\ \A s \in Swamps :
       /\ swampQueue[s] \cap hand[s] = {} /\ swampQueue[s] \cap busy[s] = {}
       /\ At(s) \cap Listed = {}
       /\ hand[s] # {} => busy[s] = {}
       /\ \A e, f \in hand[s] : e = f
       /\ \A t \in Swamps : s # t => At(s) \cap At(t) = {}
  /\ rpc # "push" => requeue = {}

Running(e) == e \in orphans \/ \E s \in Swamps : e \in busy[s]
Queued(e) ==
  \/ e \in globalQueue \cup drained \cup requeue
  \/ \E s \in Swamps : e \in swampQueue[s] \cup hand[s]

(***************************************************************************)
(* An execution enters the queues when its submission returns; a worker is *)
(* at some stage with every task it has and with no other; what waits or   *)
(* runs is live until its completion, and has no outcome before.           *)
(***************************************************************************)
Early(e) == sub[e] \in {"new", "admitted", "live", "journaled"}
Over(e) == stage[e] \in {"publish", "journal"}

LifeInv ==
  \A e \in Exec :
    /\ Running(e) <=> stage[e] # "none"
    /\ Early(e) => ~Queued(e) /\ ~Running(e) /\ outcome[e] = "none" /\ e \notin acked
    /\ sub[e] \in {"new", "admitted"} => e \notin live
    /\ sub[e] \in {"live", "journaled"} => e \in live
    /\ sub[e] \in {"new", "admitted", "live"} => e \notin journal
    /\ Queued(e) \/ (Running(e) /\ ~Over(e)) => e \in live
    /\ e \in live => outcome[e] = "none" /\ ~Over(e)
    /\ stage[e] = "publish" => outcome[e] = "none"

(* The cancel call works on one execution, and is the only one to know it  *)
(* once it has taken it out of its queue.                                  *)
CancelInv ==
  /\ kpc # "idle" => \E e \in Exec : kexec = {e} /\ sub[e] = "returned"
  /\ kpc = "global" => ~kremoved
  /\ kpc \in {"clear", "publish"} => kremoved
  /\ \A e \in Exec : TakenByCancel(e) => ~Queued(e) /\ ~Running(e) /\ outcome[e] = "none"
  /\ \A e \in Exec : TakenByCancel(e) /\ kpc # "publish" => e \in live
  /\ kpc = "publish" => kexec \cap live = {}
  /\ \A e \in live : ~Early(e) => Queued(e) \/ Running(e) \/ TakenByCancel(e)

(***************************************************************************)
(* Where the answer to a cancel call is: a mark that the completion will   *)
(* see, an outcome on its way, or a published one.                         *)
(***************************************************************************)
Promised(e) ==
  \/ e \in cancelled /\ e \in live
  \/ /\ e \notin live
     /\ \/ stage[e] = "publish" /\ result[e] = "cancelled"
        \/ stage[e] = "journal" /\ outcome[e] = "cancelled"
        \/ ~Queued(e) /\ ~Running(e) /\ outcome[e] = "cancelled"
        \/ TakenByCancel(e) /\ kpc = "publish"

Forgotten(e) == deaths > 0 /\ e \notin live /\ ~Queued(e) /\ ~Running(e) /\ outcome[e] = "none"

PromiseInv ==
  /\ kpc # "idle" => \A e \in kexec : Promised(e)
  /\ \A e \in acked \ blotted : Promised(e) \/ Forgotten(e)

(* The journal of what was neither blotted nor ended.                      *)
JournalInv ==
  /\ tail # NoTail => sub[tail[1]] \in {"returned", "lost"}
  /\ \A e \in Exec : sub[e] = "journaled" => e \in journal \/ e \in blotted
  /\ kpc \in {"clear", "publish"} => \A e \in kexec : e \in journal => e \in blotted
  /\ JournalFaithful

(* An execution that has not been dispatched by this process has run at    *)
(* most once per earlier process.                                          *)
RunsInv ==
  \A e \in Exec :
    /\ runs[e] <= 1 + deaths
    /\ e \in live /\ stage[e] \in {"none", "start", "dispatch"} => runs[e] <= deaths
    /\ sub[e] \in {"new", "admitted"} => runs[e] <= deaths

IInv ==
  TypeOK /\ DisjointInv /\ LifeInv /\ CancelInv /\ PromiseInv /\ JournalInv /\ RunsInv
-----------------------------------------------------------------------------
(* record_execution_outcome keeps the store a sequence of records within   *)
(* its bound.                                                              *)
LEMMA RecordBound ==
  ASSUME TypeOK, NEW e \in Exec, NEW kind \in Kinds, Record(e, kind)
  PROVE  results' \in Seq(Exec \X Kinds) /\ Len(results') <= MaxResults
<1> DEFINE R == Exec \X Kinds
           old == Retained(e)
           added == Append(old, <<e, kind>>)
<1>1. results \in Seq(R) /\ Len(results) \in Nat /\ Len(results) <= MaxResults
      /\ MaxResults \in Nat \ {0}
  BY ContainerAssumption, LenProperties DEF TypeOK, ContainerAssumption
<1>2. old \in Seq(R) /\ Len(old) <= Len(results)
  <2> DEFINE at == {i \in DOMAIN results : results[i][1] = e}
             i == CHOOSE j \in at : TRUE
  <2>1. CASE at = {}
    BY <1>1, <2>1 DEF Retained
  <2>2. CASE at # {}
    <3>1. i \in 1 .. Len(results)
      BY <1>1, <2>2, LenProperties
    <3> HIDE DEF i
    <3> HIDE DEF R
    <3>2. \A k \in 1 .. Len(results) : results[k] \in R
      BY <1>1, ElementOfSeq
    <3> DEFINE x == SubSeq(results, 1, i - 1)
               y == SubSeq(results, i + 1, Len(results))
    <3>3. x \in Seq(R) /\ Len(x) = i - 1
      BY <1>1, <3>1, <3>2, SubSeqProperties
    <3>4. y \in Seq(R) /\ Len(y) = Len(results) - i
      BY <1>1, <3>1, <3>2, SubSeqProperties
    <3>5. old = x \o y
      BY <2>2 DEF Retained, i
    <3> HIDE DEF x, y, old
    <3>6. x \o y \in Seq(R) /\ Len(x \o y) = Len(x) + Len(y)
      BY <3>3, <3>4, ConcatProperties
    <3> QED
      BY <1>1, <3>1, <3>3, <3>4, <3>5, <3>6
  <2> QED
    BY <2>1, <2>2
<1>3. added \in Seq(R) /\ Len(added) = Len(old) + 1 /\ added # << >>
  <2> HIDE DEF old
  <2> QED
    BY <1>2, AppendProperties
<1>4. Len(old) \in Nat
  <2> HIDE DEF old
  <2> QED
    BY <1>2, LenProperties
<1>5. results' = Evicted(added)
  BY DEF Record
<1> HIDE DEF added, old
<1>6. Tail(added) \in Seq(R) /\ Len(Tail(added)) = Len(added) - 1
  BY <1>3, HeadTailProperties
<1> QED
  BY <1>1, <1>2, <1>3, <1>4, <1>5, <1>6 DEF Evicted

(* The part of the type invariant about flags.                             *)
FlagsOK ==
  /\ accepting \in BOOLEAN /\ kremoved \in BOOLEAN
  /\ tail = NoTail \/ tail \in Exec \X BOOLEAN

(* The flags stay Boolean and the torn tail a marked execution.             *)
LEMMA FlagsStep ==
  ASSUME IInv, [Next]_vars
  PROVE  FlagsOK'
<1> USE DEF FlagsOK
<1>0. FlagsOK
  BY DEF IInv, TypeOK
<1>1. ASSUME NEW e \in Exec,
             Admit(e) \/ SubmitLive(e) \/ SubmitPush(e)
      PROVE  FlagsOK'
  BY <1>1, <1>0, Zenon DEF Admit, SubmitLive, SubmitPush, queues, cancelVars, restartVars,
     journalVars, workerVars, resultVars, processVars
<1>2. ASSUME NEW e \in Exec,
             SubmitJournal(e)
      PROVE  FlagsOK'
  BY <1>2, <1>0, Zenon DEF SubmitJournal, JournalAppend, queues, cancelVars, restartVars,
     workerVars, resultVars, processVars
<1>3. CASE RebalanceDrain
  BY <1>3, <1>0, Zenon DEF RebalanceDrain, cancelVars, restartVars, journalVars, workerVars,
     resultVars, processVars
<1>4. ASSUME NEW e \in Exec, NEW s \in Swamps,
             RebalanceEnqueue(e, s) \/ Pop(s, e) \/ Send(s, e)
      PROVE  FlagsOK'
  BY <1>4, <1>0, Zenon DEF RebalanceEnqueue, Pop, Send, cancelVars, restartVars, journalVars,
     workerVars, resultVars, processVars
<1>5. ASSUME NEW s \in Swamps, NEW t \in Swamps,
             Rebalance(s, t)
      PROVE  FlagsOK'
  BY <1>5, <1>0, Zenon DEF Rebalance, cancelVars, restartVars, journalVars, workerVars,
     resultVars, processVars
<1>6. ASSUME NEW e \in Exec,
             RunnerStart(e) \/ Dispatch(e) \/ RunnerReturn(e) \/ Complete(e)
               \/ Publish(e)
      PROVE  FlagsOK'
  BY <1>6, <1>0, Zenon DEF RunnerStart, Worker, Dispatch, RunnerReturn, Complete, CompletedAs,
     Publish, Record, queues, cancelVars, restartVars, journalVars, resultVars, processVars
<1>7. ASSUME NEW e \in Exec,
             JournalDone(e)
      PROVE  FlagsOK'
  BY <1>7, <1>0, Zenon DEF JournalDone, Worker, JournalAppend, cancelVars, restartVars,
     resultVars, processVars
<1>8. ASSUME NEW e \in Exec,
             CancelMark(e)
      PROVE  FlagsOK'
  BY <1>8, <1>0, Zenon DEF CancelMark, Event, queues, restartVars, journalVars, workerVars,
     resultVars
<1>9. CASE CancelGlobal \/ CancelSwamps
  BY <1>9, <1>0, Zenon DEF CancelGlobal, WithoutCancelled, CancelSwamps, restartVars,
     journalVars, workerVars, resultVars, processVars
<1>10. CASE CancelJournal
  BY <1>10, <1>0, Zenon DEF CancelJournal, JournalsCancel, JournalAppend, queues, restartVars,
     workerVars, resultVars, processVars
<1>11. CASE CancelClear \/ CancelPublish
  BY <1>11, <1>0, Zenon DEF CancelClear, CancelPublish, Record, queues, restartVars,
     journalVars, workerVars, resultVars, processVars
<1>12. CASE RestartDrain \/ RestartPush \/ RestartBump \/ RestartKill \/ RestartSpawn
  BY <1>12, <1>0, Zenon DEF RestartDrain, Restart, Event, Waiting, RestartPush, PushedBack,
     RestartBump, RestartKill, RestartSpawn, queues, cancelVars, journalVars, workerVars,
     resultVars, processVars
<1>13. CASE DrainBegin \/ DrainQueue \/ DrainSwamps \/ DrainTimeout \/ Resume
  BY <1>13, <1>0, Zenon DEF DrainBegin, Drain, Event, DrainQueue, DrainSwamps, DrainTimeout,
     Resume, queues, cancelVars, restartVars, journalVars, workerVars, resultVars
<1>14. CASE Replace
  BY <1>14, <1>0, Zenon DEF Replace, Recovered, journalVars
<1>15. CASE Crash
  <2>1. accepting' \in BOOLEAN /\ kremoved' \in BOOLEAN
    BY <1>15, Zenon DEF Crash, Recovered
  <2>2. CASE UNCHANGED journalVars
    BY <1>0, <2>1, <2>2, Zenon DEF journalVars
  <2>3. ASSUME NEW a \in Appending, TornWrite(a)
        PROVE  tail' = NoTail \/ tail' \in Exec \X BOOLEAN
    <3>1. a[1] \in Exec
      <4>1. CASE \E x \in Exec : a = <<x, TRUE>>
        BY <4>1
      <4>2. CASE \E x \in Exec : a = <<x, FALSE>>
        BY <4>2
      <4>3. kexec \subseteq Exec
        BY DEF IInv, TypeOK
      <4> QED
        BY <4>1, <4>2, <4>3 DEF Appending
    <3>2. (a[1] \in journal) \in BOOLEAN
      BY SMT
    <3>3. <<a[1], a[1] \in journal>> \in Exec \X BOOLEAN
      BY <3>1, <3>2, Zenon
    <3>4. UNCHANGED tail \/ tail' = <<a[1], a[1] \in journal>>
      BY <2>3, Zenon DEF TornWrite
    <3> QED
      BY <1>0, <3>3, <3>4, Zenon
  <2> QED
    BY <1>15, <2>1, <2>2, <2>3 DEF Crash
<1>16. CASE UNCHANGED vars
  BY <1>16, <1>0, Zenon DEF vars, queues, cancelVars, restartVars, journalVars, workerVars,
     resultVars, processVars
<1> QED
  BY <1>1, <1>2, <1>3, <1>4, <1>5, <1>6, <1>7, <1>8, <1>9, <1>10, <1>11, <1>12, <1>13, <1>14,
     <1>15, <1>16
     DEF Next, Submit, Scheduler, Dispatcher, RunTask, CancelRest, RestartRest, DrainRest

(* The part about the result store.                                        *)
ResultsOK == results \in Seq(Exec \X Kinds) /\ Len(results) <= MaxResults

(* The result store keeps its shape and its bound.                         *)
LEMMA ResultsStep ==
  ASSUME IInv, [Next]_vars
  PROVE  ResultsOK'
<1> USE DEF ResultsOK
<1>0. ResultsOK
  BY DEF IInv, TypeOK
<1>a. TypeOK
  BY DEF IInv
<1>1. ASSUME NEW e \in Exec,
             Admit(e) \/ SubmitLive(e) \/ SubmitJournal(e) \/ SubmitPush(e)
      PROVE  ResultsOK'
  BY <1>1, <1>0, Zenon DEF Admit, SubmitLive, SubmitJournal, JournalAppend, SubmitPush, queues,
     cancelVars, restartVars, journalVars, workerVars, resultVars, processVars
<1>2. CASE RebalanceDrain
  BY <1>2, <1>0, Zenon DEF RebalanceDrain, cancelVars, restartVars, journalVars, workerVars,
     resultVars, processVars
<1>3. ASSUME NEW e \in Exec, NEW s \in Swamps,
             RebalanceEnqueue(e, s) \/ Pop(s, e) \/ Send(s, e)
      PROVE  ResultsOK'
  BY <1>3, <1>0, Zenon DEF RebalanceEnqueue, Pop, Send, cancelVars, restartVars, journalVars,
     workerVars, resultVars, processVars
<1>4. ASSUME NEW s \in Swamps, NEW t \in Swamps,
             Rebalance(s, t)
      PROVE  ResultsOK'
  BY <1>4, <1>0, Zenon DEF Rebalance, cancelVars, restartVars, journalVars, workerVars,
     resultVars, processVars
<1>5. ASSUME NEW e \in Exec,
             RunnerStart(e) \/ Dispatch(e) \/ RunnerReturn(e) \/ Complete(e)
               \/ JournalDone(e)
      PROVE  ResultsOK'
  BY <1>5, <1>0, Zenon DEF RunnerStart, Worker, Dispatch, RunnerReturn, Complete, CompletedAs,
     JournalDone, JournalAppend, queues, cancelVars, restartVars, journalVars, resultVars,
     processVars
<1>6. ASSUME NEW e \in Exec,
             Publish(e)
      PROVE  ResultsOK'
  <2>1. result[e] \in Kinds
    BY <1>a DEF TypeOK
  <2>2. Record(e, result[e])
    BY <1>6 DEF Publish
  <2> QED
    BY <1>a, <2>1, <2>2, RecordBound
<1>7. ASSUME NEW e \in Exec,
             CancelMark(e)
      PROVE  ResultsOK'
  BY <1>7, <1>0, Zenon DEF CancelMark, Event, queues, restartVars, journalVars, workerVars,
     resultVars
<1>8. CASE CancelGlobal \/ CancelSwamps \/ CancelJournal \/ CancelClear
  BY <1>8, <1>0, Zenon DEF CancelGlobal, WithoutCancelled, CancelSwamps, CancelJournal,
     JournalsCancel, JournalAppend, CancelClear, queues, restartVars, journalVars, workerVars,
     resultVars, processVars
<1>9. CASE CancelPublish
  <2>1. PICK e \in kexec : Record(e, "cancelled")
    BY <1>9 DEF CancelPublish
  <2>2. e \in Exec /\ "cancelled" \in Kinds
    BY <1>a, <2>1 DEF TypeOK, Kinds
  <2> QED
    BY <1>a, <2>1, <2>2, RecordBound
<1>10. CASE RestartDrain \/ RestartPush \/ RestartBump \/ RestartKill \/ RestartSpawn
  BY <1>10, <1>0, Zenon DEF RestartDrain, Restart, Event, Waiting, RestartPush, PushedBack,
     RestartBump, RestartKill, RestartSpawn, queues, cancelVars, journalVars, workerVars,
     resultVars, processVars
<1>11. CASE DrainBegin \/ DrainQueue \/ DrainSwamps \/ DrainTimeout \/ Resume
  BY <1>11, <1>0, Zenon DEF DrainBegin, Drain, Event, DrainQueue, DrainSwamps, DrainTimeout,
     Resume, queues, cancelVars, restartVars, journalVars, workerVars, resultVars
<1>12. CASE Crash \/ Replace
  <2>1. results' = << >>
    BY <1>12, Zenon DEF Crash, Replace, Recovered
  <2>2. << >> \in Seq(Exec \X Kinds) /\ Len(<< >>) = 0
    BY EmptySeq
  <2> QED
    BY <2>1, <2>2, ContainerAssumption DEF ContainerAssumption
<1>13. CASE UNCHANGED vars
  BY <1>13, <1>0, Zenon DEF vars, queues, cancelVars, restartVars, journalVars, workerVars,
     resultVars, processVars
<1> QED
  BY <1>1, <1>2, <1>3, <1>4, <1>5, <1>6, <1>7, <1>8, <1>9, <1>10, <1>11, <1>12, <1>13
     DEF Next, Submit, Scheduler, Dispatcher, RunTask, CancelRest, RestartRest, DrainRest

(* The part of the type invariant about sets of executions.                *)
SetsOK ==
  /\ live \subseteq Exec /\ cancelled \subseteq Exec
  /\ journal \subseteq Exec /\ blotted \subseteq Exec
  /\ globalQueue \subseteq Exec /\ drained \subseteq Exec
  /\ orphans \subseteq Exec /\ requeue \subseteq Exec
  /\ swampQueue \in [Swamps -> SUBSET Exec]
  /\ hand \in [Swamps -> SUBSET Exec] /\ busy \in [Swamps -> SUBSET Exec]
  /\ kexec \subseteq Exec /\ acked \subseteq Exec

(* Queues, lists and marks hold executions only.                           *)
LEMMA SetsStep ==
  ASSUME IInv, [Next]_vars
  PROVE  SetsOK'
<1> USE DEF SetsOK
<1>0. SetsOK /\ (tail # NoTail => tail[1] \in Exec)
  BY DEF IInv, TypeOK
<1>1. ASSUME NEW e \in Exec,
             Admit(e)
      PROVE  SetsOK'
  BY <1>1, <1>0 DEF Admit, queues, cancelVars, restartVars, journalVars, workerVars,
     resultVars, processVars
<1>2. ASSUME NEW e \in Exec,
             SubmitLive(e)
      PROVE  SetsOK'
  BY <1>2, <1>0 DEF SubmitLive, queues, cancelVars, restartVars, journalVars, workerVars,
     resultVars, processVars
<1>3. ASSUME NEW e \in Exec,
             SubmitJournal(e)
      PROVE  SetsOK'
  BY <1>3, <1>0 DEF SubmitJournal, JournalAppend, queues, cancelVars, restartVars, workerVars,
     resultVars, processVars
<1>4. ASSUME NEW e \in Exec,
             SubmitPush(e)
      PROVE  SetsOK'
  BY <1>4, <1>0 DEF SubmitPush, cancelVars, restartVars, journalVars, workerVars, resultVars,
     processVars
<1>5. CASE RebalanceDrain
  BY <1>5, <1>0 DEF RebalanceDrain, cancelVars, restartVars, journalVars, workerVars,
     resultVars, processVars
<1>6. ASSUME NEW e \in Exec, NEW s \in Swamps,
             RebalanceEnqueue(e, s)
      PROVE  SetsOK'
  BY <1>6, <1>0 DEF RebalanceEnqueue, cancelVars, restartVars, journalVars, workerVars,
     resultVars, processVars
<1>7. ASSUME NEW s \in Swamps, NEW e \in Exec,
             Pop(s, e)
      PROVE  SetsOK'
  BY <1>7, <1>0 DEF Pop, cancelVars, restartVars, journalVars, workerVars, resultVars,
     processVars
<1>8. ASSUME NEW s \in Swamps, NEW t \in Swamps,
             Rebalance(s, t)
      PROVE  SetsOK'
  BY <1>8, <1>0 DEF Rebalance, cancelVars, restartVars, journalVars, workerVars, resultVars,
     processVars
<1>9. ASSUME NEW s \in Swamps, NEW e \in Exec,
             Send(s, e)
      PROVE  SetsOK'
  BY <1>9, <1>0 DEF Send, cancelVars, restartVars, journalVars, resultVars, processVars
<1>10. ASSUME NEW e \in Exec,
             RunnerStart(e) \/ Dispatch(e) \/ RunnerReturn(e) \/ Publish(e)
      PROVE  SetsOK'
  BY <1>10, <1>0, Zenon DEF RunnerStart, Worker, Dispatch, RunnerReturn, Publish, Record,
     queues, cancelVars, restartVars, journalVars, resultVars, processVars
<1>11. ASSUME NEW e \in Exec,
             Complete(e)
      PROVE  SetsOK'
  BY <1>11, <1>0 DEF Complete, Worker, CompletedAs, queues, cancelVars, restartVars,
     journalVars, resultVars, processVars
<1>12. ASSUME NEW e \in Exec,
             JournalDone(e)
      PROVE  SetsOK'
  BY <1>12, <1>0 DEF JournalDone, Worker, JournalAppend, cancelVars, restartVars, resultVars,
     processVars
<1>13. ASSUME NEW e \in Exec,
             CancelMark(e)
      PROVE  SetsOK'
  BY <1>13, <1>0 DEF CancelMark, Event, queues, restartVars, journalVars, workerVars, resultVars
<1>14. CASE CancelGlobal
  BY <1>14, <1>0 DEF CancelGlobal, WithoutCancelled, restartVars, journalVars, workerVars,
     resultVars, processVars
<1>15. CASE CancelSwamps
  BY <1>15, <1>0 DEF CancelSwamps, WithoutCancelled, restartVars, journalVars, workerVars,
     resultVars, processVars
<1>16. CASE CancelJournal
  BY <1>16, <1>0 DEF CancelJournal, JournalsCancel, JournalAppend, queues, restartVars,
     workerVars, resultVars, processVars
<1>17. CASE CancelClear
  BY <1>17, <1>0 DEF CancelClear, queues, restartVars, journalVars, workerVars, resultVars,
     processVars
<1>18. CASE CancelPublish
  BY <1>18, <1>0 DEF CancelPublish, Record, queues, restartVars, journalVars, workerVars,
     processVars
<1>19. CASE RestartDrain
  BY <1>19, <1>0 DEF RestartDrain, Restart, Event, Waiting, cancelVars, journalVars, resultVars
<1>20. CASE RestartPush
  BY <1>20, <1>0 DEF RestartPush, Restart, PushedBack, cancelVars, journalVars, workerVars,
     resultVars, processVars
<1>21. CASE RestartBump \/ RestartKill \/ RestartSpawn
  BY <1>21, <1>0, Zenon DEF RestartBump, Restart, RestartKill, RestartSpawn, queues,
     cancelVars, journalVars, workerVars, resultVars, processVars
<1>22. CASE DrainBegin \/ DrainQueue \/ DrainSwamps \/ DrainTimeout \/ Resume
  BY <1>22, <1>0, Zenon DEF DrainBegin, Drain, Event, DrainQueue, DrainSwamps, DrainTimeout,
     Resume, queues, cancelVars, restartVars, journalVars, workerVars, resultVars
<1>23. CASE Crash \/ Replace
  <2>1. journal' \subseteq Exec /\ blotted' \subseteq Exec
    <3>1. CASE UNCHANGED journalVars
      BY <1>0, <3>1 DEF journalVars
    <3>2. ASSUME NEW a \in Appending, TornWrite(a)
          PROVE  journal' \subseteq Exec /\ blotted' \subseteq Exec
      <4>1. a[1] \in Exec
        <5>1. CASE \E x \in Exec : a = <<x, TRUE>>
          BY <5>1
        <5>2. CASE \E x \in Exec : a = <<x, FALSE>>
          BY <5>2
        <5> QED
          BY <1>0, <5>1, <5>2 DEF Appending
      <4> QED
        BY <1>0, <3>2, <4>1 DEF TornWrite
    <3> QED
      BY <1>23, <3>1, <3>2 DEF Crash, Replace
  <2> QED
    BY <1>0, <1>23, <2>1 DEF Crash, Replace, Recovered
<1>24. CASE UNCHANGED vars
  BY <1>24, <1>0, Zenon DEF vars, queues, cancelVars, restartVars, journalVars, workerVars,
     resultVars, processVars
<1> QED
  BY <1>1, <1>2, <1>3, <1>4, <1>5, <1>6, <1>7, <1>8, <1>9, <1>10, <1>11, <1>12, <1>13, <1>14,
     <1>15, <1>16, <1>17, <1>18, <1>19, <1>20, <1>21, <1>22, <1>23, <1>24
     DEF Next, Submit, Scheduler, Dispatcher, RunTask, CancelRest, RestartRest, DrainRest

(* The part about phases and counters.                                     *)
PhasesOK ==
  /\ sub \in [Exec -> {"new", "admitted", "live", "journaled", "returned", "lost"}]
  /\ taskGen \in [Exec -> Nat \ {0}]
  /\ stage \in [Exec -> Stages] /\ result \in [Exec -> Kinds]
  /\ outcome \in [Exec -> Kinds]
  /\ kpc \in {"idle", "global", "swamps", "journal", "clear", "publish"}
  /\ rpc \in {"idle", "push", "bump", "kill", "spawn"}
  /\ dpc \in {"idle", "queue", "swamps", "ready"}
  /\ gen \in Nat \ {0} /\ procGen \in Nat
  /\ runs \in [Exec -> Nat]
  /\ deaths \in Nat /\ events \in 0..MaxEvents

(* Phases stay in their sets and counters within their bounds.             *)
LEMMA PhasesStep ==
  ASSUME IInv, [Next]_vars
  PROVE  PhasesOK'
<1> USE DEF PhasesOK
<1>0. PhasesOK
  BY DEF IInv, TypeOK
<1>1. ASSUME NEW e \in Exec,
             Admit(e)
      PROVE  PhasesOK'
  BY <1>1, <1>0 DEF Admit, queues, cancelVars, restartVars, journalVars, workerVars,
     resultVars, processVars
<1>2. ASSUME NEW e \in Exec,
             SubmitLive(e) \/ SubmitJournal(e) \/ SubmitPush(e)
      PROVE  PhasesOK'
  BY <1>2, <1>0 DEF SubmitLive, SubmitJournal, JournalAppend, SubmitPush, queues, cancelVars,
     restartVars, journalVars, workerVars, resultVars, processVars
<1>3. CASE RebalanceDrain
  BY <1>3, <1>0, Zenon DEF RebalanceDrain, cancelVars, restartVars, journalVars, workerVars,
     resultVars, processVars
<1>4. ASSUME NEW e \in Exec, NEW s \in Swamps,
             RebalanceEnqueue(e, s) \/ Pop(s, e)
      PROVE  PhasesOK'
  BY <1>4, <1>0, Zenon DEF RebalanceEnqueue, Pop, cancelVars, restartVars, journalVars,
     workerVars, resultVars, processVars
<1>5. ASSUME NEW s \in Swamps, NEW t \in Swamps,
             Rebalance(s, t)
      PROVE  PhasesOK'
  BY <1>5, <1>0, Zenon DEF Rebalance, cancelVars, restartVars, journalVars, workerVars,
     resultVars, processVars
<1>6. ASSUME NEW s \in Swamps, NEW e \in Exec,
             Send(s, e)
      PROVE  PhasesOK'
  BY <1>6, <1>0 DEF Send, cancelVars, restartVars, journalVars, resultVars, processVars, Stages
<1>7. ASSUME NEW e \in Exec,
             RunnerStart(e)
      PROVE  PhasesOK'
  BY <1>7, <1>0 DEF RunnerStart, Worker, queues, cancelVars, restartVars, journalVars,
     resultVars, processVars, Stages, Kinds
<1>8. ASSUME NEW e \in Exec,
             Dispatch(e)
      PROVE  PhasesOK'
  BY <1>8, <1>0 DEF Dispatch, Worker, queues, cancelVars, restartVars, journalVars, resultVars,
     processVars, Stages, Kinds
<1>9. ASSUME NEW e \in Exec,
             RunnerReturn(e)
      PROVE  PhasesOK'
  BY <1>9, <1>0 DEF RunnerReturn, Worker, queues, cancelVars, restartVars, journalVars,
     resultVars, processVars, Stages, Kinds
<1>10. ASSUME NEW e \in Exec,
             Complete(e)
      PROVE  PhasesOK'
  BY <1>10, <1>0 DEF Complete, Worker, CompletedAs, queues, cancelVars, restartVars,
     journalVars, resultVars, processVars, Stages, Kinds
<1>11. ASSUME NEW e \in Exec,
             Publish(e)
      PROVE  PhasesOK'
  BY <1>11, <1>0 DEF Publish, Worker, Record, queues, cancelVars, restartVars, journalVars,
     processVars, Stages, Kinds
<1>12. ASSUME NEW e \in Exec,
             JournalDone(e)
      PROVE  PhasesOK'
  BY <1>12, <1>0 DEF JournalDone, Worker, JournalAppend, cancelVars, restartVars, resultVars,
     processVars, Stages
<1>13. ASSUME NEW e \in Exec,
             CancelMark(e)
      PROVE  PhasesOK'
  BY <1>13, <1>0, ContainerAssumption DEF CancelMark, Event, queues, restartVars, journalVars,
     workerVars, resultVars, ContainerAssumption
<1>14. CASE CancelGlobal \/ CancelSwamps
  BY <1>14, <1>0 DEF CancelGlobal, WithoutCancelled, CancelSwamps, restartVars, journalVars,
     workerVars, resultVars, processVars
<1>15. CASE CancelJournal
  BY <1>15, <1>0 DEF CancelJournal, JournalsCancel, JournalAppend, queues, restartVars,
     workerVars, resultVars, processVars
<1>16. CASE CancelClear
  BY <1>16, <1>0 DEF CancelClear, queues, restartVars, journalVars, workerVars, resultVars,
     processVars
<1>17. CASE CancelPublish
  BY <1>17, <1>0 DEF CancelPublish, Record, queues, restartVars, journalVars, workerVars,
     processVars, Kinds
<1>18. CASE RestartDrain
  BY <1>18, <1>0, ContainerAssumption DEF RestartDrain, Restart, Event, Waiting, cancelVars,
     journalVars, resultVars, ContainerAssumption, Stages
<1>19. CASE RestartPush \/ RestartBump
  BY <1>19, <1>0 DEF RestartPush, Restart, PushedBack, RestartBump, queues, cancelVars,
     journalVars, workerVars, resultVars, processVars
<1>20. CASE RestartKill \/ RestartSpawn
  BY <1>20, <1>0 DEF RestartKill, Restart, RestartSpawn, queues, cancelVars, journalVars,
     workerVars, resultVars, processVars
<1>21. CASE DrainBegin
  BY <1>21, <1>0, ContainerAssumption DEF DrainBegin, Drain, Event, queues, cancelVars,
     restartVars, journalVars, workerVars, resultVars, ContainerAssumption
<1>22. CASE DrainQueue \/ DrainSwamps \/ DrainTimeout \/ Resume
  BY <1>22, <1>0 DEF DrainQueue, Drain, DrainSwamps, DrainTimeout, Resume, queues, cancelVars,
     restartVars, journalVars, workerVars, resultVars
<1>23. CASE Crash
  <2>1. events' \in 0..MaxEvents
    BY <1>0, <1>23, ContainerAssumption DEF Crash, Event, ContainerAssumption
  <2> QED
    BY <1>0, <1>23, <2>1 DEF Crash, Recovered, Stages, Kinds
<1>24. CASE Replace
  BY <1>24, <1>0 DEF Replace, Recovered, journalVars, Stages, Kinds
<1>25. CASE UNCHANGED vars
  BY <1>25, <1>0, Zenon DEF vars, queues, cancelVars, restartVars, journalVars, workerVars,
     resultVars, processVars
<1> QED
  BY <1>1, <1>2, <1>3, <1>4, <1>5, <1>6, <1>7, <1>8, <1>9, <1>10, <1>11, <1>12, <1>13, <1>14,
     <1>15, <1>16, <1>17, <1>18, <1>19, <1>20, <1>21, <1>22, <1>23, <1>24, <1>25
     DEF Next, Submit, Scheduler, Dispatcher, RunTask, CancelRest, RestartRest, DrainRest

(* The type invariant is inductive with these.                             *)
LEMMA TypeStep ==
  ASSUME IInv, [Next]_vars
  PROVE  TypeOK'
  BY FlagsStep, ResultsStep, SetsStep, PhasesStep DEF TypeOK, FlagsOK, ResultsOK, SetsOK, PhasesOK

(* No step puts an execution into a second place.                           *)
LEMMA DisjointStep ==
  ASSUME IInv, [Next]_vars
  PROVE  DisjointInv'
<1>0. SetsOK /\ DisjointInv
  BY DEF IInv, TypeOK, SetsOK
<1>1. ASSUME NEW e \in Exec,
             Admit(e) \/ SubmitLive(e) \/ SubmitJournal(e)
      PROVE  DisjointInv'
  BY <1>1, <1>0, Zenon DEF Admit, SubmitLive, SubmitJournal, JournalAppend, queues, cancelVars,
     restartVars, journalVars, workerVars, resultVars, processVars, DisjointInv, At, Listed
<1>2. ASSUME NEW e \in Exec,
             SubmitPush(e)
      PROVE  DisjointInv'
  <2>1. ~Queued(e) /\ ~Running(e)
    BY <1>2 DEF IInv, LifeInv, Early, SubmitPush
  <2> QED
    BY <1>0, <1>2, <2>1 DEF SubmitPush, restartVars, Queued, Running, DisjointInv, At, Listed, SetsOK
<1>3. CASE RebalanceDrain
  BY <1>3, <1>0 DEF RebalanceDrain, cancelVars, restartVars, journalVars, workerVars,
     resultVars, processVars, DisjointInv, At, Listed, SetsOK
<1>4. ASSUME NEW e \in Exec, NEW s \in Swamps,
             RebalanceEnqueue(e, s)
      PROVE  DisjointInv'
  BY <1>4, <1>0 DEF RebalanceEnqueue, cancelVars, restartVars, journalVars, workerVars,
     resultVars, processVars, DisjointInv, At, Listed, SetsOK
<1>5. ASSUME NEW s \in Swamps, NEW e \in Exec,
             Pop(s, e)
      PROVE  DisjointInv'
  BY <1>5, <1>0 DEF Pop, cancelVars, restartVars, journalVars, workerVars, resultVars,
     processVars, DisjointInv, At, Listed, SetsOK
<1>6. ASSUME NEW s \in Swamps, NEW t \in Swamps,
             Rebalance(s, t)
      PROVE  DisjointInv'
  BY <1>6, <1>0 DEF Rebalance, cancelVars, restartVars, journalVars, workerVars, resultVars,
     processVars, DisjointInv, At, Listed, SetsOK
<1>7. ASSUME NEW s \in Swamps, NEW e \in Exec,
             Send(s, e)
      PROVE  DisjointInv'
  BY <1>7, <1>0 DEF Send, cancelVars, restartVars, journalVars, resultVars, processVars,
     DisjointInv, At, Listed, SetsOK
<1>8. ASSUME NEW e \in Exec,
             RunnerStart(e) \/ Dispatch(e) \/ RunnerReturn(e) \/ Complete(e)
               \/ Publish(e)
      PROVE  DisjointInv'
  BY <1>8, <1>0, Zenon DEF RunnerStart, Worker, Dispatch, RunnerReturn, Complete, CompletedAs,
     Publish, Record, queues, cancelVars, restartVars, journalVars, resultVars, processVars,
     DisjointInv, At, Listed
<1>9. ASSUME NEW e \in Exec,
             JournalDone(e)
      PROVE  DisjointInv'
  BY <1>9, <1>0 DEF JournalDone, Worker, JournalAppend, cancelVars, restartVars, resultVars,
     processVars, DisjointInv, At, Listed, SetsOK
<1>10. ASSUME NEW e \in Exec,
             CancelMark(e)
      PROVE  DisjointInv'
  BY <1>10, <1>0, Zenon DEF CancelMark, Event, queues, restartVars, journalVars, workerVars,
     resultVars, DisjointInv, At, Listed
<1>11. CASE CancelGlobal
  BY <1>11, <1>0 DEF CancelGlobal, WithoutCancelled, restartVars, journalVars, workerVars,
     resultVars, processVars, DisjointInv, At, Listed, SetsOK
<1>12. CASE CancelSwamps
  BY <1>12, <1>0 DEF CancelSwamps, WithoutCancelled, restartVars, journalVars, workerVars,
     resultVars, processVars, DisjointInv, At, Listed, SetsOK
<1>13. CASE CancelJournal \/ CancelClear \/ CancelPublish
  BY <1>13, <1>0, Zenon DEF CancelJournal, JournalsCancel, JournalAppend, CancelClear,
     CancelPublish, Record, queues, restartVars, journalVars, workerVars, resultVars,
     processVars, DisjointInv, At, Listed
<1>14. CASE RestartDrain
  BY <1>14, <1>0 DEF RestartDrain, Restart, Event, Waiting, cancelVars, journalVars,
     resultVars, DisjointInv, At, Listed, SetsOK
<1>15. CASE RestartPush
  BY <1>15, <1>0 DEF RestartPush, Restart, PushedBack, cancelVars, journalVars, workerVars,
     resultVars, processVars, DisjointInv, At, Listed, SetsOK
<1>16. CASE RestartBump \/ RestartKill \/ RestartSpawn
  BY <1>16, <1>0 DEF RestartBump, Restart, RestartKill, RestartSpawn, queues, cancelVars,
     journalVars, workerVars, resultVars, processVars, DisjointInv, At, Listed
<1>17. CASE DrainBegin \/ DrainQueue \/ DrainSwamps \/ DrainTimeout \/ Resume
  BY <1>17, <1>0, Zenon DEF DrainBegin, Drain, Event, DrainQueue, DrainSwamps, DrainTimeout,
     Resume, queues, cancelVars, restartVars, journalVars, workerVars, resultVars, DisjointInv,
     At, Listed
<1>18. CASE Crash \/ Replace
  <2>1. drained' = {} /\ requeue' = {} /\ orphans' = {} /\ rpc' = "idle"
    BY <1>18 DEF Crash, Replace, Recovered
  <2>2. \A s \in Swamps : swampQueue'[s] = {} /\ hand'[s] = {} /\ busy'[s] = {}
    BY <1>18 DEF Crash, Replace, Recovered
  <2> QED
    BY <2>1, <2>2 DEF DisjointInv, At, Listed
<1>19. CASE UNCHANGED vars
  BY <1>19, <1>0, Zenon DEF vars, queues, cancelVars, restartVars, journalVars, workerVars,
     resultVars, processVars, DisjointInv, At, Listed
<1> QED
  BY <1>1, <1>2, <1>3, <1>4, <1>5, <1>6, <1>7, <1>8, <1>9, <1>10, <1>11, <1>12, <1>13, <1>14,
     <1>15, <1>16, <1>17, <1>18, <1>19
     DEF Next, Submit, Scheduler, Dispatcher, RunTask, CancelRest, RestartRest, DrainRest

(* Where a death of the process leaves the journal: it keeps what it had,  *)
(* but for the execution of the last event and the one torn before it.     *)
LEMMA CrashJournal ==
  ASSUME IInv, Crash \/ Replace
  PROVE  /\ \A x \in journal' : x \in journal \/ sub[x] \in {"live", "returned", "lost"}
         /\ journal' \subseteq Exec
         /\ tail' # NoTail => sub[tail'[1]] \in {"live", "returned", "lost"} /\ tail'[1] \in Exec
<1>0. TypeOK /\ LifeInv /\ JournalInv /\ CancelInv
  BY DEF IInv
<1>1. CASE UNCHANGED journalVars
  BY <1>0, <1>1 DEF journalVars, JournalInv, TypeOK
<1>2. ASSUME NEW a \in Appending, TornWrite(a)
      PROVE  /\ \A x \in journal' : x \in journal \/ sub[x] \in {"live", "returned", "lost"}
             /\ journal' \subseteq Exec
             /\ tail' # NoTail => sub[tail'[1]] \in {"live", "returned", "lost"} /\ tail'[1] \in Exec
  <2>0. tail # NoTail => tail[1] \in Exec /\ sub[tail[1]] \in {"returned", "lost"}
    BY <1>0 DEF TypeOK, JournalInv
  <2>1. a[1] \in Exec /\ sub[a[1]] \in {"live", "returned", "lost"}
    <3>1. ASSUME NEW x \in Exec, sub[x] = "live", a = <<x, TRUE>>
          PROVE  a[1] \in Exec /\ sub[a[1]] \in {"live", "returned", "lost"}
      BY <3>1
    <3>2. ASSUME NEW x \in Exec, stage[x] = "journal", a = <<x, FALSE>>
          PROVE  a[1] \in Exec /\ sub[a[1]] \in {"live", "returned", "lost"}
      <4>1. sub[x] \in {"returned", "lost"}
        BY <1>0, <3>2 DEF LifeInv, Early, TypeOK
      <4> QED
        BY <3>2, <4>1
    <3>3. ASSUME NEW x \in kexec, kpc = "journal", a = <<x, FALSE>>
          PROVE  a[1] \in Exec /\ sub[a[1]] \in {"live", "returned", "lost"}
      <4>1. x \in Exec /\ sub[x] = "returned"
        BY <1>0, <3>3 DEF CancelInv
      <4> QED
        BY <3>3, <4>1
    <3> QED
      BY <3>1, <3>2, <3>3 DEF Appending
  <2> QED
    BY <1>0, <1>2, <2>0, <2>1 DEF TornWrite, TypeOK
<1> QED
  BY <1>1, <1>2 DEF Crash, Replace

(* The life of an execution takes one way through queues and worker.       *)
LEMMA LifeStep ==
  ASSUME IInv, [Next]_vars
  PROVE  LifeInv'
<1>0. SetsOK /\ PhasesOK /\ DisjointInv /\ LifeInv
  BY DEF IInv, TypeOK, SetsOK, PhasesOK
<1>t. tail # NoTail => sub[tail[1]] \in {"returned", "lost"} /\ tail[1] \in Exec
  BY DEF IInv, JournalInv, TypeOK
<1>c. CancelInv
  BY DEF IInv
<1>1. ASSUME NEW e \in Exec,
             Admit(e)
      PROVE  LifeInv'
  BY <1>1, <1>0 DEF Admit, queues, cancelVars, restartVars, journalVars, workerVars,
     resultVars, processVars, PhasesOK, LifeInv, Queued, Running, Early, Over
<1>2. ASSUME NEW e \in Exec,
             SubmitLive(e)
      PROVE  LifeInv'
  BY <1>2, <1>0 DEF SubmitLive, queues, cancelVars, restartVars, journalVars, workerVars,
     resultVars, processVars, PhasesOK, LifeInv, Queued, Running, Early, Over
<1>3. ASSUME NEW e \in Exec,
             SubmitJournal(e)
      PROVE  LifeInv'
  BY <1>3, <1>0, <1>t DEF SubmitJournal, JournalAppend, queues, cancelVars, restartVars,
     workerVars, resultVars, processVars, PhasesOK, LifeInv, Queued, Running, Early, Over
<1>4. ASSUME NEW e \in Exec,
             SubmitPush(e)
      PROVE  LifeInv'
  BY <1>4, <1>0 DEF SubmitPush, cancelVars, restartVars, journalVars, workerVars, resultVars,
     processVars, PhasesOK, LifeInv, Queued, Running, Early, Over
<1>5. CASE RebalanceDrain
  BY <1>5, <1>0 DEF RebalanceDrain, cancelVars, restartVars, journalVars, workerVars,
     resultVars, processVars, LifeInv, Queued, Running, Early, Over
<1>6. ASSUME NEW e \in Exec, NEW s \in Swamps,
             RebalanceEnqueue(e, s)
      PROVE  LifeInv'
  BY <1>6, <1>0 DEF RebalanceEnqueue, cancelVars, restartVars, journalVars, workerVars,
     resultVars, processVars, SetsOK, LifeInv, Queued, Running, Early, Over
<1>7. ASSUME NEW s \in Swamps, NEW e \in Exec,
             Pop(s, e)
      PROVE  LifeInv'
  BY <1>7, <1>0 DEF Pop, cancelVars, restartVars, journalVars, workerVars, resultVars,
     processVars, SetsOK, LifeInv, Queued, Running, Early, Over
<1>8. ASSUME NEW s \in Swamps, NEW t \in Swamps,
             Rebalance(s, t)
      PROVE  LifeInv'
  BY <1>8, <1>0 DEF Rebalance, cancelVars, restartVars, journalVars, workerVars, resultVars,
     processVars, SetsOK, LifeInv, Queued, Running, Early, Over
<1>9. ASSUME NEW s \in Swamps, NEW e \in Exec,
             Send(s, e)
      PROVE  LifeInv'
  BY <1>9, <1>0 DEF Send, cancelVars, restartVars, journalVars, resultVars, processVars,
     LifeInv, Queued, Running, Early, Over, SetsOK, PhasesOK, DisjointInv, At, Listed
<1>10. ASSUME NEW e \in Exec,
             RunnerStart(e)
      PROVE  LifeInv'
  BY <1>10, <1>0 DEF RunnerStart, Worker, queues, cancelVars, restartVars, journalVars,
     resultVars, processVars, PhasesOK, LifeInv, Queued, Running, Early, Over
<1>11. ASSUME NEW e \in Exec,
             Dispatch(e)
      PROVE  LifeInv'
  BY <1>11, <1>0 DEF Dispatch, Worker, queues, cancelVars, restartVars, journalVars,
     resultVars, processVars, PhasesOK, LifeInv, Queued, Running, Early, Over
<1>12. ASSUME NEW e \in Exec,
             RunnerReturn(e)
      PROVE  LifeInv'
  BY <1>12, <1>0 DEF RunnerReturn, Worker, queues, cancelVars, restartVars, journalVars,
     resultVars, processVars, PhasesOK, LifeInv, Queued, Running, Early, Over
<1>13. ASSUME NEW e \in Exec,
             Complete(e)
      PROVE  LifeInv'
  BY <1>13, <1>0 DEF Complete, Worker, CompletedAs, queues, cancelVars, restartVars,
     journalVars, resultVars, processVars, LifeInv, Queued, Running, Early, Over, SetsOK,
     PhasesOK, DisjointInv, At, Listed
<1>14. ASSUME NEW e \in Exec,
             Publish(e)
      PROVE  LifeInv'
  BY <1>14, <1>0 DEF Publish, Worker, Record, queues, cancelVars, restartVars, journalVars,
     processVars, PhasesOK, LifeInv, Queued, Running, Early, Over
<1>15. ASSUME NEW e \in Exec,
             JournalDone(e)
      PROVE  LifeInv'
  BY <1>15, <1>0, <1>t DEF JournalDone, Worker, JournalAppend, cancelVars, restartVars,
     resultVars, processVars, LifeInv, Queued, Running, Early, Over, SetsOK, PhasesOK
<1>16. ASSUME NEW e \in Exec,
             CancelMark(e)
      PROVE  LifeInv'
  BY <1>16, <1>0, Zenon DEF CancelMark, Event, queues, restartVars, journalVars, workerVars,
     resultVars, LifeInv, Queued, Running, Early, Over
<1>17. CASE CancelGlobal
  BY <1>17, <1>0 DEF CancelGlobal, WithoutCancelled, restartVars, journalVars, workerVars,
     resultVars, processVars, LifeInv, Queued, Running, Early, Over, SetsOK, PhasesOK
<1>18. CASE CancelSwamps
  BY <1>18, <1>0 DEF CancelSwamps, WithoutCancelled, restartVars, journalVars, workerVars,
     resultVars, processVars, LifeInv, Queued, Running, Early, Over, SetsOK, PhasesOK
<1>19. CASE CancelJournal
  BY <1>19, <1>0, <1>c, <1>t DEF CancelJournal, JournalsCancel, JournalAppend, queues,
     restartVars, workerVars, resultVars, processVars, LifeInv, Queued, Running, Early, Over,
     SetsOK, PhasesOK, CancelInv, TakenByCancel
<1>20. CASE CancelClear
  BY <1>20, <1>0, <1>c DEF CancelClear, queues, restartVars, journalVars, workerVars,
     resultVars, processVars, LifeInv, Queued, Running, Early, Over, SetsOK, PhasesOK,
     CancelInv, TakenByCancel
<1>21. CASE CancelPublish
  BY <1>21, <1>0, <1>c DEF CancelPublish, Record, queues, restartVars, journalVars, workerVars,
     processVars, LifeInv, Queued, Running, Early, Over, SetsOK, PhasesOK, CancelInv,
     TakenByCancel
<1>22. CASE RestartDrain
  BY <1>22, <1>0 DEF RestartDrain, Restart, Event, Waiting, cancelVars, journalVars,
     resultVars, LifeInv, Queued, Running, Early, Over, SetsOK, PhasesOK
<1>23. CASE RestartPush
  BY <1>23, <1>0 DEF RestartPush, Restart, PushedBack, cancelVars, journalVars, workerVars,
     resultVars, processVars, LifeInv, Queued, Running, Early, Over, SetsOK, PhasesOK
<1>24. CASE RestartBump \/ RestartKill \/ RestartSpawn
  BY <1>24, <1>0 DEF RestartBump, Restart, RestartKill, RestartSpawn, queues, cancelVars,
     journalVars, workerVars, resultVars, processVars, LifeInv, Queued, Running, Early, Over
<1>25. CASE DrainBegin \/ DrainQueue \/ DrainSwamps \/ DrainTimeout \/ Resume
  BY <1>25, <1>0, Zenon DEF DrainBegin, Drain, Event, DrainQueue, DrainSwamps, DrainTimeout,
     Resume, queues, cancelVars, restartVars, journalVars, workerVars, resultVars, LifeInv,
     Queued, Running, Early, Over
<1>26. CASE Crash \/ Replace
  <2>1. /\ orphans' = {} /\ drained' = {} /\ requeue' = {} /\ globalQueue' = journal'
        /\ \A s \in Swamps : swampQueue'[s] = {} /\ hand'[s] = {} /\ busy'[s] = {}
        /\ \A x \in Exec : stage'[x] = "none" /\ outcome'[x] = "none"
    BY <1>26 DEF Crash, Replace, Recovered
  <2>2. live' = journal' /\ acked' = acked
    BY <1>26 DEF Crash, Replace, Recovered
  <2>3. \A x \in Exec : sub'[x] = IF sub[x] \in {"new", "returned"} THEN sub[x] ELSE "lost"
    BY <1>26 DEF Crash, Replace, Recovered
  <2>4. \A x \in Exec : sub[x] = "new" => x \notin journal' /\ x \notin acked
    BY <1>0, <1>26, CrashJournal DEF LifeInv, Early
  <2> QED
    BY <1>0, <2>1, <2>2, <2>3, <2>4 DEF LifeInv, Early, Over, PhasesOK, Running, Queued
<1>27. CASE UNCHANGED vars
  BY <1>27, <1>0, Zenon DEF vars, queues, cancelVars, restartVars, journalVars, workerVars,
     resultVars, processVars, LifeInv, Queued, Running, Early, Over
<1> QED
  BY <1>1, <1>2, <1>3, <1>4, <1>5, <1>6, <1>7, <1>8, <1>9, <1>10, <1>11, <1>12, <1>13, <1>14,
     <1>15, <1>16, <1>17, <1>18, <1>19, <1>20, <1>21, <1>22, <1>23, <1>24, <1>25, <1>26, <1>27
     DEF Next, Submit, Scheduler, Dispatcher, RunTask, CancelRest, RestartRest, DrainRest

(* What the cancel call has taken is in no queue and in no worker; whatever *)
(* is live is somewhere.                                                   *)
LEMMA CancelStep ==
  ASSUME IInv, [Next]_vars
  PROVE  CancelInv'
<1>0. SetsOK /\ PhasesOK /\ DisjointInv /\ LifeInv /\ CancelInv
  BY DEF IInv, TypeOK, SetsOK, PhasesOK
<1>1. ASSUME NEW e \in Exec,
             Admit(e)
      PROVE  CancelInv'
  BY <1>1, <1>0 DEF Admit, queues, cancelVars, restartVars, journalVars, workerVars,
     resultVars, processVars, PhasesOK, CancelInv, TakenByCancel, Queued, Running, Early
<1>2. ASSUME NEW e \in Exec,
             SubmitLive(e)
      PROVE  CancelInv'
  BY <1>2, <1>0 DEF SubmitLive, queues, cancelVars, restartVars, journalVars, workerVars,
     resultVars, processVars, SetsOK, PhasesOK, CancelInv, TakenByCancel, Queued, Running,
     Early, LifeInv, Over
<1>3. ASSUME NEW e \in Exec,
             SubmitJournal(e)
      PROVE  CancelInv'
  BY <1>3, <1>0 DEF SubmitJournal, JournalAppend, queues, cancelVars, restartVars, workerVars,
     resultVars, processVars, PhasesOK, CancelInv, TakenByCancel, Queued, Running, Early
<1>4. ASSUME NEW e \in Exec,
             SubmitPush(e)
      PROVE  CancelInv'
  BY <1>4, <1>0 DEF SubmitPush, cancelVars, restartVars, journalVars, workerVars, resultVars,
     processVars, SetsOK, PhasesOK, CancelInv, TakenByCancel, Queued, Running, Early, LifeInv,
     Over
<1>5. CASE RebalanceDrain
  BY <1>5, <1>0 DEF RebalanceDrain, cancelVars, restartVars, journalVars, workerVars,
     resultVars, processVars, CancelInv, TakenByCancel, Queued, Running, Early
<1>6. ASSUME NEW e \in Exec, NEW s \in Swamps,
             RebalanceEnqueue(e, s)
      PROVE  CancelInv'
  BY <1>6, <1>0 DEF RebalanceEnqueue, cancelVars, restartVars, journalVars, workerVars,
     resultVars, processVars, SetsOK, CancelInv, TakenByCancel, Queued, Running, Early
<1>7. ASSUME NEW s \in Swamps, NEW e \in Exec,
             Pop(s, e)
      PROVE  CancelInv'
  BY <1>7, <1>0 DEF Pop, cancelVars, restartVars, journalVars, workerVars, resultVars,
     processVars, SetsOK, CancelInv, TakenByCancel, Queued, Running, Early
<1>8. ASSUME NEW s \in Swamps, NEW t \in Swamps,
             Rebalance(s, t)
      PROVE  CancelInv'
  BY <1>8, <1>0 DEF Rebalance, cancelVars, restartVars, journalVars, workerVars, resultVars,
     processVars, SetsOK, CancelInv, TakenByCancel, Queued, Running, Early
<1>9. ASSUME NEW s \in Swamps, NEW e \in Exec,
             Send(s, e)
      PROVE  CancelInv'
  <2>1. hand[s] = {e} /\ busy[s] = {}
    BY <1>0, <1>9 DEF Send, SetsOK, DisjointInv
  <2>2. \A x \in Exec : (Queued(x) \/ Running(x))' <=> Queued(x) \/ Running(x)
    BY <1>0, <1>9, <2>1 DEF Send, SetsOK, Queued, Running
  <2>3. UNCHANGED <<sub, live, kpc, kexec, kremoved, outcome>>
    BY <1>9 DEF Send, cancelVars, resultVars
  <2> QED
    BY <1>0, <2>2, <2>3 DEF CancelInv, TakenByCancel, Early, SetsOK
<1>10. ASSUME NEW e \in Exec,
             RunnerStart(e) \/ Dispatch(e) \/ RunnerReturn(e)
      PROVE  CancelInv'
  BY <1>10, <1>0 DEF RunnerStart, Worker, Dispatch, RunnerReturn, queues, cancelVars,
     restartVars, journalVars, resultVars, processVars, CancelInv, TakenByCancel, Queued,
     Running, Early
<1>11. ASSUME NEW e \in Exec,
             Complete(e)
      PROVE  CancelInv'
  BY <1>11, <1>0 DEF Complete, Worker, CompletedAs, queues, cancelVars, restartVars,
     journalVars, resultVars, processVars, SetsOK, PhasesOK, CancelInv, TakenByCancel, Queued,
     Running, Early, LifeInv, Over
<1>12. ASSUME NEW e \in Exec,
             Publish(e)
      PROVE  CancelInv'
  BY <1>12, <1>0 DEF Publish, Worker, Record, queues, cancelVars, restartVars, journalVars,
     processVars, SetsOK, PhasesOK, CancelInv, TakenByCancel, Queued, Running, Early, LifeInv,
     Over
<1>13. ASSUME NEW e \in Exec,
             JournalDone(e)
      PROVE  CancelInv'
  BY <1>13, <1>0 DEF JournalDone, Worker, JournalAppend, cancelVars, restartVars, resultVars,
     processVars, SetsOK, PhasesOK, CancelInv, TakenByCancel, Queued, Running, Early, LifeInv,
     Over
<1>14. ASSUME NEW e \in Exec,
             CancelMark(e)
      PROVE  CancelInv'
  BY <1>14, <1>0 DEF CancelMark, Event, queues, restartVars, journalVars, workerVars,
     resultVars, SetsOK, PhasesOK, CancelInv, TakenByCancel, Queued, Running, Early, LifeInv,
     Over
<1>15. CASE CancelGlobal
  <2>1. PICK e \in Exec : kexec = {e} /\ sub[e] = "returned"
    BY <1>0, <1>15 DEF CancelInv, CancelGlobal
  <2>2. /\ globalQueue' = globalQueue \ {e} /\ kremoved' = (e \in globalQueue)
        /\ kpc' = "swamps" /\ kexec' = kexec
        /\ UNCHANGED <<sub, live, drained, swampQueue, hand, busy, orphans, requeue, outcome>>
    BY <1>15, <2>1 DEF CancelGlobal, WithoutCancelled, resultVars
  <2>3. e \in globalQueue => e \in live /\ outcome[e] = "none" /\ ~Running(e)
    BY <1>0 DEF LifeInv, Queued, Running, DisjointInv, At, Listed
  <2>4. CASE e \in globalQueue
    <3>2. ~Queued(e)' /\ ~Running(e)'
      BY <1>0, <2>2, <2>3, <2>4 DEF Queued, Running, DisjointInv, At, Listed
    <3>3. \A x \in Exec : x # e => (Queued(x)' <=> Queued(x)) /\ (Running(x)' <=> Running(x))
      BY <2>2 DEF Queued, Running
    <3>4. \A x \in Exec : x # e => ~TakenByCancel(x) /\ ~TakenByCancel(x)'
      BY <2>1, <2>2 DEF TakenByCancel
    <3>5. TakenByCancel(e)'
      BY <2>1, <2>2, <2>4 DEF TakenByCancel
    <3> QED
      BY <1>0, <2>1, <2>2, <2>3, <2>4, <3>2, <3>3, <3>4, <3>5 DEF CancelInv, Early, SetsOK
  <2>5. CASE e \notin globalQueue
    <3>1. globalQueue' = globalQueue /\ ~kremoved'
      BY <2>2, <2>5
    <3> QED
      BY <1>0, <2>1, <2>2, <3>1, <1>15 DEF CancelGlobal, CancelInv, TakenByCancel, Queued, Running, Early, SetsOK
  <2> QED
    BY <2>4, <2>5
<1>16. CASE CancelSwamps
  <2>1. PICK e \in Exec : kexec = {e} /\ sub[e] = "returned"
    BY <1>0, <1>16 DEF CancelInv, CancelSwamps
  <2>2. /\ \A s \in Swamps : swampQueue'[s] = swampQueue[s] \ {e}
        /\ kremoved' = (kremoved \/ \E s \in Swamps : e \in swampQueue[s])
        /\ kpc = "swamps" /\ kpc' = "journal" /\ kexec' = kexec
        /\ UNCHANGED <<sub, live, globalQueue, drained, hand, busy, orphans, requeue, outcome>>
    BY <1>0, <1>16, <2>1 DEF CancelSwamps, WithoutCancelled, resultVars, SetsOK
  <2>3. CASE \E s \in Swamps : e \in swampQueue[s]
    <3>1. e \in live /\ outcome[e] = "none" /\ ~Running(e)
      BY <1>0, <2>3 DEF LifeInv, Queued, Running, DisjointInv, At, Listed
    <3>2. ~Queued(e)' /\ ~Running(e)'
      BY <1>0, <2>2, <2>3, <3>1 DEF Queued, Running, DisjointInv, At, Listed
    <3>3. \A x \in Exec : x # e => (Queued(x)' <=> Queued(x)) /\ (Running(x)' <=> Running(x))
      BY <2>2 DEF Queued, Running
    <3>4. \A x \in Exec : x # e => ~TakenByCancel(x) /\ ~TakenByCancel(x)'
      BY <2>1, <2>2 DEF TakenByCancel
    <3>5. TakenByCancel(e)'
      BY <2>1, <2>2, <2>3 DEF TakenByCancel
    <3> QED
      BY <1>0, <2>1, <2>2, <3>1, <3>2, <3>3, <3>4, <3>5 DEF CancelInv, Early, SetsOK
  <2>4. CASE ~\E s \in Swamps : e \in swampQueue[s]
    <3>1. \A x \in Exec : (Queued(x)' <=> Queued(x)) /\ (Running(x)' <=> Running(x))
      BY <2>2, <2>4 DEF Queued, Running
    <3>2. kremoved' <=> kremoved
      BY <2>2, <2>4
    <3>3. \A x \in Exec : TakenByCancel(x)' <=> TakenByCancel(x)
      BY <2>2, <3>2 DEF TakenByCancel
    <3> QED
      BY <1>0, <2>1, <2>2, <3>1, <3>2, <3>3 DEF CancelInv, Early, SetsOK
  <2> QED
    BY <2>3, <2>4
<1>17. CASE CancelJournal
  BY <1>17, <1>0 DEF CancelJournal, JournalsCancel, JournalAppend, queues, restartVars,
     workerVars, resultVars, processVars, CancelInv, TakenByCancel, Queued, Running, Early
<1>18. CASE CancelClear
  BY <1>18, <1>0 DEF CancelClear, queues, restartVars, journalVars, workerVars, resultVars,
     processVars, CancelInv, TakenByCancel, Queued, Running, Early
<1>19. CASE CancelPublish
  BY <1>19, <1>0 DEF CancelPublish, Record, queues, restartVars, journalVars, workerVars,
     processVars, SetsOK, PhasesOK, CancelInv, TakenByCancel, Queued, Running, Early, LifeInv,
     Over
<1>20. CASE RestartDrain
  <2>1. \A x \in Exec : (Queued(x) \/ Running(x))' <=> Queued(x) \/ Running(x)
    <3> SUFFICES ASSUME NEW x \in Exec
                 PROVE  (Queued(x) \/ Running(x))' <=> Queued(x) \/ Running(x)
      OBVIOUS
    <3>1. requeue = {}
      BY <1>0, <1>20 DEF RestartDrain, Restart, DisjointInv
    <3>2. x \in requeue' <=> \E s \in Swamps : x \in swampQueue[s]
      BY <1>20 DEF RestartDrain, Waiting
    <3>3. x \in orphans' <=> x \in orphans \/ \E s \in Swamps : x \in busy[s] \cup hand[s]
      BY <1>20 DEF RestartDrain
    <3>4. /\ UNCHANGED <<globalQueue, drained>>
          /\ \A s \in Swamps : swampQueue'[s] = {} /\ hand'[s] = {} /\ busy'[s] = {}
      BY <1>20 DEF RestartDrain
    <3> QED
      BY <3>1, <3>2, <3>3, <3>4 DEF Queued, Running
  <2>2. UNCHANGED <<sub, live, kpc, kexec, kremoved, outcome>>
    BY <1>20 DEF RestartDrain, cancelVars, resultVars
  <2> QED
    BY <1>0, <2>1, <2>2 DEF CancelInv, TakenByCancel, Early, SetsOK
<1>21. CASE RestartPush
  BY <1>21, <1>0 DEF RestartPush, Restart, PushedBack, cancelVars, journalVars, workerVars,
     resultVars, processVars, SetsOK, PhasesOK, CancelInv, TakenByCancel, Queued, Running, Early
<1>22. CASE RestartBump \/ RestartKill \/ RestartSpawn
  BY <1>22, <1>0 DEF RestartBump, Restart, RestartKill, RestartSpawn, queues, cancelVars,
     journalVars, workerVars, resultVars, processVars, CancelInv, TakenByCancel, Queued,
     Running, Early
<1>23. CASE DrainBegin \/ DrainQueue \/ DrainSwamps \/ DrainTimeout \/ Resume
  <2>1. UNCHANGED <<sub, live, queues, kpc, kexec, kremoved, outcome>>
    BY <1>23 DEF DrainBegin, DrainQueue, DrainSwamps, DrainTimeout, Resume, Drain, cancelVars, resultVars
  <2> QED
    BY <1>0, <2>1 DEF CancelInv, TakenByCancel, Queued, Running, Early, queues
<1>24. CASE Crash \/ Replace
  <2>1. kpc' = "idle" /\ kexec' = {} /\ live' = globalQueue'
    BY <1>24 DEF Crash, Replace, Recovered
  <2> QED
    BY <2>1 DEF CancelInv, TakenByCancel, Queued
<1>25. CASE UNCHANGED vars
  BY <1>25, <1>0, Zenon DEF vars, queues, cancelVars, restartVars, journalVars, workerVars,
     resultVars, processVars, CancelInv, TakenByCancel, Queued, Running, Early
<1> QED
  BY <1>1, <1>2, <1>3, <1>4, <1>5, <1>6, <1>7, <1>8, <1>9, <1>10, <1>11, <1>12, <1>13, <1>14,
     <1>15, <1>16, <1>17, <1>18, <1>19, <1>20, <1>21, <1>22, <1>23, <1>24, <1>25
     DEF Next, Submit, Scheduler, Dispatcher, RunTask, CancelRest, RestartRest, DrainRest

(* The journal keeps what is due and drops what was cancelled, but for what *)
(* a torn line blots out.                                                  *)
LEMMA JournalStep ==
  ASSUME IInv, [Next]_vars
  PROVE  JournalInv'
<1>0. SetsOK /\ PhasesOK /\ LifeInv /\ CancelInv /\ JournalInv
  BY DEF IInv, TypeOK, SetsOK, PhasesOK
<1>t. tail # NoTail => tail[1] \in Exec
  BY DEF IInv, TypeOK
<1>p. kpc # "idle" => \A x \in kexec : x \in cancelled \/ x \notin live
  BY DEF IInv, PromiseInv, Promised
<1>1. ASSUME NEW e \in Exec,
             Admit(e)
      PROVE  JournalInv'
  BY <1>1, <1>0, <1>t DEF Admit, queues, cancelVars, restartVars, journalVars, workerVars,
     resultVars, processVars, JournalInv, JournalFaithful, PhasesOK
<1>2. ASSUME NEW e \in Exec,
             SubmitLive(e)
      PROVE  JournalInv'
  BY <1>2, <1>0, <1>t DEF SubmitLive, queues, cancelVars, restartVars, journalVars, workerVars,
     resultVars, processVars, JournalInv, JournalFaithful, SetsOK, PhasesOK, LifeInv, Early,
     Over
<1>3. ASSUME NEW e \in Exec,
             SubmitJournal(e)
      PROVE  JournalInv'
  BY <1>3, <1>0, <1>t DEF SubmitJournal, JournalAppend, queues, cancelVars, restartVars,
     workerVars, resultVars, processVars, JournalInv, JournalFaithful, SetsOK, PhasesOK,
     LifeInv, Early, Over, CancelInv
<1>4. ASSUME NEW e \in Exec,
             SubmitPush(e)
      PROVE  JournalInv'
  BY <1>4, <1>0, <1>t DEF SubmitPush, cancelVars, restartVars, journalVars, workerVars,
     resultVars, processVars, JournalInv, JournalFaithful, PhasesOK
<1>5. CASE RebalanceDrain
  BY <1>5, <1>0, Zenon DEF RebalanceDrain, cancelVars, restartVars, journalVars, workerVars,
     resultVars, processVars, JournalInv, JournalFaithful
<1>6. ASSUME NEW e \in Exec, NEW s \in Swamps,
             RebalanceEnqueue(e, s)
      PROVE  JournalInv'
  BY <1>6, <1>0, Zenon DEF RebalanceEnqueue, cancelVars, restartVars, journalVars, workerVars,
     resultVars, processVars, JournalInv, JournalFaithful
<1>7. ASSUME NEW s \in Swamps, NEW e \in Exec,
             Pop(s, e)
      PROVE  JournalInv'
  BY <1>7, <1>0, Zenon DEF Pop, cancelVars, restartVars, journalVars, workerVars, resultVars,
     processVars, JournalInv, JournalFaithful
<1>8. ASSUME NEW s \in Swamps, NEW t \in Swamps,
             Rebalance(s, t)
      PROVE  JournalInv'
  BY <1>8, <1>0, Zenon DEF Rebalance, cancelVars, restartVars, journalVars, workerVars,
     resultVars, processVars, JournalInv, JournalFaithful
<1>9. ASSUME NEW s \in Swamps, NEW e \in Exec,
             Send(s, e)
      PROVE  JournalInv'
  BY <1>9, <1>0, Zenon DEF Send, cancelVars, restartVars, journalVars, resultVars, processVars,
     JournalInv, JournalFaithful
<1>10. ASSUME NEW e \in Exec,
             RunnerStart(e) \/ Dispatch(e) \/ RunnerReturn(e) \/ Publish(e)
      PROVE  JournalInv'
  BY <1>10, <1>0 DEF RunnerStart, Worker, Dispatch, RunnerReturn, Publish, Record, queues,
     cancelVars, restartVars, journalVars, resultVars, processVars, JournalInv, JournalFaithful
<1>11. ASSUME NEW e \in Exec,
             Complete(e)
      PROVE  JournalInv'
  BY <1>11, <1>0 DEF Complete, Worker, CompletedAs, queues, cancelVars, restartVars,
     journalVars, resultVars, processVars, JournalInv, JournalFaithful
<1>12. ASSUME NEW e \in Exec,
             JournalDone(e)
      PROVE  JournalInv'
  BY <1>12, <1>0, <1>t DEF JournalDone, Worker, JournalAppend, cancelVars, restartVars,
     resultVars, processVars, JournalInv, JournalFaithful, SetsOK, PhasesOK, LifeInv, Early,
     Over
<1>13. ASSUME NEW e \in Exec,
             CancelMark(e)
      PROVE  JournalInv'
  BY <1>13, <1>0 DEF CancelMark, Event, queues, restartVars, journalVars, workerVars,
     resultVars, JournalInv, JournalFaithful
<1>14. CASE CancelGlobal \/ CancelSwamps
  BY <1>14, <1>0 DEF CancelGlobal, WithoutCancelled, CancelSwamps, restartVars, journalVars,
     workerVars, resultVars, processVars, JournalInv, JournalFaithful
<1>15. CASE CancelJournal
  BY <1>15, <1>0, <1>t, <1>p DEF CancelJournal, JournalsCancel, JournalAppend, queues,
     restartVars, workerVars, resultVars, processVars, JournalInv, JournalFaithful, SetsOK,
     PhasesOK, CancelInv
<1>16. CASE CancelClear
  BY <1>16, <1>0, <1>t, <1>p DEF CancelClear, queues, restartVars, journalVars, workerVars,
     resultVars, processVars, JournalInv, JournalFaithful, SetsOK, PhasesOK, CancelInv
<1>17. CASE CancelPublish
  BY <1>17, <1>0, <1>t, <1>p DEF CancelPublish, Record, queues, restartVars, journalVars,
     workerVars, processVars, JournalInv, JournalFaithful, SetsOK, PhasesOK, CancelInv
<1>18. CASE RestartDrain
  BY <1>18, <1>0 DEF RestartDrain, Restart, Event, Waiting, cancelVars, journalVars,
     resultVars, JournalInv, JournalFaithful
<1>19. CASE RestartPush
  BY <1>19, <1>0 DEF RestartPush, Restart, PushedBack, cancelVars, journalVars, workerVars,
     resultVars, processVars, JournalInv, JournalFaithful
<1>20. CASE RestartBump \/ RestartKill \/ RestartSpawn
  BY <1>20, <1>0 DEF RestartBump, Restart, RestartKill, RestartSpawn, queues, cancelVars,
     journalVars, workerVars, resultVars, processVars, JournalInv, JournalFaithful
<1>21. CASE DrainBegin \/ DrainQueue \/ DrainSwamps \/ DrainTimeout \/ Resume
  <2>1. UNCHANGED <<sub, live, cancelled, journal, tail, blotted, kpc, kexec, acked>>
    BY <1>21 DEF DrainBegin, DrainQueue, DrainSwamps, DrainTimeout, Resume, Drain, cancelVars, journalVars
  <2> QED
    BY <1>0, <2>1 DEF JournalInv, JournalFaithful
<1>22. CASE Crash \/ Replace
  <2>1. kpc' = "idle" /\ kexec' = {} /\ live' = journal' /\ acked' = acked
    BY <1>22 DEF Crash, Replace, Recovered
  <2>2. \A x \in Exec : sub'[x] = IF sub[x] \in {"new", "returned"} THEN sub[x] ELSE "lost"
    BY <1>22 DEF Crash, Replace, Recovered
  <2>3. tail' # NoTail => tail'[1] \in Exec /\ sub[tail'[1]] \in {"live", "returned", "lost"}
    BY <1>22, CrashJournal
  <2>4. \A x \in Exec \ blotted' : x \in acked => x \notin journal'
    <3>1. CASE UNCHANGED journalVars
      BY <1>0, <3>1 DEF journalVars, JournalInv, JournalFaithful
    <3>2. ASSUME NEW a \in Appending, TornWrite(a)
          PROVE  \A x \in Exec \ blotted' : x \in acked => x \notin journal'
      <4>1. CASE tail # NoTail
        BY <1>0, <3>2, <4>1 DEF TornWrite, JournalInv, JournalFaithful
      <4>2. CASE tail = NoTail /\ ~a[2]
        BY <1>0, <3>2, <4>2 DEF TornWrite, JournalInv, JournalFaithful
      <4>3. CASE tail = NoTail /\ a[2]
        <5>1. PICK x \in Exec : sub[x] = "live" /\ a = <<x, TRUE>>
          <6>1. ASSUME NEW x \in Exec, a = <<x, FALSE>>
                PROVE  FALSE
            BY <4>3, <6>1
          <6>2. \/ \E x \in Exec : sub[x] = "live" /\ a = <<x, TRUE>>
                \/ \E x \in Exec : a = <<x, FALSE>>
            BY <1>0 DEF Appending, SetsOK
          <6> QED
            BY <6>1, <6>2
        <5>2. a[1] \notin acked
          BY <1>0, <5>1 DEF LifeInv, Early
        <5> QED
          BY <1>0, <3>2, <4>3, <5>2 DEF TornWrite, JournalInv, JournalFaithful
      <4> QED
        BY <4>1, <4>2, <4>3
    <3> QED
      BY <1>22, <3>1, <3>2 DEF Crash, Replace
  <2> QED
    BY <1>0, <2>1, <2>2, <2>3, <2>4 DEF JournalInv, JournalFaithful
<1>23. CASE UNCHANGED vars
  BY <1>23, <1>0, Zenon DEF vars, queues, cancelVars, restartVars, journalVars, workerVars,
     resultVars, processVars, JournalInv, JournalFaithful
<1> QED
  BY <1>1, <1>2, <1>3, <1>4, <1>5, <1>6, <1>7, <1>8, <1>9, <1>10, <1>11, <1>12, <1>13, <1>14,
     <1>15, <1>16, <1>17, <1>18, <1>19, <1>20, <1>21, <1>22, <1>23
     DEF Next, Submit, Scheduler, Dispatcher, RunTask, CancelRest, RestartRest, DrainRest

(* A death of the process is the only thing that lets an execution run again. *)
LEMMA RunsStep ==
  ASSUME IInv, [Next]_vars
  PROVE  RunsInv'
<1>0. SetsOK /\ PhasesOK /\ DisjointInv /\ LifeInv /\ RunsInv
  BY DEF IInv, TypeOK, SetsOK, PhasesOK
<1>1. ASSUME NEW e \in Exec,
             Admit(e)
      PROVE  RunsInv'
  BY <1>1, <1>0 DEF Admit, queues, cancelVars, restartVars, journalVars, workerVars,
     resultVars, processVars, RunsInv, PhasesOK
<1>2. ASSUME NEW e \in Exec,
             SubmitLive(e)
      PROVE  RunsInv'
  BY <1>2, <1>0 DEF SubmitLive, queues, cancelVars, restartVars, journalVars, workerVars,
     resultVars, processVars, RunsInv, PhasesOK
<1>3. ASSUME NEW e \in Exec,
             SubmitJournal(e)
      PROVE  RunsInv'
  BY <1>3, <1>0 DEF SubmitJournal, JournalAppend, queues, cancelVars, restartVars, workerVars,
     resultVars, processVars, RunsInv, PhasesOK
<1>4. ASSUME NEW e \in Exec,
             SubmitPush(e)
      PROVE  RunsInv'
  BY <1>4, <1>0 DEF SubmitPush, cancelVars, restartVars, journalVars, workerVars, resultVars,
     processVars, RunsInv, PhasesOK
<1>5. CASE RebalanceDrain
  BY <1>5, <1>0 DEF RebalanceDrain, cancelVars, restartVars, journalVars, workerVars,
     resultVars, processVars, RunsInv, PhasesOK
<1>6. ASSUME NEW e \in Exec, NEW s \in Swamps,
             RebalanceEnqueue(e, s)
      PROVE  RunsInv'
  BY <1>6, <1>0 DEF RebalanceEnqueue, cancelVars, restartVars, journalVars, workerVars,
     resultVars, processVars, RunsInv, PhasesOK
<1>7. ASSUME NEW s \in Swamps, NEW e \in Exec,
             Pop(s, e)
      PROVE  RunsInv'
  BY <1>7, <1>0 DEF Pop, cancelVars, restartVars, journalVars, workerVars, resultVars,
     processVars, RunsInv, PhasesOK
<1>8. ASSUME NEW s \in Swamps, NEW t \in Swamps,
             Rebalance(s, t)
      PROVE  RunsInv'
  BY <1>8, <1>0 DEF Rebalance, cancelVars, restartVars, journalVars, workerVars, resultVars,
     processVars, RunsInv, PhasesOK
<1>9. ASSUME NEW s \in Swamps, NEW e \in Exec,
             Send(s, e)
      PROVE  RunsInv'
  <2>1. ~Running(e)
    BY <1>0, <1>9 DEF Send, Running, DisjointInv, At, Listed
  <2>2. stage[e] = "none"
    BY <1>0, <2>1 DEF LifeInv
  <2>3. \A x \in Exec : stage'[x] = IF x = e THEN "start" ELSE stage[x]
    BY <1>0, <1>9 DEF Send, PhasesOK
  <2>4. UNCHANGED <<sub, live, runs, deaths>>
    BY <1>9 DEF Send, processVars
  <2> QED
    BY <1>0, <2>2, <2>3, <2>4 DEF RunsInv
<1>10. ASSUME NEW e \in Exec,
             RunnerStart(e)
      PROVE  RunsInv'
  BY <1>10, <1>0 DEF RunnerStart, Worker, queues, cancelVars, restartVars, journalVars,
     resultVars, processVars, RunsInv, PhasesOK
<1>11. ASSUME NEW e \in Exec,
             Dispatch(e)
      PROVE  RunsInv'
  BY <1>11, <1>0 DEF Dispatch, Worker, queues, cancelVars, restartVars, journalVars,
     resultVars, processVars, RunsInv, PhasesOK, LifeInv, Over, Running, SetsOK
<1>12. ASSUME NEW e \in Exec,
             RunnerReturn(e)
      PROVE  RunsInv'
  BY <1>12, <1>0 DEF RunnerReturn, Worker, queues, cancelVars, restartVars, journalVars,
     resultVars, processVars, RunsInv, PhasesOK
<1>13. ASSUME NEW e \in Exec,
             Publish(e)
      PROVE  RunsInv'
  BY <1>13, <1>0 DEF Publish, Worker, Record, queues, cancelVars, restartVars, journalVars,
     processVars, RunsInv, PhasesOK
<1>14. ASSUME NEW e \in Exec,
             Complete(e)
      PROVE  RunsInv'
  BY <1>14, <1>0 DEF Complete, Worker, CompletedAs, queues, cancelVars, restartVars,
     journalVars, resultVars, processVars, RunsInv, PhasesOK
<1>15. ASSUME NEW e \in Exec,
             JournalDone(e)
      PROVE  RunsInv'
  BY <1>15, <1>0 DEF JournalDone, Worker, JournalAppend, cancelVars, restartVars, resultVars,
     processVars, RunsInv, PhasesOK, LifeInv, Over, Running, SetsOK
<1>16. ASSUME NEW e \in Exec,
             CancelMark(e)
      PROVE  RunsInv'
  BY <1>16, <1>0 DEF CancelMark, Event, queues, restartVars, journalVars, workerVars,
     resultVars, RunsInv, PhasesOK
<1>17. CASE CancelGlobal \/ CancelSwamps
  BY <1>17, <1>0 DEF CancelGlobal, WithoutCancelled, CancelSwamps, restartVars, journalVars,
     workerVars, resultVars, processVars, RunsInv, PhasesOK
<1>18. CASE CancelJournal
  BY <1>18, <1>0 DEF CancelJournal, JournalsCancel, JournalAppend, queues, restartVars,
     workerVars, resultVars, processVars, RunsInv, PhasesOK
<1>19. CASE CancelClear
  BY <1>19, <1>0 DEF CancelClear, queues, restartVars, journalVars, workerVars, resultVars,
     processVars, RunsInv, PhasesOK
<1>20. CASE CancelPublish
  BY <1>20, <1>0 DEF CancelPublish, Record, queues, restartVars, journalVars, workerVars,
     processVars, RunsInv, PhasesOK
<1>21. CASE RestartDrain
  <2>1. ASSUME NEW x \in Exec, NEW s \in Swamps, x \in hand[s]
        PROVE  stage[x] = "none"
    <3>1. ~Running(x)
      BY <1>0, <2>1 DEF Running, DisjointInv, At, Listed
    <3> QED
      BY <1>0, <3>1 DEF LifeInv
  <2>2. \A x \in Exec : stage'[x] = stage[x] \/ (stage'[x] = "start" /\ stage[x] = "none")
    BY <1>21, <2>1 DEF RestartDrain
  <2>3. UNCHANGED <<sub, live, runs, deaths>>
    BY <1>21 DEF RestartDrain
  <2> QED
    BY <1>0, <2>2, <2>3 DEF RunsInv
<1>22. CASE RestartPush
  BY <1>22, <1>0 DEF RestartPush, Restart, PushedBack, cancelVars, journalVars, workerVars,
     resultVars, processVars, RunsInv, PhasesOK
<1>23. CASE RestartBump \/ RestartKill \/ RestartSpawn
  BY <1>23, <1>0 DEF RestartBump, Restart, RestartKill, RestartSpawn, queues, cancelVars,
     journalVars, workerVars, resultVars, processVars, RunsInv, PhasesOK
<1>24. CASE DrainBegin \/ DrainQueue \/ DrainSwamps \/ DrainTimeout \/ Resume
  <2>1. UNCHANGED <<sub, live, stage, runs, deaths>>
    BY <1>24 DEF DrainBegin, DrainQueue, DrainSwamps, DrainTimeout, Resume, Drain, workerVars
  <2> QED
    BY <1>0, <2>1 DEF RunsInv
<1>25. CASE Crash \/ Replace
  <2>1. UNCHANGED runs /\ deaths' = deaths + 1
    BY <1>25 DEF Crash, Replace
  <2> QED
    BY <1>0, <2>1 DEF RunsInv, PhasesOK
<1>26. CASE UNCHANGED vars
  BY <1>26, <1>0, Zenon DEF vars, queues, cancelVars, restartVars, journalVars, workerVars,
     resultVars, processVars, RunsInv, PhasesOK
<1> QED
  BY <1>1, <1>2, <1>3, <1>4, <1>5, <1>6, <1>7, <1>8, <1>9, <1>10, <1>11, <1>12, <1>13, <1>14,
     <1>15, <1>16, <1>17, <1>18, <1>19, <1>20, <1>21, <1>22, <1>23, <1>24, <1>25, <1>26
     DEF Next, Submit, Scheduler, Dispatcher, RunTask, CancelRest, RestartRest, DrainRest

(* What a step does to a promised answer.                                  *)
Keeps(x) ==
  /\ Promised(x) => Promised(x)'
  /\ Forgotten(x) => (Promised(x) \/ Forgotten(x))'

(* Whatever happens to an execution whose submission is over, an answer     *)
(* promised to a cancel call stays promised while the process lives.       *)
LEMMA PromiseKept ==
  ASSUME IInv, [Next]_vars, ~Crash, ~Replace, NEW x \in Exec, ~Early(x)
  PROVE  Keeps(x)
<1>0. SetsOK /\ PhasesOK /\ DisjointInv /\ LifeInv /\ CancelInv
  BY DEF IInv, TypeOK, SetsOK, PhasesOK
<1>1. ASSUME NEW e \in Exec,
             Admit(e)
      PROVE  Keeps(x)
  BY <1>1, <1>0 DEF Admit, queues, cancelVars, restartVars, journalVars, workerVars,
     resultVars, processVars, Keeps, Promised, Forgotten, TakenByCancel, Queued, Running,
     SetsOK, PhasesOK, LifeInv, Early, Over
<1>2. ASSUME NEW e \in Exec,
             SubmitLive(e)
      PROVE  Keeps(x)
  BY <1>2, <1>0 DEF SubmitLive, queues, cancelVars, restartVars, journalVars, workerVars,
     resultVars, processVars, Keeps, Promised, Forgotten, TakenByCancel, Queued, Running,
     SetsOK, PhasesOK, LifeInv, Early, Over
<1>3. ASSUME NEW e \in Exec,
             SubmitJournal(e)
      PROVE  Keeps(x)
  BY <1>3, <1>0 DEF SubmitJournal, JournalAppend, queues, cancelVars, restartVars, workerVars,
     resultVars, processVars, Keeps, Promised, Forgotten, TakenByCancel, Queued, Running,
     SetsOK, PhasesOK, LifeInv, Early, Over
<1>4. ASSUME NEW e \in Exec,
             SubmitPush(e)
      PROVE  Keeps(x)
  BY <1>4, <1>0 DEF SubmitPush, cancelVars, restartVars, journalVars, workerVars, resultVars,
     processVars, Keeps, Promised, Forgotten, TakenByCancel, Queued, Running, SetsOK, PhasesOK,
     LifeInv, Early, Over
<1>5. CASE RebalanceDrain
  BY <1>5, <1>0 DEF RebalanceDrain, cancelVars, restartVars, journalVars, workerVars,
     resultVars, processVars, Keeps, Promised, Forgotten, TakenByCancel, Queued, Running
<1>6. ASSUME NEW e \in Exec, NEW s \in Swamps,
             RebalanceEnqueue(e, s)
      PROVE  Keeps(x)
  BY <1>6, <1>0 DEF RebalanceEnqueue, cancelVars, restartVars, journalVars, workerVars,
     resultVars, processVars, Keeps, Promised, Forgotten, TakenByCancel, Queued, Running, SetsOK
<1>7. ASSUME NEW s \in Swamps, NEW e \in Exec,
             Pop(s, e)
      PROVE  Keeps(x)
  BY <1>7, <1>0 DEF Pop, cancelVars, restartVars, journalVars, workerVars, resultVars,
     processVars, Keeps, Promised, Forgotten, TakenByCancel, Queued, Running, SetsOK
<1>8. ASSUME NEW s \in Swamps, NEW t \in Swamps,
             Rebalance(s, t)
      PROVE  Keeps(x)
  BY <1>8, <1>0 DEF Rebalance, cancelVars, restartVars, journalVars, workerVars, resultVars,
     processVars, Keeps, Promised, Forgotten, TakenByCancel, Queued, Running, SetsOK
<1>9. ASSUME NEW s \in Swamps, NEW e \in Exec,
             Send(s, e)
      PROVE  Keeps(x)
  <2>1. hand[s] = {e} /\ busy[s] = {}
    BY <1>0, <1>9 DEF Send, SetsOK, DisjointInv
  <2>2. Queued(x)' \/ Running(x)' <=> Queued(x) \/ Running(x)
    BY <1>0, <1>9, <2>1 DEF Send, SetsOK, Queued, Running
  <2>3. UNCHANGED <<live, cancelled, kpc, kexec, kremoved, result, outcome, deaths>>
    BY <1>9 DEF Send, cancelVars, resultVars, processVars
  <2>4. ~Running(e)
    BY <1>0, <1>9 DEF Send, Running, DisjointInv, At, Listed
  <2>5. stage'[x] = stage[x] \/ (stage[x] = "none" /\ stage'[x] = "start")
    BY <1>0, <1>9, <2>4 DEF Send, LifeInv, PhasesOK
  <2> QED
    BY <2>2, <2>3, <2>5 DEF Keeps, Promised, Forgotten, TakenByCancel
<1>10. ASSUME NEW e \in Exec,
             RunnerStart(e)
      PROVE  Keeps(x)
  <2>1. Running(e) /\ e \in live /\ ~Over(e)
    BY <1>0, <1>10 DEF RunnerStart, Worker, LifeInv, Over
  <2>2. UNCHANGED <<live, cancelled, queues, kpc, kexec, kremoved, outcome, deaths>>
    BY <1>10 DEF RunnerStart, cancelVars, resultVars, processVars
  <2>3. \A y \in Exec : y # e => stage'[y] = stage[y] /\ result'[y] = result[y]
    BY <1>0, <1>10 DEF RunnerStart, Worker, PhasesOK
  <2>4. Queued(x)' <=> Queued(x)
    BY <2>2 DEF queues, Queued
  <2>5. Running(x)' <=> Running(x)
    BY <2>2 DEF queues, Running
  <2> QED
    BY <1>0, <2>1, <2>2, <2>3, <2>4, <2>5 DEF Keeps, Promised, Forgotten, TakenByCancel, LifeInv, Over
<1>11. ASSUME NEW e \in Exec,
             Dispatch(e)
      PROVE  Keeps(x)
  <2>1. Running(e) /\ e \in live /\ ~Over(e)
    BY <1>0, <1>11 DEF Dispatch, Worker, LifeInv, Over
  <2>2. UNCHANGED <<live, cancelled, queues, kpc, kexec, kremoved, outcome, deaths>>
    BY <1>11 DEF Dispatch, cancelVars, resultVars, processVars
  <2>3. \A y \in Exec : y # e => stage'[y] = stage[y] /\ result'[y] = result[y]
    BY <1>0, <1>11 DEF Dispatch, Worker, PhasesOK
  <2>4. Queued(x)' <=> Queued(x)
    BY <2>2 DEF queues, Queued
  <2>5. Running(x)' <=> Running(x)
    BY <2>2 DEF queues, Running
  <2> QED
    BY <1>0, <2>1, <2>2, <2>3, <2>4, <2>5 DEF Keeps, Promised, Forgotten, TakenByCancel, LifeInv, Over
<1>12. ASSUME NEW e \in Exec,
             RunnerReturn(e)
      PROVE  Keeps(x)
  <2>1. Running(e) /\ e \in live /\ ~Over(e)
    BY <1>0, <1>12 DEF RunnerReturn, Worker, LifeInv, Over
  <2>2. UNCHANGED <<live, cancelled, queues, kpc, kexec, kremoved, outcome, deaths>>
    BY <1>12 DEF RunnerReturn, cancelVars, resultVars, processVars
  <2>3. \A y \in Exec : y # e => stage'[y] = stage[y] /\ result'[y] = result[y]
    BY <1>0, <1>12 DEF RunnerReturn, Worker, PhasesOK
  <2>4. Queued(x)' <=> Queued(x)
    BY <2>2 DEF queues, Queued
  <2>5. Running(x)' <=> Running(x)
    BY <2>2 DEF queues, Running
  <2> QED
    BY <1>0, <2>1, <2>2, <2>3, <2>4, <2>5 DEF Keeps, Promised, Forgotten, TakenByCancel, LifeInv, Over
<1>13. ASSUME NEW e \in Exec,
             Complete(e)
      PROVE  Keeps(x)
  <2>1. Running(e) /\ e \in live /\ ~Queued(e)
    BY <1>0, <1>13 DEF Complete, Worker, LifeInv, Over, Queued, Running, DisjointInv, At, Listed
  <2>2. UNCHANGED <<queues, kpc, kexec, kremoved, outcome, deaths>>
    BY <1>13 DEF Complete, cancelVars, resultVars, processVars
  <2>3. \A y \in Exec : y # e => stage'[y] = stage[y] /\ result'[y] = result[y]
    BY <1>0, <1>13 DEF Complete, Worker, PhasesOK
  <2>4. Queued(x)' <=> Queued(x)
    BY <2>2 DEF queues, Queued
  <2>5. Running(x)' <=> Running(x)
    BY <2>2 DEF queues, Running
  <2>6. live' = live \ {e} /\ cancelled' = cancelled \ {e}
    BY <1>13 DEF Complete
  <2>7. stage'[e] = "publish" /\ (e \in cancelled => result'[e] = "cancelled")
    BY <1>0, <1>13 DEF Complete, Worker, CompletedAs, PhasesOK
  <2> QED
    BY <2>1, <2>2, <2>3, <2>4, <2>5, <2>6, <2>7 DEF Keeps, Promised, Forgotten, TakenByCancel
<1>14. ASSUME NEW e \in Exec,
             Publish(e)
      PROVE  Keeps(x)
  <2>1. Running(e) /\ e \notin live /\ ~TakenByCancel(e)
    BY <1>0, <1>14 DEF Publish, Worker, LifeInv, Over, CancelInv
  <2>2. UNCHANGED <<live, cancelled, queues, kpc, kexec, kremoved, deaths>>
    BY <1>14 DEF Publish, cancelVars, processVars
  <2>3. \A y \in Exec : y # e => stage'[y] = stage[y] /\ outcome'[y] = outcome[y]
    BY <1>0, <1>14 DEF Publish, Record, Worker, PhasesOK
  <2>4. Queued(x)' <=> Queued(x)
    BY <2>2 DEF queues, Queued
  <2>5. Running(x)' <=> Running(x)
    BY <2>2 DEF queues, Running
  <2>6. stage[e] = "publish" /\ stage'[e] = "journal" /\ outcome'[e] = result[e] /\ result' = result
    BY <1>0, <1>14 DEF Publish, Record, Worker, PhasesOK
  <2> QED
    BY <2>1, <2>2, <2>3, <2>4, <2>5, <2>6 DEF Keeps, Promised, Forgotten, TakenByCancel
<1>15. ASSUME NEW e \in Exec,
             JournalDone(e)
      PROVE  Keeps(x)
  <2>1. Running(e) /\ e \notin live /\ ~TakenByCancel(e) /\ ~Queued(e) /\ stage[e] = "journal"
    BY <1>0, <1>15 DEF JournalDone, Worker, LifeInv, Over, CancelInv
  <2>2. UNCHANGED <<live, cancelled, kpc, kexec, kremoved, result, outcome, deaths>>
    BY <1>15 DEF JournalDone, cancelVars, resultVars, processVars
  <2>3. \A y \in Exec : y # e => stage'[y] = stage[y]
    BY <1>0, <1>15 DEF JournalDone, Worker, PhasesOK
  <2>4. Queued(x)' <=> Queued(x)
    BY <1>15 DEF JournalDone, Queued
  <2>5. Running(x)' <=> Running(x) /\ x # e
    BY <1>15 DEF JournalDone, Running
  <2> QED
    BY <2>1, <2>2, <2>3, <2>4, <2>5 DEF Keeps, Promised, Forgotten, TakenByCancel
<1>16. ASSUME NEW e \in Exec,
             CancelMark(e)
      PROVE  Keeps(x)
  BY <1>16, <1>0 DEF CancelMark, Event, queues, restartVars, journalVars, workerVars,
     resultVars, Keeps, Promised, Forgotten, TakenByCancel, Queued, Running
<1>17. CASE CancelGlobal \/ CancelSwamps
  <2>1. Queued(x)' => Queued(x)
    BY <1>0, <1>17 DEF CancelGlobal, CancelSwamps, WithoutCancelled, Queued, SetsOK
  <2>2. Running(x)' <=> Running(x)
    BY <1>17 DEF CancelGlobal, CancelSwamps, Running
  <2>3. UNCHANGED <<live, cancelled, stage, result, outcome, deaths>> /\ kpc # "publish"
    BY <1>17 DEF CancelGlobal, CancelSwamps, workerVars, resultVars, processVars
  <2> QED
    BY <2>1, <2>2, <2>3 DEF Keeps, Promised, Forgotten, TakenByCancel
<1>18. CASE CancelJournal
  <2>1. UNCHANGED <<live, cancelled, queues, stage, result, outcome, deaths>> /\ kpc = "journal"
    BY <1>18 DEF CancelJournal, workerVars, resultVars, processVars
  <2> QED
    BY <2>1 DEF Keeps, Promised, Forgotten, TakenByCancel, queues, Queued, Running
<1>19. CASE CancelClear
  <2>1. UNCHANGED <<queues, stage, result, outcome, deaths, kexec, kremoved>>
    BY <1>19 DEF CancelClear, workerVars, resultVars, processVars
  <2>2. live' = live \ kexec /\ cancelled' = cancelled \ kexec /\ kpc = "clear" /\ kpc' = "publish" /\ kremoved
    BY <1>0, <1>19 DEF CancelClear, CancelInv
  <2>3. (Queued(x)' <=> Queued(x)) /\ (Running(x)' <=> Running(x))
    BY <2>1 DEF Queued, Running, queues
  <2> QED
    BY <2>1, <2>2, <2>3 DEF Keeps, Promised, Forgotten, TakenByCancel
<1>20. CASE CancelPublish
  <2>1. UNCHANGED <<live, cancelled, queues, stage, result, deaths>>
    BY <1>20 DEF CancelPublish, workerVars, processVars
  <2>2. PICK e \in Exec : kexec = {e}
    BY <1>0, <1>20 DEF CancelPublish, CancelInv
  <2>3. kpc = "publish" /\ kremoved /\ e \notin live
    BY <1>0, <2>2, <1>20 DEF CancelPublish, CancelInv
  <2>4. TakenByCancel(e) /\ ~Queued(e) /\ ~Running(e)
    BY <1>0, <2>2, <2>3 DEF CancelInv, TakenByCancel
  <2>5. \A y \in Exec : outcome'[y] = IF y = e THEN "cancelled" ELSE outcome[y]
    BY <1>0, <2>2, <1>20 DEF CancelPublish, Record, PhasesOK
  <2>6. (Queued(x)' <=> Queued(x)) /\ (Running(x)' <=> Running(x))
    BY <2>1 DEF Queued, Running, queues
  <2>7. stage[e] = "none"
    BY <1>0, <2>4 DEF LifeInv
  <2>8. x # e => ~TakenByCancel(x)
    BY <2>2 DEF TakenByCancel
  <2> QED
    BY <2>1, <2>3, <2>4, <2>5, <2>6, <2>7, <2>8 DEF Keeps, Promised, Forgotten
<1>21. CASE RestartDrain
  <2>1. Queued(x)' \/ Running(x)' <=> Queued(x) \/ Running(x)
    <3>1. requeue = {}
      BY <1>0, <1>21 DEF RestartDrain, Restart, DisjointInv
    <3>2. x \in requeue' <=> \E s \in Swamps : x \in swampQueue[s]
      BY <1>21 DEF RestartDrain, Waiting
    <3>3. x \in orphans' <=> x \in orphans \/ \E s \in Swamps : x \in busy[s] \cup hand[s]
      BY <1>21 DEF RestartDrain
    <3>4. /\ UNCHANGED <<globalQueue, drained>>
          /\ \A s \in Swamps : swampQueue'[s] = {} /\ hand'[s] = {} /\ busy'[s] = {}
      BY <1>21 DEF RestartDrain
    <3> QED
      BY <3>1, <3>2, <3>3, <3>4 DEF Queued, Running
  <2>2. UNCHANGED <<live, cancelled, kpc, kexec, kremoved, result, outcome, deaths>>
    BY <1>21 DEF RestartDrain, cancelVars, resultVars
  <2>3. \A s \in Swamps : x \in hand[s] => ~Running(x)
    BY <1>0 DEF Running, DisjointInv, At, Listed
  <2>4. stage'[x] = stage[x] \/ (stage[x] = "none" /\ stage'[x] = "start")
    BY <1>0, <1>21, <2>3 DEF RestartDrain, LifeInv
  <2> QED
    BY <2>1, <2>2, <2>4 DEF Keeps, Promised, Forgotten, TakenByCancel
<1>22. CASE RestartPush
  BY <1>22, <1>0 DEF RestartPush, Restart, PushedBack, cancelVars, journalVars, workerVars,
     resultVars, processVars, Keeps, Promised, Forgotten, TakenByCancel, Queued, Running
<1>23. CASE RestartBump \/ RestartKill \/ RestartSpawn
  BY <1>23, <1>0 DEF RestartBump, Restart, RestartKill, RestartSpawn, queues, cancelVars,
     journalVars, workerVars, resultVars, processVars, Keeps, Promised, Forgotten,
     TakenByCancel, Queued, Running
<1>24. CASE DrainBegin \/ DrainQueue \/ DrainSwamps \/ DrainTimeout \/ Resume
  <2>1. UNCHANGED <<live, cancelled, queues, kpc, kexec, kremoved, stage, result, outcome, deaths>>
    BY <1>24 DEF DrainBegin, DrainQueue, DrainSwamps, DrainTimeout, Resume, Drain, cancelVars,
       workerVars, resultVars
  <2> QED
    BY <2>1 DEF Keeps, Promised, Forgotten, TakenByCancel, queues, Queued, Running
<1>25. CASE Crash \/ Replace
  BY <1>25
<1>26. CASE UNCHANGED vars
  BY <1>26, <1>0 DEF vars, queues, cancelVars, restartVars, journalVars, workerVars,
     resultVars, processVars, Keeps, Promised, Forgotten, TakenByCancel, Queued, Running
<1> QED
  BY <1>1, <1>2, <1>3, <1>4, <1>5, <1>6, <1>7, <1>8, <1>9, <1>10, <1>11, <1>12, <1>13, <1>14,
     <1>15, <1>16, <1>17, <1>18, <1>19, <1>20, <1>21, <1>22, <1>23, <1>24, <1>25, <1>26
     DEF Next, Submit, Scheduler, Dispatcher, RunTask, CancelRest, RestartRest, DrainRest

(* Who may answer a cancel call, and on which execution it works.          *)
CallFrame ==
  /\ \A x \in acked' : x \in acked \/ (kpc # "idle" /\ x \in kexec)
  /\ blotted \subseteq blotted'
  /\ kpc' # "idle" => \/ kpc # "idle" /\ kexec' = kexec
                      \/ \A x \in kexec' : x \in live' /\ x \in cancelled'

(* Only the cancel call itself starts, moves and answers.                   *)
LEMMA CallStep ==
  ASSUME IInv, [Next]_vars
  PROVE  CallFrame
<1>0. SetsOK
  BY DEF IInv, TypeOK, SetsOK
<1>1. ASSUME NEW e \in Exec,
             Admit(e) \/ SubmitLive(e) \/ SubmitJournal(e) \/ SubmitPush(e)
      PROVE  CallFrame
  BY <1>1, <1>0 DEF Admit, SubmitLive, SubmitJournal, JournalAppend, SubmitPush, queues,
     cancelVars, restartVars, journalVars, workerVars, resultVars, processVars, CallFrame
<1>2. CASE RebalanceDrain
  BY <1>2, <1>0 DEF RebalanceDrain, cancelVars, restartVars, journalVars, workerVars,
     resultVars, processVars, CallFrame
<1>3. ASSUME NEW e \in Exec, NEW s \in Swamps,
             RebalanceEnqueue(e, s) \/ Pop(s, e) \/ Send(s, e)
      PROVE  CallFrame
  BY <1>3, <1>0 DEF RebalanceEnqueue, Pop, Send, cancelVars, restartVars, journalVars,
     workerVars, resultVars, processVars, CallFrame
<1>4. ASSUME NEW s \in Swamps, NEW t \in Swamps,
             Rebalance(s, t)
      PROVE  CallFrame
  BY <1>4, <1>0 DEF Rebalance, cancelVars, restartVars, journalVars, workerVars, resultVars,
     processVars, CallFrame
<1>5. ASSUME NEW e \in Exec,
             RunnerStart(e) \/ Dispatch(e) \/ RunnerReturn(e)
      PROVE  CallFrame
  BY <1>5, <1>0 DEF RunnerStart, Worker, Dispatch, RunnerReturn, queues, cancelVars,
     restartVars, journalVars, resultVars, processVars, CallFrame
<1>6. ASSUME NEW e \in Exec,
             Complete(e) \/ Publish(e)
      PROVE  CallFrame
  BY <1>6, <1>0 DEF Complete, Worker, CompletedAs, Publish, Record, queues, cancelVars,
     restartVars, journalVars, resultVars, processVars, CallFrame
<1>7. ASSUME NEW e \in Exec,
             JournalDone(e)
      PROVE  CallFrame
  BY <1>7, <1>0 DEF JournalDone, Worker, JournalAppend, cancelVars, restartVars, resultVars,
     processVars, CallFrame
<1>8. ASSUME NEW e \in Exec,
             CancelMark(e)
      PROVE  CallFrame
  BY <1>8, <1>0 DEF CancelMark, Event, queues, restartVars, journalVars, workerVars,
     resultVars, CallFrame
<1>9. CASE CancelGlobal \/ CancelSwamps
  BY <1>9, <1>0 DEF CancelGlobal, WithoutCancelled, CancelSwamps, restartVars, journalVars,
     workerVars, resultVars, processVars, CallFrame
<1>10. CASE CancelJournal
  BY <1>10, <1>0 DEF CancelJournal, JournalsCancel, JournalAppend, queues, restartVars,
     workerVars, resultVars, processVars, CallFrame
<1>11. CASE CancelClear \/ CancelPublish
  BY <1>11, <1>0 DEF CancelClear, CancelPublish, Record, queues, restartVars, journalVars,
     workerVars, resultVars, processVars, CallFrame
<1>12. CASE RestartDrain
  BY <1>12, <1>0 DEF RestartDrain, Restart, Event, Waiting, cancelVars, journalVars,
     resultVars, CallFrame
<1>13. CASE RestartPush \/ RestartBump \/ RestartKill \/ RestartSpawn
  BY <1>13, <1>0 DEF RestartPush, Restart, PushedBack, RestartBump, RestartKill, RestartSpawn,
     queues, cancelVars, journalVars, workerVars, resultVars, processVars, CallFrame
<1>14. CASE DrainBegin \/ DrainQueue \/ DrainSwamps \/ DrainTimeout \/ Resume
  <2>1. UNCHANGED <<acked, blotted, kpc, kexec>>
    BY <1>14 DEF DrainBegin, DrainQueue, DrainSwamps, DrainTimeout, Resume, Drain, cancelVars, journalVars
  <2> QED
    BY <2>1 DEF CallFrame
<1>15. CASE Crash \/ Replace
  <2>1. acked' = acked /\ kpc' = "idle" /\ blotted \subseteq blotted'
    BY <1>15 DEF Crash, Replace, Recovered, TornWrite, journalVars
  <2> QED
    BY <2>1 DEF CallFrame
<1>16. CASE UNCHANGED vars
  BY <1>16, <1>0 DEF vars, queues, cancelVars, restartVars, journalVars, workerVars,
     resultVars, processVars, CallFrame
<1> QED
  BY <1>1, <1>2, <1>3, <1>4, <1>5, <1>6, <1>7, <1>8, <1>9, <1>10, <1>11, <1>12, <1>13, <1>14,
     <1>15, <1>16
     DEF Next, Submit, Scheduler, Dispatcher, RunTask, CancelRest, RestartRest, DrainRest

(* The answer to a cancel call is promised, published, or gone with the    *)
(* process that made it.                                                   *)
LEMMA PromiseStep ==
  ASSUME IInv, [Next]_vars
  PROVE  PromiseInv'
<1>0. SetsOK /\ LifeInv /\ CancelInv /\ PromiseInv /\ CallFrame
  BY CallStep DEF IInv, TypeOK, SetsOK
<1>1. CASE ~Crash /\ ~Replace
  <2>1. \A x \in Exec : ~Early(x) => Keeps(x)
    BY <1>1, PromiseKept
  <2>2. \A x \in acked : x \in Exec /\ ~Early(x)
    BY <1>0 DEF LifeInv, SetsOK
  <2>3. kpc # "idle" => \A x \in kexec : x \in Exec /\ ~Early(x) /\ Promised(x)
    BY <1>0 DEF CancelInv, PromiseInv, Early
  <2>4. kpc # "idle" => \A x \in kexec : Promised(x)'
    BY <2>1, <2>3 DEF Keeps
  <2>5. \A x \in acked \ blotted : (Promised(x) \/ Forgotten(x))'
    <3> SUFFICES ASSUME NEW x \in acked \ blotted
                 PROVE  (Promised(x) \/ Forgotten(x))'
      OBVIOUS
    <3>1. Keeps(x) /\ (Promised(x) \/ Forgotten(x))
      BY <1>0, <2>1, <2>2 DEF PromiseInv
    <3> QED
      BY <3>1 DEF Keeps
  <2>6. \A x \in acked' \ blotted' : (Promised(x) \/ Forgotten(x))'
    BY <1>0, <2>4, <2>5 DEF CallFrame
  <2>7. kpc' # "idle" => \A x \in kexec' : Promised(x)'
    <3> SUFFICES ASSUME kpc' # "idle", NEW x \in kexec'
                 PROVE  Promised(x)'
      OBVIOUS
    <3>1. CASE kpc # "idle" /\ kexec' = kexec
      BY <2>4, <3>1
    <3>2. CASE x \in live' /\ x \in cancelled'
      BY <3>2 DEF Promised
    <3> QED
      BY <1>0, <3>1, <3>2 DEF CallFrame
  <2> QED
    BY <2>6, <2>7 DEF PromiseInv
<1>2. CASE Crash \/ Replace
  <2>1. /\ kpc' = "idle" /\ live' = journal' /\ globalQueue' = journal' /\ acked' = acked
        /\ orphans' = {} /\ drained' = {} /\ requeue' = {} /\ deaths' = deaths + 1
    BY <1>2 DEF Crash, Replace, Recovered
  <2>2. \A s \in Swamps : swampQueue'[s] = {} /\ hand'[s] = {} /\ busy'[s] = {}
    BY <1>2 DEF Crash, Replace, Recovered
  <2>3. \A x \in Exec : outcome'[x] = "none"
    BY <1>2 DEF Crash, Replace, Recovered
  <2>4. \A x \in acked' \ blotted' : x \notin journal' /\ x \in Exec
    BY <1>0, <2>1, JournalStep DEF JournalInv, JournalFaithful, SetsOK
  <2>5. deaths' > 0
    BY <2>1 DEF IInv, TypeOK
  <2> QED
    BY <2>1, <2>2, <2>3, <2>4, <2>5 DEF PromiseInv, Forgotten, Queued, Running
<1> QED
  BY <1>1, <1>2

(* The initial states.                                                     *)
LEMMA InitIInv == Init => IInv
<1> SUFFICES ASSUME Init PROVE IInv
  OBVIOUS
<1>1. results \in Seq(Exec \X Kinds) /\ Len(results) <= MaxResults
  BY EmptySeq, ContainerAssumption DEF Init, ContainerAssumption
<1>2. accepting \in BOOLEAN /\ kremoved \in BOOLEAN /\ tail = NoTail
  BY Zenon DEF Init
<1>3. SetsOK /\ PhasesOK
  BY ContainerAssumption DEF Init, SetsOK, PhasesOK, Stages, Kinds, ContainerAssumption
<1>4. TypeOK
  BY <1>1, <1>2, <1>3 DEF TypeOK, SetsOK, PhasesOK
<1>5. DisjointInv
  BY DEF Init, DisjointInv, At, Listed
<1>6. LifeInv
  BY DEF Init, LifeInv, Queued, Running, Early, Over
<1>7. CancelInv
  BY DEF Init, CancelInv, TakenByCancel
<1>8. PromiseInv
  BY DEF Init, PromiseInv
<1>9. JournalInv
  BY DEF Init, JournalInv, JournalFaithful
<1>10. RunsInv
  BY DEF Init, RunsInv
<1> QED
  BY <1>4, <1>5, <1>6, <1>7, <1>8, <1>9, <1>10 DEF IInv

(***************************************************************************)
(* The inductive invariant: it holds whatever threads, restarts and deaths *)
(* of the container process interleave.                                    *)
(***************************************************************************)
THEOREM IInvAlways == Spec => []IInv
<1>1. Init => IInv
  BY InitIInv
<1>2. IInv /\ [Next]_vars => IInv'
  BY TypeStep, DisjointStep, LifeStep, CancelStep, PromiseStep, JournalStep, RunsStep DEF IInv
<1> QED
  BY <1>1, <1>2, PTL DEF Spec
-----------------------------------------------------------------------------
(* Where an execution is, in the terms of the invariant.                   *)
LEMMA PlacesOf ==
  ASSUME NEW e \in Exec
  PROVE  /\ Lists(e) # {} <=> e \in Listed
         /\ Slots(e) # {} <=> \E s \in Swamps : e \in At(s)
         /\ Nowhere(e) <=> ~Queued(e) /\ ~Running(e)
<1>1. Lists(e) # {} <=> e \in Listed
  BY DEF Lists, Listed
<1>2. ASSUME NEW s \in Swamps, e \in At(s)
      PROVE  Slots(e) # {}
  <2>1. CASE e \in swampQueue[s]
    <3>1. <<s, "queued">> \in Slots(e)
      BY <2>1 DEF Slots
    <3> QED
      BY <3>1
  <2>2. CASE e \in hand[s]
    <3>1. <<s, "popped">> \in Slots(e)
      BY <2>2 DEF Slots
    <3> QED
      BY <3>1
  <2>3. CASE e \in busy[s]
    <3>1. <<s, "running">> \in Slots(e)
      BY <2>3 DEF Slots
    <3> QED
      BY <3>1
  <2> QED
    BY <1>2, <2>1, <2>2, <2>3 DEF At
<1>3. ASSUME NEW p \in Slots(e)
      PROVE  \E s \in Swamps : e \in At(s)
  BY DEF Slots, At
<1> QED
  BY <1>1, <1>2, <1>3 DEF Nowhere, Queued, Running, Listed, At

(* It is in one of them at most.                                           *)
LEMMA OnePlace ==
  ASSUME DisjointInv, NEW e \in Exec
  PROVE  Cardinality(Lists(e)) + Cardinality(Slots(e)) <= 1
<1>1. \A p, q \in Lists(e) : p = q
  BY DEF Lists, DisjointInv
<1>2. \A p, q \in Slots(e) : p = q
  <2> SUFFICES ASSUME NEW p \in Slots(e), NEW q \in Slots(e)
               PROVE  p = q
    OBVIOUS
  <2>1. /\ p = <<p[1], p[2]>> /\ p[1] \in Swamps /\ p[2] \in {"queued", "popped", "running"}
        /\ q = <<q[1], q[2]>> /\ q[1] \in Swamps /\ q[2] \in {"queued", "popped", "running"}
    BY DEF Slots
  <2>2. e \in At(p[1]) /\ e \in At(q[1])
    BY <2>1 DEF Slots, At
  <2>3. p[1] = q[1]
    BY <2>1, <2>2 DEF DisjointInv
  <2>4. p[2] = q[2]
    BY <2>1, <2>3 DEF Slots, DisjointInv
  <2> QED
    BY <2>1, <2>3, <2>4
<1>3. Lists(e) = {} \/ Slots(e) = {}
  BY PlacesOf DEF DisjointInv
<1>4. Lists(e) = {} \/ \E p : Lists(e) = {p}
  BY <1>1
<1>5. Slots(e) = {} \/ \E p : Slots(e) = {p}
  BY <1>2
<1>6. ASSUME NEW S, S = {} \/ \E p : S = {p}
      PROVE  Cardinality(S) \in {0, 1} /\ (S = {} => Cardinality(S) = 0)
  BY <1>6, FS_EmptySet, FS_Singleton
<1>7. Cardinality(Lists(e)) \in {0, 1} /\ (Lists(e) = {} => Cardinality(Lists(e)) = 0)
  BY <1>4, <1>6
<1>8. Cardinality(Slots(e)) \in {0, 1} /\ (Slots(e) = {} => Cardinality(Slots(e)) = 0)
  BY <1>5, <1>6
<1> QED
  BY <1>3, <1>7, <1>8

(***************************************************************************)
(* No hand-over between queues, lists and workers loses or duplicates an   *)
(* execution, with any number of Swamps and concurrent restarts.           *)
(***************************************************************************)
THEOREM ExecutionsAreHeldOnce == Spec => []HeldOnce
<1>1. IInv => HeldOnce
  <2> SUFFICES ASSUME IInv PROVE HeldOnce
    OBVIOUS
  <2>1. ASSUME NEW e \in Exec, e \in live, sub[e] \in {"returned", "lost"}
        PROVE  Nowhere(e) <=> TakenByCancel(e)
    BY <2>1, PlacesOf DEF IInv, CancelInv, Early
  <2> QED
    BY <2>1, OnePlace DEF HeldOnce, IInv
<1> QED
  BY <1>1, IInvAlways, PTL

(***************************************************************************)
(* A cancel call that returned true is answered as cancelled, or not at    *)
(* all after a death of the process, for every order of the call's steps   *)
(* with completion, dispatch and restart.                                  *)
(***************************************************************************)
THEOREM CancelIsRepresented == Spec => []CancelRepresented
<1>1. IInv => CancelRepresented
  <2> SUFFICES ASSUME IInv, NEW e \in acked \ blotted
               PROVE  /\ outcome[e] \in {"none", "cancelled"}
                      /\ Nowhere(e) /\ ~TakenByCancel(e) /\ deaths = 0 => outcome[e] = "cancelled"
    BY DEF CancelRepresented
  <2>1. e \in Exec /\ (Promised(e) \/ Forgotten(e)) /\ LifeInv /\ CancelInv
    BY DEF IInv, TypeOK, PromiseInv
  <2>2. Nowhere(e) <=> ~Queued(e) /\ ~Running(e)
    BY <2>1, PlacesOf
  <2>3. CASE Forgotten(e)
    BY <2>3 DEF Forgotten
  <2>4. CASE Promised(e)
    BY <2>1, <2>2, <2>4 DEF Promised, LifeInv, CancelInv
  <2> QED
    BY <2>1, <2>3, <2>4
<1> QED
  BY <1>1, IInvAlways, PTL

(***************************************************************************)
(* Outside torn lines the journal replays what is due and never what was   *)
(* cancelled.                                                              *)
(***************************************************************************)
THEOREM JournalIsFaithful == Spec => []JournalFaithful
<1>1. IInv => JournalFaithful
  BY DEF IInv, JournalInv
<1> QED
  BY <1>1, IInvAlways, PTL

(* Only Dispatch hands a task to the child.                                *)
LEMMA OnlyDispatchStarts ==
  ASSUME IInv, [Next]_vars, NEW x \in Exec
  PROVE  stage'[x] = "child" => stage[x] \in {"child", "dispatch"}
<1>0. PhasesOK
  BY DEF IInv, TypeOK, PhasesOK
<1>1. ASSUME NEW e \in Exec,
             Admit(e) \/ SubmitLive(e) \/ SubmitJournal(e) \/ SubmitPush(e)
      PROVE  stage'[x] = "child" => stage[x] \in {"child", "dispatch"}
  BY <1>1, <1>0 DEF Admit, SubmitLive, SubmitJournal, JournalAppend, SubmitPush, queues,
     cancelVars, restartVars, journalVars, workerVars, resultVars, processVars
<1>2. CASE RebalanceDrain
  BY <1>2, <1>0 DEF RebalanceDrain, cancelVars, restartVars, journalVars, workerVars,
     resultVars, processVars
<1>3. ASSUME NEW e \in Exec, NEW s \in Swamps,
             RebalanceEnqueue(e, s) \/ Pop(s, e)
      PROVE  stage'[x] = "child" => stage[x] \in {"child", "dispatch"}
  BY <1>3, <1>0 DEF RebalanceEnqueue, Pop, cancelVars, restartVars, journalVars, workerVars,
     resultVars, processVars
<1>4. ASSUME NEW s \in Swamps, NEW e \in Exec,
             Send(s, e)
      PROVE  stage'[x] = "child" => stage[x] \in {"child", "dispatch"}
  BY <1>4, <1>0 DEF Send, cancelVars, restartVars, journalVars, resultVars, processVars,
     PhasesOK
<1>5. ASSUME NEW s \in Swamps, NEW t \in Swamps,
             Rebalance(s, t)
      PROVE  stage'[x] = "child" => stage[x] \in {"child", "dispatch"}
  BY <1>5, <1>0 DEF Rebalance, cancelVars, restartVars, journalVars, workerVars, resultVars,
     processVars
<1>6. ASSUME NEW e \in Exec,
             RunnerStart(e)
      PROVE  stage'[x] = "child" => stage[x] \in {"child", "dispatch"}
  BY <1>6, <1>0 DEF RunnerStart, Worker, queues, cancelVars, restartVars, journalVars,
     resultVars, processVars, PhasesOK
<1>7. ASSUME NEW e \in Exec,
             Dispatch(e)
      PROVE  stage'[x] = "child" => stage[x] \in {"child", "dispatch"}
  BY <1>7, <1>0 DEF Dispatch, Worker, queues, cancelVars, restartVars, journalVars, resultVars,
     processVars, PhasesOK
<1>8. ASSUME NEW e \in Exec,
             RunnerReturn(e)
      PROVE  stage'[x] = "child" => stage[x] \in {"child", "dispatch"}
  BY <1>8, <1>0 DEF RunnerReturn, Worker, queues, cancelVars, restartVars, journalVars,
     resultVars, processVars, PhasesOK
<1>9. ASSUME NEW e \in Exec,
             Complete(e)
      PROVE  stage'[x] = "child" => stage[x] \in {"child", "dispatch"}
  BY <1>9, <1>0 DEF Complete, Worker, CompletedAs, queues, cancelVars, restartVars,
     journalVars, resultVars, processVars, PhasesOK
<1>10. ASSUME NEW e \in Exec,
             Publish(e)
      PROVE  stage'[x] = "child" => stage[x] \in {"child", "dispatch"}
  BY <1>10, <1>0 DEF Publish, Worker, Record, queues, cancelVars, restartVars, journalVars,
     processVars, PhasesOK
<1>11. ASSUME NEW e \in Exec,
             JournalDone(e)
      PROVE  stage'[x] = "child" => stage[x] \in {"child", "dispatch"}
  BY <1>11, <1>0 DEF JournalDone, Worker, JournalAppend, cancelVars, restartVars, resultVars,
     processVars, PhasesOK
<1>12. ASSUME NEW e \in Exec,
             CancelMark(e)
      PROVE  stage'[x] = "child" => stage[x] \in {"child", "dispatch"}
  BY <1>12, <1>0 DEF CancelMark, Event, queues, restartVars, journalVars, workerVars, resultVars
<1>13. CASE CancelGlobal \/ CancelSwamps \/ CancelClear
  BY <1>13, <1>0 DEF CancelGlobal, WithoutCancelled, CancelSwamps, CancelClear, queues,
     restartVars, journalVars, workerVars, resultVars, processVars
<1>14. CASE CancelJournal
  BY <1>14, <1>0 DEF CancelJournal, JournalsCancel, JournalAppend, queues, restartVars,
     workerVars, resultVars, processVars
<1>15. CASE CancelPublish
  BY <1>15, <1>0 DEF CancelPublish, Record, queues, restartVars, journalVars, workerVars,
     processVars
<1>16. CASE RestartDrain
  BY <1>16, <1>0 DEF RestartDrain, Restart, Event, Waiting, cancelVars, journalVars, resultVars
<1>17. CASE RestartPush \/ RestartBump \/ RestartKill \/ RestartSpawn
  BY <1>17, <1>0 DEF RestartPush, Restart, PushedBack, RestartBump, RestartKill, RestartSpawn,
     queues, cancelVars, journalVars, workerVars, resultVars, processVars
<1>18. CASE DrainBegin \/ DrainQueue \/ DrainSwamps \/ DrainTimeout \/ Resume
  BY <1>18 DEF DrainBegin, DrainQueue, DrainSwamps, DrainTimeout, Resume, Drain, workerVars
<1>19. CASE Crash \/ Replace
  BY <1>19, <1>0 DEF Crash, Event, TornWrite, Appending, Recovered, Replace, journalVars
<1>20. CASE UNCHANGED vars
  BY <1>20, <1>0 DEF vars, queues, cancelVars, restartVars, journalVars, workerVars,
     resultVars, processVars
<1> QED
  BY <1>1, <1>2, <1>3, <1>4, <1>5, <1>6, <1>7, <1>8, <1>9, <1>10, <1>11, <1>12, <1>13, <1>14,
     <1>15, <1>16, <1>17, <1>18, <1>19, <1>20
     DEF Next, Submit, Scheduler, Dispatcher, RunTask, CancelRest, RestartRest, DrainRest

(***************************************************************************)
(* An execution reaches the child at most once per container process, and  *)
(* never after its outcome was published.                                  *)
(***************************************************************************)
THEOREM ExecutionsStartOnce == Spec => StartsOnce
<1>1. IInv => RunsOnce
  BY DEF IInv, RunsInv, RunsOnce
<1>2. ASSUME IInv, Next, NEW e \in Exec, stage[e] # "child", stage'[e] = "child"
      PROVE  outcome[e] = "none"
  <2>1. PhasesOK /\ LifeInv
    BY <1>2 DEF IInv, TypeOK, PhasesOK
  <2>2. stage[e] = "dispatch"
    BY <1>2, OnlyDispatchStarts
  <2> QED
    BY <2>1, <2>2 DEF LifeInv, Over
<1>3. IInv /\ [Next]_vars =>
        [\A e \in Exec : stage[e] # "child" /\ stage'[e] = "child" => outcome[e] = "none"]_vars
  BY <1>2
<1> QED
  BY <1>1, <1>3, IInvAlways, PTL DEF Spec, StartsOnce
=============================================================================
