----------------------- MODULE MotherSupervisorProofs -----------------------
(***************************************************************************)
(* Proofs about the supervision of the Service Mother, for any set of       *)
(* operator requests and any saturation bound of the attempt counter.       *)
(***************************************************************************)
EXTENDS MotherSupervisor, TLAPS

(* The Boolean variables stay Boolean.                                        *)
LEMMA FlagsStep ==
  ASSUME IInv, [Next]_vars
  PROVE  workers' \in BOOLEAN /\ orphans' \in BOOLEAN /\ closing' \in BOOLEAN
<1>1. CASE UNCHANGED vars
  BY <1>1, Zenon DEF IInv, TypeOK, vars, processes, handle
<1>2. CASE MotherCrashes
  BY <1>2, Zenon DEF IInv, TypeOK, MotherCrashes, processes, handle
<1>3. CASE MotherDrained
  BY <1>3, Zenon DEF IInv, TypeOK, MotherDrained, processes, handle
<1>4. CASE WorkersExit
  BY <1>4, Zenon DEF IInv, TypeOK, WorkersExit, processes, handle
<1>5. CASE StartWorkers
  BY <1>5, Zenon DEF IInv, TypeOK, StartWorkers, processes, handle
<1>6. CASE ControlTick
  BY <1>6, Zenon DEF IInv, TypeOK, ControlTick, processes, handle
<1>7. CASE NoticeExit
  BY <1>7, Zenon DEF IInv, TypeOK, NoticeExit, EndpointOnExit, processes,
     handle
<1>8. CASE Decide
  BY <1>8, Zenon DEF IInv, TypeOK, Decide, AfterDirective,
     SaturatingIncrement, processes, handle
<1>9. CASE BackoffShutdown
  BY <1>9, Zenon DEF IInv, TypeOK, BackoffShutdown, processes, handle
<1>10. CASE BackoffOver
  BY <1>10, Zenon DEF IInv, TypeOK, BackoffOver, processes, handle
<1>11. CASE SpawnReady
  BY <1>11, Zenon DEF IInv, TypeOK, SpawnReady, processes, handle
<1>12. CASE SpawnFails
  BY <1>12, Zenon DEF IInv, TypeOK, SpawnFails, SaturatingIncrement,
     processes, handle
<1>13. CASE TakeShutdown
  BY <1>13, Zenon DEF IInv, TypeOK, TakeShutdown, processes, handle
<1>14. CASE StopRpc
  BY <1>14, Zenon DEF IInv, TypeOK, StopRpc, processes, handle
<1>15. CASE StopRpcFails
  BY <1>15, Zenon DEF IInv, TypeOK, StopRpcFails, processes, handle
<1>16. CASE MotherReaped
  BY <1>16, Zenon DEF IInv, TypeOK, MotherReaped, processes, handle
<1>17. CASE StopKills
  BY <1>17, Zenon DEF IInv, TypeOK, StopKills, processes, handle
<1>18. CASE ShutdownSent
  BY <1>18, Zenon DEF IInv, TypeOK, ShutdownSent, processes, handle
<1>19. CASE ShutdownJoined
  BY <1>19, Zenon DEF IInv, TypeOK, ShutdownJoined, processes, handle
<1>20. CASE ShutdownAborts
  BY <1>20, Zenon DEF IInv, TypeOK, ShutdownAborts, KilledOnDrop, processes,
     handle
<1>21. ASSUME NEW r \in Requests, Submit(r) \/ RequestExpires(r)
      PROVE  workers' \in BOOLEAN /\ orphans' \in BOOLEAN /\ closing' \in BOOLEAN
  BY <1>21, Zenon DEF IInv, TypeOK, Submit, RequestExpires, processes,
     handle
<1> QED
  BY <1>1, <1>2, <1>3, <1>4, <1>5, <1>6, <1>7, <1>8, <1>9, <1>10, <1>11,
     <1>12, <1>13, <1>14, <1>15, <1>16, <1>17, <1>18, <1>19, <1>20, <1>21
     DEF Next, ProcessStep, SuperviseStep, ShutdownStep

(* The other variables stay in their sets.                                    *)
LEMMA ValuesStep ==
  ASSUME IInv, [Next]_vars
  PROVE  /\ mother' \in MotherStates /\ endpoint' \in Endpoints /\ svpc' \in SupervisePcs
         /\ attempts' \in 0..AttemptCap /\ mainpc' \in MainPcs
         /\ queue' \in [Requests -> FileStates]
<1> USE AttemptAssumption DEF MotherStates, SupervisePcs, MainPcs, FileStates, Endpoints
<1>1. CASE UNCHANGED vars
  BY <1>1 DEF IInv, TypeOK, vars, processes, handle
<1>2. CASE MotherCrashes
  BY <1>2 DEF IInv, TypeOK, MotherCrashes, processes, handle
<1>3. CASE MotherDrained
  BY <1>3 DEF IInv, TypeOK, MotherDrained, processes, handle
<1>4. CASE WorkersExit
  BY <1>4 DEF IInv, TypeOK, WorkersExit, processes, handle
<1>5. CASE StartWorkers
  BY <1>5 DEF IInv, TypeOK, StartWorkers, processes, handle
<1>6. CASE ControlTick
  BY <1>6 DEF IInv, TypeOK, ControlTick, processes, handle
<1>7. CASE NoticeExit
  BY <1>7 DEF IInv, TypeOK, NoticeExit, EndpointOnExit, processes, handle
<1>8. CASE Decide
  BY <1>8 DEF IInv, TypeOK, Decide, AfterDirective, SaturatingIncrement,
     processes, handle
<1>9. CASE BackoffShutdown
  BY <1>9 DEF IInv, TypeOK, BackoffShutdown, processes, handle
<1>10. CASE BackoffOver
  BY <1>10 DEF IInv, TypeOK, BackoffOver, processes, handle
<1>11. CASE SpawnReady
  BY <1>11 DEF IInv, TypeOK, SpawnReady, processes, handle
<1>12. CASE SpawnFails
  BY <1>12 DEF IInv, TypeOK, SpawnFails, SaturatingIncrement, processes,
     handle
<1>13. CASE TakeShutdown
  BY <1>13 DEF IInv, TypeOK, TakeShutdown, processes, handle
<1>14. CASE StopRpc
  BY <1>14 DEF IInv, TypeOK, StopRpc, processes, handle
<1>15. CASE StopRpcFails
  BY <1>15 DEF IInv, TypeOK, StopRpcFails, processes, handle
<1>16. CASE MotherReaped
  BY <1>16 DEF IInv, TypeOK, MotherReaped, processes, handle
<1>17. CASE StopKills
  BY <1>17 DEF IInv, TypeOK, StopKills, processes, handle
<1>18. CASE ShutdownSent
  BY <1>18 DEF IInv, TypeOK, ShutdownSent, processes, handle
<1>19. CASE ShutdownJoined
  BY <1>19 DEF IInv, TypeOK, ShutdownJoined, processes, handle
<1>20. CASE ShutdownAborts
  BY <1>20 DEF IInv, TypeOK, ShutdownAborts, KilledOnDrop, processes, handle
<1>21. ASSUME NEW r \in Requests, Submit(r) \/ RequestExpires(r)
      PROVE  /\ mother' \in MotherStates /\ endpoint' \in Endpoints /\ svpc' \in SupervisePcs
             /\ attempts' \in 0..AttemptCap /\ mainpc' \in MainPcs
             /\ queue' \in [Requests -> FileStates]
  BY <1>21 DEF IInv, TypeOK, Submit, RequestExpires, processes, handle
<1> QED
  BY <1>1, <1>2, <1>3, <1>4, <1>5, <1>6, <1>7, <1>8, <1>9, <1>10, <1>11,
     <1>12, <1>13, <1>14, <1>15, <1>16, <1>17, <1>18, <1>19, <1>20, <1>21
     DEF Next, ProcessStep, SuperviseStep, ShutdownStep

(* Every step keeps the relations between task, process and endpoint.         *)
LEMMA LinksStep ==
  ASSUME IInv, [Next]_vars
  PROVE  LinksInv'
<1> USE AttemptAssumption DEF MotherStates, SupervisePcs, MainPcs, FileStates, Endpoints
<1>1. CASE UNCHANGED vars
  BY <1>1 DEF IInv, LinksInv, TypeOK, EndpointIsCurrent, vars, processes, handle
<1>2. CASE MotherCrashes
  BY <1>2 DEF IInv, LinksInv, TypeOK, EndpointIsCurrent, MotherCrashes, processes,
     handle
<1>3. CASE MotherDrained
  BY <1>3 DEF IInv, LinksInv, TypeOK, EndpointIsCurrent, MotherDrained, processes,
     handle
<1>4. CASE WorkersExit
  BY <1>4 DEF IInv, LinksInv, TypeOK, EndpointIsCurrent, WorkersExit, processes,
     handle
<1>5. CASE StartWorkers
  BY <1>5 DEF IInv, LinksInv, TypeOK, EndpointIsCurrent, StartWorkers, processes,
     handle
<1>6. CASE ControlTick
  BY <1>6 DEF IInv, LinksInv, TypeOK, EndpointIsCurrent, ControlTick, processes,
     handle
<1>7. CASE NoticeExit
  BY <1>7 DEF IInv, LinksInv, TypeOK, EndpointIsCurrent, NoticeExit, EndpointOnExit,
     processes, handle
<1>8. CASE Decide
  BY <1>8 DEF IInv, LinksInv, TypeOK, EndpointIsCurrent, Decide, AfterDirective,
     SaturatingIncrement, processes, handle
<1>9. CASE BackoffShutdown
  BY <1>9 DEF IInv, LinksInv, TypeOK, EndpointIsCurrent, BackoffShutdown, processes,
     handle
<1>10. CASE BackoffOver
  BY <1>10 DEF IInv, LinksInv, TypeOK, EndpointIsCurrent, BackoffOver, processes,
     handle
<1>11. CASE SpawnReady
  BY <1>11 DEF IInv, LinksInv, TypeOK, EndpointIsCurrent, SpawnReady, processes,
     handle
<1>12. CASE SpawnFails
  BY <1>12 DEF IInv, LinksInv, TypeOK, EndpointIsCurrent, SpawnFails,
     SaturatingIncrement, processes, handle
<1>13. CASE TakeShutdown
  BY <1>13 DEF IInv, LinksInv, TypeOK, EndpointIsCurrent, TakeShutdown, processes,
     handle
<1>14. CASE StopRpc
  BY <1>14 DEF IInv, LinksInv, TypeOK, EndpointIsCurrent, StopRpc, processes, handle
<1>15. CASE StopRpcFails
  BY <1>15 DEF IInv, LinksInv, TypeOK, EndpointIsCurrent, StopRpcFails, processes,
     handle
<1>16. CASE MotherReaped
  BY <1>16 DEF IInv, LinksInv, TypeOK, EndpointIsCurrent, MotherReaped, processes,
     handle
<1>17. CASE StopKills
  BY <1>17 DEF IInv, LinksInv, TypeOK, EndpointIsCurrent, StopKills, processes, handle
<1>18. CASE ShutdownSent
  BY <1>18 DEF IInv, LinksInv, TypeOK, EndpointIsCurrent, ShutdownSent, processes,
     handle
<1>19. CASE ShutdownJoined
  BY <1>19 DEF IInv, LinksInv, TypeOK, EndpointIsCurrent, ShutdownJoined, processes,
     handle
<1>20. CASE ShutdownAborts
  BY <1>20 DEF IInv, LinksInv, TypeOK, EndpointIsCurrent, ShutdownAborts,
     KilledOnDrop, processes, handle
<1>21. ASSUME NEW r \in Requests, Submit(r) \/ RequestExpires(r)
      PROVE  LinksInv'
  BY <1>21 DEF IInv, LinksInv, TypeOK, EndpointIsCurrent, Submit, RequestExpires,
     processes, handle
<1> QED
  BY <1>1, <1>2, <1>3, <1>4, <1>5, <1>6, <1>7, <1>8, <1>9, <1>10, <1>11,
     <1>12, <1>13, <1>14, <1>15, <1>16, <1>17, <1>18, <1>19, <1>20, <1>21
     DEF Next, ProcessStep, SuperviseStep, ShutdownStep

(* The supervised Mother that `spawn` leaves behind satisfies the invariant.  *)
LEMMA IInvStarts == Init => IInv
<1> SUFFICES ASSUME Init PROVE IInv
  OBVIOUS
<1>1. workers \in BOOLEAN /\ orphans \in BOOLEAN /\ closing \in BOOLEAN
  BY Zenon DEF Init
<1>2. attempts \in 0..AttemptCap /\ queue \in [Requests -> FileStates]
  BY AttemptAssumption DEF Init, FileStates
<1> QED
  BY <1>1, <1>2 DEF Init, IInv, LinksInv, TypeOK, EndpointIsCurrent, MotherStates, SupervisePcs,
     MainPcs, Endpoints

(* Every step of the task, of the processes and of main keeps it.             *)
LEMMA IInvKeeps == IInv /\ [Next]_vars => IInv'
<1> SUFFICES ASSUME IInv, [Next]_vars PROVE IInv'
  OBVIOUS
<1>1. TypeOK'
  BY FlagsStep, ValuesStep, Zenon DEF TypeOK
<1> QED
  BY <1>1, LinksStep DEF IInv

(* IInv holds initially and every step keeps it.                              *)
THEOREM IInvAlways == Spec => []IInv
  BY IInvStarts, IInvKeeps, PTL DEF Spec

(* The task, its process and the request files stay well typed, and the       *)
(* attempt counter saturates instead of overflowing.                          *)
THEOREM TypeCorrect == Spec => []TypeOK
<1>1. IInv => TypeOK
  BY DEF IInv
<1> QED
  BY <1>1, IInvAlways, PTL

(* No caller is ever sent to a Mother that was replaced.                      *)
THEOREM EndpointNeverStale == Spec => []EndpointIsCurrent
<1>1. IInv => EndpointIsCurrent
  BY DEF IInv, LinksInv
<1> QED
  BY <1>1, IInvAlways, PTL

(* Shutdown, joined or aborted, leaves no Mother process behind.              *)
THEOREM ShutdownLeavesNoMother == Spec => []NoMotherAfterShutdown
<1>1. IInv => NoMotherAfterShutdown
  BY DEF IInv, LinksInv, NoMotherAfterShutdown
<1> QED
  BY <1>1, IInvAlways, PTL
=============================================================================
