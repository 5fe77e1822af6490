------------------------ MODULE StorageJournalProofs ------------------------
(***************************************************************************)
(* Proofs about the Storage outbox of one logical path, for any number of   *)
(* writers and Cloud Node processes and any contents.  IInv is inductive    *)
(* for every interleaving, SerialInv for passes that no write overlaps.     *)
(***************************************************************************)
EXTENDS StorageJournal, TLAPS

(* Every step keeps the variables in their sets.                             *)
LEMMA TypeStep ==
  ASSUME TypeOK, HandsInv, [Next]_vars
  PROVE  TypeOK'
<1> USE LevelAssumption
<1> USE DEF WriterPcs, ConsumerPcs, Intents, LockedPcs
<1>1. CASE UNCHANGED vars
  BY <1>1 DEF TypeOK, HandsInv, vars, disk, writer, reader
<1>2. ASSUME NEW w \in Writers,
              Prepare(w) \/ WriterStep(w) \/ WriterAborts(w)
      PROVE  TypeOK'
  <2>1. CASE Prepare(w)
    BY <2>1 DEF TypeOK, HandsInv, Prepare, WriterGoes, disk, writer, reader
  <2>2. CASE LockExclusive(w)
    BY <2>2 DEF TypeOK, HandsInv, LockExclusive, WriterGoes, LockFree, disk,
       writer, reader
  <2>3. CASE Stage(w)
    BY <2>3 DEF TypeOK, HandsInv, Stage, WriterGoes, disk, writer, reader
  <2>4. CASE WriteFile(w)
    BY <2>4 DEF TypeOK, HandsInv, WriteFile, WriterGoes, disk, writer,
       reader
  <2>5. CASE WriteFileFails(w)
    BY <2>5 DEF TypeOK, HandsInv, WriteFileFails, WriterGoes, disk, writer,
       reader
  <2>6. CASE CommitSuperseded(w)
    BY <2>6 DEF TypeOK, HandsInv, CommitSuperseded, WriterLeaves, disk,
       writer, reader
  <2>7. CASE CommitCurrent(w)
    BY <2>7 DEF TypeOK, HandsInv, CommitCurrent, WriterGoes, disk, writer,
       reader
  <2>8. CASE CommitReady(w)
    BY <2>8 DEF TypeOK, HandsInv, CommitReady, WriterGoes, disk, writer,
       reader
  <2>9. CASE CommitClears(w)
    BY <2>9 DEF TypeOK, HandsInv, CommitClears, WriterLeaves, Cleared, disk,
       writer, reader
  <2>10. CASE Cancel(w)
    BY <2>10 DEF TypeOK, HandsInv, Cancel, WriterLeaves, Cleared, disk,
       writer, reader
  <2>11. CASE WriterAborts(w)
    BY <2>11 DEF TypeOK, HandsInv, WriterAborts, WriterLeaves, disk, writer,
       reader
  <2> QED
    BY <1>2, <2>1, <2>2, <2>3, <2>4, <2>5, <2>6, <2>7, <2>8, <2>9, <2>10,
       <2>11 DEF WriterStep
<1>3. ASSUME NEW c \in Consumers,
              ConsumerStep(c) \/ ConsumerAborts(c)
      PROVE  TypeOK'
  <2>1. CASE RecoverReads(c)
    BY <2>1 DEF TypeOK, HandsInv, RecoverReads, ConsumerGoes, disk, writer,
       reader
  <2>2. CASE NothingPending(c)
    BY <2>2 DEF TypeOK, HandsInv, NothingPending, ConsumerGoes, disk,
       writer, reader
  <2>3. CASE RecoverMatches(c)
    BY <2>3 DEF TypeOK, HandsInv, RecoverMatches, ConsumerGoes,
       SourceMatches, disk, writer, reader
  <2>4. CASE RecoverPromotes(c)
    BY <2>4 DEF TypeOK, HandsInv, RecoverPromotes, ConsumerGoes, disk,
       writer, reader
  <2>5. CASE RecoverCompares(c)
    BY <2>5 DEF TypeOK, HandsInv, RecoverCompares, ConsumerGoes, disk,
       writer, reader
  <2>6. CASE RecoverUnlinks(c)
    BY <2>6 DEF TypeOK, HandsInv, RecoverUnlinks, ConsumerGoes, disk,
       writer, reader
  <2>7. CASE ScanReads(c)
    BY <2>7 DEF TypeOK, HandsInv, ScanReads, ConsumerGoes, disk, writer,
       reader
  <2>8. CASE ScanEmpty(c)
    BY <2>8 DEF TypeOK, HandsInv, ScanEmpty, ConsumerEnds, disk, writer,
       reader
  <2>9. CASE ScanChecks(c)
    BY <2>9 DEF TypeOK, HandsInv, ScanChecks, ConsumerGoes, AfterCheck,
       SourceMatches, disk, writer, reader
  <2>10. CASE ScanDiscards(c)
    BY <2>10 DEF TypeOK, HandsInv, ScanDiscards, ConsumerEnds, disk, writer,
       reader
  <2>11. CASE StoreContent(c)
    BY <2>11 DEF TypeOK, HandsInv, StoreContent, ConsumerGoes, AfterStore,
       disk, writer, reader
  <2>12. CASE StoreLevel(c)
    BY <2>12 DEF TypeOK, HandsInv, StoreLevel, ConsumerGoes, ConsumerEnds,
       StoredLevel, disk, writer, reader
  <2>13. CASE AckCompares(c)
    BY <2>13 DEF TypeOK, HandsInv, AckCompares, ConsumerGoes, ConsumerEnds,
       disk, writer, reader
  <2>14. CASE AckRemoves(c)
    BY <2>14 DEF TypeOK, HandsInv, AckRemoves, ConsumerEnds, disk, writer,
       reader
  <2>15. CASE ConsumerAborts(c)
    BY <2>15 DEF TypeOK, HandsInv, ConsumerAborts, ConsumerEnds, disk,
       writer, reader
  <2> QED
    BY <1>3, <2>1, <2>2, <2>3, <2>4, <2>5, <2>6, <2>7, <2>8, <2>9, <2>10,
       <2>11, <2>12, <2>13, <2>14, <2>15 DEF ConsumerStep
<1> QED
  BY <1>1, <1>2, <1>3 DEF Next

(* A lock file has one holder and nobody works without an intent in hand.     *)
LEMMA HandsStep ==
  ASSUME TypeOK, HandsInv, [Next]_vars
  PROVE  HandsInv'
<1> USE NoIntentAssumption, NoneAssumption
<1>1. CASE UNCHANGED vars
  BY <1>1 DEF TypeOK, HandsInv, LockedPcs, vars, disk, writer, reader
<1>2. ASSUME NEW w \in Writers,
              Prepare(w) \/ WriterStep(w) \/ WriterAborts(w)
      PROVE  HandsInv'
  <2>1. CASE Prepare(w)
    BY <2>1 DEF TypeOK, HandsInv, LockedPcs, Prepare, WriterGoes, disk,
       writer, reader
  <2>2. CASE LockExclusive(w)
    BY <2>2 DEF TypeOK, HandsInv, LockedPcs, LockExclusive, WriterGoes,
       LockFree, disk, writer, reader
  <2>3. CASE Stage(w)
    BY <2>3 DEF TypeOK, HandsInv, LockedPcs, Stage, WriterGoes, disk,
       writer, reader
  <2>4. CASE WriteFile(w)
    BY <2>4 DEF TypeOK, HandsInv, LockedPcs, WriteFile, WriterGoes, disk,
       writer, reader
  <2>5. CASE WriteFileFails(w)
    BY <2>5 DEF TypeOK, HandsInv, LockedPcs, WriteFileFails, WriterGoes,
       disk, writer, reader
  <2>6. CASE CommitSuperseded(w)
    BY <2>6 DEF TypeOK, HandsInv, LockedPcs, CommitSuperseded, WriterLeaves,
       disk, writer, reader
  <2>7. CASE CommitCurrent(w)
    BY <2>7 DEF TypeOK, HandsInv, LockedPcs, CommitCurrent, WriterGoes,
       disk, writer, reader
  <2>8. CASE CommitReady(w)
    BY <2>8 DEF TypeOK, HandsInv, LockedPcs, CommitReady, WriterGoes, disk,
       writer, reader
  <2>9. CASE CommitClears(w)
    BY <2>9 DEF TypeOK, HandsInv, LockedPcs, CommitClears, WriterLeaves,
       Cleared, disk, writer, reader
  <2>10. CASE Cancel(w)
    BY <2>10 DEF TypeOK, HandsInv, LockedPcs, Cancel, WriterLeaves, Cleared,
       disk, writer, reader
  <2>11. CASE WriterAborts(w)
    BY <2>11 DEF TypeOK, HandsInv, LockedPcs, WriterAborts, WriterLeaves,
       disk, writer, reader
  <2> QED
    BY <1>2, <2>1, <2>2, <2>3, <2>4, <2>5, <2>6, <2>7, <2>8, <2>9, <2>10,
       <2>11 DEF WriterStep
<1>3. ASSUME NEW c \in Consumers,
              ConsumerStep(c) \/ ConsumerAborts(c)
      PROVE  HandsInv'
  <2>1. CASE RecoverReads(c)
    BY <2>1 DEF TypeOK, HandsInv, LockedPcs, RecoverReads, ConsumerGoes,
       disk, writer, reader
  <2>2. CASE NothingPending(c)
    BY <2>2 DEF TypeOK, HandsInv, LockedPcs, NothingPending, ConsumerGoes,
       disk, writer, reader
  <2>3. CASE RecoverMatches(c)
    BY <2>3 DEF TypeOK, HandsInv, LockedPcs, RecoverMatches, ConsumerGoes,
       SourceMatches, disk, writer, reader
  <2>4. CASE RecoverPromotes(c)
    BY <2>4 DEF TypeOK, HandsInv, LockedPcs, RecoverPromotes, ConsumerGoes,
       disk, writer, reader
  <2>5. CASE RecoverCompares(c)
    BY <2>5 DEF TypeOK, HandsInv, LockedPcs, RecoverCompares, ConsumerGoes,
       disk, writer, reader
  <2>6. CASE RecoverUnlinks(c)
    BY <2>6 DEF TypeOK, HandsInv, LockedPcs, RecoverUnlinks, ConsumerGoes,
       disk, writer, reader
  <2>7. CASE ScanReads(c)
    BY <2>7 DEF TypeOK, HandsInv, LockedPcs, ScanReads, ConsumerGoes, disk,
       writer, reader
  <2>8. CASE ScanEmpty(c)
    BY <2>8 DEF TypeOK, HandsInv, LockedPcs, ScanEmpty, ConsumerEnds, disk,
       writer, reader
  <2>9. CASE ScanChecks(c)
    BY <2>9 DEF TypeOK, HandsInv, LockedPcs, ScanChecks, ConsumerGoes,
       AfterCheck, SourceMatches, disk, writer, reader
  <2>10. CASE ScanDiscards(c)
    BY <2>10 DEF TypeOK, HandsInv, LockedPcs, ScanDiscards, ConsumerEnds,
       disk, writer, reader
  <2>11. CASE StoreContent(c)
    BY <2>11 DEF TypeOK, HandsInv, LockedPcs, StoreContent, ConsumerGoes,
       AfterStore, disk, writer, reader
  <2>12. CASE StoreLevel(c)
    BY <2>12 DEF TypeOK, HandsInv, LockedPcs, StoreLevel, ConsumerGoes,
       ConsumerEnds, StoredLevel, disk, writer, reader
  <2>13. CASE AckCompares(c)
    BY <2>13 DEF TypeOK, HandsInv, LockedPcs, AckCompares, ConsumerGoes,
       ConsumerEnds, disk, writer, reader
  <2>14. CASE AckRemoves(c)
    BY <2>14 DEF TypeOK, HandsInv, LockedPcs, AckRemoves, ConsumerEnds,
       disk, writer, reader
  <2>15. CASE ConsumerAborts(c)
    BY <2>15 DEF TypeOK, HandsInv, LockedPcs, ConsumerAborts, ConsumerEnds,
       disk, writer, reader
  <2> QED
    BY <1>3, <2>1, <2>2, <2>3, <2>4, <2>5, <2>6, <2>7, <2>8, <2>9, <2>10,
       <2>11, <2>12, <2>13, <2>14, <2>15 DEF ConsumerStep
<1> QED
  BY <1>1, <1>2, <1>3 DEF Next

(* Only the lock holder stages, and consumers only remove.                    *)
LEMMA StagedStep ==
  ASSUME IInv, [Next]_vars
  PROVE  StagedIsOurs'
<1> USE NoneAssumption
<1>1. CASE UNCHANGED vars
  BY <1>1 DEF IInv, TypeOK, HandsInv, StagedIsOurs, LockedPcs, vars, disk,
     writer, reader
<1>2. ASSUME NEW w \in Writers,
              Prepare(w) \/ WriterStep(w) \/ WriterAborts(w)
      PROVE  StagedIsOurs'
  <2>1. CASE Prepare(w)
    BY <2>1 DEF IInv, TypeOK, HandsInv, StagedIsOurs, LockedPcs, Prepare,
       WriterGoes, disk, writer, reader
  <2>2. CASE LockExclusive(w)
    BY <2>2 DEF IInv, TypeOK, HandsInv, StagedIsOurs, LockedPcs,
       LockExclusive, WriterGoes, LockFree, disk, writer, reader
  <2>3. CASE Stage(w)
    BY <2>3 DEF IInv, TypeOK, HandsInv, StagedIsOurs, LockedPcs, Stage,
       WriterGoes, disk, writer, reader
  <2>4. CASE WriteFile(w)
    BY <2>4 DEF IInv, TypeOK, HandsInv, StagedIsOurs, LockedPcs, WriteFile,
       WriterGoes, disk, writer, reader
  <2>5. CASE WriteFileFails(w)
    BY <2>5 DEF IInv, TypeOK, HandsInv, StagedIsOurs, LockedPcs,
       WriteFileFails, WriterGoes, disk, writer, reader
  <2>6. CASE CommitSuperseded(w)
    BY <2>6 DEF IInv, TypeOK, HandsInv, StagedIsOurs, LockedPcs,
       CommitSuperseded, WriterLeaves, disk, writer, reader
  <2>7. CASE CommitCurrent(w)
    BY <2>7 DEF IInv, TypeOK, HandsInv, StagedIsOurs, LockedPcs,
       CommitCurrent, WriterGoes, disk, writer, reader
  <2>8. CASE CommitReady(w)
    BY <2>8 DEF IInv, TypeOK, HandsInv, StagedIsOurs, LockedPcs,
       CommitReady, WriterGoes, disk, writer, reader
  <2>9. CASE CommitClears(w)
    BY <2>9 DEF IInv, TypeOK, HandsInv, StagedIsOurs, LockedPcs,
       CommitClears, WriterLeaves, Cleared, disk, writer, reader
  <2>10. CASE Cancel(w)
    BY <2>10 DEF IInv, TypeOK, HandsInv, StagedIsOurs, LockedPcs, Cancel,
       WriterLeaves, Cleared, disk, writer, reader
  <2>11. CASE WriterAborts(w)
    BY <2>11 DEF IInv, TypeOK, HandsInv, StagedIsOurs, LockedPcs,
       WriterAborts, WriterLeaves, disk, writer, reader
  <2> QED
    BY <1>2, <2>1, <2>2, <2>3, <2>4, <2>5, <2>6, <2>7, <2>8, <2>9, <2>10,
       <2>11 DEF WriterStep
<1>3. ASSUME NEW c \in Consumers,
              ConsumerStep(c) \/ ConsumerAborts(c)
      PROVE  StagedIsOurs'
  <2>1. CASE RecoverReads(c)
    BY <2>1 DEF IInv, TypeOK, HandsInv, StagedIsOurs, LockedPcs,
       RecoverReads, ConsumerGoes, disk, writer, reader
  <2>2. CASE NothingPending(c)
    BY <2>2 DEF IInv, TypeOK, HandsInv, StagedIsOurs, LockedPcs,
       NothingPending, ConsumerGoes, disk, writer, reader
  <2>3. CASE RecoverMatches(c)
    BY <2>3 DEF IInv, TypeOK, HandsInv, StagedIsOurs, LockedPcs,
       RecoverMatches, ConsumerGoes, SourceMatches, disk, writer, reader
  <2>4. CASE RecoverPromotes(c)
    BY <2>4 DEF IInv, TypeOK, HandsInv, StagedIsOurs, LockedPcs,
       RecoverPromotes, ConsumerGoes, disk, writer, reader
  <2>5. CASE RecoverCompares(c)
    BY <2>5 DEF IInv, TypeOK, HandsInv, StagedIsOurs, LockedPcs,
       RecoverCompares, ConsumerGoes, disk, writer, reader
  <2>6. CASE RecoverUnlinks(c)
    BY <2>6 DEF IInv, TypeOK, HandsInv, StagedIsOurs, LockedPcs,
       RecoverUnlinks, ConsumerGoes, disk, writer, reader
  <2>7. CASE ScanReads(c)
    BY <2>7 DEF IInv, TypeOK, HandsInv, StagedIsOurs, LockedPcs, ScanReads,
       ConsumerGoes, disk, writer, reader
  <2>8. CASE ScanEmpty(c)
    BY <2>8 DEF IInv, TypeOK, HandsInv, StagedIsOurs, LockedPcs, ScanEmpty,
       ConsumerEnds, disk, writer, reader
  <2>9. CASE ScanChecks(c)
    BY <2>9 DEF IInv, TypeOK, HandsInv, StagedIsOurs, LockedPcs, ScanChecks,
       ConsumerGoes, AfterCheck, SourceMatches, disk, writer, reader
  <2>10. CASE ScanDiscards(c)
    BY <2>10 DEF IInv, TypeOK, HandsInv, StagedIsOurs, LockedPcs,
       ScanDiscards, ConsumerEnds, disk, writer, reader
  <2>11. CASE StoreContent(c)
    BY <2>11 DEF IInv, TypeOK, HandsInv, StagedIsOurs, LockedPcs,
       StoreContent, ConsumerGoes, AfterStore, disk, writer, reader
  <2>12. CASE StoreLevel(c)
    BY <2>12 DEF IInv, TypeOK, HandsInv, StagedIsOurs, LockedPcs,
       StoreLevel, ConsumerGoes, ConsumerEnds, StoredLevel, disk, writer,
       reader
  <2>13. CASE AckCompares(c)
    BY <2>13 DEF IInv, TypeOK, HandsInv, StagedIsOurs, LockedPcs,
       AckCompares, ConsumerGoes, ConsumerEnds, disk, writer, reader
  <2>14. CASE AckRemoves(c)
    BY <2>14 DEF IInv, TypeOK, HandsInv, StagedIsOurs, LockedPcs,
       AckRemoves, ConsumerEnds, disk, writer, reader
  <2>15. CASE ConsumerAborts(c)
    BY <2>15 DEF IInv, TypeOK, HandsInv, StagedIsOurs, LockedPcs,
       ConsumerAborts, ConsumerEnds, disk, writer, reader
  <2> QED
    BY <1>3, <2>1, <2>2, <2>3, <2>4, <2>5, <2>6, <2>7, <2>8, <2>9, <2>10,
       <2>11, <2>12, <2>13, <2>14, <2>15 DEF ConsumerStep
<1> QED
  BY <1>1, <1>2, <1>3 DEF Next

(* The empty outbox satisfies IInv.                                           *)
LEMMA InitIInv == Init => IInv
<1> SUFFICES ASSUME Init PROVE IInv
  OBVIOUS
<1>1. promised \in BOOLEAN
  BY Zenon DEF Init
<1>2. wpc \in [Writers -> WriterPcs] /\ cpc \in [Consumers -> ConsumerPcs]
  BY DEF Init, WriterPcs, ConsumerPcs
<1>3. mine \in [Writers -> Intents \cup {None}] /\ seen \in [Consumers -> Intents \cup {None}]
  BY DEF Init
<1>4. stored \in [content : Contents \cup {None}, level : 1..3]
  BY DEF Init
<1>5. TypeOK
  BY <1>1, <1>2, <1>3, <1>4, Zenon DEF Init, TypeOK
<1> QED
  BY <1>5 DEF Init, IInv, HandsInv, StagedIsOurs, LockedPcs

(* IInv holds initially and every step keeps it.                              *)
THEOREM IInvAlways == Spec => []IInv
<1>1. Init => IInv
  BY InitIInv
<1>2. IInv /\ [Next]_vars => IInv'
  BY TypeStep, HandsStep, StagedStep DEF IInv
<1> QED
  BY <1>1, <1>2, PTL DEF Spec

(* The variables of the outbox stay well typed.                               *)
THEOREM TypeCorrect == Spec => []TypeOK
<1>1. IInv => TypeOK
  BY DEF IInv
<1> QED
  BY <1>1, IInvAlways, PTL

(* Whatever consumers do meanwhile, from `prepare` to `commit` the pending    *)
(* file is the lock holder's intent or gone: no writer supersedes another.    *)
THEOREM StagedNeverSuperseded == Spec => []StagedIsOurs
<1>1. IInv => StagedIsOurs
  BY DEF IInv
<1> QED
  BY <1>1, IInvAlways, PTL

(* Without overlap a staged intent stays until its writer commits it.         *)
LEMMA WritersSerialStep ==
  ASSUME SerialInv, [Next]_vars, NoOverlap'
  PROVE  WritersInv'
<1>1. CASE UNCHANGED vars
  BY <1>1 DEF SerialInv, IInv, TypeOK, HandsInv, LockedPcs, NoOverlap,
     WritersInv, vars, disk, writer, reader
<1>2. ASSUME NEW w \in Writers,
              Prepare(w) \/ WriterStep(w) \/ WriterAborts(w)
      PROVE  WritersInv'
  <2>1. CASE Prepare(w)
    BY <2>1 DEF SerialInv, IInv, TypeOK, HandsInv, LockedPcs, NoOverlap,
       WritersInv, Prepare, WriterGoes, disk, writer, reader
  <2>2. CASE LockExclusive(w)
    BY <2>2 DEF SerialInv, IInv, TypeOK, HandsInv, LockedPcs, NoOverlap,
       WritersInv, LockExclusive, WriterGoes, LockFree, disk, writer, reader
  <2>3. CASE Stage(w)
    BY <2>3 DEF SerialInv, IInv, TypeOK, HandsInv, LockedPcs, NoOverlap,
       WritersInv, Stage, WriterGoes, disk, writer, reader
  <2>4. CASE WriteFile(w)
    BY <2>4 DEF SerialInv, IInv, TypeOK, HandsInv, LockedPcs, NoOverlap,
       WritersInv, WriteFile, WriterGoes, disk, writer, reader
  <2>5. CASE WriteFileFails(w)
    BY <2>5 DEF SerialInv, IInv, TypeOK, HandsInv, LockedPcs, NoOverlap,
       WritersInv, WriteFileFails, WriterGoes, disk, writer, reader
  <2>6. CASE CommitSuperseded(w)
    BY <2>6 DEF SerialInv, IInv, TypeOK, HandsInv, LockedPcs, NoOverlap,
       WritersInv, CommitSuperseded, WriterLeaves, disk, writer, reader
  <2>7. CASE CommitCurrent(w)
    BY <2>7 DEF SerialInv, IInv, TypeOK, HandsInv, LockedPcs, NoOverlap,
       WritersInv, CommitCurrent, WriterGoes, disk, writer, reader
  <2>8. CASE CommitReady(w)
    BY <2>8 DEF SerialInv, IInv, TypeOK, HandsInv, LockedPcs, NoOverlap,
       WritersInv, CommitReady, WriterGoes, disk, writer, reader
  <2>9. CASE CommitClears(w)
    BY <2>9 DEF SerialInv, IInv, TypeOK, HandsInv, LockedPcs, NoOverlap,
       WritersInv, CommitClears, WriterLeaves, Cleared, disk, writer, reader
  <2>10. CASE Cancel(w)
    BY <2>10 DEF SerialInv, IInv, TypeOK, HandsInv, LockedPcs, NoOverlap,
       WritersInv, Cancel, WriterLeaves, Cleared, disk, writer, reader
  <2>11. CASE WriterAborts(w)
    BY <2>11 DEF SerialInv, IInv, TypeOK, HandsInv, LockedPcs, NoOverlap,
       WritersInv, WriterAborts, WriterLeaves, disk, writer, reader
  <2> QED
    BY <1>2, <2>1, <2>2, <2>3, <2>4, <2>5, <2>6, <2>7, <2>8, <2>9, <2>10,
       <2>11 DEF WriterStep
<1>3. ASSUME NEW c \in Consumers,
              ConsumerStep(c) \/ ConsumerAborts(c)
      PROVE  WritersInv'
  <2>1. CASE RecoverReads(c)
    BY <2>1 DEF SerialInv, IInv, TypeOK, HandsInv, LockedPcs, NoOverlap,
       WritersInv, RecoverReads, ConsumerGoes, disk, writer, reader
  <2>2. CASE NothingPending(c)
    BY <2>2 DEF SerialInv, IInv, TypeOK, HandsInv, LockedPcs, NoOverlap,
       WritersInv, NothingPending, ConsumerGoes, disk, writer, reader
  <2>3. CASE RecoverMatches(c)
    BY <2>3 DEF SerialInv, IInv, TypeOK, HandsInv, LockedPcs, NoOverlap,
       WritersInv, RecoverMatches, ConsumerGoes, SourceMatches, disk,
       writer, reader
  <2>4. CASE RecoverPromotes(c)
    BY <2>4 DEF SerialInv, IInv, TypeOK, HandsInv, LockedPcs, NoOverlap,
       WritersInv, RecoverPromotes, ConsumerGoes, disk, writer, reader
  <2>5. CASE RecoverCompares(c)
    BY <2>5 DEF SerialInv, IInv, TypeOK, HandsInv, LockedPcs, NoOverlap,
       WritersInv, RecoverCompares, ConsumerGoes, disk, writer, reader
  <2>6. CASE RecoverUnlinks(c)
    BY <2>6 DEF SerialInv, IInv, TypeOK, HandsInv, LockedPcs, NoOverlap,
       WritersInv, RecoverUnlinks, ConsumerGoes, disk, writer, reader
  <2>7. CASE ScanReads(c)
    BY <2>7 DEF SerialInv, IInv, TypeOK, HandsInv, LockedPcs, NoOverlap,
       WritersInv, ScanReads, ConsumerGoes, disk, writer, reader
  <2>8. CASE ScanEmpty(c)
    BY <2>8 DEF SerialInv, IInv, TypeOK, HandsInv, LockedPcs, NoOverlap,
       WritersInv, ScanEmpty, ConsumerEnds, disk, writer, reader
  <2>9. CASE ScanChecks(c)
    BY <2>9 DEF SerialInv, IInv, TypeOK, HandsInv, LockedPcs, NoOverlap,
       WritersInv, ScanChecks, ConsumerGoes, AfterCheck, SourceMatches,
       disk, writer, reader
  <2>10. CASE ScanDiscards(c)
    BY <2>10 DEF SerialInv, IInv, TypeOK, HandsInv, LockedPcs, NoOverlap,
       WritersInv, ScanDiscards, ConsumerEnds, disk, writer, reader
  <2>11. CASE StoreContent(c)
    BY <2>11 DEF SerialInv, IInv, TypeOK, HandsInv, LockedPcs, NoOverlap,
       WritersInv, StoreContent, ConsumerGoes, AfterStore, disk, writer,
       reader
  <2>12. CASE StoreLevel(c)
    BY <2>12 DEF SerialInv, IInv, TypeOK, HandsInv, LockedPcs, NoOverlap,
       WritersInv, StoreLevel, ConsumerGoes, ConsumerEnds, StoredLevel,
       disk, writer, reader
  <2>13. CASE AckCompares(c)
    BY <2>13 DEF SerialInv, IInv, TypeOK, HandsInv, LockedPcs, NoOverlap,
       WritersInv, AckCompares, ConsumerGoes, ConsumerEnds, disk, writer,
       reader
  <2>14. CASE AckRemoves(c)
    BY <2>14 DEF SerialInv, IInv, TypeOK, HandsInv, LockedPcs, NoOverlap,
       WritersInv, AckRemoves, ConsumerEnds, disk, writer, reader
  <2>15. CASE ConsumerAborts(c)
    BY <2>15 DEF SerialInv, IInv, TypeOK, HandsInv, LockedPcs, NoOverlap,
       WritersInv, ConsumerAborts, ConsumerEnds, disk, writer, reader
  <2> QED
    BY <1>3, <2>1, <2>2, <2>3, <2>4, <2>5, <2>6, <2>7, <2>8, <2>9, <2>10,
       <2>11, <2>12, <2>13, <2>14, <2>15 DEF ConsumerStep
<1> QED
  BY <1>1, <1>2, <1>3 DEF Next

(* Without overlap what a pass learnt about the file stays true.              *)
LEMMA PassStep ==
  ASSUME SerialInv, [Next]_vars, NoOverlap'
  PROVE  PassInv'
<1> USE NoIntentAssumption, NoneAssumption
<1>1. CASE UNCHANGED vars
  BY <1>1 DEF SerialInv, IInv, TypeOK, HandsInv, LockedPcs, NoOverlap,
     PassInv, Kept, Describes, vars, disk, writer, reader
<1>2. ASSUME NEW w \in Writers,
              Prepare(w) \/ WriterStep(w) \/ WriterAborts(w)
      PROVE  PassInv'
  <2>1. CASE Prepare(w)
    BY <2>1 DEF SerialInv, IInv, TypeOK, HandsInv, LockedPcs, NoOverlap,
       PassInv, Kept, Describes, Prepare, WriterGoes, disk, writer, reader
  <2>2. CASE LockExclusive(w)
    BY <2>2 DEF SerialInv, IInv, TypeOK, HandsInv, LockedPcs, NoOverlap,
       PassInv, Kept, Describes, LockExclusive, WriterGoes, LockFree, disk,
       writer, reader
  <2>3. CASE Stage(w)
    BY <2>3 DEF SerialInv, IInv, TypeOK, HandsInv, LockedPcs, NoOverlap,
       PassInv, Kept, Describes, Stage, WriterGoes, disk, writer, reader
  <2>4. CASE WriteFile(w)
    BY <2>4 DEF SerialInv, IInv, TypeOK, HandsInv, LockedPcs, NoOverlap,
       PassInv, Kept, Describes, WriteFile, WriterGoes, disk, writer, reader
  <2>5. CASE WriteFileFails(w)
    BY <2>5 DEF SerialInv, IInv, TypeOK, HandsInv, LockedPcs, NoOverlap,
       PassInv, Kept, Describes, WriteFileFails, WriterGoes, disk, writer,
       reader
  <2>6. CASE CommitSuperseded(w)
    BY <2>6 DEF SerialInv, IInv, TypeOK, HandsInv, LockedPcs, NoOverlap,
       PassInv, Kept, Describes, CommitSuperseded, WriterLeaves, disk,
       writer, reader
  <2>7. CASE CommitCurrent(w)
    BY <2>7 DEF SerialInv, IInv, TypeOK, HandsInv, LockedPcs, NoOverlap,
       PassInv, Kept, Describes, CommitCurrent, WriterGoes, disk, writer,
       reader
  <2>8. CASE CommitReady(w)
    BY <2>8 DEF SerialInv, IInv, TypeOK, HandsInv, LockedPcs, NoOverlap,
       PassInv, Kept, Describes, CommitReady, WriterGoes, disk, writer,
       reader
  <2>9. CASE CommitClears(w)
    BY <2>9 DEF SerialInv, IInv, TypeOK, HandsInv, LockedPcs, NoOverlap,
       PassInv, Kept, Describes, CommitClears, WriterLeaves, Cleared, disk,
       writer, reader
  <2>10. CASE Cancel(w)
    BY <2>10 DEF SerialInv, IInv, TypeOK, HandsInv, LockedPcs, NoOverlap,
       PassInv, Kept, Describes, Cancel, WriterLeaves, Cleared, disk,
       writer, reader
  <2>11. CASE WriterAborts(w)
    BY <2>11 DEF SerialInv, IInv, TypeOK, HandsInv, LockedPcs, NoOverlap,
       PassInv, Kept, Describes, WriterAborts, WriterLeaves, disk, writer,
       reader
  <2> QED
    BY <1>2, <2>1, <2>2, <2>3, <2>4, <2>5, <2>6, <2>7, <2>8, <2>9, <2>10,
       <2>11 DEF WriterStep
<1>3. ASSUME NEW c \in Consumers,
              ConsumerStep(c) \/ ConsumerAborts(c)
      PROVE  PassInv'
  <2>1. CASE RecoverReads(c)
    BY <2>1 DEF SerialInv, IInv, TypeOK, HandsInv, LockedPcs, NoOverlap,
       PassInv, Kept, Describes, RecoverReads, ConsumerGoes, disk, writer,
       reader
  <2>2. CASE NothingPending(c)
    BY <2>2 DEF SerialInv, IInv, TypeOK, HandsInv, LockedPcs, NoOverlap,
       PassInv, Kept, Describes, NothingPending, ConsumerGoes, disk, writer,
       reader
  <2>3. CASE RecoverMatches(c)
    BY <2>3 DEF SerialInv, IInv, TypeOK, HandsInv, LockedPcs, NoOverlap,
       PassInv, Kept, Describes, RecoverMatches, ConsumerGoes,
       SourceMatches, disk, writer, reader
  <2>4. CASE RecoverPromotes(c)
    BY <2>4 DEF SerialInv, IInv, TypeOK, HandsInv, LockedPcs, NoOverlap,
       PassInv, Kept, Describes, RecoverPromotes, ConsumerGoes, disk,
       writer, reader
  <2>5. CASE RecoverCompares(c)
    BY <2>5 DEF SerialInv, IInv, TypeOK, HandsInv, LockedPcs, NoOverlap,
       PassInv, Kept, Describes, RecoverCompares, ConsumerGoes, disk,
       writer, reader
  <2>6. CASE RecoverUnlinks(c)
    BY <2>6 DEF SerialInv, IInv, TypeOK, HandsInv, LockedPcs, NoOverlap,
       PassInv, Kept, Describes, RecoverUnlinks, ConsumerGoes, disk, writer,
       reader
  <2>7. CASE ScanReads(c)
    BY <2>7 DEF SerialInv, IInv, TypeOK, HandsInv, LockedPcs, NoOverlap,
       PassInv, Kept, Describes, ScanReads, ConsumerGoes, disk, writer,
       reader
  <2>8. CASE ScanEmpty(c)
    BY <2>8 DEF SerialInv, IInv, TypeOK, HandsInv, LockedPcs, NoOverlap,
       PassInv, Kept, Describes, ScanEmpty, ConsumerEnds, disk, writer,
       reader
  <2>9. CASE ScanChecks(c)
    BY <2>9 DEF SerialInv, IInv, TypeOK, HandsInv, LockedPcs, NoOverlap,
       PassInv, Kept, Describes, ScanChecks, ConsumerGoes, AfterCheck,
       SourceMatches, disk, writer, reader
  <2>10. CASE ScanDiscards(c)
    BY <2>10 DEF SerialInv, IInv, TypeOK, HandsInv, LockedPcs, NoOverlap,
       PassInv, Kept, Describes, ScanDiscards, ConsumerEnds, disk, writer,
       reader
  <2>11. CASE StoreContent(c)
    BY <2>11 DEF SerialInv, IInv, TypeOK, HandsInv, LockedPcs, NoOverlap,
       PassInv, Kept, Describes, StoreContent, ConsumerGoes, AfterStore,
       disk, writer, reader
  <2>12. CASE StoreLevel(c)
    BY <2>12 DEF SerialInv, IInv, TypeOK, HandsInv, LockedPcs, NoOverlap,
       PassInv, Kept, Describes, StoreLevel, ConsumerGoes, ConsumerEnds,
       StoredLevel, disk, writer, reader
  <2>13. CASE AckCompares(c)
    BY <2>13 DEF SerialInv, IInv, TypeOK, HandsInv, LockedPcs, NoOverlap,
       PassInv, Kept, Describes, AckCompares, ConsumerGoes, ConsumerEnds,
       disk, writer, reader
  <2>14. CASE AckRemoves(c)
    BY <2>14 DEF SerialInv, IInv, TypeOK, HandsInv, LockedPcs, NoOverlap,
       PassInv, Kept, Describes, AckRemoves, ConsumerEnds, disk, writer,
       reader
  <2>15. CASE ConsumerAborts(c)
    BY <2>15 DEF SerialInv, IInv, TypeOK, HandsInv, LockedPcs, NoOverlap,
       PassInv, Kept, Describes, ConsumerAborts, ConsumerEnds, disk, writer,
       reader
  <2> QED
    BY <1>3, <2>1, <2>2, <2>3, <2>4, <2>5, <2>6, <2>7, <2>8, <2>9, <2>10,
       <2>11, <2>12, <2>13, <2>14, <2>15 DEF ConsumerStep
<1> QED
  BY <1>1, <1>2, <1>3 DEF Next

(* Without overlap a successful write stays described until it is stored.     *)
LEMMA KeptStep ==
  ASSUME SerialInv, [Next]_vars, NoOverlap'
  PROVE  (promised => Kept)'
<1> USE NoIntentAssumption, NoneAssumption
<1>1. CASE UNCHANGED vars
  BY <1>1 DEF SerialInv, IInv, TypeOK, HandsInv, LockedPcs, NoOverlap, Kept,
     Describes, vars, disk, writer, reader
<1>2. ASSUME NEW w \in Writers,
              Prepare(w) \/ WriterStep(w) \/ WriterAborts(w)
      PROVE  (promised => Kept)'
  <2>1. CASE Prepare(w)
    BY <2>1 DEF SerialInv, IInv, TypeOK, HandsInv, LockedPcs, NoOverlap,
       WritersInv, Kept, Describes, Prepare, WriterGoes, disk, writer,
       reader
  <2>2. CASE LockExclusive(w)
    BY <2>2 DEF SerialInv, IInv, TypeOK, HandsInv, LockedPcs, NoOverlap,
       WritersInv, Kept, Describes, LockExclusive, WriterGoes, LockFree,
       disk, writer, reader
  <2>3. CASE Stage(w)
    BY <2>3 DEF SerialInv, IInv, TypeOK, HandsInv, LockedPcs, NoOverlap,
       WritersInv, Kept, Describes, Stage, WriterGoes, disk, writer, reader
  <2>4. CASE WriteFile(w)
    BY <2>4 DEF SerialInv, IInv, TypeOK, HandsInv, LockedPcs, NoOverlap,
       WritersInv, Kept, Describes, WriteFile, WriterGoes, disk, writer,
       reader
  <2>5. CASE WriteFileFails(w)
    BY <2>5 DEF SerialInv, IInv, TypeOK, HandsInv, LockedPcs, NoOverlap,
       WritersInv, Kept, Describes, WriteFileFails, WriterGoes, disk,
       writer, reader
  <2>6. CASE CommitSuperseded(w)
    BY <2>6 DEF SerialInv, IInv, TypeOK, HandsInv, LockedPcs, NoOverlap,
       WritersInv, Kept, Describes, CommitSuperseded, WriterLeaves, disk,
       writer, reader
  <2>7. CASE CommitCurrent(w)
    BY <2>7 DEF SerialInv, IInv, TypeOK, HandsInv, LockedPcs, NoOverlap,
       WritersInv, Kept, Describes, CommitCurrent, WriterGoes, disk, writer,
       reader
  <2>8. CASE CommitReady(w)
    BY <2>8 DEF SerialInv, IInv, TypeOK, HandsInv, LockedPcs, NoOverlap,
       WritersInv, Kept, Describes, CommitReady, WriterGoes, disk, writer,
       reader
  <2>9. CASE CommitClears(w)
    BY <2>9 DEF SerialInv, IInv, TypeOK, HandsInv, LockedPcs, NoOverlap,
       WritersInv, Kept, Describes, CommitClears, WriterLeaves, Cleared,
       disk, writer, reader
  <2>10. CASE Cancel(w)
    BY <2>10 DEF SerialInv, IInv, TypeOK, HandsInv, LockedPcs, NoOverlap,
       WritersInv, Kept, Describes, Cancel, WriterLeaves, Cleared, disk,
       writer, reader
  <2>11. CASE WriterAborts(w)
    BY <2>11 DEF SerialInv, IInv, TypeOK, HandsInv, LockedPcs, NoOverlap,
       WritersInv, Kept, Describes, WriterAborts, WriterLeaves, disk,
       writer, reader
  <2> QED
    BY <1>2, <2>1, <2>2, <2>3, <2>4, <2>5, <2>6, <2>7, <2>8, <2>9, <2>10,
       <2>11 DEF WriterStep
<1>3. ASSUME NEW c \in Consumers,
              ConsumerStep(c) \/ ConsumerAborts(c)
      PROVE  (promised => Kept)'
  <2>1. CASE RecoverReads(c)
    BY <2>1 DEF SerialInv, IInv, TypeOK, HandsInv, LockedPcs, NoOverlap,
       PassInv, Kept, Describes, RecoverReads, ConsumerGoes, disk, writer,
       reader
  <2>2. CASE NothingPending(c)
    BY <2>2 DEF SerialInv, IInv, TypeOK, HandsInv, LockedPcs, NoOverlap,
       PassInv, Kept, Describes, NothingPending, ConsumerGoes, disk, writer,
       reader
  <2>3. CASE RecoverMatches(c)
    BY <2>3 DEF SerialInv, IInv, TypeOK, HandsInv, LockedPcs, NoOverlap,
       PassInv, Kept, Describes, RecoverMatches, ConsumerGoes,
       SourceMatches, disk, writer, reader
  <2>4. CASE RecoverPromotes(c)
    BY <2>4 DEF SerialInv, IInv, TypeOK, HandsInv, LockedPcs, NoOverlap,
       PassInv, Kept, Describes, RecoverPromotes, ConsumerGoes, disk,
       writer, reader
  <2>5. CASE RecoverCompares(c)
    BY <2>5 DEF SerialInv, IInv, TypeOK, HandsInv, LockedPcs, NoOverlap,
       PassInv, Kept, Describes, RecoverCompares, ConsumerGoes, disk,
       writer, reader
  <2>6. CASE RecoverUnlinks(c)
    BY <2>6 DEF SerialInv, IInv, TypeOK, HandsInv, LockedPcs, NoOverlap,
       PassInv, Kept, Describes, RecoverUnlinks, ConsumerGoes, disk, writer,
       reader
  <2>7. CASE ScanReads(c)
    BY <2>7 DEF SerialInv, IInv, TypeOK, HandsInv, LockedPcs, NoOverlap,
       PassInv, Kept, Describes, ScanReads, ConsumerGoes, disk, writer,
       reader
  <2>8. CASE ScanEmpty(c)
    BY <2>8 DEF SerialInv, IInv, TypeOK, HandsInv, LockedPcs, NoOverlap,
       PassInv, Kept, Describes, ScanEmpty, ConsumerEnds, disk, writer,
       reader
  <2>9. CASE ScanChecks(c)
    BY <2>9 DEF SerialInv, IInv, TypeOK, HandsInv, LockedPcs, NoOverlap,
       PassInv, Kept, Describes, ScanChecks, ConsumerGoes, AfterCheck,
       SourceMatches, disk, writer, reader
  <2>10. CASE ScanDiscards(c)
    BY <2>10 DEF SerialInv, IInv, TypeOK, HandsInv, LockedPcs, NoOverlap,
       PassInv, Kept, Describes, ScanDiscards, ConsumerEnds, disk, writer,
       reader
  <2>11. CASE StoreContent(c)
    BY <2>11 DEF SerialInv, IInv, TypeOK, HandsInv, LockedPcs, NoOverlap,
       PassInv, Kept, Describes, StoreContent, ConsumerGoes, AfterStore,
       disk, writer, reader
  <2>12. CASE StoreLevel(c)
    BY <2>12 DEF SerialInv, IInv, TypeOK, HandsInv, LockedPcs, NoOverlap,
       PassInv, Kept, Describes, StoreLevel, ConsumerGoes, ConsumerEnds,
       StoredLevel, disk, writer, reader
  <2>13. CASE AckCompares(c)
    BY <2>13 DEF SerialInv, IInv, TypeOK, HandsInv, LockedPcs, NoOverlap,
       PassInv, Kept, Describes, AckCompares, ConsumerGoes, ConsumerEnds,
       disk, writer, reader
  <2>14. CASE AckRemoves(c)
    BY <2>14 DEF SerialInv, IInv, TypeOK, HandsInv, LockedPcs, NoOverlap,
       PassInv, Kept, Describes, AckRemoves, ConsumerEnds, disk, writer,
       reader
  <2>15. CASE ConsumerAborts(c)
    BY <2>15 DEF SerialInv, IInv, TypeOK, HandsInv, LockedPcs, NoOverlap,
       PassInv, Kept, Describes, ConsumerAborts, ConsumerEnds, disk, writer,
       reader
  <2> QED
    BY <1>3, <2>1, <2>2, <2>3, <2>4, <2>5, <2>6, <2>7, <2>8, <2>9, <2>10,
       <2>11, <2>12, <2>13, <2>14, <2>15 DEF ConsumerStep
<1> QED
  BY <1>1, <1>2, <1>3 DEF Next

(* SerialInv holds initially and every step without overlap keeps it.         *)
THEOREM SerialInvAlways == SerialSpec => []SerialInv
<1>1. Init => SerialInv
  BY InitIInv DEF Init, SerialInv, NoOverlap, WritersInv, PassInv, Kept
<1>2. SerialInv /\ [SerialNext]_vars => SerialInv'
  <2> SUFFICES ASSUME SerialInv, [SerialNext]_vars
               PROVE  SerialInv'
    OBVIOUS
  <2>1. [Next]_vars
    BY DEF SerialNext
  <2>2. NoOverlap'
    BY DEF SerialNext, SerialInv, NoOverlap, vars, writer, reader
  <2>3. IInv'
    BY <2>1, TypeStep, HandsStep, StagedStep DEF SerialInv, IInv
  <2> QED
    BY <2>1, <2>2, <2>3, WritersSerialStep, PassStep, KeptStep DEF SerialInv
<1> QED
  BY <1>1, <1>2, PTL DEF SerialSpec

(* With no write in progress during a pass, a file whose write returned       *)
(* success is never lost to Cloud Node, whoever crashes and wherever.         *)
THEOREM SuccessfulWriteIsKept == SerialSpec => []NoWriteLost
<1>1. SerialInv => NoWriteLost
  BY DEF SerialInv, NoWriteLost, Kept
<1> QED
  BY <1>1, SerialInvAlways, PTL
=============================================================================
