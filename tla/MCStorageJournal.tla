-------------------------- MODULE MCStorageJournal --------------------------
(* Instances of StorageJournal for TLC.                                     *)
EXTENDS StorageJournal, TLC

Symmetry == Permutations(Writers) \cup Permutations(Contents)

(* The daemon polls for ever and now and then a pass comes to its end       *)
(* without a crash or an i/o error (SF); a write that is not aborted goes   *)
(* on, since all it can wait for is the lock (SF on taking it).             *)
Serially(A) == A /\ NoOverlap'

SerialFairness ==
  /\ \A w \in Writers : WF_vars(Serially(WriterStep(w)))
  /\ \A c \in Consumers :
       /\ WF_vars(Serially(ConsumerStep(c)))
       /\ SF_vars(Serially(RecoverReads(c) \/ NothingPending(c)))
       /\ SF_vars(Serially(RecoverMatches(c)))
       /\ SF_vars(Serially(RecoverPromotes(c)))
       /\ SF_vars(Serially(RecoverCompares(c)))
       /\ SF_vars(Serially(RecoverUnlinks(c)))
       /\ SF_vars(Serially(ScanReads(c) \/ ScanEmpty(c)))
       /\ SF_vars(Serially(ScanChecks(c)))
       /\ SF_vars(Serially(StoreContent(c)))

FairSerialSpec == SerialSpec /\ SerialFairness

(* Once the writers rest, a file whose write returned success reaches Cloud *)
(* Node, however many passes and writers crashed before.                    *)
WritersRest == \A w \in Writers : wpc[w] = "idle"
Ingested == <>[]WritersRest => (promised ~> (stored.content = file \/ ~promised))
=============================================================================
