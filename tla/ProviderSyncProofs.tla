------------------------- MODULE ProviderSyncProofs -------------------------
(***************************************************************************)
(* Proofs about the synchronisation through an object store, for any set   *)
(* of nodes and roots, any policies and any number of passes, edits and    *)
(* failures.                                                               *)
(***************************************************************************)
EXTENDS ProviderSync, SequenceTheorems, WellFoundedInduction, TLAPS

(***************************************************************************)
(* The inductive invariant adds to HistoriesWhole what a transaction may   *)
(* rely on between its steps: the HEAD it read was whole, the chain it     *)
(* uploads is complete before it puts HEAD, and passes are counted.        *)
(***************************************************************************)
SeenInv == \A n \in Nodes : seen[n] # None => Lineage(seen[n]) \subseteq rcommits

PhaseHolds(n) ==
  /\ pc[n] \in {"import", "restore"} => seen[n] # None
  /\ pc[n] \in {"classify", "snapshot", "commits", "recheck", "put"} => head[n] # None
  /\ pc[n] \in {"commits", "recheck", "put"} => Root(head[n]) \in rsnaps
  /\ pc[n] \in {"recheck", "put"} => Lineage(head[n]) \subseteq rcommits

PhaseInv == \A n \in Nodes : PhaseHolds(n)

PassInv == \A n \in Nodes : pc[n] = "idle" => pass[n] = 0

IInv == HistoriesWhole /\ SeenInv /\ PhaseInv /\ PassInv

-----------------------------------------------------------------------------
(* Histories.                                                              *)

(* An ancestor or the commit itself is a non-empty prefix.                 *)
LEMMA LineagePrefix ==
  ASSUME NEW c \in Commits, NEW k \in 1 .. Len(c)
  PROVE  /\ SubSeq(c, 1, k) \in Commits \ {None}
         /\ Len(SubSeq(c, 1, k)) = k
         /\ \A i \in 1 .. k : SubSeq(c, 1, k)[i] = c[i]
<1>1. \A i \in 1 .. k : c[i] \in Entries
  BY ElementOfSeq DEF Commits
<1>2. /\ SubSeq(c, 1, k) \in Seq(Entries)
      /\ Len(SubSeq(c, 1, k)) = k
      /\ \A i \in 1 .. k : SubSeq(c, 1, k)[i] = c[i]
  BY <1>1, SubSeqProperties, LenProperties DEF Commits
<1> QED
  BY <1>2, EmptySeq DEF Commits, None

LEMMA LineageMember ==
  ASSUME NEW c \in Commits, NEW d \in Lineage(c)
  PROVE  /\ d \in Commits \ {None}
         /\ Len(d) \in 1 .. Len(c)
         /\ d = SubSeq(c, 1, Len(d))
         /\ \A i \in 1 .. Len(d) : d[i] = c[i]
<1>1. PICK k \in 1 .. Len(c) : d = SubSeq(c, 1, k)
  BY DEF Lineage
<1> QED
  BY <1>1, LineagePrefix

LEMMA LineageOwn ==
  ASSUME NEW c \in Commits, c # None
  PROVE  c \in Lineage(c)
<1>1. Len(c) \in 1 .. Len(c)
  BY EmptySeq DEF Commits, None
<1> QED
  BY <1>1, SubSeqFull DEF Lineage, Commits

(* Of two commits of one history the shorter one is in the other's.        *)
LEMMA LineageOrdered ==
  ASSUME NEW c \in Commits, NEW d \in Lineage(c), NEW f \in Lineage(c), Len(d) <= Len(f)
  PROVE  d \in Lineage(f)
<1>1. /\ d \in Commits /\ f \in Commits /\ Len(d) \in 1 .. Len(f)
      /\ \A i \in 1 .. Len(d) : d[i] = f[i]
  BY LineageMember, LenProperties DEF Commits
<1>2. /\ SubSeq(f, 1, Len(d)) \in Commits
      /\ Len(SubSeq(f, 1, Len(d))) = Len(d)
      /\ \A i \in 1 .. Len(d) : SubSeq(f, 1, Len(d))[i] = f[i]
  BY <1>1, LineagePrefix
<1>3. d = SubSeq(f, 1, Len(d))
  BY <1>1, <1>2, SeqEqual DEF Commits
<1> QED
  BY <1>1, <1>3 DEF Lineage

LEMMA LineageClosed ==
  ASSUME NEW c \in Commits, NEW d \in Lineage(c)
  PROVE  Lineage(d) \subseteq Lineage(c)
<1> SUFFICES ASSUME NEW f \in Lineage(d) PROVE f \in Lineage(c)
  OBVIOUS
<1>1. /\ d \in Commits /\ f \in Commits /\ Len(f) \in 1 .. Len(c)
      /\ \A i \in 1 .. Len(f) : f[i] = c[i]
  <2>1. d \in Commits /\ Len(d) \in 1 .. Len(c) /\ \A i \in 1 .. Len(d) : d[i] = c[i]
    BY LineageMember
  <2>2. f \in Commits /\ Len(f) \in 1 .. Len(d) /\ \A i \in 1 .. Len(f) : f[i] = d[i]
    BY <2>1, LineageMember
  <2> QED
    BY <2>1, <2>2, LenProperties DEF Commits
<1>2. f = SubSeq(c, 1, Len(f))
  BY <1>1, LineagePrefix, SeqEqual DEF Commits
<1> QED
  BY <1>1, <1>2 DEF Lineage

LEMMA LineageEmpty == Lineage(None) = {}
  BY DEF Lineage, None

(* A new commit adds itself to its parent's history.                       *)
LEMMA LineageAppend ==
  ASSUME NEW c \in Commits, NEW x \in Entries
  PROVE  /\ Append(c, x) \in Commits \ {None}
         /\ Root(Append(c, x)) = x.root
         /\ Lineage(Append(c, x)) \subseteq Lineage(c) \cup {Append(c, x)}
<1> DEFINE d == Append(c, x)
<1>1. /\ d \in Seq(Entries) /\ d # << >> /\ Len(d) = Len(c) + 1
      /\ \A i \in 1 .. Len(c) : d[i] = c[i]
      /\ d[Len(c) + 1] = x
  BY AppendProperties DEF Commits
<1>2. ASSUME NEW f \in Lineage(d) PROVE f \in Lineage(c) \cup {d}
  <2>1. f \in Commits /\ Len(f) \in 1 .. Len(d) /\ f = SubSeq(d, 1, Len(f))
        /\ \A i \in 1 .. Len(f) : f[i] = d[i]
    BY <1>1, <1>2, LineageMember DEF Commits
  <2>2. CASE Len(f) = Len(d)
    BY <1>1, <2>1, <2>2, SubSeqFull
  <2>3. CASE Len(f) # Len(d)
    <3>1. Len(f) \in 1 .. Len(c)
      <4>1. Len(c) \in Nat
        BY LenProperties DEF Commits
      <4>2. Len(d) = Len(c) + 1
        BY <1>1
      <4>3. Len(f) \in 1 .. Len(d)
        BY <2>1
      <4> QED
        BY <2>3, <4>1, <4>2, <4>3
    <3>2. /\ SubSeq(c, 1, Len(f)) \in Commits
          /\ Len(SubSeq(c, 1, Len(f))) = Len(f)
          /\ \A i \in 1 .. Len(f) : SubSeq(c, 1, Len(f))[i] = c[i]
      BY <3>1, LineagePrefix
    <3>3. \A i \in 1 .. Len(f) : f[i] = c[i]
      BY <1>1, <2>1, <3>1, LenProperties DEF Commits
    <3>4. f = SubSeq(c, 1, Len(f))
      BY <2>1, <3>2, <3>3, SeqEqual DEF Commits
    <3> QED
      BY <3>1, <3>4 DEF Lineage
  <2> QED
    BY <2>2, <2>3
<1> QED
  BY <1>1, <1>2 DEF Root, Commits, None

LEMMA RootType ==
  ASSUME NEW c \in Commits, c # None
  PROVE  Root(c) \in Roots
<1>1. Len(c) \in 1 .. Len(c)
  BY EmptySeq DEF Commits, None
<1>2. c[Len(c)] \in Entries
  BY <1>1, ElementOfSeq DEF Commits
<1> QED
  BY <1>2 DEF Root, Entries

(* A non-empty set of commits has a shortest one: what CHOOSE returns in   *)
(* import_remote_history and push_provider_state.                          *)
LEMMA ShortestExists ==
  ASSUME NEW T, T # {}, \A c \in T : Len(c) \in Nat
  PROVE  \E c \in T : \A d \in T : Len(c) <= Len(d)
<1> DEFINE L == {Len(c) : c \in T}
           R == {ss \in Nat \X Nat : ss[1] < ss[2]}
<1>1. L \subseteq Nat /\ L # {}
  OBVIOUS
<1>2. IsWellFoundedOn(R, Nat)
  BY NatLessThanWellFounded, Zenon DEF OpToRel
<1>3. PICK x \in L : \A y \in L : ~ (<<y, x>> \in R)
  <2> HIDE DEF L, R
  <2> QED
    BY <1>1, <1>2, WFMin
<1>4. \A i, j \in Nat : i < j => <<i, j>> \in R
  OBVIOUS
<1>5. \A y \in L : x <= y
  <2> SUFFICES ASSUME NEW y \in L PROVE x <= y
    OBVIOUS
  <2>1. x \in Nat /\ y \in Nat /\ ~ (<<y, x>> \in R)
    BY <1>1, <1>3
  <2>2. ~ (y < x)
    BY <1>4, <2>1
  <2> QED
    BY <2>1, <2>2
<1> QED
  BY <1>5

(* What ImportCommit and UploadCommit add.                                 *)
LEMMA NextImportMissing ==
  ASSUME TypeOK, NEW n \in Nodes, seen[n] # None, seen[n] \notin known[n]
  PROVE  /\ NextImport(n) \in Missing(n)
         /\ \A d \in Missing(n) : Len(NextImport(n)) <= Len(d)
<1>1. seen[n] \in Commits
  BY DEF TypeOK
<1>2. \A c \in Missing(n) : Len(c) \in Nat
  BY <1>1, LineageMember DEF Missing
<1>3. Missing(n) # {}
  <2> SUFFICES ASSUME NEW d \in known[n] \cap Lineage(seen[n]) PROVE Len(d) < Len(seen[n])
    BY <1>1, LineageOwn DEF Missing
  <2>1. Len(d) \in 1 .. Len(seen[n]) /\ d = SubSeq(seen[n], 1, Len(d))
    BY <1>1, LineageMember
  <2>2. Len(seen[n]) \in Nat
    BY <1>1, LenProperties DEF Commits
  <2>3. Len(d) # Len(seen[n])
    BY <1>1, <2>1, SubSeqFull DEF Commits
  <2> QED
    BY <2>1, <2>2, <2>3
<1>4. \E c \in Missing(n) : \A d \in Missing(n) : Len(c) <= Len(d)
  BY <1>2, <1>3, ShortestExists
<1> QED
  BY <1>4 DEF NextImport

(* The walk of import_remote_history leaves no gap: all of the history of  *)
(* the commit it writes next is there.                                     *)
LEMMA NextImportWhole ==
  ASSUME TypeOK, LocalHistoryWhole, NEW n \in Nodes, seen[n] # None, seen[n] \notin known[n]
  PROVE  /\ NextImport(n) \in Commits \ {None}
         /\ Lineage(NextImport(n)) \subseteq known[n] \cup {NextImport(n)}
<1> DEFINE c == NextImport(n)
<1>1. seen[n] \in Commits /\ known[n] \subseteq Commits
  BY DEF TypeOK
<1>2. c \in Missing(n) /\ c \in Lineage(seen[n])
  BY NextImportMissing DEF Missing
<1>3. c \in Commits \ {None}
  BY <1>1, <1>2, LineageMember
<1>4. ASSUME NEW d \in Lineage(c), d # c PROVE d \in known[n]
  <2>1. d \in Commits /\ Len(d) \in 1 .. Len(c) /\ d = SubSeq(c, 1, Len(d)) /\ d \in Lineage(seen[n])
    BY <1>1, <1>2, <1>3, <1>4, LineageMember, LineageClosed
  <2>2. Len(c) \in Nat /\ Len(d) # Len(c)
    BY <1>3, <1>4, <2>1, SubSeqFull, LenProperties DEF Commits
  <2>3. d \notin Missing(n)
    BY <2>1, <2>2, NextImportMissing
  <2>4. PICK f \in known[n] \cap Lineage(seen[n]) : ~ (Len(f) < Len(d))
    BY <2>1, <2>3 DEF Missing
  <2>5. Len(f) \in Nat /\ Len(d) \in Nat
    BY <1>1, <2>1, <2>4, LineageMember
  <2>6. d \in Lineage(f)
    BY <1>1, <2>1, <2>4, <2>5, LineageOrdered
  <2> QED
    BY <2>4, <2>6 DEF LocalHistoryWhole
<1> QED
  BY <1>3, <1>4

LEMMA ChainInLineage ==
  ASSUME TypeOK, NEW n \in Nodes, NotUploaded(n) # {}
  PROVE  \A c : c = (CHOOSE c0 \in NotUploaded(n) : \A d \in NotUploaded(n) : Len(c0) <= Len(d))
                => c \in Commits \ {None}
<1>1. head[n] \in Commits
  BY DEF TypeOK
<1>2. NotUploaded(n) \subseteq Lineage(head[n])
  BY DEF NotUploaded, Chain
<1>3. \A c \in NotUploaded(n) : c \in Commits \ {None} /\ Len(c) \in Nat
  BY <1>1, <1>2, LineageMember
<1>4. \E c \in NotUploaded(n) : \A d \in NotUploaded(n) : Len(c) <= Len(d)
  BY <1>3, ShortestExists
<1> QED
  BY <1>3, <1>4
-----------------------------------------------------------------------------
(* The steps of Next, by what they change: the ends of a synchronisation,  *)
(* the steps that only move pc and note something, and the others.         *)
Returns(n) ==
  \/ Fails(n) \/ ClassifyRefuses(n) \/ RecheckMoved(n) \/ PutRefused(n)
  \/ ReadbackMoved(n) \/ StatusGivesUp(n) \/ ReportMoved(n) \/ Report(n)

Moves(n) ==
  \/ PlanAdopts(n) \/ PlanPulls(n) \/ ClassifyPush(n) \/ ClassifyPull(n)
  \/ UploadedAll(n) \/ RecheckSame(n) \/ ReadbackSame(n) \/ StatusConfirmed(n)
  \/ AuditSame(n)

Begins(n) == Start(n) \/ StatusAgain(n)

NodeStep(n) ==
  (\E r \in Roots : Edit(n, r)) \/ Start(n) \/ SyncStep(n) \/ Fails(n) \/ PutAnswerLost(n)

LEMMA ReturnsOnly ==
  ASSUME NEW n \in Nodes, Returns(n)
  PROVE  /\ Ends(n) /\ UNCHANGED <<local, remote, edits>>
         /\ \/ UNCHANGED failures
            \/ failures < MaxFailures /\ failures' = failures + 1
<1>1. CASE Fails(n)
  BY <1>1 DEF Fails
<1>2. CASE ClassifyRefuses(n)
  BY <1>2 DEF ClassifyRefuses, budget
<1>3. CASE RecheckMoved(n)
  BY <1>3 DEF RecheckMoved, budget
<1>4. CASE PutRefused(n)
  BY <1>4 DEF PutRefused, budget
<1>5. CASE ReadbackMoved(n)
  BY <1>5 DEF ReadbackMoved, budget
<1>6. CASE StatusGivesUp(n)
  BY <1>6 DEF StatusGivesUp, budget
<1>7. CASE ReportMoved(n)
  BY <1>7 DEF ReportMoved, budget
<1>8. CASE Report(n)
  BY <1>8 DEF Report, budget
<1> QED
  BY <1>1, <1>2, <1>3, <1>4, <1>5, <1>6, <1>7, <1>8 DEF Returns

LEMMA MovesOnly ==
  ASSUME NEW n \in Nodes, Moves(n)
  PROVE  /\ UNCHANGED <<local, remote, seen, last, pass, budget>>
         /\ \E to \in Pcs \ {"idle"} : pc' = [pc EXCEPT ![n] = to]
         /\ action' = action \/ \E a \in Actions : action' = [action EXCEPT ![n] = a]
  BY DEF Moves, PlanAdopts, PlanPulls, ClassifyPush, ClassifyPull, UploadedAll, RecheckSame,
     ReadbackSame, StatusConfirmed, AuditSame, Goes, Pcs, Actions

LEMMA InitIInv == Init => IInv
<1> SUFFICES ASSUME Init PROVE IInv
  OBVIOUS
<1>0. None \in Commits
  BY EmptySeq DEF None, Commits
<1>1. TypeOK
  BY <1>0, BoundAssumption DEF Init, TypeOK, Pcs, Actions, BoundAssumption
<1>2. RemoteIsPullable /\ SeenInv /\ PhaseInv /\ PassInv
  BY DEF Init, RemoteIsPullable, SeenInv, PhaseInv, PhaseHolds, PassInv
<1>3. LocalHistoryWhole
  BY DEF Init, LocalHistoryWhole
<1> QED
  BY <1>1, <1>2, <1>3 DEF IInv, HistoriesWhole

(* The variables stay in their sets.                                       *)
LEMMA TypeStep ==
  ASSUME IInv, NEW n \in Nodes, NodeStep(n)
  PROVE  TypeOK'
<1> USE BoundAssumption DEF TypeOK, Pcs, Actions, BoundAssumption
<1>0. TypeOK /\ None \in Commits
  BY EmptySeq DEF IInv, HistoriesWhole, None, Commits
<1>1. CASE \E r \in Roots : Edit(n, r)
  BY <1>0, <1>1 DEF Edit, remote, task
<1>2. CASE Returns(n)
  BY <1>0, <1>2, ReturnsOnly DEF Ends, local, remote
<1>3. CASE Moves(n)
  BY <1>0, <1>3, MovesOnly DEF local, remote, budget
<1>4. CASE Begins(n)
  BY <1>0, <1>4 DEF Begins, Start, StatusAgain, BeginPass, PassesLeft, Goes, local, remote, budget,
     IInv, PassInv
<1>5. CASE AuditMoved(n)
  BY <1>0, <1>5 DEF AuditMoved, BeginPass, Ends, PassesLeft, Goes, local, remote, budget
<1>6. CASE ReadRemoteHead(n) \/ ConfirmReads(n)
  BY <1>0, <1>6 DEF ReadRemoteHead, ConfirmReads, Goes, local, remote, budget
<1>7. CASE PlanCommits(n)
  <2>1. head[n] \in Commits /\ [node |-> n, root |-> root[n]] \in Entries
    BY <1>0 DEF Entries
  <2>2. head'[n] \in Commits \ {None} /\ head' \in [Nodes -> Commits]
    BY <1>0, <1>7, <2>1, LineageAppend DEF PlanCommits, HeadIs, Untracked
  <2> QED
    BY <1>0, <1>7, <2>2, ZenonT(30) DEF PlanCommits, Goes, remote, budget
<1>8. CASE ImportCommit(n)
  <2>1. NextImport(n) \in Commits \ {None}
    BY <1>8, NextImportWhole DEF ImportCommit, IInv, HistoriesWhole, PhaseInv, PhaseHolds
  <2> QED
    BY <1>0, <1>8, <2>1 DEF ImportCommit, remote, task, budget
<1>9. CASE ImportHead(n)
  BY <1>0, <1>9 DEF ImportHead, HeadImported, Goes, remote, budget
<1>10. CASE ClassifyInSync(n) \/ UploadSnapshot(n)
  <2>1. Root(head[n]) \in Roots
    BY <1>0, <1>10, RootType DEF ClassifyInSync, UploadSnapshot, Goes, IInv, PhaseInv, PhaseHolds
  <2> QED
    BY <1>0, <1>10, <2>1 DEF ClassifyInSync, UploadSnapshot, Goes, local, budget
<1>11. CASE UploadCommit(n)
  BY <1>0, <1>11, ChainInLineage DEF UploadCommit, local, task, budget
<1>12. CASE PutHead(n) \/ PutAnswerLost(n)
  BY <1>0, <1>12 DEF PutHead, PutAnswerLost, Ends, Goes, local, budget
<1>13. CASE RestoreSnapshot(n)
  BY <1>0, <1>13 DEF RestoreSnapshot, Goes, remote, budget
<1> QED
  BY <1>1, <1>2, <1>3, <1>4, <1>5, <1>6, <1>7, <1>8, <1>9, <1>10, <1>11, <1>12, <1>13
     DEF NodeStep, SyncStep, Returns, Moves, Begins

(* Nothing is ever deleted at the provider, and HEAD moves in a put only.  *)
LEMMA RemoteGrows ==
  ASSUME NEW n \in Nodes, NodeStep(n)
  PROVE  /\ rcommits \subseteq rcommits' /\ rsnaps \subseteq rsnaps'
         /\ rhead' = rhead \/ PutHead(n) \/ PutAnswerLost(n)
<1>1. CASE Returns(n)
  BY <1>1, ReturnsOnly DEF remote
<1>2. CASE Moves(n)
  BY <1>2, MovesOnly DEF remote
<1>3. CASE Begins(n) \/ AuditMoved(n) \/ ReadRemoteHead(n) \/ ConfirmReads(n)
  BY <1>3 DEF Begins, Start, StatusAgain, AuditMoved, ReadRemoteHead, ConfirmReads, remote
<1>4. CASE (\E r \in Roots : Edit(n, r)) \/ PlanCommits(n) \/ ImportCommit(n) \/ ImportHead(n)
           \/ RestoreSnapshot(n)
  BY <1>4 DEF Edit, PlanCommits, ImportCommit, ImportHead, RestoreSnapshot, remote
<1>5. CASE ClassifyInSync(n) \/ UploadSnapshot(n) \/ UploadCommit(n)
  BY <1>5 DEF ClassifyInSync, UploadSnapshot, UploadCommit
<1>6. CASE PutHead(n) \/ PutAnswerLost(n)
  BY <1>6 DEF PutHead, PutAnswerLost
<1> QED
  BY <1>1, <1>2, <1>3, <1>4, <1>5, <1>6 DEF NodeStep, SyncStep, Returns, Moves, Begins

(* HEAD is put after its history and its snapshot.                         *)
LEMMA RemoteStep ==
  ASSUME IInv, NEW n \in Nodes, NodeStep(n)
  PROVE  RemoteIsPullable'
<1>1. CASE PutHead(n) \/ PutAnswerLost(n)
  BY <1>1, RemoteGrows DEF PutHead, PutAnswerLost, Goes, IInv, PhaseInv, PhaseHolds, RemoteIsPullable
<1>2. CASE UNCHANGED rhead
  BY <1>2, RemoteGrows DEF IInv, HistoriesWhole, RemoteIsPullable
<1> QED
  BY <1>1, <1>2, RemoteGrows

(* A node's own history stays without gaps.                                *)
LEMMA LocalStep ==
  ASSUME IInv, NEW n \in Nodes, NodeStep(n)
  PROVE  LocalHistoryWhole'
<1>0. TypeOK /\ LocalHistoryWhole
  BY DEF IInv, HistoriesWhole
<1>1. CASE UNCHANGED <<head, known>>
  BY <1>0, <1>1 DEF LocalHistoryWhole
<1>2. CASE PlanCommits(n)
  <2> DEFINE x == [node |-> n, root |-> root[n]]
  <2>1. head[n] \in Commits /\ x \in Entries
    BY <1>0 DEF TypeOK, Entries
  <2>2. /\ \A m \in Nodes : m # n => head'[m] = head[m] /\ known'[m] = known[m]
        /\ known'[n] = known[n] \cup {head'[n]}
        /\ (head'[n] = head[n] /\ head[n] # None) \/ head'[n] = Append(head[n], x)
    BY <1>0, <1>2 DEF PlanCommits, HeadIs, Untracked, TypeOK
  <2>3. Lineage(head[n]) \subseteq known[n]
    BY <1>0, LineageEmpty DEF LocalHistoryWhole
  <2>4. Lineage(head'[n]) \subseteq known[n] \cup {head'[n]}
    BY <2>1, <2>2, <2>3, LineageAppend
  <2> QED
    BY <1>0, <2>2, <2>4 DEF LocalHistoryWhole
<1>3. CASE ImportCommit(n)
  <2>1. Lineage(NextImport(n)) \subseteq known[n] \cup {NextImport(n)}
    BY <1>0, <1>3, NextImportWhole DEF ImportCommit, IInv, PhaseInv, PhaseHolds
  <2>2. /\ \A m \in Nodes : head'[m] = head[m] /\ (m # n => known'[m] = known[m])
        /\ known'[n] = known[n] \cup {NextImport(n)}
    BY <1>0, <1>3 DEF ImportCommit, TypeOK
  <2> QED
    BY <1>0, <2>1, <2>2 DEF LocalHistoryWhole
<1>4. CASE ImportHead(n)
  BY <1>0, <1>4 DEF ImportHead, HeadImported, LocalHistoryWhole, TypeOK
<1>5. CASE Returns(n) \/ Moves(n)
  BY <1>1, <1>5, ReturnsOnly, MovesOnly DEF local
<1>6. CASE Begins(n) \/ AuditMoved(n) \/ ReadRemoteHead(n) \/ ConfirmReads(n)
  BY <1>1, <1>6 DEF Begins, Start, StatusAgain, AuditMoved, ReadRemoteHead, ConfirmReads, local
<1>7. CASE (\E r \in Roots : Edit(n, r)) \/ RestoreSnapshot(n)
  BY <1>1, <1>7 DEF Edit, RestoreSnapshot, local
<1>8. CASE ClassifyInSync(n) \/ UploadSnapshot(n) \/ UploadCommit(n) \/ PutHead(n) \/ PutAnswerLost(n)
  BY <1>1, <1>8 DEF ClassifyInSync, UploadSnapshot, UploadCommit, PutHead, PutAnswerLost, local
<1> QED
  BY <1>2, <1>3, <1>4, <1>5, <1>6, <1>7, <1>8 DEF NodeStep, SyncStep, Returns, Moves, Begins

(* The HEAD that a node read is whole for ever.                            *)
LEMMA SeenStep ==
  ASSUME IInv, NEW n \in Nodes, NodeStep(n)
  PROVE  SeenInv'
<1>0. TypeOK /\ SeenInv /\ RemoteIsPullable /\ rcommits \subseteq rcommits'
  BY RemoteGrows DEF IInv, HistoriesWhole
<1>1. CASE UNCHANGED seen
  BY <1>0, <1>1 DEF SeenInv
<1>2. CASE ReadRemoteHead(n) \/ ConfirmReads(n)
  BY <1>0, <1>2 DEF ReadRemoteHead, ConfirmReads, SeenInv, RemoteIsPullable, TypeOK
<1>3. CASE Ends(n)
  BY <1>0, <1>3 DEF Ends, SeenInv, TypeOK
<1>4. CASE Returns(n) \/ Moves(n) \/ PutAnswerLost(n) \/ AuditMoved(n)
  BY <1>1, <1>3, <1>4, ReturnsOnly, MovesOnly DEF PutAnswerLost, AuditMoved
<1>5. CASE Begins(n) \/ PlanCommits(n) \/ ImportCommit(n) \/ ImportHead(n) \/ RestoreSnapshot(n)
           \/ \E r \in Roots : Edit(n, r)
  BY <1>1, <1>5 DEF Begins, Start, StatusAgain, PlanCommits, ImportCommit, ImportHead,
     RestoreSnapshot, Edit, task
<1>6. CASE ClassifyInSync(n) \/ UploadSnapshot(n) \/ UploadCommit(n) \/ PutHead(n)
  BY <1>1, <1>6 DEF ClassifyInSync, UploadSnapshot, UploadCommit, PutHead, task
<1> QED
  BY <1>2, <1>4, <1>5, <1>6 DEF NodeStep, SyncStep, Returns, Moves, Begins

(* Passes are counted from zero.                                           *)
LEMMA PassStep ==
  ASSUME IInv, NEW n \in Nodes, NodeStep(n)
  PROVE  PassInv'
<1>0. TypeOK /\ PassInv
  BY DEF IInv, HistoriesWhole
<1> USE DEF PassInv, TypeOK
<1>1. CASE Ends(n)
  BY <1>0, <1>1 DEF Ends
<1>2. CASE Returns(n) \/ PutAnswerLost(n)
  BY <1>1, <1>2, ReturnsOnly DEF PutAnswerLost
<1>3. CASE Moves(n)
  BY <1>0, <1>3, MovesOnly
<1>4. CASE Begins(n) \/ AuditMoved(n)
  BY <1>0, <1>1, <1>4 DEF Begins, Start, StatusAgain, AuditMoved, BeginPass, Goes
<1>5. CASE ReadRemoteHead(n) \/ ConfirmReads(n) \/ PlanCommits(n) \/ ImportHead(n) \/ RestoreSnapshot(n)
  BY <1>0, <1>5 DEF ReadRemoteHead, ConfirmReads, PlanCommits, ImportHead, RestoreSnapshot, Goes
<1>6. CASE ImportCommit(n) \/ UploadCommit(n) \/ \E r \in Roots : Edit(n, r)
  BY <1>0, <1>6 DEF ImportCommit, UploadCommit, Edit, task
<1>7. CASE ClassifyInSync(n) \/ UploadSnapshot(n) \/ PutHead(n)
  BY <1>0, <1>7 DEF ClassifyInSync, UploadSnapshot, PutHead, Goes
<1> QED
  BY <1>2, <1>3, <1>4, <1>5, <1>6, <1>7 DEF NodeStep, SyncStep, Returns, Moves, Begins

(* What each step of the transaction leaves for the next.                  *)
LEMMA PhaseStep ==
  ASSUME IInv, NEW n \in Nodes, NodeStep(n)
  PROVE  PhaseInv'
<1>0. /\ TypeOK /\ LocalHistoryWhole /\ SeenInv /\ PhaseInv
      /\ rcommits \subseteq rcommits' /\ rsnaps \subseteq rsnaps'
  BY RemoteGrows DEF IInv, HistoriesWhole
<1> USE DEF PhaseInv, PhaseHolds, TypeOK
<1>1. CASE Ends(n) /\ UNCHANGED local
  BY <1>0, <1>1 DEF Ends, local
<1>2. CASE Returns(n) \/ PutAnswerLost(n)
  BY <1>1, <1>2, ReturnsOnly DEF PutAnswerLost
<1>3. CASE PlanAdopts(n) \/ PlanPulls(n)
  BY <1>0, <1>3 DEF PlanAdopts, Adopts, PlanPulls, PullsIntoEmpty, Goes, local
<1>4. CASE ClassifyPull(n)
  <2>1. Relation(n) \in {"RemoteAhead", "Diverged"}
    BY <1>4 DEF ClassifyPull, Pulls
  <2>2. seen[n] # None
    <3> SUFFICES ASSUME seen[n] = None PROVE FALSE
      OBVIOUS
    <3>1. ~ Reaches(head[n], seen[n], rcommits)
      BY <1>0, EmptySeq, LenProperties DEF Reaches, Ancestor, None, Commits
    <3> QED
      BY <2>1, <3>1 DEF Relation
  <2> QED
    BY <1>0, <1>4, <2>2 DEF ClassifyPull, Goes, local
<1>5. CASE ClassifyPush(n) \/ RecheckSame(n) \/ ReadbackSame(n) \/ StatusConfirmed(n) \/ AuditSame(n)
  BY <1>0, <1>5 DEF ClassifyPush, RecheckSame, ReadbackSame, StatusConfirmed, AuditSame, Goes, local
<1>6. CASE UploadedAll(n)
  <2>1. Lineage(head[n]) \subseteq Chain(n) \cup Lineage(seen[n])
    BY DEF Chain
  <2>2. Chain(n) \subseteq rcommits
    BY <1>6 DEF UploadedAll, NotUploaded
  <2>3. Lineage(seen[n]) \subseteq rcommits
    BY <1>0, LineageEmpty DEF SeenInv
  <2> QED
    BY <1>0, <1>6, <2>1, <2>2, <2>3 DEF UploadedAll, Goes, local, remote
<1>7. CASE Begins(n) \/ AuditMoved(n) \/ ReadRemoteHead(n) \/ ConfirmReads(n)
  BY <1>0, <1>1, <1>7 DEF Begins, Start, StatusAgain, AuditMoved, BeginPass, ReadRemoteHead,
     ConfirmReads, Goes, local
<1>8. CASE PlanCommits(n)
  <2>1. head'[n] # None
    BY <1>0, <1>8, LineageAppend DEF PlanCommits, HeadIs, Untracked, Entries
  <2> QED
    BY <1>0, <1>8, <2>1 DEF PlanCommits, Goes
<1>9. CASE ImportHead(n)
  BY <1>0, <1>9 DEF ImportHead, HeadImported, Goes
<1>10. CASE ImportCommit(n) \/ UploadCommit(n) \/ \E r \in Roots : Edit(n, r)
  BY <1>0, <1>10 DEF ImportCommit, UploadCommit, Edit, task, local
<1>11. CASE ClassifyInSync(n) \/ UploadSnapshot(n) \/ PutHead(n)
  BY <1>0, <1>11 DEF ClassifyInSync, UploadSnapshot, PutHead, Goes, local
<1>12. CASE RestoreSnapshot(n)
  BY <1>0, <1>12 DEF RestoreSnapshot, Goes
<1> QED
  BY <1>2, <1>3, <1>4, <1>5, <1>6, <1>7, <1>8, <1>9, <1>10, <1>11, <1>12
     DEF NodeStep, SyncStep, Returns, Moves, Begins
-----------------------------------------------------------------------------
(* The inductive invariant holds in every state.                           *)
THEOREM IInvAlways == Spec => []IInv
<1>1. Init => IInv
  BY InitIInv
<1>2. IInv /\ [Next]_vars => IInv'
  <2> SUFFICES ASSUME IInv, [Next]_vars PROVE IInv'
    OBVIOUS
  <2>1. ASSUME NEW n \in Nodes, NodeStep(n) PROVE IInv'
    BY <2>1, TypeStep, RemoteStep, LocalStep, SeenStep, PassStep, PhaseStep DEF IInv, HistoriesWhole
  <2>2. CASE UNCHANGED vars
    BY <2>2 DEF vars, local, remote, task, budget, IInv, HistoriesWhole, TypeOK, RemoteIsPullable,
       LocalHistoryWhole, SeenInv, PhaseInv, PhaseHolds, PassInv
  <2> QED
    BY <2>1, <2>2 DEF Next, NodeStep
<1> QED
  BY <1>1, <1>2, PTL DEF Spec

(* Wherever a node fails, the provider's HEAD leads to a complete history  *)
(* and snapshot, and every node's own history has no gap                   *)
(* (push_provider_state, import_remote_history, ensure_snapshot_commit).   *)
THEOREM HistoriesAreWhole == Spec => []HistoriesWhole
<1>1. IInv => HistoriesWhole
  BY DEF IInv
<1> QED
  BY <1>1, IInvAlways, PTL
-----------------------------------------------------------------------------
(* Where no node prefers its own side, what is about to be put descends    *)
(* from the HEAD that was read: the put can only extend it.                *)
NobodyPrefersLocal == \A n \in Nodes : Policy[n] # "prefer-local"

PublishInv ==
  NobodyPrefersLocal =>
    \A n \in Nodes : pc[n] \in {"snapshot", "commits", "recheck", "put"} =>
                        Ancestor(seen[n], head[n])

LEMMA PublishStep ==
  ASSUME IInv, PublishInv, [Next]_vars
  PROVE  PublishInv'
<1> SUFFICES ASSUME NobodyPrefersLocal PROVE PublishInv'
  BY DEF PublishInv, NobodyPrefersLocal
<1>0. TypeOK
  BY DEF IInv, HistoriesWhole
<1> USE DEF PublishInv, TypeOK
<1>1. ASSUME NEW n \in Nodes, Ends(n), UNCHANGED local PROVE PublishInv'
  BY <1>0, <1>1 DEF Ends, local
<1>2. ASSUME NEW n \in Nodes, Returns(n) \/ PutAnswerLost(n) PROVE PublishInv'
  BY <1>1, <1>2, ReturnsOnly DEF PutAnswerLost
<1>3. ASSUME NEW n \in Nodes, ClassifyPush(n) PROVE PublishInv'
  <2>1. Ancestor(seen[n], head[n])
    <3>1. Relation(n) \in {"EmptyRemote", "LocalAhead"}
      BY <1>3 DEF ClassifyPush, Pushes, NobodyPrefersLocal
    <3>2. CASE seen[n] = None
      <4>1. head[n] \in Commits /\ head[n] # None
        BY <1>0, <1>3 DEF ClassifyPush, Goes, IInv, PhaseInv, PhaseHolds
      <4>2. Len(head[n]) \in Nat \ {0} /\ Len(None) = 0
        BY <4>1, EmptySeq DEF Commits, None
      <4>3. SubSeq(head[n], 1, 0) = None
        BY SubSeqEmpty DEF None
      <4> QED
        BY <3>2, <4>2, <4>3 DEF Ancestor
    <3>3. CASE seen[n] # None
      BY <3>1, <3>3 DEF Relation, Reaches
    <3> QED
      BY <3>2, <3>3
  <2> QED
    BY <1>0, <1>3, <2>1 DEF ClassifyPush, Goes, local
<1>4. ASSUME NEW n \in Nodes, PlanAdopts(n) \/ PlanPulls(n) \/ ClassifyPull(n) \/ UploadedAll(n)
                               \/ RecheckSame(n)
      PROVE  PublishInv'
  BY <1>0, <1>4 DEF PlanAdopts, PlanPulls, ClassifyPull, UploadedAll, RecheckSame, Goes, local
<1>5. ASSUME NEW n \in Nodes, ReadbackSame(n) \/ StatusConfirmed(n) \/ AuditSame(n) \/ Begins(n)
      PROVE  PublishInv'
  BY <1>0, <1>5 DEF ReadbackSame, StatusConfirmed, AuditSame, Begins, Start, StatusAgain,
     BeginPass, Goes, local
<1>6. ASSUME NEW n \in Nodes, AuditMoved(n) \/ ReadRemoteHead(n) \/ ConfirmReads(n)
      PROVE  PublishInv'
  BY <1>0, <1>1, <1>6 DEF AuditMoved, BeginPass, ReadRemoteHead, ConfirmReads, Goes, local
<1>7. ASSUME NEW n \in Nodes, PlanCommits(n) \/ ImportHead(n) \/ RestoreSnapshot(n)
      PROVE  PublishInv'
  BY <1>0, <1>7 DEF PlanCommits, ImportHead, RestoreSnapshot, Goes
<1>8. ASSUME NEW n \in Nodes, ImportCommit(n) \/ UploadCommit(n) \/ \E r \in Roots : Edit(n, r)
      PROVE  PublishInv'
  BY <1>0, <1>8 DEF ImportCommit, UploadCommit, Edit, task, local
<1>9. ASSUME NEW n \in Nodes, ClassifyInSync(n) \/ UploadSnapshot(n) \/ PutHead(n)
      PROVE  PublishInv'
  BY <1>0, <1>9 DEF ClassifyInSync, UploadSnapshot, PutHead, Goes, local
<1>10. CASE UNCHANGED vars
  BY <1>10 DEF vars, local, task
<1> QED
  BY <1>2, <1>3, <1>4, <1>5, <1>6, <1>7, <1>8, <1>9, <1>10 DEF Next, SyncStep, Returns, Begins

(* With conditional puts and no node that prefers its own side, the        *)
(* provider's HEAD only ever moves to a descendant, whatever interleaves,  *)
(* fails or loses its answer (put_if_unchanged).                           *)
THEOREM NothingIsUnpublished ==
  ASSUME Atomic, NobodyPrefersLocal
  PROVE  Spec => NothingUnpublished
<1>1. Init => PublishInv
  BY DEF Init, PublishInv
<1>2. IInv /\ PublishInv /\ [Next]_vars => PublishInv'
  BY PublishStep
<1>3. IInv /\ PublishInv /\ [Next]_vars => [rhead' # rhead => Ancestor(rhead, rhead')]_vars
  <2> SUFFICES ASSUME IInv, PublishInv, Next, rhead' # rhead
               PROVE  Ancestor(rhead, rhead')
    OBVIOUS
  <2>1. PICK n \in Nodes : NodeStep(n)
    BY DEF Next, NodeStep
  <2>2. PutHead(n) \/ PutAnswerLost(n)
    BY <2>1, RemoteGrows
  <2> QED
    BY <2>2 DEF PutHead, PutAnswerLost, PutAdmitted, Goes, PublishInv
<1> QED
  BY <1>1, <1>2, <1>3, IInvAlways, PTL DEF Spec, NothingUnpublished
-----------------------------------------------------------------------------
(* A store that nobody changes under its node's hands is in the node's     *)
(* HEAD when the histories are compared, so a pull has something to go     *)
(* back to.                                                                *)
EditsInv ==
  ~BusyEdits =>
    \A n \in Nodes :
      /\ pc[n] = "classify" => HeadIs(n, root[n])
      /\ pc[n] = "import" /\ action[n] # "pull" => Root(seen[n]) = root[n]
      /\ pc[n] = "restore" =>
           \/ root[n] = EmptyRoot
           \/ HeadIs(n, root[n]) /\ (Policy[n] = "prefer-remote" \/ Ancestor(head[n], seen[n]))

LEMMA EditsStep ==
  ASSUME IInv, EditsInv, [Next]_vars
  PROVE  EditsInv'
<1> SUFFICES ASSUME ~BusyEdits PROVE EditsInv'
  BY DEF EditsInv
<1>0. TypeOK
  BY DEF IInv, HistoriesWhole
<1> USE DEF EditsInv, TypeOK, HeadIs, Untracked
<1>1. ASSUME NEW n \in Nodes, Ends(n), UNCHANGED local PROVE EditsInv'
  BY <1>0, <1>1 DEF Ends, local
<1>2. ASSUME NEW n \in Nodes, Returns(n) \/ PutAnswerLost(n) PROVE EditsInv'
  BY <1>1, <1>2, ReturnsOnly DEF PutAnswerLost
<1>3. ASSUME NEW n \in Nodes, ClassifyPull(n) PROVE EditsInv'
  <2>1. Policy[n] = "prefer-remote" \/ Ancestor(head[n], seen[n])
    BY <1>3 DEF ClassifyPull, Pulls, Relation, Reaches
  <2> QED
    BY <1>0, <1>3, <2>1 DEF ClassifyPull, Goes, local
<1>4. ASSUME NEW n \in Nodes, PlanAdopts(n) \/ PlanPulls(n) PROVE EditsInv'
  BY <1>0, <1>4 DEF PlanAdopts, Adopts, PlanPulls, PullsIntoEmpty, Goes, local
<1>5. ASSUME NEW n \in Nodes, PlanCommits(n) PROVE EditsInv'
  <2>1. head[n] \in Commits /\ [node |-> n, root |-> root[n]] \in Entries
    BY <1>0 DEF Entries
  <2>2. head'[n] # None /\ Root(head'[n]) = root[n]
    BY <1>0, <1>5, <2>1, LineageAppend DEF PlanCommits
  <2> QED
    BY <1>0, <1>5, <2>2 DEF PlanCommits, Goes
<1>6. ASSUME NEW n \in Nodes, ImportHead(n) PROVE EditsInv'
  BY <1>0, <1>6 DEF ImportHead, HeadImported, Goes, IInv, PhaseInv, PhaseHolds
<1>7. ASSUME NEW n \in Nodes, RestoreSnapshot(n) PROVE EditsInv'
  BY <1>0, <1>7 DEF RestoreSnapshot, Goes
<1>8. ASSUME NEW n \in Nodes, \E r \in Roots : Edit(n, r) PROVE EditsInv'
  BY <1>0, <1>8 DEF Edit, task
<1>9. ASSUME NEW n \in Nodes, ImportCommit(n) \/ UploadCommit(n) PROVE EditsInv'
  BY <1>0, <1>9 DEF ImportCommit, UploadCommit, task, local
<1>10. ASSUME NEW n \in Nodes, ClassifyPush(n) \/ UploadedAll(n) \/ RecheckSame(n) \/ ReadbackSame(n)
      PROVE  EditsInv'
  BY <1>0, <1>10 DEF ClassifyPush, UploadedAll, RecheckSame, ReadbackSame, Goes, local
<1>11. ASSUME NEW n \in Nodes, StatusConfirmed(n) \/ AuditSame(n) \/ Begins(n) \/ AuditMoved(n)
      PROVE  EditsInv'
  BY <1>0, <1>1, <1>11 DEF StatusConfirmed, AuditSame, Begins, Start, StatusAgain, AuditMoved,
     BeginPass, Goes, local
<1>12. ASSUME NEW n \in Nodes, ReadRemoteHead(n) \/ ConfirmReads(n) PROVE EditsInv'
  BY <1>0, <1>12 DEF ReadRemoteHead, ConfirmReads, Goes, local
<1>13. ASSUME NEW n \in Nodes, ClassifyInSync(n) \/ UploadSnapshot(n) \/ PutHead(n)
      PROVE  EditsInv'
  BY <1>0, <1>13 DEF ClassifyInSync, UploadSnapshot, PutHead, Goes, local
<1>14. CASE UNCHANGED vars
  BY <1>14 DEF vars, local, task
<1> QED
  BY <1>2, <1>3, <1>4, <1>5, <1>6, <1>7, <1>8, <1>9, <1>10, <1>11, <1>12, <1>13, <1>14
     DEF Next, SyncStep, Returns, Begins

(* Unless another process edits a store during its synchronisation, a pull *)
(* replaces nothing that is in no history (pull_provider_state after       *)
(* ensure_snapshot_commit).                                                *)
THEOREM PullsKeepEdits ==
  ASSUME ~BusyEdits
  PROVE  Spec => PullKeepsEdits
<1>1. Init => EditsInv
  BY DEF Init, EditsInv
<1>2. IInv /\ EditsInv /\ [Next]_vars => EditsInv'
  BY EditsStep
<1>3. EditsInv /\ [Next]_vars =>
        [\A n \in Nodes : pc[n] = "restore" /\ RestoreSnapshot(n) =>
           \/ root[n] = EmptyRoot \/ root[n] = Root(seen[n])
           \/ HeadIs(n, root[n]) /\ (Policy[n] = "prefer-remote" \/ Ancestor(head[n], seen[n]))]_vars
  BY DEF EditsInv
<1> QED
  BY <1>1, <1>2, <1>3, IInvAlways, PTL DEF Spec, PullKeepsEdits
=============================================================================
