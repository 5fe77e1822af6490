--------------------------- MODULE NodePartsProofs ---------------------------
(***************************************************************************)
(* Proofs about the parts of a Cloud Node that MCNodeParts puts together,  *)
(* for every value of their constants: the recovery from a peer with its   *)
(* swap of the store, the replacement of the registry, and the Video       *)
(* Manager.                                                                *)
(***************************************************************************)
EXTENDS MCNodeParts, TLAPS

(***************************************************************************)
(* PeerRecovery: messages and the recovery they belong to.  A session      *)
(* stands for one plan, which the sending node has stored.                 *)
(***************************************************************************)
Messages ==
  [kind : Waiting, session : Sessions, root : 2 .. local, res : 1 .. Resources + 1,
   off : 0 .. Total - 1]

Recoveries ==
  [session : {0} \cup Sessions, root : 0 .. Last, active : 0 .. Resources, phase : {0, 2}]

NetInv ==
  /\ local \in 2 .. Last
  /\ net \subseteq Messages
  /\ \A m \in net : m.kind = "chunk" => m.res <= Resources
  /\ csess # 0 => plan \in 2 .. local
  /\ rec \in Recoveries
  /\ rec.session = 0 => rec = NoRec
  /\ rec.session # 0 => rec.root \in 2 .. local
  /\ spc # "idle" => up /\ rec.session # 0

(* The two renames.  One tree is whole at every moment, and the other is   *)
(* whole or known to be the one to give up.                                *)
SwapInv ==
  /\ prev # NoTree => OneSnapshot(prev)
  /\ prev = NoTree => live # NoTree /\ OneSnapshot(live)
  /\ up /\ spc # "verify" /\ live # NoTree => OneSnapshot(live)
  /\ up /\ live = NoTree => spc = "new"
  /\ spc \in {"old", "signal"} => prev = NoTree
  /\ spc = "new" => live = NoTree
  /\ spc = "verify" => live # NoTree /\ prev # NoTree
  /\ spc \in {"clean", "signal"} =>
       live # NoTree /\ \A r \in Res : live[r] \in {rec.root, Decayed}

StoreInv == TypeOK /\ NetInv /\ SwapInv

(* The client has one request under way, and it is about what it waits     *)
(* for; what was acknowledged in this session is staged.                   *)
RequestInv ==
  /\ \A m, n \in net : m.session = n.session => m = n
  /\ \A m \in net : m.session = csess =>
       /\ m.root = plan /\ m.res = cres /\ m.off = coff /\ cpc # "walk"
       /\ cpc \in Waiting => m.kind = cpc
  /\ cpc = "hello" => cres = 1 /\ coff = 0
  /\ spc # "idle" /\ rec.session = csess => cpc \in {"complete", "idle"}

StagedInv ==
  csess # 0 /\ rec.session = csess /\ cpc \in {"walk", "chunk"} =>
    /\ \A r \in Res : r < cres => done[r] \in {plan, Rotten}
    /\ cres <= Resources => part[cres] >= coff

PeerInv == StoreInv /\ RequestInv /\ StagedInv
-----------------------------------------------------------------------------
\* A request is taken from the net and handled.
Handles(m) == up /\ spc = "idle" /\ net' = net \ {m} /\ UNCHANGED <<local, up, faults>>
Hello(m) == Handles(m) /\ HandleHello(m)
Chunk(m) == Handles(m) /\ HandleChunk(m)
Completion(m) == Handles(m) /\ HandleComplete(m)

(* No tree is the missing one.                                             *)
LEMMA TreeIsThere ==
  ASSUME NEW S, NEW t \in [Res -> S]
  PROVE  t # NoTree
<1>1. 1 \in Res
  BY PeerAssumption DEF PeerAssumption, Res
<1>2. DOMAIN t = Res /\ 1 \notin DOMAIN NoTree
  BY DEF NoTree
<1> QED
  BY <1>1, <1>2

(* A tree that is one snapshot has every resource.                         *)
LEMMA OneIsComplete ==
  ASSUME NEW t, t # NoTree, OneSnapshot(t)
  PROVE  Complete(t)
  BY PeerAssumption DEF OneSnapshot, Complete, Decayed, PeerAssumption

(* The flags of the responder stay Boolean.                                *)
LEMMA PeerFlags ==
  ASSUME TypeOK, [Next]_vars
  PROVE  up' \in BOOLEAN /\ signalled' \in BOOLEAN
<1>0. up \in BOOLEAN /\ signalled \in BOOLEAN
  BY DEF TypeOK
<1>1. CASE ClientStep \/ Edit \/ GiveUp \/ UNCHANGED vars
  BY <1>0, <1>1, Zenon DEF ClientStep, Negotiate, SendNext, Disconnected, Edit, GiveUp, vars
<1>2. CASE Handle
  BY <1>0, <1>2, Zenon DEF Handle, HandleHello, HandleChunk, HandleComplete
<1>3. CASE SwapStep
  BY <1>0, <1>3, Zenon DEF SwapStep, SwapOld, SwapNew, SwapVerify, SwapClean, Signal
<1>4. CASE Crash \/ Rot
  BY <1>0, <1>4, Zenon DEF Crash, Rot
<1>5. CASE Reopen
  <2>1. Whole(prev) \in BOOLEAN
    BY SMT DEF Whole
  <2> QED
    BY <1>0, <1>5, <2>1, Zenon DEF Reopen
<1> QED
  BY <1>1, <1>2, <1>3, <1>4, <1>5 DEF Next

(* The parts of the type invariant.                                        *)
ClientOK ==
  /\ local \in 1 .. Last /\ cpc \in Waiting \cup {"idle", "walk"}
  /\ csess \in {0} \cup Sessions /\ plan \in 0 .. Last
  /\ cres \in 1 .. Resources + 1 /\ coff \in 0 .. Total - 1 /\ spc \in Steps

StagingOK ==
  /\ sroot \in 0 .. Last /\ done \in [Res -> 0 .. Rotten]
  /\ part \in [Res -> 0 .. Total] /\ bad \in [Res -> 0 .. Total]

TreesOK ==
  /\ live \in {NoTree} \cup [Res -> 0 .. Decayed]
  /\ prev \in {NoTree} \cup [Res -> 0 .. Decayed]

(* What a chunk makes of a partial file stays within the resource.         *)
LEMMA OutcomeBounds ==
  ASSUME TypeOK, NEW m \in Messages, m.res \in Res
  PROVE  Outcome(m).length \in 0 .. Total /\ Outcome(m).bad \in 0 .. Total
<1>1. m.off \in 0 .. Total - 1 /\ Total \in Nat /\ part[m.res] \in 0 .. Total /\ bad[m.res] \in 0 .. Total
  BY PeerAssumption DEF TypeOK, Messages, PeerAssumption, Total
<1>2. End(m) \in 0 .. Total
  BY <1>1 DEF End
<1> QED
  BY <1>1, <1>2 DEF Outcome

(* An answer moves the client on by at most one resource.                  *)
LEMMA AckMoves ==
  ASSUME ClientOK, NEW m, NEW next \in 0 .. Total, Acknowledge(m, next),
         Awaited(m) => cres <= Resources \/ next # Total
  PROVE  /\ cpc' \in Waiting \cup {"idle", "walk"} /\ csess' = csess /\ plan' = plan
         /\ cres' \in 1 .. Resources + 1 /\ coff' \in 0 .. Total - 1
         /\ cpc' = "walk" \/ (cpc' = cpc /\ cres' = cres /\ coff' = coff)
<1>1. Total \in Nat \ {0, 1} /\ Resources \in Nat
  BY PeerAssumption DEF PeerAssumption, Total
<1>2. CASE Awaited(m)
  BY <1>1, <1>2 DEF Acknowledge, ClientOK
<1>3. CASE ~Awaited(m)
  BY <1>1, <1>3 DEF Acknowledge, ClientOK, client
<1> QED
  BY <1>2, <1>3

(* ... and a failure sends it back to the start.                           *)
LEMMA ReturnMoves ==
  ASSUME ClientOK, NEW m, Return(m)
  PROVE  /\ cpc' \in {"idle", cpc} /\ UNCHANGED <<csess, plan, cres, coff>>
         /\ Awaited(m) => cpc' = "idle"
  BY DEF Return

(* How a request that is handled leaves the client.                        *)
LEMMA HandledClient ==
  ASSUME PeerInv, NEW m \in net, HandleHello(m) \/ HandleChunk(m) \/ HandleComplete(m)
  PROVE  /\ cpc' \in Waiting \cup {"idle", "walk"} /\ csess' = csess /\ plan' = plan
         /\ cres' \in 1 .. Resources + 1 /\ coff' \in 0 .. Total - 1
         /\ \/ cpc' = "walk" /\ m.session = csess /\ cpc \in Waiting
            \/ cpc' \in {"idle", cpc} /\ cres' = cres /\ coff' = coff
<1>0. ClientOK /\ StagingOK /\ TypeOK /\ m \in Messages
  BY DEF PeerInv, StoreInv, NetInv, TypeOK, ClientOK, StagingOK
<1>1. /\ Total \in Nat \ {0, 1} /\ (m.kind = "chunk" => m.res \in Res)
  BY <1>0, PeerAssumption DEF PeerAssumption, Total, Res, PeerInv, StoreInv, NetInv, Messages
<1>2. m.kind = "chunk" /\ Awaited(m) => cres <= Resources
  BY <1>1 DEF Awaited, PeerInv, RequestInv, Res
<1>3. ASSUME NEW next \in 0 .. Total, Acknowledge(m, next), next = Total => m.kind = "chunk"
      PROVE  /\ cpc' \in Waiting \cup {"idle", "walk"} /\ csess' = csess /\ plan' = plan
             /\ cres' \in 1 .. Resources + 1 /\ coff' \in 0 .. Total - 1
             /\ \/ cpc' = "walk" /\ m.session = csess /\ cpc \in Waiting
                \/ cpc' \in {"idle", cpc} /\ cres' = cres /\ coff' = coff
  <2>1. CASE Awaited(m)
    <3>1. cpc' = "walk" /\ m.session = csess /\ cpc \in Waiting
      BY <1>3, <2>1 DEF Acknowledge, Awaited
    <3> QED
      BY <1>0, <1>2, <1>3, <2>1, <3>1, AckMoves
  <2>2. CASE ~Awaited(m)
    BY <1>0, <1>3, <2>2 DEF Acknowledge, client, ClientOK
  <2> QED
    BY <2>1, <2>2
<1>4. ASSUME Return(m) \/ UNCHANGED client
      PROVE  /\ cpc' \in Waiting \cup {"idle", "walk"} /\ csess' = csess /\ plan' = plan
             /\ cres' \in 1 .. Resources + 1 /\ coff' \in 0 .. Total - 1
             /\ cpc' \in {"idle", cpc} /\ cres' = cres /\ coff' = coff
  BY <1>0, <1>4 DEF Return, client, ClientOK
<1>5. CASE HandleHello(m)
  <2>1. Return(m) \/ Acknowledge(m, 0)
    BY <1>5 DEF HandleHello
  <2> QED
    BY <1>1, <1>3, <1>4, <2>1
<1>6. CASE HandleChunk(m)
  <2>1. m.kind = "chunk"
    BY <1>6 DEF HandleChunk
  <2>2. Outcome(m).length \in 0 .. Total
    BY <1>0, <1>1, <2>1, OutcomeBounds
  <2>3. \/ Return(m) \/ Acknowledge(m, Total) \/ Acknowledge(m, Outcome(m).length)
    BY <1>6 DEF HandleChunk, Duplicate, Store
  <2>4. Total \in 0 .. Total
    BY <1>1
  <2> QED
    BY <1>3, <1>4, <2>1, <2>2, <2>3, <2>4
<1>7. CASE HandleComplete(m)
  <2>1. Return(m) \/ UNCHANGED client
    BY <1>7 DEF HandleComplete
  <2> QED
    BY <1>4, <2>1
<1> QED
  BY <1>5, <1>6, <1>7

(* A recovery that goes on to another resource is the same recovery.       *)
LEMMA GoesOn ==
  ASSUME NEW r \in Recoveries, NEW a \in 0 .. Resources, NEW k \in {0, 2}
  PROVE  /\ [r EXCEPT !.active = a, !.phase = k] \in Recoveries
         /\ [r EXCEPT !.active = a, !.phase = k].session = r.session
         /\ [r EXCEPT !.active = a, !.phase = k].root = r.root
  BY DEF Recoveries

(* The client keeps to its resources and offsets.                           *)
LEMMA ClientTypes ==
  ASSUME PeerInv, [Next]_vars
  PROVE  ClientOK'
<1>0. ClientOK
  BY DEF PeerInv, StoreInv, TypeOK, ClientOK
<1>a. Resources \in Nat /\ Total \in Nat \ {0, 1} /\ Last \in Nat
  BY PeerAssumption DEF PeerAssumption, Total
<1>1. CASE Negotiate
  BY <1>1, <1>0, <1>a DEF Negotiate, Request, client, staging, store, ClientOK, Waiting, Steps,
     FreshSessions
<1>2. CASE SendNext
  BY <1>2, <1>0, <1>a DEF SendNext, Request, staging, store, ClientOK, Waiting, Steps
<1>3. CASE Disconnected
  BY <1>3, <1>0, <1>a DEF Disconnected, staging, store, ClientOK, Waiting, Steps
<1>4. CASE Edit
  BY <1>4, <1>0, <1>a DEF Edit, client, staging, store, ClientOK, Waiting, Steps
<1>5. CASE GiveUp
  BY <1>5, <1>0, <1>a DEF GiveUp, Fault, staging, store, ClientOK, Waiting, Steps
<1>6. ASSUME NEW m \in net,
             Hello(m) \/ Chunk(m) \/ Completion(m)
      PROVE  ClientOK'
  <2>1. HandleHello(m) \/ HandleChunk(m) \/ HandleComplete(m)
    BY <1>6 DEF Hello, Chunk, Completion
  <2>2. UNCHANGED local /\ spc' \in Steps
    BY <1>0, <1>6 DEF Hello, Chunk, Completion, Handles, HandleHello, HandleChunk, HandleComplete, Steps, ClientOK
  <2> QED
    BY <1>0, <2>1, <2>2, HandledClient DEF ClientOK
<1>7. CASE SwapOld
  BY <1>7, <1>0, <1>a DEF SwapOld, Step, Fails, Return, Fault, client, staging, store,
     ClientOK, Waiting, Steps
<1>8. CASE SwapNew
  BY <1>8, <1>0, <1>a DEF SwapNew, Step, Fails, Return, Fault, client, ClientOK, Waiting, Steps
<1>9. CASE SwapVerify
  BY <1>9, <1>0, <1>a DEF SwapVerify, Step, Fails, Return, Fault, client, store, ClientOK,
     Waiting, Steps
<1>10. CASE SwapClean
  BY <1>10, <1>0, <1>a DEF SwapClean, Step, Fails, Return, Fault, client, ClientOK, Waiting,
     Steps
<1>11. CASE Signal
  BY <1>11, <1>0, <1>a DEF Signal, Step, Return, staging, store, ClientOK, Waiting, Steps
<1>12. CASE Crash
  BY <1>12, <1>0, <1>a DEF Crash, Fault, store, ClientOK, Waiting, Steps
<1>13. CASE Reopen
  BY <1>13, <1>0, <1>a DEF Reopen, client, staging, store, ClientOK, Waiting, Steps
<1>14. CASE Rot
  BY <1>14, <1>0, <1>a DEF Rot, Fault, client, ClientOK, Waiting, Steps
<1>15. CASE UNCHANGED vars
  BY <1>15, <1>0 DEF vars, client, staging, store, ClientOK, Waiting, Steps
<1> QED
  BY <1>1, <1>2, <1>3, <1>4, <1>5, <1>6, <1>7, <1>8, <1>9, <1>10, <1>11, <1>12, <1>13, <1>14,
     <1>15
     DEF Next, ClientStep, SwapStep, Handle, Handles, Hello, Chunk, Completion

(* The staging tree holds resources, partial files and garbage in bounds.   *)
LEMMA StagingTypes ==
  ASSUME PeerInv, [Next]_vars
  PROVE  StagingOK'
<1>0. StagingOK /\ TreesOK /\ TypeOK /\ NetInv /\ SwapInv
  BY DEF PeerInv, StoreInv, TypeOK, StagingOK, TreesOK
<1>a. Resources \in Nat /\ Total \in Nat \ {0, 1} /\ Last \in Nat
  BY PeerAssumption DEF PeerAssumption, Total
<1>1. CASE Negotiate
  BY <1>1, <1>0 DEF Negotiate, Request, client, staging, store, StagingOK
<1>2. CASE SendNext
  BY <1>2, <1>0 DEF SendNext, Request, staging, store, StagingOK
<1>3. CASE Disconnected
  BY <1>3, <1>0 DEF Disconnected, staging, store, StagingOK
<1>4. CASE Edit
  BY <1>4, <1>0 DEF Edit, client, staging, store, StagingOK
<1>5. CASE GiveUp
  BY <1>5, <1>0 DEF GiveUp, Fault, staging, store, StagingOK
<1>6. ASSUME NEW m \in net,
             Hello(m)
      PROVE  StagingOK'
  <2>1. m.root \in 0 .. Last
    BY <1>0, <1>a DEF NetInv, Messages, TypeOK
  <2>2. UNCHANGED staging \/ OpenReceiver(m)
    BY <1>6 DEF Hello, HandleHello, Resume, staging
  <2>3. CASE UNCHANGED staging
    BY <1>0, <2>3 DEF StagingOK, staging
  <2>4. CASE OpenReceiver(m)
    BY <1>0, <1>a, <2>1, <2>4 DEF OpenReceiver, StagingOK, All, Rotten
  <2> QED
    BY <2>2, <2>3, <2>4
<1>7. ASSUME NEW m \in net,
             Chunk(m)
      PROVE  StagingOK'
  <2>1. m \in Messages /\ m.kind = "chunk" /\ m.res \in Res
    BY <1>0, <1>a, <1>7 DEF Chunk, HandleChunk, NetInv, Messages, Res
  <2>2. Outcome(m).length \in 0 .. Total /\ Outcome(m).bad \in 0 .. Total
    BY <1>0, <2>1, OutcomeBounds
  <2>3. m.root \in 0 .. Rotten
    BY <1>0, <1>a, <2>1 DEF Messages, TypeOK, Rotten
  <2>4. CASE Duplicate(m)
    BY <1>0, <1>a, <2>1, <2>4 DEF Duplicate, StagingOK
  <2>5. CASE Store(m)
    <3>1. UNCHANGED sroot
      BY <2>5 DEF Store
    <3>2. part' \in [Res -> 0 .. Total] /\ bad' \in [Res -> 0 .. Total]
      BY <1>0, <1>a, <2>1, <2>2, <2>5 DEF Store, StagingOK
    <3>3. done' = done \/ done' = [done EXCEPT ![m.res] = m.root]
      BY <2>5 DEF Store
    <3> QED
      BY <1>0, <2>3, <3>1, <3>2, <3>3 DEF StagingOK
  <2>6. CASE UNCHANGED staging
    BY <1>0, <2>6 DEF StagingOK, staging
  <2> QED
    BY <1>7, <2>4, <2>5, <2>6 DEF Chunk, HandleChunk
<1>8. ASSUME NEW m \in net,
             Completion(m)
      PROVE  StagingOK'
  BY <1>8, <1>0 DEF Completion, HandleComplete, staging, StagingOK
<1>9. CASE SwapOld
  BY <1>9, <1>0 DEF SwapOld, Step, Fails, Return, Fault, client, staging, store, StagingOK
<1>10. CASE SwapNew
  BY <1>10, <1>0, <1>a DEF SwapNew, Step, Fails, Return, Fault, client, StagingOK, Rotten,
     Decayed, All
<1>11. CASE SwapVerify
  <2>1. live \in [Res -> 0 .. Decayed] \/ UNCHANGED done
    BY <1>0, <1>11 DEF SwapVerify, Step, Fails, SwapInv, TreesOK
  <2>2. UNCHANGED <<sroot, part, bad>>
    BY <1>11 DEF SwapVerify
  <2>3. \/ UNCHANGED done
        \/ done' = [r \in Res |-> IF live[r] = Decayed THEN Rotten ELSE live[r]]
    BY <1>11 DEF SwapVerify
  <2>4. ASSUME live \in [Res -> 0 .. Decayed],
               done' = [r \in Res |-> IF live[r] = Decayed THEN Rotten ELSE live[r]]
        PROVE  done' \in [Res -> 0 .. Rotten]
    BY <1>a, <2>4 DEF Rotten, Decayed
  <2> QED
    BY <1>0, <2>1, <2>2, <2>3, <2>4 DEF StagingOK
<1>12. CASE SwapClean
  BY <1>12, <1>0, <1>a DEF SwapClean, Step, Fails, Return, Fault, client, StagingOK, Rotten,
     Decayed, All
<1>13. CASE Signal
  BY <1>13, <1>0 DEF Signal, Step, Return, staging, store, StagingOK
<1>14. CASE Crash
  <2>1. UNCHANGED <<sroot, done>>
    BY <1>14 DEF Crash
  <2>2. CASE UNCHANGED <<part, bad>>
    BY <1>0, <2>1, <2>2 DEF StagingOK
  <2>3. ASSUME NEW m \in net, m.kind = "chunk", m.off = part[m.res],
               part' = [part EXCEPT ![m.res] = part[m.res] + 1],
               bad' \in {bad, [bad EXCEPT ![m.res] = IF bad[m.res] = 0 THEN part[m.res] + 1 ELSE bad[m.res]]}
        PROVE  StagingOK'
    <3>1. m.res \in Res /\ m.off \in 0 .. Total - 1
      BY <1>0, <1>a, <2>3 DEF NetInv, Messages, Res
    <3>2. part[m.res] + 1 \in 0 .. Total /\ part \in [Res -> 0 .. Total] /\ bad \in [Res -> 0 .. Total]
      BY <1>0, <1>a, <2>3, <3>1 DEF StagingOK
    <3>3. part' \in [Res -> 0 .. Total]
      BY <2>3, <3>1, <3>2
    <3>4. bad' \in [Res -> 0 .. Total]
      <4>1. CASE bad' = bad
        BY <3>2, <4>1
      <4>2. CASE bad' = [bad EXCEPT ![m.res] = IF bad[m.res] = 0 THEN part[m.res] + 1 ELSE bad[m.res]]
        BY <3>1, <3>2, <4>2
      <4> QED
        BY <2>3, <4>1, <4>2
    <3> QED
      BY <1>0, <2>1, <3>3, <3>4 DEF StagingOK
  <2>4. Torn
    BY <1>14 DEF Crash
  <2> QED
    BY <2>2, <2>3, <2>4, Zenon DEF Torn
<1>15. CASE Reopen
  BY <1>15, <1>0 DEF Reopen, client, staging, store, StagingOK
<1>16. CASE Rot
  BY <1>16, <1>0, <1>a DEF Rot, Fault, client, StagingOK, Rotten, Decayed, All
<1>17. CASE UNCHANGED vars
  BY <1>17, <1>0 DEF vars, client, staging, store, StagingOK
<1> QED
  BY <1>1, <1>2, <1>3, <1>4, <1>5, <1>6, <1>7, <1>8, <1>9, <1>10, <1>11, <1>12, <1>13, <1>14,
     <1>15, <1>16, <1>17
     DEF Next, ClientStep, SwapStep, Handle, Handles, Hello, Chunk, Completion

(* The live tree and the one set aside.                                     *)
LEMMA TreesTypes ==
  ASSUME PeerInv, [Next]_vars
  PROVE  TreesOK'
<1>0. StagingOK /\ TreesOK /\ TypeOK /\ NetInv /\ SwapInv
  BY DEF PeerInv, StoreInv, TypeOK, StagingOK, TreesOK
<1>a. Resources \in Nat /\ Total \in Nat \ {0, 1} /\ Last \in Nat
  BY PeerAssumption DEF PeerAssumption, Total
<1>1. CASE Negotiate \/ SendNext \/ Disconnected \/ Edit \/ GiveUp
  BY <1>1, <1>0 DEF Negotiate, Request, client, staging, store, SendNext, Disconnected, Edit,
     GiveUp, Fault, TreesOK
<1>2. ASSUME NEW m \in net,
             Hello(m)
      PROVE  TreesOK'
  BY <1>2, <1>0 DEF Hello, HandleHello, store, TreesOK
<1>3. ASSUME NEW m \in net,
             Chunk(m)
      PROVE  TreesOK'
  BY <1>3, <1>0 DEF Chunk, HandleChunk, store, TreesOK
<1>4. ASSUME NEW m \in net,
             Completion(m)
      PROVE  TreesOK'
  BY <1>4, <1>0 DEF Completion, HandleComplete, store, TreesOK
<1>5. CASE SwapOld
  BY <1>5, <1>0 DEF SwapOld, Step, Fails, Return, Fault, client, staging, store, TreesOK
<1>6. CASE SwapNew
  BY <1>6, <1>0, <1>a DEF SwapNew, Step, Fails, Return, Fault, client, TreesOK, StagingOK,
     Rotten, Decayed
<1>7. CASE SwapVerify
  BY <1>7, <1>0 DEF SwapVerify, Step, Fails, Return, Fault, client, store, TreesOK
<1>8. CASE SwapClean
  BY <1>8, <1>0 DEF SwapClean, Step, Fails, Return, Fault, client, TreesOK
<1>9. CASE Signal
  BY <1>9, <1>0 DEF Signal, Step, Return, staging, store, TreesOK
<1>10. CASE Crash
  BY <1>10, <1>0 DEF Crash, Fault, store, TreesOK
<1>11. CASE Reopen
  BY <1>11, <1>0 DEF Reopen, client, staging, store, TreesOK, Restored
<1>12. CASE Rot
  BY <1>12, <1>0, <1>a DEF Rot, Fault, client, TreesOK, Decayed
<1>13. CASE UNCHANGED vars
  BY <1>13, <1>0 DEF vars, client, staging, store, TreesOK
<1> QED
  BY <1>1, <1>2, <1>3, <1>4, <1>5, <1>6, <1>7, <1>8, <1>9, <1>10, <1>11, <1>12, <1>13
     DEF Next, ClientStep, SwapStep, Handle, Handles, Hello, Chunk, Completion

(* Requests stand for plans of the sending node, and so does the recovery.  *)
LEMMA NetStep ==
  ASSUME PeerInv, [Next]_vars
  PROVE  NetInv'
<1>0. ClientOK /\ NetInv /\ TypeOK
  BY DEF PeerInv, StoreInv, TypeOK, ClientOK
<1>a. Resources \in Nat /\ Total \in Nat \ {0, 1} /\ Last \in Nat /\ 0 \notin Sessions
  BY PeerAssumption DEF PeerAssumption, Total
<1>1. CASE Negotiate
  <2>1. csess' \in Sessions /\ plan' \in 2 .. local
    BY <1>0, <1>1 DEF Negotiate, FreshSessions, ClientOK, NetInv
  <2> DEFINE r == Request("hello")
  <2>2. r \in Messages /\ r.kind = "hello"
    BY <1>a, <1>1, <2>1 DEF Negotiate, Request, Messages, Waiting
  <2>3. net' = net \cup {r} /\ UNCHANGED <<local, up, rec, spc>>
    BY <1>1 DEF Negotiate
  <2> HIDE DEF r
  <2> QED
    BY <1>0, <1>a, <2>1, <2>2, <2>3 DEF NetInv, Messages
<1>2. CASE SendNext
  BY <1>2, <1>0, <1>a DEF SendNext, Request, staging, store, NetInv, Messages, ClientOK, Waiting
<1>3. CASE Disconnected
  BY <1>3, <1>0, <1>a DEF Disconnected, staging, store, NetInv, Messages
<1>4. CASE Edit
  BY <1>4, <1>0, <1>a DEF Edit, client, staging, store, NetInv, Messages, ClientOK, Waiting
<1>5. CASE GiveUp
  BY <1>5, <1>0, <1>a DEF GiveUp, Fault, staging, store, NetInv, Messages
<1>6. ASSUME NEW m \in net,
             Hello(m)
      PROVE  NetInv'
  <2>1. m \in Messages /\ m.session \in Sessions /\ m.session # 0 /\ m.root \in 2 .. local /\ m.root \in 0 .. Last
        /\ (m.kind = "chunk" => m.res \in Res)
    BY <1>0, <1>a DEF NetInv, Messages, ClientOK, Res
  <2>2. rec \in Recoveries
    BY <1>0 DEF NetInv
  <2>3. csess' = csess /\ plan' = plan
    BY <1>6, HandledClient DEF Hello, Chunk, Completion
  <2>4. net' = net \ {m} /\ UNCHANGED <<local, up>> /\ up /\ spc = "idle"
    BY <1>6 DEF Hello, Chunk, Completion, Handles
  <2>5. CASE UNCHANGED rec
    BY <1>0, <1>6, <2>3, <2>4, <2>5 DEF Hello, HandleHello, NetInv, Messages
  <2>6. CASE Resume(m) /\ rec # NoRec
    <3>1. rec' \in Recoveries
          /\ rec'.session = m.session /\ rec'.root = rec.root
      BY <2>1, <2>2, <2>6 DEF Resume, Recoveries
    <3>2. rec.session # 0
      BY <1>0, <2>6 DEF NetInv
    <3>3. spc' = spc
      BY <1>6 DEF Hello, HandleHello
    <3> QED
      BY <1>0, <1>a, <2>1, <2>3, <2>4, <3>1, <3>2, <3>3 DEF NetInv, Messages
  <2>7. CASE OpenReceiver(m)
    <3>1. rec' \in Recoveries
          /\ rec'.session = m.session /\ rec'.root = m.root
      BY <1>a, <2>1, <2>7 DEF OpenReceiver, Recoveries
    <3> QED
      BY <1>0, <1>6, <2>1, <2>3, <2>4, <3>1 DEF Hello, HandleHello, NetInv, Messages
  <2> QED
    BY <1>6, <2>5, <2>6, <2>7 DEF Hello, HandleHello
<1>7. ASSUME NEW m \in net,
             Chunk(m)
      PROVE  NetInv'
  <2>1. m \in Messages /\ m.session \in Sessions /\ m.session # 0 /\ m.root \in 2 .. local /\ m.root \in 0 .. Last
        /\ (m.kind = "chunk" => m.res \in Res)
    BY <1>0, <1>a DEF NetInv, Messages, ClientOK, Res
  <2>2. rec \in Recoveries
    BY <1>0 DEF NetInv
  <2>3. csess' = csess /\ plan' = plan
    BY <1>7, HandledClient DEF Hello, Chunk, Completion
  <2>4. net' = net \ {m} /\ UNCHANGED <<local, up>> /\ up /\ spc = "idle"
    BY <1>7 DEF Hello, Chunk, Completion, Handles
  <2>5. CASE UNCHANGED rec
    BY <1>0, <1>7, <2>3, <2>4, <2>5 DEF Chunk, HandleChunk, NetInv, Messages
  <2>6. CASE Store(m)
    <3>1. Kind(m.res) \in {0, 2} /\ m.res \in 0 .. Resources /\ rec.session # 0
      BY <1>0, <1>a, <1>7, <2>1, <2>6 DEF Chunk, HandleChunk, Kind, Res, Store, Admitted, OwnsRecovery
    <3>2. \/ rec' = [rec EXCEPT !.active = 0, !.phase = Kind(m.res)]
          \/ rec' = [rec EXCEPT !.active = m.res, !.phase = Kind(m.res)]
      BY <2>6 DEF Store
    <3>3. rec' \in Recoveries
          /\ rec'.session = rec.session /\ rec'.root = rec.root
      <4>1. rec \in Recoveries /\ 0 \in 0 .. Resources
        BY <1>a, <2>2
      <4> QED
        BY <3>1, <3>2, <4>1, GoesOn, ZenonT(30) DEF Recoveries
    <3> QED
      BY <1>0, <1>7, <2>1, <2>3, <2>4, <3>1, <3>3 DEF Chunk, HandleChunk, NetInv, Messages
  <2> QED
    BY <1>7, <2>5, <2>6 DEF Chunk, HandleChunk, Duplicate
<1>8. ASSUME NEW m \in net,
             Completion(m)
      PROVE  NetInv'
  <2>1. m \in Messages /\ m.session \in Sessions /\ m.session # 0 /\ m.root \in 2 .. local /\ m.root \in 0 .. Last
        /\ (m.kind = "chunk" => m.res \in Res)
    BY <1>0, <1>a DEF NetInv, Messages, ClientOK, Res
  <2>2. rec \in Recoveries
    BY <1>0 DEF NetInv
  <2>3. csess' = csess /\ plan' = plan
    BY <1>8, HandledClient DEF Hello, Chunk, Completion
  <2>4. net' = net \ {m} /\ UNCHANGED <<local, up>> /\ up /\ spc = "idle"
    BY <1>8 DEF Hello, Chunk, Completion, Handles
  <2>5. UNCHANGED rec /\ (spc' # "idle" => rec.session # 0)
    BY <1>8, <2>1, <2>4 DEF Completion, HandleComplete, Completable, OwnsRecovery
  <2> QED
    BY <1>0, <2>3, <2>4, <2>5 DEF NetInv, Messages
<1>9. CASE SwapOld
  BY <1>9, <1>0 DEF SwapOld, Step, Fails, Return, Fault, client, staging, store, NetInv,
     Messages
<1>10. CASE SwapNew
  BY <1>10, <1>0 DEF SwapNew, Step, Fails, Return, Fault, client, NetInv, Messages
<1>11. CASE SwapVerify
  BY <1>11, <1>0 DEF SwapVerify, Step, Fails, Return, Fault, client, store, NetInv, Messages
<1>12. CASE SwapClean
  BY <1>12, <1>0 DEF SwapClean, Step, Fails, Return, Fault, client, NetInv, Messages
<1>13. CASE Signal
  BY <1>13, <1>0, <1>a DEF Signal, Step, Return, staging, store, NetInv, Messages, NoRec,
     Recoveries
<1>14. CASE Crash
  BY <1>14, <1>0, <1>a DEF Crash, Fault, store, NetInv, Messages, NoRec, Recoveries
<1>15. CASE Reopen
  BY <1>15, <1>0 DEF Reopen, client, staging, store, NetInv, Messages
<1>16. CASE Rot
  BY <1>16, <1>0 DEF Rot, Fault, client, NetInv, Messages
<1>17. CASE UNCHANGED vars
  BY <1>17, <1>0 DEF vars, client, staging, store, NetInv, Messages
<1> QED
  BY <1>1, <1>2, <1>3, <1>4, <1>5, <1>6, <1>7, <1>8, <1>9, <1>10, <1>11, <1>12, <1>13, <1>14,
     <1>15, <1>16, <1>17
     DEF Next, ClientStep, SwapStep, Handle, Handles, Hello, Chunk, Completion

(* A snapshot is one snapshot.                                             *)
LEMMA AllIsOne ==
  ASSUME NEW s \in 1 .. Last
  PROVE  OneSnapshot(All(s)) /\ All(s) # NoTree
<1>1. All(s) \in [Res -> {s}]
  BY DEF All
<1> QED
  BY <1>1, TreeIsThere DEF OneSnapshot, All

(* Every rename leaves a whole tree where it is looked for.                *)
LEMMA SwapMoves ==
  ASSUME PeerInv, [Next]_vars
  PROVE  SwapInv'
<1>0. SwapInv /\ NetInv /\ TypeOK /\ StagingOK /\ TreesOK
  BY DEF PeerInv, StoreInv, TypeOK, StagingOK, TreesOK
<1>1. CASE Negotiate \/ SendNext \/ Disconnected
  BY <1>1, <1>0 DEF Negotiate, Request, client, staging, store, SendNext, Disconnected,
     SwapInv, OneSnapshot
<1>2. CASE Edit \/ GiveUp
  BY <1>2, <1>0 DEF Edit, client, staging, store, GiveUp, Fault, SwapInv, OneSnapshot
<1>3. ASSUME NEW m \in net,
             Hello(m) \/ Chunk(m)
      PROVE  SwapInv'
  <2>1. up /\ spc = "idle" /\ UNCHANGED <<up, spc, live, prev>>
    BY <1>3 DEF Hello, Chunk, Handles, HandleHello, HandleChunk, store
  <2> QED
    BY <1>0, <2>1 DEF SwapInv, OneSnapshot
<1>4. ASSUME NEW m \in net,
             Completion(m)
      PROVE  SwapInv'
  <2>1. up /\ spc = "idle" /\ UNCHANGED <<up, live, prev, rec>> /\ (spc' = "idle" \/ (spc' = "old" /\ prev = NoTree))
    BY <1>4 DEF Completion, Handles, HandleComplete, Completable, store
  <2> QED
    BY <1>0, <2>1 DEF SwapInv, OneSnapshot
<1>5. CASE SwapOld
  <2>1. up /\ spc = "old" /\ UNCHANGED up /\ prev = NoTree /\ live # NoTree /\ OneSnapshot(live)
    BY <1>0, <1>5 DEF SwapOld, Step, Fails, SwapInv
  <2>2. \/ spc' = "new" /\ prev' = live /\ live' = NoTree
        \/ spc' = "idle" /\ UNCHANGED <<live, prev>>
    BY <1>5 DEF SwapOld, Step, Fails, store
  <2> QED
    BY <2>1, <2>2 DEF SwapInv, OneSnapshot
<1>6. CASE SwapNew
  <2>1. up /\ spc = "new" /\ UNCHANGED up /\ prev # NoTree /\ OneSnapshot(prev)
    BY <1>0, <1>6 DEF SwapNew, Step, Fails, SwapInv
  <2>2. done # NoTree
    BY <1>0, TreeIsThere DEF StagingOK
  <2>3. \/ spc' = "verify" /\ live' = done /\ prev' = prev
        \/ spc' = "idle" /\ live' = prev /\ prev' = NoTree
    BY <1>6 DEF SwapNew, Step, Fails
  <2> QED
    BY <2>1, <2>2, <2>3 DEF SwapInv, OneSnapshot
<1>7. CASE SwapVerify
  <2>1. up /\ spc = "verify" /\ UNCHANGED <<up, rec>> /\ prev # NoTree /\ live # NoTree /\ OneSnapshot(prev)
    BY <1>0, <1>7 DEF SwapVerify, Step, Fails, SwapInv
  <2>2. CASE spc' = "idle" /\ live' = prev /\ prev' = NoTree
    BY <2>1, <2>2 DEF SwapInv, OneSnapshot
  <2>3. CASE spc' = "clean" /\ UNCHANGED store /\ Verified(live, rec.root)
    <3>1. rec.root \in 1 .. Last
      BY <1>0, <2>1, PeerAssumption DEF NetInv, PeerAssumption
    <3>2. OneSnapshot(live) /\ \A r \in Res : live[r] = rec.root
      BY <2>3, <3>1, AllIsOne DEF Verified, All
    <3> QED
      BY <2>1, <2>3, <3>2 DEF SwapInv, OneSnapshot, store
  <2> QED
    BY <1>7, <2>2, <2>3 DEF SwapVerify, Step, Fails
<1>8. CASE SwapClean
  BY <1>8, <1>0 DEF SwapClean, Step, Fails, Return, Fault, client, SwapInv, OneSnapshot
<1>9. CASE Signal
  BY <1>9, <1>0 DEF Signal, Step, Return, staging, store, SwapInv, OneSnapshot
<1>10. CASE Crash
  BY <1>10, <1>0 DEF Crash, Fault, store, SwapInv, OneSnapshot
<1>11. CASE Reopen
  <2>1. ~up /\ UNCHANGED <<spc, rec>> /\ spc = "idle"
    BY <1>0, <1>11 DEF Reopen, NetInv
  <2>2. CASE prev = NoTree /\ UNCHANGED store
    BY <1>0, <2>1, <2>2 DEF SwapInv, OneSnapshot, store
  <2>3. CASE prev # NoTree /\ Whole(live) /\ prev' = NoTree /\ UNCHANGED live
    <3>1. live # NoTree /\ OneSnapshot(live)
      BY <2>3, AllIsOne DEF Whole, Verified
    <3> QED
      BY <2>1, <2>3, <3>1 DEF SwapInv, OneSnapshot
  <2>4. CASE prev # NoTree /\ live' = Restored /\ prev' = NoTree
    BY <1>0, <2>1, <2>4 DEF SwapInv, OneSnapshot, Restored
  <2> QED
    BY <1>11, <2>2, <2>3, <2>4 DEF Reopen
<1>12. CASE Rot
  <2>1. UNCHANGED <<up, spc, rec, prev>>
    BY <1>12 DEF Rot
  <2>2. CASE UNCHANGED live
    BY <1>0, <2>1, <2>2 DEF SwapInv, OneSnapshot
  <2>3. ASSUME NEW r \in Res, live # NoTree, live' = [live EXCEPT ![r] = Decayed]
        PROVE  SwapInv'
    <3>1. live \in [Res -> 0 .. Decayed]
      BY <1>0, <2>3 DEF TreesOK
    <3>2. live' \in [Res -> 0 .. Decayed \cup {Decayed}]
      BY <2>3, <3>1
    <3>3. live' # NoTree
      BY <3>2, TreeIsThere
    <3>4. \A q \in Res : live'[q] \in {live[q], Decayed}
      BY <2>3, <3>1
    <3>5. OneSnapshot(live) => OneSnapshot(live)'
      BY <3>4 DEF OneSnapshot
    <3>6. (\A q \in Res : live[q] \in {rec.root, Decayed}) => \A q \in Res : live'[q] \in {rec.root, Decayed}
      BY <3>4
    <3>7. OneSnapshot(prev) => OneSnapshot(prev)'
      BY <2>1 DEF OneSnapshot
    <3> QED
      BY <1>0, <2>1, <2>3, <3>3, <3>5, <3>6, <3>7 DEF SwapInv
  <2> QED
    BY <1>12, <2>2, <2>3 DEF Rot
<1>13. CASE UNCHANGED vars
  BY <1>13, <1>0 DEF vars, client, staging, store, SwapInv, OneSnapshot
<1> QED
  BY <1>1, <1>2, <1>3, <1>4, <1>5, <1>6, <1>7, <1>8, <1>9, <1>10, <1>11, <1>12, <1>13
     DEF Next, ClientStep, SwapStep, Handle, Handles, Hello, Chunk, Completion

(* A session has one request at a time, and it is the one waited for.      *)
LEMMA RequestMoves ==
  ASSUME PeerInv, [Next]_vars
  PROVE  RequestInv'
<1>0. RequestInv /\ NetInv /\ TypeOK
  BY DEF PeerInv, StoreInv
<1>a. 0 \notin Sessions /\ \A m \in net : m.session # 0
  BY <1>0, PeerAssumption DEF PeerAssumption, NetInv, Messages
<1>1. CASE Negotiate
  <2>1. csess' \in Sessions /\ csess' # rec.session /\ \A m \in net : m.session # csess'
    BY <1>1 DEF Negotiate, FreshSessions
  <2> DEFINE q == Request("hello")
  <2>2. q.kind = "hello" /\ q.session = csess' /\ q.root = plan' /\ q.res = cres' /\ q.off = coff'
    BY DEF Request
  <2>3. net' = net \cup {q} /\ cpc' = "hello" /\ cres' = 1 /\ coff' = 0 /\ UNCHANGED <<rec, spc>>
    BY <1>1 DEF Negotiate
  <2> HIDE DEF q
  <2> QED
    BY <1>0, <2>1, <2>2, <2>3 DEF RequestInv
<1>2. CASE SendNext
  <2>1. cpc = "walk" /\ UNCHANGED <<csess, plan, cres, coff, rec, spc>>
    BY <1>2 DEF SendNext
  <2>2. \A m \in net : m.session # csess
    BY <1>0, <2>1 DEF RequestInv
  <2>3. ~(spc # "idle" /\ rec.session = csess)
    BY <1>0, <2>1 DEF RequestInv
  <2>4. CASE cpc' = "idle" /\ UNCHANGED net
    BY <1>0, <2>1, <2>2, <2>4 DEF RequestInv, Waiting
  <2>5. ASSUME NEW k \in {"chunk", "complete"}, cpc' = k, net' = net \cup {Request(k)}
        PROVE  RequestInv'
    <3> DEFINE q == Request(k)
    <3>1. q.kind = k /\ q.session = csess /\ q.root = plan /\ q.res = cres /\ q.off = coff
      BY <2>1 DEF Request
    <3>2. net' = net \cup {q}
      BY <2>5
    <3> HIDE DEF q
    <3> QED
      BY <1>0, <2>1, <2>2, <2>3, <2>5, <3>1, <3>2 DEF RequestInv, Waiting
  <2> QED
    BY <1>2, <2>4, <2>5 DEF SendNext
<1>3. CASE Disconnected
  BY <1>3, <1>0, <1>a DEF Disconnected, staging, store, RequestInv, Waiting
<1>4. CASE Edit
  BY <1>4, <1>0, <1>a DEF Edit, client, staging, store, RequestInv, Waiting
<1>5. CASE GiveUp
  BY <1>5, <1>0, <1>a DEF GiveUp, Fault, staging, store, RequestInv, Waiting
<1>6. ASSUME NEW m \in net,
             Hello(m) \/ Chunk(m)
      PROVE  RequestInv'
  <2>1. net' = net \ {m} /\ spc = "idle"
    BY <1>6 DEF Hello, Chunk, Completion, Handles
  <2>2. /\ csess' = csess /\ plan' = plan
        /\ \/ cpc' = "walk" /\ m.session = csess /\ cpc \in Waiting
           \/ cpc' \in {"idle", cpc} /\ cres' = cres /\ coff' = coff
    BY <1>6, HandledClient DEF Hello, Chunk, Completion
  <2>3. spc' # "idle" /\ rec'.session = csess' => cpc' \in {"complete", "idle"}
    BY <1>6, <2>1 DEF Hello, Chunk, HandleHello, HandleChunk
  <2>4. CASE cpc' = "walk" /\ m.session = csess
    <3>1. \A n \in net' : n \in net /\ n.session # csess
      BY <1>0, <2>1, <2>4 DEF RequestInv
    <3> QED
      BY <1>0, <2>1, <2>2, <2>3, <2>4, <3>1 DEF RequestInv
  <2>5. CASE cpc' \in {"idle", cpc} /\ cres' = cres /\ coff' = coff
    BY <1>0, <2>1, <2>2, <2>3, <2>5 DEF RequestInv, Waiting
  <2> QED
    BY <2>2, <2>4, <2>5
<1>7. ASSUME NEW m \in net,
             Completion(m)
      PROVE  RequestInv'
  <2>1. net' = net \ {m} /\ spc = "idle"
    BY <1>7 DEF Hello, Chunk, Completion, Handles
  <2>2. /\ csess' = csess /\ plan' = plan
        /\ \/ cpc' = "walk" /\ m.session = csess /\ cpc \in Waiting
           \/ cpc' \in {"idle", cpc} /\ cres' = cres /\ coff' = coff
    BY <1>7, HandledClient DEF Hello, Chunk, Completion
  <2>3. spc' # "idle" /\ rec'.session = csess' => cpc' \in {"complete", "idle"}
    <3>1. CASE spc' = spc
      BY <2>1, <3>1
    <3>2. CASE Completable(m) /\ UNCHANGED client
      BY <1>0, <1>7, <3>2 DEF Completion, HandleComplete, Completable, OwnsRecovery, client, RequestInv, TypeOK, Waiting
    <3> QED
      BY <1>7, <3>1, <3>2 DEF Completion, HandleComplete
  <2>4. CASE cpc' = "walk" /\ m.session = csess
    <3>1. \A n \in net' : n \in net /\ n.session # csess
      BY <1>0, <2>1, <2>4 DEF RequestInv
    <3> QED
      BY <1>0, <2>1, <2>2, <2>3, <2>4, <3>1 DEF RequestInv
  <2>5. CASE cpc' \in {"idle", cpc} /\ cres' = cres /\ coff' = coff
    BY <1>0, <2>1, <2>2, <2>3, <2>5 DEF RequestInv, Waiting
  <2> QED
    BY <2>2, <2>4, <2>5
<1>8. CASE SwapOld
  BY <1>8, <1>0 DEF SwapOld, Step, Fails, Return, Fault, client, staging, store, RequestInv,
     Waiting
<1>9. CASE SwapNew
  BY <1>9, <1>0 DEF SwapNew, Step, Fails, Return, Fault, client, RequestInv, Waiting
<1>10. CASE SwapVerify
  BY <1>10, <1>0 DEF SwapVerify, Step, Fails, Return, Fault, client, store, RequestInv, Waiting
<1>11. CASE SwapClean
  BY <1>11, <1>0 DEF SwapClean, Step, Fails, Return, Fault, client, RequestInv, Waiting
<1>12. CASE Signal
  BY <1>12, <1>0 DEF Signal, Step, Return, staging, store, RequestInv, Waiting
<1>13. CASE Crash
  BY <1>13, <1>0 DEF Crash, Fault, store, RequestInv, Waiting
<1>14. CASE Reopen
  BY <1>14, <1>0 DEF Reopen, client, staging, store, RequestInv, Waiting
<1>15. CASE Rot
  BY <1>15, <1>0 DEF Rot, Fault, client, RequestInv, Waiting
<1>16. CASE UNCHANGED vars
  BY <1>16, <1>0 DEF vars, client, staging, store, RequestInv, Waiting
<1> QED
  BY <1>1, <1>2, <1>3, <1>4, <1>5, <1>6, <1>7, <1>8, <1>9, <1>10, <1>11, <1>12, <1>13, <1>14,
     <1>15, <1>16
     DEF Next, ClientStep, SwapStep, Handle, Handles, Hello, Chunk, Completion

(* Nothing that was acknowledged is taken back.                            *)
LEMMA StagedMoves ==
  ASSUME PeerInv, [Next]_vars
  PROVE  StagedInv'
<1>0. RequestInv /\ StagedInv /\ NetInv /\ TypeOK
  BY DEF PeerInv, StoreInv
<1>a. 0 \notin Sessions /\ \A m \in net : m.session # 0
  BY <1>0, PeerAssumption DEF PeerAssumption, NetInv, Messages
<1>b. /\ Total \in Nat \ {0, 1} /\ Resources \in Nat /\ Rotten = Last + 1 /\ Last \in Nat
  BY PeerAssumption DEF PeerAssumption, Total, Rotten
<1>c. StagingOK' /\ ClientOK /\ ClientOK'
  BY StagingTypes, ClientTypes DEF PeerInv, StoreInv, TypeOK, ClientOK
<1>d. /\ cres' \in Nat /\ coff' \in Nat
      /\ \A r \in Res : part'[r] \in 0 .. Total
  BY <1>b, <1>c DEF StagingOK, ClientOK
<1>1. CASE Negotiate
  BY <1>1, <1>0 DEF Negotiate, Request, client, staging, store, StagedInv
<1>2. CASE SendNext
  BY <1>2, <1>0 DEF SendNext, Request, staging, store, StagedInv
<1>3. CASE Disconnected
  BY <1>3, <1>0 DEF Disconnected, staging, store, StagedInv
<1>4. CASE Edit
  BY <1>4, <1>0 DEF Edit, client, staging, store, StagedInv
<1>5. CASE GiveUp
  BY <1>5, <1>0 DEF GiveUp, Fault, staging, store, StagedInv
<1>6. ASSUME NEW m \in net,
             Hello(m)
      PROVE  StagedInv'
  <2>1. m.session = csess => /\ m.root = plan /\ m.res = cres /\ m.off = coff /\ cpc # "walk"
                             /\ cpc \in Waiting => cpc = m.kind
    BY <1>0 DEF RequestInv
  <2>2. csess' = csess /\ plan' = plan /\ m.kind = "hello"
    BY <1>6, HandledClient DEF Hello, HandleHello
  <2>3. CASE UNCHANGED <<rec, staging>> /\ Return(m)
    BY <1>0, <2>2, <2>3 DEF StagedInv, Return, staging
  <2>4. CASE rec'.session = m.session /\ (Acknowledge(m, 0) \/ Return(m))
    <3> SUFFICES ASSUME m.session = csess, cpc' \in {"walk", "chunk"}
                 PROVE  cres' = 1 /\ coff' = 0
      BY <1>b, <1>d, <2>2, <2>4 DEF StagedInv, Res
    <3>1. cpc \in {"hello", "idle"}
      BY <1>0, <2>1, <2>2 DEF TypeOK, Waiting
    <3> QED
      BY <1>0, <1>b, <2>1, <2>2, <2>4, <3>1 DEF Acknowledge, Return, Awaited, client, RequestInv, Waiting
  <2>5. Resume(m) \/ OpenReceiver(m) => rec'.session = m.session
    BY <1>0 DEF OpenReceiver, Resume, NetInv, Recoveries
  <2> QED
    BY <1>6, <2>3, <2>4, <2>5 DEF Hello, HandleHello
<1>7. ASSUME NEW m \in net,
             Chunk(m)
      PROVE  StagedInv'
  <2>1. m.session = csess => /\ m.root = plan /\ m.res = cres /\ m.off = coff /\ cpc # "walk"
                             /\ cpc \in Waiting => cpc = m.kind
    BY <1>0 DEF RequestInv
  <2>2. csess' = csess /\ plan' = plan /\ m.kind = "chunk" /\ m \in Messages
    BY <1>0, <1>7, HandledClient DEF Chunk, HandleChunk, NetInv
  <2>3. m.res \in Res
    BY <1>0, <1>b, <2>2 DEF NetInv, Messages, Res
  <2>4. CASE UNCHANGED <<rec, staging>> /\ Return(m)
    BY <1>0, <2>2, <2>4 DEF StagedInv, Return, staging
  <2>5. CASE Duplicate(m)
    <3> SUFFICES ASSUME csess # 0, rec.session = csess, cpc' \in {"walk", "chunk"}
                 PROVE  /\ \A r \in Res : r < cres' => done'[r] \in {plan, Rotten}
                        /\ cres' <= Resources => part'[cres'] >= coff'
      BY <2>2, <2>5 DEF StagedInv, Duplicate
    <3>1. m.session = csess /\ done[cres] = plan /\ UNCHANGED done
      BY <2>1, <2>5 DEF Duplicate, OwnsRecovery, Committed
    <3>2. cpc = "chunk" /\ Awaited(m)
      BY <1>0, <2>1, <2>2, <2>5, <3>1 DEF Duplicate, Acknowledge, Awaited, client, TypeOK, Waiting
    <3>3. cres' = cres + 1 /\ coff' = 0
      BY <2>5, <3>2 DEF Duplicate, Acknowledge
    <3>4. \A r \in Res : r < cres => done[r] \in {plan, Rotten}
      BY <1>0, <3>1, <3>2 DEF StagedInv
    <3>5. cres' <= Resources => cres' \in Res
      BY <1>b, <1>c DEF ClientOK, Res
    <3>6. \A r \in Res : r < cres + 1 => r < cres \/ r = cres
      BY <1>c DEF ClientOK, Res
    <3> QED
      BY <1>b, <1>d, <3>1, <3>3, <3>4, <3>5, <3>6
  <2>6. CASE Store(m)
    <3>0. rec'.session = rec.session
      BY <1>0, <2>6 DEF Store, NetInv, Recoveries
    <3> SUFFICES ASSUME csess # 0, rec.session = csess, cpc' \in {"walk", "chunk"}
                 PROVE  /\ \A r \in Res : r < cres' => done'[r] \in {plan, Rotten}
                        /\ cres' <= Resources => part'[cres'] >= coff'
      BY <2>2, <3>0 DEF StagedInv
    <3>1. m.session = csess
      BY <2>6 DEF Store, Admitted, OwnsRecovery
    <3> DEFINE o == Outcome(m)
    <3>2. o.length \in 0 .. Total /\ (Acknowledge(m, Total) \/ Acknowledge(m, o.length) \/ Return(m))
      BY <1>0, <2>2, <2>3, <2>6, OutcomeBounds DEF Store
    <3>3. cpc = "chunk" /\ Awaited(m)
      BY <1>0, <2>1, <2>2, <3>1, <3>2 DEF Acknowledge, Return, Awaited, client, TypeOK, Waiting
    <3>4. \A r \in Res : r < cres => done[r] \in {plan, Rotten} /\ r # cres
      BY <1>0, <1>c, <3>1, <3>3 DEF StagedInv, ClientOK, Res
    <3>5. cres' <= Resources => cres' \in Res
      BY <1>b, <1>c DEF ClientOK, Res
    <3>6. \A r \in Res : r < cres + 1 => r < cres \/ r = cres
      BY <1>c DEF ClientOK, Res
    <3>7. ~Return(m)
      BY <3>3 DEF Return
    <3>t. done \in [Res -> 0 .. Rotten] /\ part \in [Res -> 0 .. Total]
      BY <1>0 DEF TypeOK
    <3>8. CASE /\ done' = [done EXCEPT ![m.res] = m.root] /\ Acknowledge(m, Total)
      <4>1. cres' = cres + 1 /\ coff' = 0 /\ done'[cres] = plan
        BY <2>1, <2>3, <3>1, <3>3, <3>8, <3>t DEF Acknowledge
      <4>2. \A r \in Res : r < cres => done'[r] = done[r]
        BY <2>1, <2>3, <3>1, <3>4, <3>8, <3>t
      <4> QED
        BY <1>b, <1>d, <3>4, <3>5, <3>6, <4>1, <4>2
    <3>9. CASE /\ UNCHANGED done /\ o.length \in 1 .. Total - 1 /\ Acknowledge(m, o.length)
               /\ part' = [part EXCEPT ![m.res] = o.length]
      <4>1. cres' = cres /\ coff' = o.length
        BY <1>b, <3>3, <3>9 DEF Acknowledge
      <4>2. part'[cres] = o.length
        BY <2>1, <2>3, <3>1, <3>9, <3>t
      <4> QED
        BY <1>b, <3>4, <3>9, <4>1, <4>2
    <3> QED
      BY <2>6, <3>7, <3>8, <3>9 DEF Store
  <2> QED
    BY <1>7, <2>4, <2>5, <2>6 DEF Chunk, HandleChunk
<1>8. ASSUME NEW m \in net,
             Completion(m)
      PROVE  StagedInv'
  <2>1. csess' = csess /\ plan' = plan /\ UNCHANGED <<rec, staging>> /\ (Return(m) \/ UNCHANGED client)
    BY <1>8, HandledClient DEF Completion, HandleComplete
  <2> QED
    BY <1>0, <2>1 DEF StagedInv, Return, client, staging
<1>9. CASE SwapOld
  <2>1. spc # "idle" /\ UNCHANGED <<csess, rec>> /\ cpc' \in {"idle", cpc}
    BY <1>9 DEF SwapOld, Step, Fails, Return, client
  <2> QED
    BY <1>0, <2>1 DEF RequestInv, StagedInv
<1>10. CASE SwapNew
  <2>1. spc # "idle" /\ UNCHANGED <<csess, rec>> /\ cpc' \in {"idle", cpc}
    BY <1>10 DEF SwapNew, Step, Fails, Return, client
  <2> QED
    BY <1>0, <2>1 DEF RequestInv, StagedInv
<1>11. CASE SwapVerify
  <2>1. spc # "idle" /\ UNCHANGED <<csess, rec>> /\ cpc' \in {"idle", cpc}
    BY <1>11 DEF SwapVerify, Step, Fails, Return, client
  <2> QED
    BY <1>0, <2>1 DEF RequestInv, StagedInv
<1>12. CASE SwapClean
  <2>1. spc # "idle" /\ UNCHANGED <<csess, rec>> /\ cpc' \in {"idle", cpc}
    BY <1>12 DEF SwapClean, Step, Fails, Return, client
  <2> QED
    BY <1>0, <2>1 DEF RequestInv, StagedInv
<1>13. CASE Signal
  <2>1. spc # "idle" /\ UNCHANGED csess /\ rec'.session = 0
    BY <1>13 DEF Signal, Step, Return, NoRec
  <2> QED
    BY <2>1 DEF StagedInv
<1>14. CASE Crash
  BY <1>14, <1>0 DEF Crash, Fault, store, StagedInv
<1>15. CASE Reopen
  BY <1>15, <1>0 DEF Reopen, client, staging, store, StagedInv
<1>16. CASE Rot
  <2>1. UNCHANGED <<client, rec, part>>
    BY <1>16 DEF Rot
  <2>2. \A r \in Res : done'[r] \in {done[r], Rotten}
    BY <1>0, <1>16 DEF Rot, TypeOK
  <2> QED
    BY <1>0, <2>1, <2>2 DEF StagedInv, client
<1>17. CASE UNCHANGED vars
  BY <1>17, <1>0 DEF vars, client, staging, store, StagedInv
<1> QED
  BY <1>1, <1>2, <1>3, <1>4, <1>5, <1>6, <1>7, <1>8, <1>9, <1>10, <1>11, <1>12, <1>13, <1>14,
     <1>15, <1>16, <1>17
     DEF Next, ClientStep, SwapStep, Handle, Handles, Hello, Chunk, Completion

(* A step of any part is a step of the recovery or leaves it alone.        *)
LEMMA PeerSteps ==
  ASSUME [PartsNext]_partsVars
  PROVE  [Next]_vars
  BY DEF PartsNext, partsVars

(* The recovery starts with an old snapshot and nothing under way.         *)
LEMMA PeerStarts ==
  ASSUME Init
  PROVE  PeerInv
<1>0. Resources \in Nat \ {0} /\ Total \in Nat \ {0, 1} /\ Last \in Nat /\ Last >= 2
  BY PeerAssumption DEF PeerAssumption, Total, Init
<1>1. All(0) \in [Res -> 0 .. Rotten] /\ All(0) \in [Res -> 0 .. Total]
      /\ All(1) \in [Res -> 0 .. Decayed]
  BY <1>0 DEF All, Rotten, Decayed
<1>2. TypeOK
  <2>1. ClientOK
    BY <1>0 DEF Init, ClientOK, Waiting, Steps
  <2>2. StagingOK /\ TreesOK
    BY <1>0, <1>1 DEF Init, StagingOK, TreesOK
  <2>3. up \in BOOLEAN /\ signalled \in BOOLEAN
    BY DEF Init
  <2>4. rec.active \in 0 .. Resources /\ rec.phase \in {0, 2} /\ net = {}
    BY <1>0 DEF Init, NoRec
  <2> QED
    BY <2>1, <2>2, <2>3, <2>4 DEF TypeOK, ClientOK, StagingOK, TreesOK
<1>3. NetInv
  BY <1>0 DEF Init, NetInv, Recoveries, NoRec, Messages
<1>4. 1 \in 1 .. Last
  BY <1>0
<1>5. SwapInv
  BY <1>4, AllIsOne DEF Init, SwapInv
<1>6. RequestInv /\ StagedInv
  BY DEF Init, RequestInv, StagedInv
<1> QED
  BY <1>2, <1>3, <1>5, <1>6 DEF PeerInv, StoreInv

(* PeerInv is inductive.                                                   *)
LEMMA PeerKeeps ==
  ASSUME PeerInv, [Next]_vars
  PROVE  PeerInv'
<1>1. NetInv' /\ SwapInv' /\ RequestInv' /\ StagedInv'
  BY NetStep, SwapMoves, RequestMoves, StagedMoves
<1>2. ClientOK' /\ StagingOK' /\ TreesOK' /\ up' \in BOOLEAN /\ signalled' \in BOOLEAN
  BY ClientTypes, StagingTypes, TreesTypes, PeerFlags DEF PeerInv, StoreInv
<1>3. \A m \in net' : m.kind \in Waiting /\ m.session \in Sessions
  BY <1>1 DEF NetInv, Messages
<1>4. rec'.active \in 0 .. Resources /\ rec'.phase \in {0, 2}
  BY <1>1 DEF NetInv, Recoveries
<1>5. TypeOK'
  BY <1>2, <1>3, <1>4 DEF TypeOK, ClientOK, StagingOK, TreesOK
<1> QED
  BY <1>1, <1>5 DEF PeerInv, StoreInv

(* PeerInv holds in every state of the recovery, for every number of       *)
(* resources, chunks, snapshots, sessions and faults.                      *)
THEOREM PeerInvAlways == PartsSpec => []PeerInv
<1>1. PartsInit => PeerInv
  BY PeerStarts DEF PartsInit
<1>2. PeerInv /\ [PartsNext]_partsVars => PeerInv'
  BY PeerSteps, PeerKeeps
<1> QED
  BY <1>1, <1>2, PTL DEF PartsSpec

(* complete(), rollback_swap and reconcile_interrupted_swap never lose the *)
(* store, and the live tree is one snapshot once the swap has verified it. *)
THEOREM StoreIsNeverLost == PartsSpec => []StoreSafe
<1>1. PeerInv => StoreSafe
  <2> SUFFICES ASSUME PeerInv
               PROVE  StoreSafe
    OBVIOUS
  <2>1. TypeOK /\ SwapInv
    BY DEF PeerInv, StoreInv
  <2>2. prev # NoTree => Complete(prev)
    BY <2>1, OneIsComplete DEF SwapInv
  <2>3. prev = NoTree => Complete(live)
    BY <2>1, OneIsComplete DEF SwapInv
  <2>4. up /\ spc = "idle" => Complete(live)
    BY <2>1, OneIsComplete DEF SwapInv
  <2> QED
    BY <2>1, <2>2, <2>3, <2>4 DEF StoreSafe, SwapInv
<1> QED
  BY <1>1, PeerInvAlways, PTL

(* accept_chunk and decode_resume_ack: what the client was told is stored  *)
(* stays staged through stale, duplicated and torn requests.               *)
THEOREM AcknowledgedStaysStaged == PartsSpec => []AckedIsDurable
<1>1. PeerInv => AckedIsDurable
  BY DEF PeerInv, StagedInv, AckedIsDurable
<1> QED
  BY <1>1, PeerInvAlways, PTL

(* signal_boot_recovery_complete is called only for a snapshot the peer    *)
(* has stored.                                                             *)
THEOREM SignalsAreHonest == PartsSpec => SignalIsHonest
<1>1. ASSUME PeerInv, Next, ~signalled, signalled'
      PROVE  \E s \in 2 .. local :
               \/ Verified(live, s)
               \/ spc = "signal" /\ \A r \in Res : live[r] \in {s, Decayed}
  <2>1. NetInv /\ SwapInv
    BY <1>1 DEF PeerInv, StoreInv
  <2>2. CASE Signal
    <3>1. spc = "signal" /\ rec.root \in 2 .. local
      BY <2>1, <2>2 DEF Signal, Step, NetInv
    <3> QED
      BY <2>1, <3>1 DEF SwapInv
  <2>3. ASSUME NEW m \in net, HandleHello(m)
        PROVE  \E s \in 2 .. local : Verified(live, s)
    <3>1. m.root \in 2 .. local /\ RootsMatch(m)
      BY <1>1, <2>1, <2>3 DEF HandleHello, NetInv, Messages
    <3> QED
      BY <3>1 DEF RootsMatch
  <2>4. Signal \/ \E m \in net : HandleHello(m)
    BY <1>1 DEF Next, ClientStep, Negotiate, SendNext, Disconnected, Edit, GiveUp, Handle, HandleChunk,
       HandleComplete, SwapStep, SwapOld, SwapNew, SwapVerify, SwapClean, Crash, Reopen, Rot
  <2> QED
    BY <2>2, <2>3, <2>4
<1>2. PeerInv /\ [PartsNext]_partsVars =>
        [~signalled /\ signalled' =>
           \E s \in 2 .. local :
             \/ Verified(live, s)
             \/ spc = "signal" /\ \A r \in Res : live[r] \in {s, Decayed}]_vars
  BY <1>1, PeerSteps
<1> QED
  BY <1>2, PeerInvAlways, PTL DEF PartsSpec, SignalIsHonest
-----------------------------------------------------------------------------
(***************************************************************************)
(* RegistryIngest.  The marker covers every state in which the registry is *)
(* not one export, or holds an object without its payload: what is stored  *)
(* of the export, what may be stale, and what a scan has read so far.      *)
(***************************************************************************)
ReplaceInv ==
  /\ ~marker => present \in Registry!Snapshots
  /\ ingestPc \in {"scan", "store", "remove", "finish"} => marker
  /\ ingestPc # "idle" => export \in DOMAIN Exports
  /\ ingestPc = "store" =>
       /\ unstored \subseteq Exports[export]
       /\ \A p \in Exports[export] \ unstored : present[p] = export
       /\ \A p \in RegistryPaths : present[p] # 0 => p \in before \cup Exports[export]
  /\ ingestPc = "remove" =>
       /\ unstored \cap Exports[export] = {}
       /\ \A p \in Exports[export] : present[p] = export
       /\ \A p \in RegistryPaths : present[p] # 0 => p \in unstored \cup Exports[export]
  /\ ingestPc = "finish" => present = Registry!Whole(export)
  /\ stripped # {} => marker /\ ingestPc \in {"idle", "begin", "scan"}

ScanInv ==
  /\ scanPc = "reading" /\ ~disturbed =>
       /\ present \in Registry!Snapshots
       /\ \A p \in RegistryPaths \ unread : scanned[p] = present[p]
  /\ scanPc = "done" /\ ~disturbed => scanned \in Registry!Snapshots

RegistryInv == Registry!TypeOK /\ ReplaceInv /\ ScanInv

(* The ingestion and the scan keep their types.                            *)
LEMMA RegistryTypes ==
  ASSUME RegistryInv, Registry!Next \/ UNCHANGED registryVars
  PROVE  Registry!TypeOK'
<1>0. Registry!TypeOK /\ ReplaceInv
  BY DEF RegistryInv
<1>a. 0 \notin DOMAIN Exports /\ \A e \in DOMAIN Exports : Exports[e] \subseteq RegistryPaths
  BY PartsAssumption DEF PartsAssumption
<1>b. IngestFaults \in Nat
  BY PartsAssumption DEF PartsAssumption
<1>1. ASSUME NEW e \in DOMAIN Exports,
             Registry!Validate(e)
      PROVE  Registry!TypeOK'
  BY <1>1, <1>0, <1>a, <1>b DEF Registry!Validate, Registry!Go, Registry!store, Registry!scan,
     Registry!TypeOK, ReplaceInv
<1>2. CASE Registry!Begin
  BY <1>2, <1>0, <1>a, <1>b DEF Registry!Begin, Registry!Go, Registry!scan, Registry!TypeOK,
     ReplaceInv
<1>3. CASE Registry!ScanBefore
  BY <1>3, <1>0, <1>a, <1>b DEF Registry!ScanBefore, Registry!Go, Registry!store,
     Registry!scan, Registry!Present, Registry!TypeOK, ReplaceInv
<1>4. ASSUME NEW p \in unstored,
             Registry!StoreNext(p)
      PROVE  Registry!TypeOK'
  <2>1. p \in RegistryPaths /\ export \in {0} \cup DOMAIN Exports
    BY <1>0, <1>4 DEF Registry!TypeOK
  <2>2. present' \in [RegistryPaths -> {0} \cup DOMAIN Exports] /\ unstored' \subseteq RegistryPaths
    BY <1>0, <2>1, <1>4 DEF Registry!TypeOK, Registry!StoreNext, Registry!Change
  <2>3. (disturbed \/ scanPc = "reading") \in BOOLEAN
    BY SMT
  <2>4. disturbed' \in BOOLEAN /\ marker' \in BOOLEAN
    BY <1>0, <2>3, <1>4, Zenon DEF Registry!TypeOK, Registry!StoreNext, Registry!Change
  <2> QED
    BY <1>0, <2>2, <2>4, <1>4 DEF Registry!TypeOK, Registry!StoreNext, Registry!Change, Registry!Go, Registry!scan
<1>5. CASE Registry!Stored
  BY <1>5, <1>0, <1>a, <1>b DEF Registry!Stored, Registry!Go, Registry!RemoveStale,
     Registry!store, Registry!scan, Registry!TypeOK, ReplaceInv
<1>6. ASSUME NEW p \in unstored,
             Registry!RemoveNext(p)
      PROVE  Registry!TypeOK'
  <2>1. p \in RegistryPaths /\ export \in {0} \cup DOMAIN Exports
    BY <1>0, <1>6 DEF Registry!TypeOK
  <2>2. present' \in [RegistryPaths -> {0} \cup DOMAIN Exports] /\ unstored' \subseteq RegistryPaths
    BY <1>0, <2>1, <1>6 DEF Registry!TypeOK, Registry!RemoveNext, Registry!Change
  <2>3. (disturbed \/ scanPc = "reading") \in BOOLEAN
    BY SMT
  <2>4. disturbed' \in BOOLEAN /\ marker' \in BOOLEAN
    BY <1>0, <2>3, <1>6, Zenon DEF Registry!TypeOK, Registry!RemoveNext, Registry!Change
  <2> QED
    BY <1>0, <2>2, <2>4, <1>6 DEF Registry!TypeOK, Registry!RemoveNext, Registry!Change, Registry!Go, Registry!scan
<1>7. CASE Registry!Verify
  BY <1>7, <1>0, <1>a, <1>b DEF Registry!Verify, Registry!Go, Registry!Present, Registry!store,
     Registry!scan, Registry!TypeOK, ReplaceInv
<1>8. CASE Registry!Finish
  BY <1>8, <1>0, <1>a, <1>b DEF Registry!Finish, Registry!Stop, Registry!scan, Registry!TypeOK,
     ReplaceInv
<1>9. CASE Registry!Fails
  BY <1>9, <1>0, <1>a, <1>b DEF Registry!Fails, Registry!Stop, Registry!store, Registry!scan,
     Registry!TypeOK, ReplaceInv
<1>10. CASE Registry!ScanBegins
  BY <1>10, <1>0, <1>a, <1>b DEF Registry!ScanBegins, Registry!Committed, Registry!store,
     Registry!ingest, Registry!TypeOK, ReplaceInv, Registry!Absent
<1>11. ASSUME NEW p \in unread,
             Registry!ScanReads(p)
      PROVE  Registry!TypeOK'
  BY <1>11, <1>0, <1>a, <1>b DEF Registry!ScanReads, Registry!store, Registry!ingest,
     Registry!TypeOK, ReplaceInv
<1>12. CASE Registry!ScanEnds
  BY <1>12, <1>0, <1>a, <1>b DEF Registry!ScanEnds, Registry!store, Registry!ingest,
     Registry!TypeOK, ReplaceInv, Registry!Absent
<1>13. CASE UNCHANGED registryVars
  BY <1>13, <1>0, <1>a, <1>b DEF registryVars, Registry!TypeOK, ReplaceInv
<1>14. CASE Registry!ScanFails
  BY <1>14, <1>0, <1>a, <1>b DEF Registry!ScanFails, Registry!Stop, Registry!store,
     Registry!scan, Registry!TypeOK
<1>15. ASSUME NEW p \in unstored,
              Registry!FailsRemoving(p)
       PROVE  Registry!TypeOK'
  <2>1. (disturbed \/ scanPc = "reading") \in BOOLEAN
    BY SMT
  <2>2. disturbed' \in BOOLEAN /\ marker' \in BOOLEAN
    BY <1>0, <2>1, <1>15, Zenon DEF Registry!TypeOK, Registry!FailsRemoving
  <2> QED
    BY <1>0, <2>2, <1>15, <1>b DEF Registry!FailsRemoving, Registry!Stop, Registry!scan,
       Registry!TypeOK
<1>16. CASE Registry!ScanStops
  BY <1>16, <1>0, <1>a, <1>b DEF Registry!ScanStops, Registry!store, Registry!ingest,
     Registry!TypeOK, Registry!Absent
<1> QED
  BY <1>1, <1>2, <1>3, <1>4, <1>5, <1>6, <1>7, <1>8, <1>9, <1>10, <1>11, <1>12, <1>13,
     <1>14, <1>15, <1>16 DEF Registry!Next, Registry!IngestStep

(* The registry is one export whenever the marker is gone.                 *)
LEMMA ReplaceKeeps ==
  ASSUME RegistryInv, Registry!Next \/ UNCHANGED registryVars
  PROVE  ReplaceInv'
<1>0. Registry!TypeOK /\ ReplaceInv
  BY DEF RegistryInv
<1>a. 0 \notin DOMAIN Exports /\ \A e \in DOMAIN Exports : Exports[e] \subseteq RegistryPaths
  BY PartsAssumption DEF PartsAssumption
<1>b. IngestFaults \in Nat
  BY PartsAssumption DEF PartsAssumption
<1>1. ASSUME NEW e \in DOMAIN Exports,
             Registry!Validate(e)
      PROVE  ReplaceInv'
  BY <1>1, <1>0, <1>a, <1>b DEF Registry!Validate, Registry!Go, Registry!store, Registry!scan,
     ReplaceInv, Registry!Snapshots, Registry!Absent, Registry!Whole
<1>2. CASE Registry!Begin
  BY <1>2, <1>0, <1>a, <1>b DEF Registry!Begin, Registry!Go, Registry!scan, ReplaceInv,
     Registry!Snapshots, Registry!Absent, Registry!Whole
<1>3. CASE Registry!ScanBefore
  BY <1>3, <1>0, <1>a, <1>b DEF Registry!ScanBefore, Registry!Go, Registry!store,
     Registry!scan, Registry!Present, ReplaceInv, Registry!Snapshots, Registry!Absent,
     Registry!Whole, Registry!TypeOK
<1>4. ASSUME NEW p \in unstored,
             Registry!StoreNext(p)
      PROVE  ReplaceInv'
  <2>1. present \in [RegistryPaths -> {0} \cup DOMAIN Exports] /\ p \in RegistryPaths
    BY <1>0, <1>4 DEF Registry!TypeOK
  <2>2. ingestPc = "store" /\ ingestPc' = "store" /\ marker' = marker /\ export' = export /\ before' = before
        /\ unstored' = unstored \ {p} /\ present' = [present EXCEPT ![p] = export]
        /\ stripped' = stripped \ {p}
    BY <1>4 DEF Registry!StoreNext, Registry!Go, Registry!Change
  <2>3. marker /\ export \in DOMAIN Exports /\ p \in Exports[export]
    BY <1>0, <2>2 DEF ReplaceInv
  <2>4. \A q \in Exports[export] \ unstored' : present'[q] = export
    BY <1>0, <1>a, <2>1, <2>2, <2>3 DEF ReplaceInv
  <2>5. \A q \in RegistryPaths : present'[q] # 0 => q \in before \cup Exports[export]
    BY <1>0, <2>1, <2>2, <2>3 DEF ReplaceInv
  <2> QED
    BY <1>0, <2>2, <2>3, <2>4, <2>5 DEF ReplaceInv
<1>5. CASE Registry!Stored
  BY <1>5, <1>0, <1>a, <1>b DEF Registry!Stored, Registry!Go, Registry!RemoveStale,
     Registry!store, Registry!scan, ReplaceInv, Registry!Snapshots, Registry!Absent,
     Registry!Whole
<1>6. ASSUME NEW p \in unstored,
             Registry!RemoveNext(p)
      PROVE  ReplaceInv'
  <2>1. present \in [RegistryPaths -> {0} \cup DOMAIN Exports] /\ p \in RegistryPaths
    BY <1>0, <1>6 DEF Registry!TypeOK
  <2>2. ingestPc = "remove" /\ ingestPc' = "remove" /\ marker' = marker /\ export' = export
        /\ unstored' = unstored \ {p} /\ present' = [present EXCEPT ![p] = 0]
        /\ stripped' = stripped \ {p}
    BY <1>6 DEF Registry!RemoveNext, Registry!Go, Registry!Change
  <2>3. marker /\ export \in DOMAIN Exports /\ p \notin Exports[export]
    BY <1>0, <2>2 DEF ReplaceInv
  <2>4. \A q \in Exports[export] : present'[q] = export
    BY <1>0, <1>a, <2>1, <2>2, <2>3 DEF ReplaceInv
  <2>5. \A q \in RegistryPaths : present'[q] # 0 => q \in unstored' \cup Exports[export]
    BY <1>0, <2>1, <2>2 DEF ReplaceInv
  <2> QED
    BY <1>0, <2>2, <2>3, <2>4, <2>5 DEF ReplaceInv
<1>7. CASE Registry!Verify
  <2>1. /\ ingestPc = "remove" /\ unstored = {} /\ ingestPc' \in {"finish", "idle"}
        /\ UNCHANGED <<present, stripped, marker, export>>
    BY <1>7 DEF Registry!Verify, Registry!Go, Registry!store
  <2>2. marker /\ export \in DOMAIN Exports /\ stripped = {}
    BY <1>0, <2>1 DEF ReplaceInv
  <2>3. present = Registry!Whole(export)
    <3>1. present \in [RegistryPaths -> {0} \cup DOMAIN Exports]
      BY <1>0 DEF Registry!TypeOK
    <3>2. \A q \in RegistryPaths : present[q] = IF q \in Exports[export] THEN export ELSE 0
      BY <1>0, <2>1 DEF ReplaceInv
    <3> QED
      BY <3>1, <3>2 DEF Registry!Whole
  <2> QED
    BY <2>1, <2>2, <2>3 DEF ReplaceInv
<1>8. CASE Registry!Finish
  BY <1>8, <1>0, <1>a, <1>b DEF Registry!Finish, Registry!Stop, Registry!scan, ReplaceInv,
     Registry!Snapshots, Registry!Absent, Registry!Whole
<1>9. CASE Registry!Fails
  BY <1>9, <1>0, <1>a, <1>b DEF Registry!Fails, Registry!Stop, Registry!store, Registry!scan,
     ReplaceInv, Registry!Snapshots, Registry!Absent, Registry!Whole
<1>10. CASE Registry!ScanBegins
  BY <1>10, <1>0, <1>a, <1>b DEF Registry!ScanBegins, Registry!Committed, Registry!store,
     Registry!ingest, ReplaceInv, Registry!Snapshots, Registry!Absent, Registry!Whole
<1>11. ASSUME NEW p \in unread,
             Registry!ScanReads(p)
      PROVE  ReplaceInv'
  BY <1>11, <1>0, <1>a, <1>b DEF Registry!ScanReads, Registry!store, Registry!ingest,
     ReplaceInv, Registry!Snapshots, Registry!Absent, Registry!Whole
<1>12. CASE Registry!ScanEnds
  BY <1>12, <1>0, <1>a, <1>b DEF Registry!ScanEnds, Registry!store, Registry!ingest,
     ReplaceInv, Registry!Snapshots, Registry!Absent, Registry!Whole
<1>13. CASE UNCHANGED registryVars
  BY <1>13, <1>0, <1>a, <1>b DEF registryVars, ReplaceInv, Registry!Snapshots, Registry!Absent,
     Registry!Whole
<1>14. CASE Registry!ScanFails
  BY <1>14, <1>0 DEF Registry!ScanFails, Registry!Stop, Registry!store, ReplaceInv
<1>15. ASSUME NEW p \in unstored,
              Registry!FailsRemoving(p)
       PROVE  ReplaceInv'
  BY <1>15, <1>0 DEF Registry!FailsRemoving, Registry!Stop, ReplaceInv
<1>16. CASE Registry!ScanStops
  BY <1>16, <1>0 DEF Registry!ScanStops, Registry!store, Registry!ingest, ReplaceInv,
     Registry!Snapshots, Registry!Absent, Registry!Whole
<1> QED
  BY <1>1, <1>2, <1>3, <1>4, <1>5, <1>6, <1>7, <1>8, <1>9, <1>10, <1>11, <1>12, <1>13,
     <1>14, <1>15, <1>16 DEF Registry!Next, Registry!IngestStep

(* An undisturbed scan has read the registry as it is.                     *)
LEMMA ScanKeeps ==
  ASSUME RegistryInv, Registry!Next \/ UNCHANGED registryVars
  PROVE  ScanInv'
<1>0. Registry!TypeOK /\ ReplaceInv /\ ScanInv
  BY DEF RegistryInv
<1>1. ASSUME NEW e \in DOMAIN Exports,
             Registry!Validate(e)
      PROVE  ScanInv'
  BY <1>1, <1>0 DEF Registry!Validate, Registry!Go, Registry!store, Registry!scan, ScanInv,
     Registry!Snapshots, Registry!Absent, Registry!Whole
<1>2. CASE Registry!Begin
  BY <1>2, <1>0 DEF Registry!Begin, Registry!Go, Registry!scan, ScanInv, Registry!Snapshots,
     Registry!Absent, Registry!Whole
<1>3. CASE Registry!ScanBefore
  BY <1>3, <1>0 DEF Registry!ScanBefore, Registry!Go, Registry!store, Registry!scan,
     Registry!Present, ScanInv, Registry!Snapshots, Registry!Absent, Registry!Whole
<1>4. ASSUME NEW p \in unstored,
             Registry!StoreNext(p)
      PROVE  ScanInv'
  <2>1. disturbed' = (disturbed \/ scanPc = "reading") /\ UNCHANGED <<scanPc, scanned, unread>>
    BY <1>4 DEF Registry!StoreNext, Registry!Change, Registry!scan
  <2> QED
    BY <1>0, <2>1 DEF ScanInv, Registry!Snapshots, Registry!Absent, Registry!Whole
<1>5. CASE Registry!Stored
  BY <1>5, <1>0 DEF Registry!Stored, Registry!Go, Registry!RemoveStale, Registry!store,
     Registry!scan, ScanInv, Registry!Snapshots, Registry!Absent, Registry!Whole
<1>6. ASSUME NEW p \in unstored,
             Registry!RemoveNext(p)
      PROVE  ScanInv'
  <2>1. disturbed' = (disturbed \/ scanPc = "reading") /\ UNCHANGED <<scanPc, scanned, unread>>
    BY <1>6 DEF Registry!RemoveNext, Registry!Change, Registry!scan
  <2> QED
    BY <1>0, <2>1 DEF ScanInv, Registry!Snapshots, Registry!Absent, Registry!Whole
<1>7. CASE Registry!Verify
  BY <1>7, <1>0 DEF Registry!Verify, Registry!Go, Registry!Present, Registry!store,
     Registry!scan, ScanInv, Registry!Snapshots, Registry!Absent, Registry!Whole
<1>8. CASE Registry!Finish
  BY <1>8, <1>0 DEF Registry!Finish, Registry!Stop, Registry!scan, ScanInv, Registry!Snapshots,
     Registry!Absent, Registry!Whole
<1>9. CASE Registry!Fails
  BY <1>9, <1>0 DEF Registry!Fails, Registry!Stop, Registry!store, Registry!scan, ScanInv,
     Registry!Snapshots, Registry!Absent, Registry!Whole
<1>10. CASE Registry!ScanBegins
  BY <1>10, <1>0 DEF Registry!ScanBegins, Registry!Committed, Registry!store, Registry!ingest,
     ScanInv, Registry!Snapshots, Registry!Absent, Registry!Whole, ReplaceInv
<1>11. ASSUME NEW p \in unread,
             Registry!ScanReads(p)
      PROVE  ScanInv'
  <2>1. scanPc = "reading" /\ unread' = unread \ {p} /\ scanned' = [scanned EXCEPT ![p] = present[p]]
        /\ scanPc' = (IF unread' = {} THEN "done" ELSE "reading") /\ UNCHANGED <<present, disturbed>>
    BY <1>11 DEF Registry!ScanReads, Registry!store
  <2>2. /\ scanned \in [RegistryPaths -> {0} \cup DOMAIN Exports] /\ unread \subseteq RegistryPaths
        /\ present \in [RegistryPaths -> {0} \cup DOMAIN Exports]
    BY <1>0 DEF Registry!TypeOK
  <2>3. ~disturbed => /\ present \in Registry!Snapshots
                      /\ \A q \in RegistryPaths \ unread' : scanned'[q] = present[q]
    BY <1>0, <2>1, <2>2 DEF ScanInv
  <2>4. ~disturbed /\ unread' = {} => scanned' = present
    <3>1. scanned' \in [RegistryPaths -> {0} \cup DOMAIN Exports]
      BY <2>1, <2>2
    <3> QED
      BY <2>2, <2>3, <3>1
  <2> QED
    BY <2>1, <2>3, <2>4 DEF ScanInv, Registry!Snapshots, Registry!Absent, Registry!Whole
<1>12. CASE Registry!ScanEnds
  BY <1>12, <1>0 DEF Registry!ScanEnds, Registry!store, Registry!ingest, ScanInv,
     Registry!Snapshots, Registry!Absent, Registry!Whole
<1>13. CASE UNCHANGED registryVars
  BY <1>13, <1>0 DEF registryVars, ScanInv, Registry!Snapshots, Registry!Absent, Registry!Whole
<1>14. CASE Registry!ScanFails
  BY <1>14, <1>0 DEF Registry!ScanFails, Registry!Stop, Registry!store, Registry!scan, ScanInv,
     Registry!Snapshots, Registry!Absent, Registry!Whole
<1>15. ASSUME NEW p \in unstored,
              Registry!FailsRemoving(p)
       PROVE  ScanInv'
  BY <1>15, <1>0 DEF Registry!FailsRemoving, Registry!scan, ScanInv, Registry!Snapshots,
     Registry!Absent, Registry!Whole
<1>16. CASE Registry!ScanStops
  BY <1>16, <1>0 DEF Registry!ScanStops, ScanInv
<1> QED
  BY <1>1, <1>2, <1>3, <1>4, <1>5, <1>6, <1>7, <1>8, <1>9, <1>10, <1>11, <1>12, <1>13,
     <1>14, <1>15, <1>16 DEF Registry!Next, Registry!IngestStep

(* The registry starts empty, without the marker.                          *)
LEMMA RegistryStarts ==
  ASSUME Registry!Init
  PROVE  RegistryInv
<1>1. Registry!Absent \in [RegistryPaths -> {0} \cup DOMAIN Exports]
  BY DEF Registry!Absent
<1>2. IngestFaults \in Nat
  BY PartsAssumption DEF PartsAssumption
<1>3. marker \in BOOLEAN /\ disturbed \in BOOLEAN
  BY DEF Registry!Init
<1>4. Registry!TypeOK
  BY <1>1, <1>2, <1>3 DEF Registry!Init, Registry!TypeOK
<1> QED
  BY <1>4 DEF Registry!Init, RegistryInv, ReplaceInv, ScanInv, Registry!Snapshots

(* RegistryInv holds in every state, for every set of exports.             *)
THEOREM RegistryInvAlways == PartsSpec => []RegistryInv
<1>1. PartsInit => RegistryInv
  BY RegistryStarts DEF PartsInit
<1>2. [PartsNext]_partsVars => Registry!Next \/ UNCHANGED registryVars
  BY DEF PartsNext, partsVars
<1>3. RegistryInv /\ [PartsNext]_partsVars => RegistryInv'
  BY <1>2, RegistryTypes, ReplaceKeeps, ScanKeeps DEF RegistryInv
<1> QED
  BY <1>1, <1>3, PTL DEF PartsSpec
-----------------------------------------------------------------------------
(***************************************************************************)
(* LocalSync.  Contents are numbered by the edit that made them.           *)
(***************************************************************************)
Contents == [Watched!Files -> 0 .. edits + 1]

ContentsInv ==
  /\ edits \in 0 .. MaxEdits
  /\ dir \in Contents /\ mirror \in Contents /\ remote \in Contents
  /\ head \in Contents \cup {Watched!None}
  /\ listed \in Contents /\ want \in Contents
  /\ unreadable \subseteq Watched!Files /\ husks \subseteq Watched!Files
  /\ unwritten \subseteq Watched!Files /\ touched \subseteq WatchedPaths
  /\ late \subseteq WatchedPaths
  /\ syncPc \in {"idle", "status", "pull", "restore", "write", "fill", "filling", "inputs",
                 "take", "sync"}
  /\ after \in {"idle", "fill"} /\ policy \in {"fail", "prefer-local", "prefer-remote"}

(* The directory and the store differ only where a user changed something, *)
(* or a loop under way has yet to come, or a restore was cut short, or a   *)
(* temporary was left.                                                     *)
DifferInv ==
  /\ syncPc \notin {"restore", "write"} =>
       \A p \in Watched!Files : dir[p] # mirror[p] => p \in touched \cup WatchedTemps \/ torn
  /\ syncPc \in {"write", "take"} =>
       \A p \in Watched!Files : dir[p] # mirror[p] => p \in unwritten \cup touched
  /\ syncPc \in {"write", "filling"} => want = mirror
  /\ syncPc = "take" =>
       \A p \in unwritten : dir[p] # listed[p] => p \in touched /\ p \in late

(* What a user wrote is nowhere else until it is taken over, and once the  *)
(* cycle may pull, everything that a user wrote came after it looked.      *)
EditedInv ==
  /\ \A p \in touched : dir[p] # 0 => dir[p] # mirror[p] /\ dir[p] # remote[p]
  /\ syncPc \in {"pull", "restore", "write", "sync"} /\ policy # "prefer-remote" =>
       \A p \in touched : dir[p] # 0 => p \in late
  /\ syncPc = "take" => \A p \in touched : dir[p] # 0 => p \in late \cup unwritten

WatchedInv == ContentsInv /\ DifferInv /\ EditedInv

(* No tree is the missing head.                                            *)
LEMMA EmptyTree ==
  ASSUME NEW k \in Nat
  PROVE  Watched!Absent \in [Watched!Files -> 0 .. k]
  BY DEF Watched!Absent

(* Every tree holds only what was written so far.                          *)
LEMMA ContentsKeep ==
  ASSUME WatchedInv, Watched!Next \/ UNCHANGED watchedVars
  PROVE  ContentsInv'
<1>0. ContentsInv
  BY DEF WatchedInv
<1>a. MaxEdits \in Nat /\ edits \in Nat
  BY <1>0, PartsAssumption DEF PartsAssumption, ContentsInv
<1>b. Watched!Absent \in [Watched!Files -> 0 .. edits + 1]
  BY <1>a, EmptyTree
<1>1. ASSUME NEW p \in WatchedPaths, NEW c \in 0 .. MaxEdits + 1,
             Watched!UserEdits(p, c)
      PROVE  ContentsInv'
  <2>1. edits < MaxEdits /\ edits' = edits + 1 /\ c \in 0 .. edits + 2
    BY <1>a, <1>1 DEF Watched!UserEdits
  <2>2. \A t : t \in [Watched!Files -> 0 .. edits + 1] => t \in [Watched!Files -> 0 .. edits + 2]
    BY <1>a
  <2>3. dir' = [dir EXCEPT ![p] = c]
    BY <1>1 DEF Watched!UserEdits
  <2>4. dir' \in [Watched!Files -> 0 .. edits + 2]
    BY <1>0, <2>1, <2>2, <2>3 DEF ContentsInv, Contents, Watched!Files
  <2>5. edits' + 1 = edits + 2 /\ edits' \in 0 .. MaxEdits
    BY <1>a, <2>1
  <2>6. Contents' = [Watched!Files -> 0 .. edits + 2]
    BY <2>5 DEF Contents
  <2> QED
    BY <1>0, <1>1, <2>2, <2>4, <2>5, <2>6 DEF Watched!UserEdits, Watched!wrecks, Watched!heads, Watched!cycle, Watched!history, ContentsInv, Contents
<1>2. ASSUME NEW p \in WatchedPaths, NEW c \in 0 .. MaxEdits + 1,
             Watched!PeerPushes(p, c)
      PROVE  ContentsInv'
  <2>1. edits < MaxEdits /\ edits' = edits + 1 /\ c \in 0 .. edits + 2
    BY <1>a, <1>2 DEF Watched!PeerPushes
  <2>2. \A t : t \in [Watched!Files -> 0 .. edits + 1] => t \in [Watched!Files -> 0 .. edits + 2]
    BY <1>a
  <2>3. remote' = [remote EXCEPT ![p] = c]
    BY <1>2 DEF Watched!PeerPushes
  <2>4. remote' \in [Watched!Files -> 0 .. edits + 2]
    BY <1>0, <2>1, <2>2, <2>3 DEF ContentsInv, Contents, Watched!Files
  <2>5. edits' + 1 = edits + 2 /\ edits' \in 0 .. MaxEdits
    BY <1>a, <2>1
  <2>6. Contents' = [Watched!Files -> 0 .. edits + 2]
    BY <2>5 DEF Contents
  <2> QED
    BY <1>0, <1>2, <2>2, <2>4, <2>5, <2>6 DEF Watched!PeerPushes, Watched!wrecks, Watched!heads, Watched!cycle, Watched!history, ContentsInv, Contents
<1>3. ASSUME NEW b \in BOOLEAN,
             Watched!Begin(b)
      PROVE  ContentsInv'
  BY <1>3, <1>0, <1>a, <1>b DEF Watched!Begin, Watched!Go, Watched!trees, Watched!wrecks, Watched!heads,
     Watched!history, ContentsInv, Contents
<1>4. CASE Watched!Refuse
  BY <1>4, <1>0, <1>a, <1>b DEF Watched!Refuse, Watched!Rest, Watched!trees, Watched!wrecks, Watched!heads,
     Watched!history, ContentsInv, Contents
<1>5. CASE Watched!Decide
  BY <1>5, <1>0, <1>a, <1>b DEF Watched!Decide, Watched!Go, Watched!trees, Watched!wrecks, Watched!heads,
     ContentsInv, Contents
<1>6. ASSUME NEW from \in {"pull", "sync"}, NEW next \in {"fill", "idle"},
             Watched!Synchronises(from, next)
      PROVE  ContentsInv'
  BY <1>6, <1>0, <1>a, <1>b DEF Watched!Synchronises, Watched!wrecks, Watched!Go, Watched!Materialised,
     Watched!Pull, Watched!Push, Watched!Settle, Watched!history, ContentsInv, Contents
<1>7. ASSUME NEW from \in {"pull", "sync"},
             Watched!SyncRefuses(from)
      PROVE  ContentsInv'
  BY <1>7, <1>0, <1>a, <1>b DEF Watched!SyncRefuses, Watched!wrecks, Watched!Rest, Watched!trees,
     Watched!history, ContentsInv, Contents
<1>8. CASE Watched!SkipsSync
  BY <1>8, <1>0, <1>a, <1>b DEF Watched!SkipsSync, Watched!Rest, Watched!trees, Watched!wrecks, Watched!heads,
     Watched!history, ContentsInv, Contents
<1>9. CASE Watched!RestoreScan
  BY <1>9, <1>0, <1>a, <1>b DEF Watched!RestoreScan, Watched!Go, Watched!Differ, Watched!trees,
     Watched!wrecks, Watched!heads, Watched!history, ContentsInv, Contents
<1>10. CASE Watched!Restored
  BY <1>10, <1>0, <1>a, <1>b DEF Watched!Restored, Watched!Go, Watched!Rest, Watched!trees,
     Watched!wrecks, Watched!heads, ContentsInv, Contents
<1>11. CASE Watched!FillScan
  <2>1. Watched!Missing \subseteq Watched!Files
    BY DEF Watched!Missing, Watched!Present
  <2> QED
    BY <1>11, <1>0, <2>1 DEF Watched!FillScan, Watched!Go, Watched!trees, Watched!wrecks,
       Watched!heads, Watched!history, ContentsInv, Contents
<1>12. CASE Watched!Filled
  BY <1>12, <1>0, <1>a, <1>b DEF Watched!Filled, Watched!Go, Watched!trees, Watched!wrecks, Watched!heads,
     Watched!history, ContentsInv, Contents
<1>13. CASE Watched!InputScan
  BY <1>13, <1>0, <1>a, <1>b DEF Watched!InputScan, Watched!Go, Watched!Differ, Watched!trees,
     Watched!wrecks, Watched!heads, Watched!history, ContentsInv, Contents
<1>14. CASE Watched!Taken
  BY <1>14, <1>0, <1>a, <1>b DEF Watched!Taken, Watched!Go, Watched!trees, Watched!wrecks, Watched!heads,
     ContentsInv, Contents
<1>15. ASSUME NEW p \in unwritten,
             Watched!RestoreFile(p)
      PROVE  ContentsInv'
  BY <1>15, <1>0, <1>a, <1>b DEF Watched!RestoreFile, Watched!Write, Watched!wrecks, Watched!heads,
     ContentsInv, Contents
<1>16. ASSUME NEW p \in unwritten,
             Watched!RemoveFile(p)
      PROVE  ContentsInv'
  BY <1>16, <1>0, <1>a, <1>b DEF Watched!RemoveFile, Watched!Write, Watched!wrecks, Watched!heads, ContentsInv,
     Contents
<1>17. ASSUME NEW p \in unwritten,
             Watched!FillFile(p)
      PROVE  ContentsInv'
  BY <1>17, <1>0, <1>a, <1>b DEF Watched!FillFile, Watched!Write, Watched!Rest, Watched!wrecks, Watched!heads,
     ContentsInv, Contents
<1>18. ASSUME NEW p \in unwritten,
             Watched!TakeFile(p)
      PROVE  ContentsInv'
  BY <1>18, <1>0, <1>a, <1>b DEF Watched!TakeFile, Watched!Rest, Watched!wrecks, Watched!heads, ContentsInv,
     Contents
<1>19. ASSUME NEW p \in unwritten,
             Watched!DropObject(p)
      PROVE  ContentsInv'
  BY <1>19, <1>0, <1>a, <1>b DEF Watched!DropObject, Watched!Gone, Watched!wrecks, Watched!heads, ContentsInv, Contents
<1>20. CASE Watched!Fails
  BY <1>20, <1>0, <1>a, <1>b DEF Watched!Fails, Watched!Rest, Watched!trees, Watched!wrecks, Watched!heads,
     ContentsInv, Contents
<1>21. CASE Watched!FailsCommitted
  BY <1>21, <1>0, <1>a, <1>b DEF Watched!FailsCommitted, Watched!wrecks, Watched!Rest, Watched!trees,
     Watched!history, ContentsInv, Contents
<1>22. CASE UNCHANGED watchedVars
  BY <1>22, <1>0, <1>a, <1>b DEF watchedVars, ContentsInv, Contents
<1>23. CASE Watched!FillRefused
  BY <1>23, <1>0, <1>a, <1>b DEF Watched!FillRefused, Watched!Rest, Watched!trees, Watched!wrecks,
     Watched!heads, Watched!history, ContentsInv, Contents
<1>24. ASSUME NEW p \in unwritten, NEW t \in WatchedTemps,
              Watched!DiesCopying(p, t)
       PROVE  ContentsInv'
  BY <1>24, <1>0, <1>a, <1>b DEF Watched!DiesCopying, Watched!Rest, Watched!wrecks, Watched!heads,
     Watched!Files, ContentsInv, Contents
<1>25. ASSUME NEW p \in unwritten,
              Watched!DiesStoring(p)
       PROVE  ContentsInv'
  BY <1>25, <1>0, <1>a, <1>b DEF Watched!DiesStoring, Watched!Rest, Watched!trees, Watched!heads,
     Watched!history, ContentsInv, Contents
<1>26. ASSUME NEW p \in unwritten,
              Watched!DiesDropping(p)
       PROVE  ContentsInv'
  BY <1>26, <1>0, <1>a, <1>b DEF Watched!DiesDropping, Watched!Drops, Watched!Gone, Watched!Rest,
     Watched!heads, ContentsInv, Contents
<1> QED
  BY <1>1, <1>2, <1>3, <1>4, <1>5, <1>6, <1>7, <1>8, <1>9, <1>10, <1>11, <1>12, <1>13, <1>14,
     <1>15, <1>16, <1>17, <1>18, <1>19, <1>20, <1>21, <1>22, <1>23, <1>24, <1>25, <1>26
     DEF Watched!Next, Watched!CycleStep

(* Only edits make the directory differ from the store.                    *)
LEMMA DifferKeeps ==
  ASSUME WatchedInv, Watched!Next \/ UNCHANGED watchedVars
  PROVE  DifferInv'
<1>0. ContentsInv /\ DifferInv
  BY DEF WatchedInv
<1>1. ASSUME NEW p \in WatchedPaths, NEW c \in 0 .. MaxEdits + 1,
             Watched!UserEdits(p, c)
      PROVE  DifferInv'
  BY <1>1, <1>0 DEF Watched!UserEdits, Watched!heads, Watched!cycle, DifferInv, ContentsInv,
     Contents
<1>2. ASSUME NEW p \in WatchedPaths, NEW c \in 0 .. MaxEdits + 1,
             Watched!PeerPushes(p, c)
      PROVE  DifferInv'
  BY <1>2, <1>0 DEF Watched!PeerPushes, Watched!cycle, Watched!history, DifferInv
<1>3. ASSUME NEW b \in BOOLEAN,
             Watched!Begin(b)
      PROVE  DifferInv'
  BY <1>3, <1>0 DEF Watched!Begin, Watched!Go, Watched!trees, Watched!heads, Watched!history,
     DifferInv
<1>4. CASE Watched!Refuse
  BY <1>4, <1>0 DEF Watched!Refuse, Watched!Rest, Watched!trees, Watched!heads,
     Watched!history, DifferInv
<1>5. CASE Watched!Decide
  BY <1>5, <1>0 DEF Watched!Decide, Watched!Go, Watched!trees, Watched!heads, DifferInv
<1>6. ASSUME NEW from \in {"pull", "sync"}, NEW next \in {"fill", "idle"},
             Watched!Synchronises(from, next)
      PROVE  DifferInv'
  BY <1>6, <1>0 DEF Watched!Synchronises, Watched!Go, Watched!Materialised, Watched!Pull,
     Watched!Push, Watched!Settle, Watched!history, DifferInv
<1>7. ASSUME NEW from \in {"pull", "sync"},
             Watched!SyncRefuses(from)
      PROVE  DifferInv'
  BY <1>7, <1>0 DEF Watched!SyncRefuses, Watched!Rest, Watched!trees, Watched!history, DifferInv
<1>8. CASE Watched!SkipsSync
  BY <1>8, <1>0 DEF Watched!SkipsSync, Watched!Rest, Watched!trees, Watched!heads,
     Watched!history, DifferInv
<1>9. CASE Watched!RestoreScan
  BY <1>9, <1>0 DEF Watched!RestoreScan, Watched!Go, Watched!Differ, Watched!trees,
     Watched!heads, Watched!history, DifferInv
<1>10. CASE Watched!Restored
  BY <1>10, <1>0 DEF Watched!Restored, Watched!Go, Watched!Rest, Watched!trees, Watched!heads,
     DifferInv
<1>11. CASE Watched!FillScan
  BY <1>11, <1>0 DEF Watched!FillScan, Watched!Go, Watched!Missing, Watched!Present,
     Watched!trees, Watched!heads, Watched!history, DifferInv
<1>12. CASE Watched!Filled
  BY <1>12, <1>0 DEF Watched!Filled, Watched!Go, Watched!trees, Watched!heads, Watched!history,
     DifferInv
<1>13. CASE Watched!InputScan
  BY <1>13, <1>0 DEF Watched!InputScan, Watched!Go, Watched!Differ, Watched!trees,
     Watched!heads, Watched!history, DifferInv
<1>14. CASE Watched!Taken
  BY <1>14, <1>0 DEF Watched!Taken, Watched!Go, Watched!trees, Watched!heads, DifferInv
<1>15. ASSUME NEW p \in unwritten,
             Watched!RestoreFile(p)
      PROVE  DifferInv'
  BY <1>15, <1>0 DEF Watched!RestoreFile, Watched!Write, Watched!heads, DifferInv, ContentsInv,
     Contents
<1>16. ASSUME NEW p \in unwritten,
             Watched!RemoveFile(p)
      PROVE  DifferInv'
  BY <1>16, <1>0 DEF Watched!RemoveFile, Watched!Write, Watched!heads, DifferInv, ContentsInv,
     Contents
<1>17. ASSUME NEW p \in unwritten,
             Watched!FillFile(p)
      PROVE  DifferInv'
  BY <1>17, <1>0 DEF Watched!FillFile, Watched!Write, Watched!Rest, Watched!heads, DifferInv,
     ContentsInv, Contents
<1>18. ASSUME NEW p \in unwritten,
             Watched!TakeFile(p)
      PROVE  DifferInv'
  BY <1>18, <1>0 DEF Watched!TakeFile, Watched!Rest, Watched!heads, DifferInv, ContentsInv,
     Contents
<1>19. ASSUME NEW p \in unwritten,
             Watched!DropObject(p)
      PROVE  DifferInv'
  BY <1>19, <1>0 DEF Watched!DropObject, Watched!Drops, Watched!Gone, Watched!heads, DifferInv, ContentsInv, Contents
<1>20. CASE Watched!Fails
  BY <1>20, <1>0 DEF Watched!Fails, Watched!Rest, Watched!trees, Watched!heads, DifferInv
<1>21. CASE Watched!FailsCommitted
  BY <1>21, <1>0 DEF Watched!FailsCommitted, Watched!Rest, Watched!trees, Watched!history,
     DifferInv
<1>22. CASE UNCHANGED watchedVars
  BY <1>22, <1>0 DEF watchedVars, DifferInv
<1>23. CASE Watched!FillRefused
  BY <1>23, <1>0 DEF Watched!FillRefused, Watched!Rest, Watched!trees, Watched!wrecks,
     Watched!heads, Watched!history, DifferInv, ContentsInv, Contents
<1>24. ASSUME NEW p \in unwritten, NEW t \in WatchedTemps,
              Watched!DiesCopying(p, t)
       PROVE  DifferInv'
  BY <1>24, <1>0 DEF Watched!DiesCopying, Watched!Rest, Watched!heads, Watched!Files, DifferInv, ContentsInv, Contents
<1>25. ASSUME NEW p \in unwritten,
              Watched!DiesStoring(p)
       PROVE  DifferInv'
  BY <1>25, <1>0 DEF Watched!DiesStoring, Watched!Rest, Watched!trees, Watched!heads,
     Watched!history, DifferInv, ContentsInv, Contents
<1>26. ASSUME NEW p \in unwritten,
              Watched!DiesDropping(p)
       PROVE  DifferInv'
  BY <1>26, <1>0 DEF Watched!DiesDropping, Watched!Drops, Watched!Gone, Watched!Rest,
     Watched!heads, DifferInv, ContentsInv, Contents
<1> QED
  BY <1>1, <1>2, <1>3, <1>4, <1>5, <1>6, <1>7, <1>8, <1>9, <1>10, <1>11, <1>12, <1>13, <1>14,
     <1>15, <1>16, <1>17, <1>18, <1>19, <1>20, <1>21, <1>22, <1>23, <1>24, <1>25, <1>26
     DEF Watched!Next, Watched!CycleStep

(* What a user wrote is not pulled over.                                   *)
LEMMA EditedKeeps ==
  ASSUME WatchedInv, Watched!Next \/ UNCHANGED watchedVars
  PROVE  EditedInv'
<1>0. ContentsInv /\ DifferInv /\ EditedInv
  BY DEF WatchedInv
<1>a. MaxEdits \in Nat /\ edits \in Nat
  BY <1>0, PartsAssumption DEF PartsAssumption, ContentsInv
<1>c. WatchedPaths \cap WatchedTemps = {}
  BY PartsAssumption DEF PartsAssumption
<1>d. touched \subseteq Watched!Files /\ WatchedPaths \subseteq Watched!Files
  BY <1>0 DEF ContentsInv, Watched!Files
<1>1. ASSUME NEW p \in WatchedPaths, NEW c \in 0 .. MaxEdits + 1,
             Watched!UserEdits(p, c)
      PROVE  EditedInv'
  BY <1>1, <1>0, <1>a, <1>d DEF Watched!UserEdits, Watched!heads, Watched!cycle, EditedInv,
     DifferInv, ContentsInv, Contents
<1>2. ASSUME NEW p \in WatchedPaths, NEW c \in 0 .. MaxEdits + 1,
             Watched!PeerPushes(p, c)
      PROVE  EditedInv'
  BY <1>2, <1>0, <1>a DEF Watched!PeerPushes, Watched!cycle, Watched!history, EditedInv,
     DifferInv, ContentsInv, Contents
<1>3. ASSUME NEW b \in BOOLEAN,
             Watched!Begin(b)
      PROVE  EditedInv'
  BY <1>3, <1>0 DEF Watched!Begin, Watched!Go, Watched!trees, Watched!heads, Watched!history,
     EditedInv
<1>4. CASE Watched!Refuse
  BY <1>4, <1>0 DEF Watched!Refuse, Watched!Rest, Watched!trees, Watched!heads,
     Watched!history, EditedInv
<1>5. CASE Watched!Decide
  BY <1>5, <1>0, <1>d DEF Watched!Decide, Watched!Go, Watched!trees, Watched!heads, EditedInv,
     Watched!Conflict, Watched!Dirty, Watched!Missing, Watched!Differ, Watched!Present,
     ContentsInv
<1>6. ASSUME NEW from \in {"pull", "sync"}, NEW next \in {"fill", "idle"},
             Watched!Synchronises(from, next)
      PROVE  EditedInv'
  BY <1>6, <1>0 DEF Watched!Synchronises, Watched!Go, Watched!Materialised, Watched!Pull,
     Watched!Push, Watched!Settle, Watched!history, EditedInv, DifferInv, ContentsInv, Contents
<1>7. ASSUME NEW from \in {"pull", "sync"},
             Watched!SyncRefuses(from)
      PROVE  EditedInv'
  BY <1>7, <1>0 DEF Watched!SyncRefuses, Watched!Rest, Watched!trees, Watched!history, EditedInv
<1>8. CASE Watched!SkipsSync
  BY <1>8, <1>0 DEF Watched!SkipsSync, Watched!Rest, Watched!trees, Watched!heads,
     Watched!history, EditedInv
<1>9. CASE Watched!RestoreScan
  BY <1>9, <1>0 DEF Watched!RestoreScan, Watched!Go, Watched!Differ, Watched!trees,
     Watched!heads, Watched!history, EditedInv
<1>10. CASE Watched!Restored
  BY <1>10, <1>0 DEF Watched!Restored, Watched!Go, Watched!Rest, Watched!trees, Watched!heads,
     EditedInv, DifferInv, ContentsInv, Contents
<1>11. CASE Watched!FillScan
  BY <1>11, <1>0 DEF Watched!FillScan, Watched!Go, Watched!Missing, Watched!Present,
     Watched!trees, Watched!heads, Watched!history, EditedInv
<1>12. CASE Watched!Filled
  BY <1>12, <1>0 DEF Watched!Filled, Watched!Go, Watched!trees, Watched!heads, Watched!history,
     EditedInv
<1>13. CASE Watched!InputScan
  BY <1>13, <1>0, <1>d DEF Watched!InputScan, Watched!Go, Watched!Differ, Watched!trees,
     Watched!heads, Watched!history, EditedInv, DifferInv, ContentsInv, Contents
<1>14. CASE Watched!Taken
  BY <1>14, <1>0 DEF Watched!Taken, Watched!Go, Watched!trees, Watched!heads, EditedInv
<1>15. ASSUME NEW p \in unwritten,
             Watched!RestoreFile(p)
      PROVE  EditedInv'
  BY <1>15, <1>0, <1>d DEF Watched!RestoreFile, Watched!Write, Watched!heads, EditedInv, DifferInv,
     ContentsInv, Contents
<1>16. ASSUME NEW p \in unwritten,
             Watched!RemoveFile(p)
      PROVE  EditedInv'
  BY <1>16, <1>0 DEF Watched!RemoveFile, Watched!Write, Watched!heads, EditedInv, DifferInv,
     ContentsInv, Contents
<1>17. ASSUME NEW p \in unwritten,
             Watched!FillFile(p)
      PROVE  EditedInv'
  BY <1>17, <1>0, <1>d DEF Watched!FillFile, Watched!Write, Watched!Rest, Watched!heads, EditedInv,
     DifferInv, ContentsInv, Contents
<1>18. ASSUME NEW p \in unwritten,
             Watched!TakeFile(p)
      PROVE  EditedInv'
  BY <1>18, <1>0, <1>d DEF Watched!TakeFile, Watched!Rest, Watched!heads, EditedInv, DifferInv,
     ContentsInv, Contents
<1>19. ASSUME NEW p \in unwritten,
             Watched!DropObject(p)
      PROVE  EditedInv'
  BY <1>19, <1>0 DEF Watched!DropObject, Watched!Drops, Watched!Gone, Watched!heads, EditedInv, DifferInv, ContentsInv,
     Contents
<1>20. CASE Watched!Fails
  BY <1>20, <1>0 DEF Watched!Fails, Watched!Rest, Watched!trees, Watched!heads, EditedInv
<1>21. CASE Watched!FailsCommitted
  BY <1>21, <1>0 DEF Watched!FailsCommitted, Watched!Rest, Watched!trees, Watched!history,
     EditedInv
<1>22. CASE UNCHANGED watchedVars
  BY <1>22, <1>0 DEF watchedVars, EditedInv
<1>23. CASE Watched!FillRefused
  BY <1>23, <1>0 DEF Watched!FillRefused, Watched!Rest, Watched!trees, Watched!wrecks,
     Watched!heads, Watched!history, EditedInv, DifferInv, ContentsInv, Contents
<1>24. ASSUME NEW p \in unwritten, NEW t \in WatchedTemps,
              Watched!DiesCopying(p, t)
       PROVE  EditedInv'
  BY <1>24, <1>0, <1>c DEF Watched!DiesCopying, Watched!Rest, Watched!heads, Watched!Files, EditedInv, DifferInv, ContentsInv, Contents
<1>25. ASSUME NEW p \in unwritten,
              Watched!DiesStoring(p)
       PROVE  EditedInv'
  BY <1>25, <1>0 DEF Watched!DiesStoring, Watched!Rest, Watched!trees, Watched!heads,
     Watched!history, EditedInv, DifferInv, ContentsInv, Contents
<1>26. ASSUME NEW p \in unwritten,
              Watched!DiesDropping(p)
       PROVE  EditedInv'
  BY <1>26, <1>0, <1>d DEF Watched!DiesDropping, Watched!Drops, Watched!Gone, Watched!Rest,
     Watched!heads, EditedInv, DifferInv, ContentsInv, Contents
<1> QED
  BY <1>1, <1>2, <1>3, <1>4, <1>5, <1>6, <1>7, <1>8, <1>9, <1>10, <1>11, <1>12, <1>13, <1>14,
     <1>15, <1>16, <1>17, <1>18, <1>19, <1>20, <1>21, <1>22, <1>23, <1>24, <1>25, <1>26
     DEF Watched!Next, Watched!CycleStep

(* A node in sync, or a fresh one.                                         *)
LEMMA WatchedStarts ==
  ASSUME Watched!Init
  PROVE  WatchedInv
<1>1. /\ Watched!Absent \in [Watched!Files -> 0 .. 1]
      /\ [p \in Watched!Files |-> IF p \in WatchedPaths THEN 1 ELSE 0] \in [Watched!Files -> 0 .. 1]
  BY EmptyTree
<1>2. edits = 0 /\ Contents = [Watched!Files -> 0 .. 1] /\ 0 \in 0 .. MaxEdits
  BY PartsAssumption DEF PartsAssumption, Watched!Init, Contents
<1>3. ContentsInv
  BY <1>1, <1>2 DEF Watched!Init, ContentsInv
<1>4. dir = mirror
  BY DEF Watched!Init
<1> QED
  BY <1>3, <1>4 DEF Watched!Init, WatchedInv, DifferInv, EditedInv

(* A step of any part is a step of the cycle or leaves the node alone.     *)
LEMMA WatchedSteps ==
  ASSUME [PartsNext]_partsVars
  PROVE  Watched!Next \/ UNCHANGED watchedVars
  BY DEF PartsNext, partsVars

(* WatchedInv holds in every state, for every set of paths and every       *)
(* number of edits.                                                        *)
THEOREM WatchedInvAlways == PartsSpec => []WatchedInv
<1>1. PartsInit => WatchedInv
  BY WatchedStarts DEF PartsInit
<1>2. WatchedInv /\ [PartsNext]_partsVars => WatchedInv'
  BY WatchedSteps, ContentsKeep, DifferKeeps, EditedKeeps DEF WatchedInv
<1> QED
  BY <1>1, <1>2, PTL DEF PartsSpec

(* sync_local_directory takes over only what users changed, the temporary  *)
(* of a copy that died, or the rest of a restore that was cut short, and   *)
(* restore_local_directory overwrites nothing that was written before the  *)
(* cycle looked at the directory.                                          *)
THEOREM EditsTravelAndStay == PartsSpec => LocalSyncSafe
<1>1. ASSUME WatchedInv, Watched!Next
      PROVE  Watched!OnlyEditsTravel
  <2>0. ContentsInv /\ DifferInv
    BY <1>1 DEF WatchedInv
  <2> SUFFICES ASSUME NEW p \in Watched!Files, syncPc = "take", mirror'[p] # mirror[p]
               PROVE  p \in touched \cup WatchedTemps \/ torn
    BY DEF Watched!OnlyEditsTravel
  <2>1. \/ \E q \in unwritten : \/ Watched!TakeFile(q) \/ Watched!DropObject(q)
                                 \/ Watched!DiesDropping(q)
        \/ mirror' = mirror
    BY <1>1 DEF Watched!Next, Watched!CycleStep, Watched!Begin, Watched!UserEdits, Watched!PeerPushes,
       Watched!Refuse, Watched!Decide, Watched!Synchronises, Watched!SyncRefuses, Watched!SkipsSync,
       Watched!RestoreScan, Watched!Restored, Watched!FillRefused, Watched!FillScan, Watched!Filled,
       Watched!InputScan, Watched!Taken, Watched!RestoreFile, Watched!RemoveFile, Watched!FillFile,
       Watched!Fails, Watched!FailsCommitted, Watched!DiesCopying, Watched!DiesStoring, Watched!Go,
       Watched!trees
  <2>2. PICK q \in unwritten : \/ Watched!TakeFile(q) \/ Watched!DropObject(q)
                               \/ Watched!DiesDropping(q)
    BY <2>1
  <2>3. mirror' = mirror \/ mirror' = [mirror EXCEPT ![q] = dir[q]] \/ (mirror' = [mirror EXCEPT ![q] = 0] /\ listed[q] = 0)
    BY <2>2 DEF Watched!TakeFile, Watched!DropObject, Watched!DiesDropping, Watched!Drops, Watched!Gone
  <2>4. p = q /\ (dir[p] # mirror[p] \/ dir[p] # listed[p])
    BY <2>0, <2>3 DEF ContentsInv, Contents
  <2> QED
    BY <2>0, <2>2, <2>4 DEF DifferInv
<1>2. ASSUME WatchedInv, Watched!Next
      PROVE  Watched!EditsKept
  <2>0. ContentsInv /\ DifferInv /\ EditedInv
    BY <1>2 DEF WatchedInv
  <2> SUFFICES ASSUME NEW p \in touched \ touched', syncPc \in {"write", "filling"}, dir[p] # 0,
                      policy # "prefer-remote"
               PROVE  p \in late
    BY DEF Watched!EditsKept
  <2>1. CASE syncPc = "write"
    BY <2>0, <2>1 DEF EditedInv
  <2>2. CASE syncPc = "filling"
    <3>1. \/ \E q \in unwritten : Watched!FillFile(q)
          \/ touched \subseteq touched'
      BY <1>2, <2>2 DEF Watched!Next, Watched!CycleStep, Watched!Begin, Watched!UserEdits, Watched!PeerPushes,
         Watched!Refuse, Watched!Decide, Watched!Synchronises, Watched!SyncRefuses, Watched!SkipsSync,
         Watched!RestoreScan, Watched!Restored, Watched!FillRefused, Watched!FillScan, Watched!Filled,
         Watched!InputScan, Watched!Taken, Watched!RestoreFile, Watched!RemoveFile, Watched!TakeFile,
         Watched!DropObject, Watched!Fails, Watched!FailsCommitted, Watched!DiesCopying,
         Watched!DiesStoring, Watched!DiesDropping, Watched!Drops, Watched!Go, Watched!history
    <3> QED
      BY <3>1 DEF Watched!FillFile, Watched!Write
  <2> QED
    BY <2>1, <2>2
<1>3. WatchedInv /\ [PartsNext]_partsVars => [Watched!OnlyEditsTravel /\ Watched!EditsKept]_watchedVars
  BY <1>1, <1>2, WatchedSteps
<1> QED
  BY <1>3, WatchedInvAlways, PTL DEF PartsSpec, LocalSyncSafe

(* ingest_registry_export and SyncPlan::scan: without the marker the       *)
(* registry is one export as a whole, and so is what an undisturbed scan   *)
(* has read.  The types of the watched directory ride along.               *)
THEOREM RegistryStaysWhole == PartsSpec => []RegistryIsWhole
<1>1. WatchedInv => Watched!TypeOK
  <2> SUFFICES ASSUME WatchedInv
               PROVE  Watched!TypeOK
    OBVIOUS
  <2>1. ContentsInv /\ MaxEdits \in Nat
    BY PartsAssumption DEF WatchedInv, PartsAssumption
  <2>2. \A t : t \in Contents => t \in Watched!Trees
    BY <2>1 DEF ContentsInv, Contents, Watched!Trees
  <2> QED
    BY <2>1, <2>2 DEF ContentsInv, Watched!TypeOK
<1>2. RegistryInv => Registry!TypeOK /\ Registry!RegistryIsWhole
  BY DEF RegistryInv, ReplaceInv, ScanInv, Registry!RegistryIsWhole
<1>3. RegistryInv /\ WatchedInv => RegistryIsWhole
  BY <1>1, <1>2 DEF RegistryIsWhole
<1> QED
  BY <1>3, RegistryInvAlways, WatchedInvAlways, PTL
-----------------------------------------------------------------------------
(***************************************************************************)
(* VideoDownload.  The rows agree with one another, and every step of the  *)
(* worker with the rows and files of its job.                              *)
(***************************************************************************)
UnderWay == {"downloading", "downloaded", "inspecting", "container_checked", "probing",
             "probed", "normalizing"}

RowsInv ==
  \A j \in Video!Ids :
    /\ job[j] \in {"none", "reserving", "refused"} => asset[j] = "none"
    /\ job[j] \in UnderWay \cup {"queued", "failed"} => asset[j] = "quarantined"
    /\ job[j] = "ready" => asset[j] = "ready" /\ final[j] = "whole" /\ vetted[j] = 2
    /\ variants[j] = IF job[j] = "ready" THEN 1 ELSE 0
    /\ job[j] \in {"container_checked", "probing"} => vetted[j] \in {1, 2}
    /\ job[j] \in {"probed", "normalizing"} => vetted[j] = 2

WorkerInv ==
  /\ videoPc = "clean" => \A j \in uncleaned : job[j] = "queued"
  /\ videoPc = "claim" => job[videoJob] = "queued"
  /\ videoPc \in {"open", "fetch", "fetched"} => job[videoJob] = "downloading"
  /\ videoPc = "inspect" => job[videoJob] = "downloaded"
  /\ videoPc \in {"sniff", "sniffed"} => job[videoJob] = "inspecting"
  /\ videoPc = "probe" => job[videoJob] = "container_checked"
  /\ videoPc \in {"probing", "probed"} => job[videoJob] = "probing"
  /\ videoPc \in {"paths", "normalize"} => job[videoJob] = "probed"
  /\ videoPc \in {"encode", "encoded", "promote", "copy", "unlink", "commit"} =>
       job[videoJob] = "normalizing"
  /\ videoPc = "fail" => job[videoJob] \in UnderWay
  /\ videoPc \in {"fetch", "fetched", "inspect", "sniff"} => vetted[videoJob] = 0
  /\ videoPc \in {"sniffed", "probe", "probing"} => vetted[videoJob] = 1
  /\ videoPc = "probed" => vetted[videoJob] = 2
  /\ videoPc \in {"promote", "copy"} => assembled[videoJob] = "whole"
  /\ videoPc \in {"unlink", "commit"} => final[videoJob] = "whole"

VideoInv == Video!TypeOK /\ RowsInv /\ WorkerInv

(* The parts of the type invariant.                                        *)
VideoRowsOK ==
  /\ job \in [Video!Ids -> Video!JobStates]
  /\ asset \in [Video!Ids -> {"none", "quarantined", "ready"}]
  /\ variants \in [Video!Ids -> 0 .. 1] /\ vetted \in [Video!Ids -> 0 .. 2]

VideoFilesOK ==
  /\ quarantine \in [Video!Ids -> Video!FileStates]
  /\ assembled \in [Video!Ids -> Video!FileStates]
  /\ final \in [Video!Ids -> Video!FileStates]
  /\ videoJob \in Video!Ids /\ uncleaned \subseteq Video!Ids

VideoFlagsOK ==
  scan \in BOOLEAN /\ recovered \in BOOLEAN /\ notified \in BOOLEAN

(* Rows keep their types: a variant is published once, a check counts once. *)
LEMMA VideoRowsTypes ==
  ASSUME VideoInv, Video!Next \/ UNCHANGED videoVars
  PROVE  VideoRowsOK'
<1>0. VideoRowsOK /\ VideoFilesOK /\ RowsInv /\ WorkerInv
  BY DEF VideoInv, Video!TypeOK, VideoRowsOK, VideoFilesOK
<1>1. ASSUME NEW j \in Video!Ids,
             Video!Reserve(j)
      PROVE  VideoRowsOK'
  BY <1>1, <1>0 DEF Video!Reserve, Video!worker, VideoRowsOK, Video!JobStates, VideoFilesOK
<1>2. ASSUME NEW j \in Video!Ids,
             Video!Insert(j)
      PROVE  VideoRowsOK'
  BY <1>2, <1>0 DEF Video!Insert, Video!Fault, Video!worker, VideoRowsOK, Video!JobStates,
     VideoFilesOK
<1>3. CASE Video!Start
  BY <1>3, <1>0 DEF Video!Start, Video!Go, Video!rows, Video!files, VideoRowsOK,
     Video!JobStates, VideoFilesOK
<1>4. CASE Video!Recover
  BY <1>4, <1>0 DEF Video!Recover, Video!Fault, Video!files, Video!Incomplete, VideoRowsOK,
     Video!JobStates, VideoFilesOK
<1>5. CASE Video!Clean
  BY <1>5, <1>0 DEF Video!Clean, Video!Fault, VideoRowsOK, Video!JobStates, VideoFilesOK
<1>6. CASE Video!Cleaned
  BY <1>6, <1>0 DEF Video!Cleaned, Video!Go, Video!rows, Video!files, VideoRowsOK,
     Video!JobStates, VideoFilesOK
<1>7. CASE Video!Pick
  BY <1>7, <1>0 DEF Video!Pick, Video!Go, Video!Fault, Video!rows, Video!files, Video!Queued,
     VideoRowsOK, Video!JobStates, VideoFilesOK
<1>8. CASE Video!Wake
  BY <1>8, <1>0 DEF Video!Wake, Video!Go, Video!rows, Video!files, VideoRowsOK,
     Video!JobStates, VideoFilesOK
<1>9. CASE Video!Open
  BY <1>9, <1>0 DEF Video!Open, Video!Go, Video!Set, Video!Rejects, Video!rows, VideoRowsOK,
     Video!JobStates, VideoFilesOK
<1>10. CASE Video!Fetch
  BY <1>10, <1>0 DEF Video!Fetch, Video!Go, Video!Set, Video!Rejects, Video!rows, VideoRowsOK,
     Video!JobStates, VideoFilesOK
<1>11. CASE Video!Paths
  BY <1>11, <1>0 DEF Video!Paths, Video!Go, Video!rows, Video!files, VideoRowsOK,
     Video!JobStates, VideoFilesOK
<1>12. CASE Video!Encode
  BY <1>12, <1>0 DEF Video!Encode, Video!Go, Video!Set, Video!rows, VideoRowsOK,
     Video!JobStates, VideoFilesOK
<1>13. CASE Video!Promote
  BY <1>13, <1>0 DEF Video!Promote, Video!Go, Video!Set, Video!Fault, Video!rows, VideoRowsOK,
     Video!JobStates, VideoFilesOK
<1>14. CASE Video!Commit
  BY <1>14, <1>0 DEF Video!Commit, Video!Go, Video!Set, Video!Fault, Video!rows, VideoRowsOK,
     Video!JobStates, VideoFilesOK, WorkerInv, RowsInv
<1>15. CASE Video!Discard
  BY <1>15, <1>0 DEF Video!Discard, Video!Go, Video!Set, Video!rows, VideoRowsOK,
     Video!JobStates, VideoFilesOK
<1>16. CASE Video!Tick
  BY <1>16, <1>0 DEF Video!Tick, Video!ScanDue, Video!rows, Video!files, VideoRowsOK,
     Video!JobStates, VideoFilesOK
<1>17. CASE Video!Crash
  BY <1>17, <1>0 DEF Video!Crash, Video!Fault, Video!files, VideoRowsOK, Video!JobStates,
     VideoFilesOK
<1>18. CASE Video!RecordsTwice("claim", "open", "downloading")
  BY <1>18, <1>0 DEF Video!RecordsTwice, Video!Records, Video!Go, Video!Set, Video!Fault,
     Video!files, VideoRowsOK, Video!JobStates, VideoFilesOK
<1>19. CASE Video!Records("fetched", "inspect", "downloaded")
  BY <1>19, <1>0 DEF Video!Records, Video!Go, Video!Set, Video!Fault, Video!files, VideoRowsOK,
     Video!JobStates, VideoFilesOK
<1>20. CASE Video!Records("inspect", "sniff", "inspecting")
  BY <1>20, <1>0 DEF Video!Records, Video!Go, Video!Set, Video!Fault, Video!files, VideoRowsOK,
     Video!JobStates, VideoFilesOK
<1>21. CASE Video!Records("sniffed", "probe", "container_checked")
  BY <1>21, <1>0 DEF Video!Records, Video!Go, Video!Set, Video!Fault, Video!files, VideoRowsOK,
     Video!JobStates, VideoFilesOK
<1>22. CASE Video!Records("probe", "probing", "probing")
  BY <1>22, <1>0 DEF Video!Records, Video!Go, Video!Set, Video!Fault, Video!files, VideoRowsOK,
     Video!JobStates, VideoFilesOK
<1>23. CASE Video!Records("probed", "paths", "probed")
  BY <1>23, <1>0 DEF Video!Records, Video!Go, Video!Set, Video!Fault, Video!files, VideoRowsOK,
     Video!JobStates, VideoFilesOK
<1>24. CASE Video!RecordsTwice("normalize", "encode", "normalizing")
  BY <1>24, <1>0 DEF Video!RecordsTwice, Video!Records, Video!Go, Video!Set, Video!Fault,
     Video!files, VideoRowsOK, Video!JobStates, VideoFilesOK
<1>25. CASE Video!Records("fail", "loop", "failed")
  BY <1>25, <1>0 DEF Video!Records, Video!Go, Video!Set, Video!Fault, Video!files, VideoRowsOK,
     Video!JobStates, VideoFilesOK
<1>26. CASE Video!Vets("sniff", "sniffed")
  BY <1>26, <1>0 DEF Video!Vets, Video!Go, Video!Set, Video!Rejects, Video!rows, VideoRowsOK,
     Video!JobStates, VideoFilesOK, WorkerInv, RowsInv
<1>27. CASE Video!Vets("probing", "probed")
  BY <1>27, <1>0 DEF Video!Vets, Video!Go, Video!Set, Video!Rejects, Video!rows, VideoRowsOK,
     Video!JobStates, VideoFilesOK, WorkerInv, RowsInv
<1>28. CASE UNCHANGED videoVars
  BY <1>28, <1>0 DEF videoVars, VideoRowsOK, Video!JobStates, VideoFilesOK
<1> QED
  BY <1>1, <1>2, <1>3, <1>4, <1>5, <1>6, <1>7, <1>8, <1>9, <1>10, <1>11, <1>12, <1>13, <1>14,
     <1>15, <1>16, <1>17, <1>18, <1>19, <1>20, <1>21, <1>22, <1>23, <1>24, <1>25, <1>26, <1>27,
     <1>28
     DEF Video!Next, Video!WorkerStep, Video!Pipeline

(* ... and so do files and the worker.                                     *)
LEMMA VideoFilesTypes ==
  ASSUME VideoInv, Video!Next \/ UNCHANGED videoVars
  PROVE  VideoFilesOK'
<1>0. VideoRowsOK /\ VideoFilesOK /\ RowsInv /\ WorkerInv
  BY DEF VideoInv, Video!TypeOK, VideoRowsOK, VideoFilesOK
<1>1. ASSUME NEW j \in Video!Ids,
             Video!Reserve(j)
      PROVE  VideoFilesOK'
  BY <1>1, <1>0 DEF Video!Reserve, Video!worker, VideoFilesOK, Video!FileStates
<1>2. ASSUME NEW j \in Video!Ids,
             Video!Insert(j)
      PROVE  VideoFilesOK'
  BY <1>2, <1>0 DEF Video!Insert, Video!Fault, Video!worker, VideoFilesOK, Video!FileStates
<1>3. CASE Video!Start
  BY <1>3, <1>0 DEF Video!Start, Video!Go, Video!rows, Video!files, VideoFilesOK,
     Video!FileStates
<1>4. CASE Video!Recover
  BY <1>4, <1>0 DEF Video!Recover, Video!Fault, Video!files, Video!Incomplete, VideoFilesOK,
     Video!FileStates
<1>5. CASE Video!Clean
  BY <1>5, <1>0 DEF Video!Clean, Video!Fault, VideoFilesOK, Video!FileStates
<1>6. CASE Video!Cleaned
  BY <1>6, <1>0 DEF Video!Cleaned, Video!Go, Video!rows, Video!files, VideoFilesOK,
     Video!FileStates
<1>7. CASE Video!Pick
  BY <1>7, <1>0 DEF Video!Pick, Video!Go, Video!Fault, Video!rows, Video!files, Video!Queued,
     VideoFilesOK, Video!FileStates
<1>8. CASE Video!Wake
  BY <1>8, <1>0 DEF Video!Wake, Video!Go, Video!rows, Video!files, VideoFilesOK,
     Video!FileStates
<1>9. CASE Video!Open
  BY <1>9, <1>0 DEF Video!Open, Video!Go, Video!Set, Video!Rejects, Video!rows, VideoFilesOK,
     Video!FileStates
<1>10. CASE Video!Fetch
  BY <1>10, <1>0 DEF Video!Fetch, Video!Go, Video!Set, Video!Rejects, Video!rows, VideoFilesOK,
     Video!FileStates
<1>11. CASE Video!Paths
  BY <1>11, <1>0 DEF Video!Paths, Video!Go, Video!rows, Video!files, VideoFilesOK,
     Video!FileStates
<1>12. CASE Video!Encode
  BY <1>12, <1>0 DEF Video!Encode, Video!Go, Video!Set, Video!rows, VideoFilesOK,
     Video!FileStates
<1>13. CASE Video!Promote
  BY <1>13, <1>0 DEF Video!Promote, Video!Go, Video!Set, Video!Fault, Video!rows, VideoFilesOK,
     Video!FileStates
<1>14. CASE Video!Commit
  BY <1>14, <1>0 DEF Video!Commit, Video!Go, Video!Set, Video!Fault, Video!rows, VideoFilesOK,
     Video!FileStates
<1>15. CASE Video!Discard
  BY <1>15, <1>0 DEF Video!Discard, Video!Go, Video!Set, Video!rows, VideoFilesOK,
     Video!FileStates
<1>16. CASE Video!Tick
  BY <1>16, <1>0 DEF Video!Tick, Video!ScanDue, Video!rows, Video!files, VideoFilesOK,
     Video!FileStates
<1>17. CASE Video!Crash
  BY <1>17, <1>0 DEF Video!Crash, Video!Fault, Video!files, VideoFilesOK, Video!FileStates
<1>18. CASE Video!RecordsTwice("claim", "open", "downloading")
  BY <1>18, <1>0 DEF Video!RecordsTwice, Video!Records, Video!Go, Video!Set, Video!Fault,
     Video!files, VideoFilesOK, Video!FileStates
<1>19. CASE Video!Records("fetched", "inspect", "downloaded")
  BY <1>19, <1>0 DEF Video!Records, Video!Go, Video!Set, Video!Fault, Video!files,
     VideoFilesOK, Video!FileStates
<1>20. CASE Video!Records("inspect", "sniff", "inspecting")
  BY <1>20, <1>0 DEF Video!Records, Video!Go, Video!Set, Video!Fault, Video!files,
     VideoFilesOK, Video!FileStates
<1>21. CASE Video!Records("sniffed", "probe", "container_checked")
  BY <1>21, <1>0 DEF Video!Records, Video!Go, Video!Set, Video!Fault, Video!files,
     VideoFilesOK, Video!FileStates
<1>22. CASE Video!Records("probe", "probing", "probing")
  BY <1>22, <1>0 DEF Video!Records, Video!Go, Video!Set, Video!Fault, Video!files,
     VideoFilesOK, Video!FileStates
<1>23. CASE Video!Records("probed", "paths", "probed")
  BY <1>23, <1>0 DEF Video!Records, Video!Go, Video!Set, Video!Fault, Video!files,
     VideoFilesOK, Video!FileStates
<1>24. CASE Video!RecordsTwice("normalize", "encode", "normalizing")
  BY <1>24, <1>0 DEF Video!RecordsTwice, Video!Records, Video!Go, Video!Set, Video!Fault,
     Video!files, VideoFilesOK, Video!FileStates
<1>25. CASE Video!Records("fail", "loop", "failed")
  BY <1>25, <1>0 DEF Video!Records, Video!Go, Video!Set, Video!Fault, Video!files,
     VideoFilesOK, Video!FileStates
<1>26. CASE Video!Vets("sniff", "sniffed")
  BY <1>26, <1>0 DEF Video!Vets, Video!Go, Video!Set, Video!Rejects, Video!rows, VideoFilesOK,
     Video!FileStates
<1>27. CASE Video!Vets("probing", "probed")
  BY <1>27, <1>0 DEF Video!Vets, Video!Go, Video!Set, Video!Rejects, Video!rows, VideoFilesOK,
     Video!FileStates
<1>28. CASE UNCHANGED videoVars
  BY <1>28, <1>0 DEF videoVars, VideoFilesOK, Video!FileStates
<1> QED
  BY <1>1, <1>2, <1>3, <1>4, <1>5, <1>6, <1>7, <1>8, <1>9, <1>10, <1>11, <1>12, <1>13, <1>14,
     <1>15, <1>16, <1>17, <1>18, <1>19, <1>20, <1>21, <1>22, <1>23, <1>24, <1>25, <1>26, <1>27,
     <1>28
     DEF Video!Next, Video!WorkerStep, Video!Pipeline

(* ... and flags.                                                          *)
LEMMA VideoFlagsTypes ==
  ASSUME VideoInv, Video!Next \/ UNCHANGED videoVars
  PROVE  VideoFlagsOK'
<1>0. VideoFlagsOK
  BY DEF VideoInv, Video!TypeOK, VideoFlagsOK
<1>1. ASSUME NEW j \in Video!Ids,
             Video!Reserve(j)
      PROVE  VideoFlagsOK'
  BY <1>1, <1>0, Zenon DEF Video!Reserve, Video!worker, VideoFlagsOK
<1>2. ASSUME NEW j \in Video!Ids,
             Video!Insert(j)
      PROVE  VideoFlagsOK'
  BY <1>2, <1>0, Zenon DEF Video!Insert, Video!Fault, Video!worker, VideoFlagsOK
<1>3. CASE Video!Start
  BY <1>3, <1>0, Zenon DEF Video!Start, Video!Go, Video!rows, Video!files, VideoFlagsOK
<1>4. CASE Video!Recover
  BY <1>4, <1>0, Zenon DEF Video!Recover, Video!Fault, Video!files, Video!Incomplete,
     VideoFlagsOK
<1>5. CASE Video!Clean
  BY <1>5, <1>0, Zenon DEF Video!Clean, Video!Fault, VideoFlagsOK
<1>6. CASE Video!Cleaned
  BY <1>6, <1>0, Zenon DEF Video!Cleaned, Video!Go, Video!rows, Video!files, VideoFlagsOK
<1>7. CASE Video!Pick
  BY <1>7, <1>0, Zenon DEF Video!Pick, Video!Go, Video!Fault, Video!rows, Video!files,
     Video!Queued, VideoFlagsOK
<1>8. CASE Video!Wake
  BY <1>8, <1>0, Zenon DEF Video!Wake, Video!Go, Video!rows, Video!files, VideoFlagsOK
<1>9. CASE Video!Open
  BY <1>9, <1>0, Zenon DEF Video!Open, Video!Go, Video!Set, Video!Rejects, Video!rows,
     VideoFlagsOK
<1>10. CASE Video!Fetch
  BY <1>10, <1>0, Zenon DEF Video!Fetch, Video!Go, Video!Set, Video!Rejects, Video!rows,
     VideoFlagsOK
<1>11. CASE Video!Paths
  BY <1>11, <1>0, Zenon DEF Video!Paths, Video!Go, Video!rows, Video!files, VideoFlagsOK
<1>12. CASE Video!Encode
  BY <1>12, <1>0, Zenon DEF Video!Encode, Video!Go, Video!Set, Video!rows, VideoFlagsOK
<1>13. CASE Video!Promote
  BY <1>13, <1>0, Zenon DEF Video!Promote, Video!Go, Video!Set, Video!Fault, Video!rows,
     VideoFlagsOK
<1>14. CASE Video!Commit
  BY <1>14, <1>0, Zenon DEF Video!Commit, Video!Go, Video!Set, Video!Fault, Video!rows,
     VideoFlagsOK
<1>15. CASE Video!Discard
  BY <1>15, <1>0, Zenon DEF Video!Discard, Video!Go, Video!Set, Video!rows, VideoFlagsOK
<1>16. CASE Video!Tick
  BY <1>16, <1>0, Zenon DEF Video!Tick, Video!ScanDue, Video!rows, Video!files, VideoFlagsOK
<1>17. CASE Video!Crash
  BY <1>17, <1>0, Zenon DEF Video!Crash, Video!Fault, Video!files, VideoFlagsOK
<1>18. CASE Video!RecordsTwice("claim", "open", "downloading")
  BY <1>18, <1>0, Zenon DEF Video!RecordsTwice, Video!Records, Video!Go, Video!Set,
     Video!Fault, Video!files, VideoFlagsOK
<1>19. CASE Video!Records("fetched", "inspect", "downloaded")
  BY <1>19, <1>0, Zenon DEF Video!Records, Video!Go, Video!Set, Video!Fault, Video!files,
     VideoFlagsOK
<1>20. CASE Video!Records("inspect", "sniff", "inspecting")
  BY <1>20, <1>0, Zenon DEF Video!Records, Video!Go, Video!Set, Video!Fault, Video!files,
     VideoFlagsOK
<1>21. CASE Video!Records("sniffed", "probe", "container_checked")
  BY <1>21, <1>0, Zenon DEF Video!Records, Video!Go, Video!Set, Video!Fault, Video!files,
     VideoFlagsOK
<1>22. CASE Video!Records("probe", "probing", "probing")
  BY <1>22, <1>0, Zenon DEF Video!Records, Video!Go, Video!Set, Video!Fault, Video!files,
     VideoFlagsOK
<1>23. CASE Video!Records("probed", "paths", "probed")
  BY <1>23, <1>0, Zenon DEF Video!Records, Video!Go, Video!Set, Video!Fault, Video!files,
     VideoFlagsOK
<1>24. CASE Video!RecordsTwice("normalize", "encode", "normalizing")
  BY <1>24, <1>0, Zenon DEF Video!RecordsTwice, Video!Records, Video!Go, Video!Set,
     Video!Fault, Video!files, VideoFlagsOK
<1>25. CASE Video!Records("fail", "loop", "failed")
  BY <1>25, <1>0, Zenon DEF Video!Records, Video!Go, Video!Set, Video!Fault, Video!files,
     VideoFlagsOK
<1>26. CASE Video!Vets("sniff", "sniffed")
  BY <1>26, <1>0, Zenon DEF Video!Vets, Video!Go, Video!Set, Video!Rejects, Video!rows,
     VideoFlagsOK
<1>27. CASE Video!Vets("probing", "probed")
  BY <1>27, <1>0, Zenon DEF Video!Vets, Video!Go, Video!Set, Video!Rejects, Video!rows,
     VideoFlagsOK
<1>28. CASE UNCHANGED videoVars
  BY <1>28, <1>0, Zenon DEF videoVars, VideoFlagsOK
<1> QED
  BY <1>1, <1>2, <1>3, <1>4, <1>5, <1>6, <1>7, <1>8, <1>9, <1>10, <1>11, <1>12, <1>13, <1>14,
     <1>15, <1>16, <1>17, <1>18, <1>19, <1>20, <1>21, <1>22, <1>23, <1>24, <1>25, <1>26, <1>27,
     <1>28
     DEF Video!Next, Video!WorkerStep, Video!Pipeline

(* Deaths and failing calls stay within their bound.                       *)
LEMMA VideoFaultBound ==
  ASSUME VideoInv, Video!Next \/ UNCHANGED videoVars
  PROVE  videoFaults' \in 0 .. MediaFaults
<1>0. videoFaults \in 0 .. MediaFaults /\ MediaFaults \in Nat
  BY PartsAssumption DEF VideoInv, Video!TypeOK, PartsAssumption
<1>1. ASSUME NEW j \in Video!Ids,
             Video!Reserve(j)
      PROVE  videoFaults' \in 0 .. MediaFaults
  BY <1>1, <1>0 DEF Video!Reserve, Video!worker
<1>2. ASSUME NEW j \in Video!Ids,
             Video!Insert(j)
      PROVE  videoFaults' \in 0 .. MediaFaults
  BY <1>2, <1>0 DEF Video!Insert, Video!Fault, Video!worker
<1>3. CASE Video!Start
  BY <1>3, <1>0 DEF Video!Start, Video!Go, Video!rows, Video!files
<1>4. CASE Video!Recover
  BY <1>4, <1>0 DEF Video!Recover, Video!Fault, Video!files, Video!Incomplete
<1>5. CASE Video!Clean
  BY <1>5, <1>0 DEF Video!Clean, Video!Fault
<1>6. CASE Video!Cleaned
  BY <1>6, <1>0 DEF Video!Cleaned, Video!Go, Video!rows, Video!files
<1>7. CASE Video!Pick
  BY <1>7, <1>0 DEF Video!Pick, Video!Go, Video!Fault, Video!rows, Video!files, Video!Queued
<1>8. CASE Video!Wake
  BY <1>8, <1>0 DEF Video!Wake, Video!Go, Video!rows, Video!files
<1>9. CASE Video!Open
  BY <1>9, <1>0 DEF Video!Open, Video!Go, Video!Set, Video!Rejects, Video!rows
<1>10. CASE Video!Fetch
  BY <1>10, <1>0 DEF Video!Fetch, Video!Go, Video!Set, Video!Rejects, Video!rows
<1>11. CASE Video!Paths
  BY <1>11, <1>0 DEF Video!Paths, Video!Go, Video!rows, Video!files
<1>12. CASE Video!Encode
  BY <1>12, <1>0 DEF Video!Encode, Video!Go, Video!Set, Video!rows
<1>13. CASE Video!Promote
  BY <1>13, <1>0 DEF Video!Promote, Video!Go, Video!Set, Video!Fault, Video!rows
<1>14. CASE Video!Commit
  BY <1>14, <1>0 DEF Video!Commit, Video!Go, Video!Set, Video!Fault, Video!rows
<1>15. CASE Video!Discard
  BY <1>15, <1>0 DEF Video!Discard, Video!Go, Video!Set, Video!rows
<1>16. CASE Video!Tick
  BY <1>16, <1>0 DEF Video!Tick, Video!ScanDue, Video!rows, Video!files
<1>17. CASE Video!Crash
  BY <1>17, <1>0 DEF Video!Crash, Video!Fault, Video!files
<1>18. CASE Video!RecordsTwice("claim", "open", "downloading")
  BY <1>18, <1>0 DEF Video!RecordsTwice, Video!Records, Video!Go, Video!Set, Video!Fault,
     Video!files
<1>19. CASE Video!Records("fetched", "inspect", "downloaded")
  BY <1>19, <1>0 DEF Video!Records, Video!Go, Video!Set, Video!Fault, Video!files
<1>20. CASE Video!Records("inspect", "sniff", "inspecting")
  BY <1>20, <1>0 DEF Video!Records, Video!Go, Video!Set, Video!Fault, Video!files
<1>21. CASE Video!Records("sniffed", "probe", "container_checked")
  BY <1>21, <1>0 DEF Video!Records, Video!Go, Video!Set, Video!Fault, Video!files
<1>22. CASE Video!Records("probe", "probing", "probing")
  BY <1>22, <1>0 DEF Video!Records, Video!Go, Video!Set, Video!Fault, Video!files
<1>23. CASE Video!Records("probed", "paths", "probed")
  BY <1>23, <1>0 DEF Video!Records, Video!Go, Video!Set, Video!Fault, Video!files
<1>24. CASE Video!RecordsTwice("normalize", "encode", "normalizing")
  BY <1>24, <1>0 DEF Video!RecordsTwice, Video!Records, Video!Go, Video!Set, Video!Fault,
     Video!files
<1>25. CASE Video!Records("fail", "loop", "failed")
  BY <1>25, <1>0 DEF Video!Records, Video!Go, Video!Set, Video!Fault, Video!files
<1>26. CASE Video!Vets("sniff", "sniffed")
  BY <1>26, <1>0 DEF Video!Vets, Video!Go, Video!Set, Video!Rejects, Video!rows
<1>27. CASE Video!Vets("probing", "probed")
  BY <1>27, <1>0 DEF Video!Vets, Video!Go, Video!Set, Video!Rejects, Video!rows
<1>28. CASE UNCHANGED videoVars
  BY <1>28, <1>0 DEF videoVars
<1> QED
  BY <1>1, <1>2, <1>3, <1>4, <1>5, <1>6, <1>7, <1>8, <1>9, <1>10, <1>11, <1>12, <1>13, <1>14,
     <1>15, <1>16, <1>17, <1>18, <1>19, <1>20, <1>21, <1>22, <1>23, <1>24, <1>25, <1>26, <1>27,
     <1>28
     DEF Video!Next, Video!WorkerStep, Video!Pipeline

(* The rows of a job agree.                                                *)
LEMMA RowsKeep ==
  ASSUME VideoInv, Video!Next \/ UNCHANGED videoVars
  PROVE  RowsInv'
<1>0. VideoRowsOK /\ VideoFilesOK /\ RowsInv /\ WorkerInv
  BY DEF VideoInv, Video!TypeOK, VideoRowsOK, VideoFilesOK
<1>1. ASSUME NEW j \in Video!Ids,
             Video!Reserve(j)
      PROVE  RowsInv'
  BY <1>1, <1>0 DEF Video!Reserve, Video!worker, RowsInv, WorkerInv, UnderWay, VideoRowsOK,
     VideoFilesOK, Video!JobStates
<1>2. ASSUME NEW j \in Video!Ids,
             Video!Insert(j)
      PROVE  RowsInv'
  BY <1>2, <1>0 DEF Video!Insert, Video!Fault, Video!worker, RowsInv, WorkerInv, UnderWay,
     VideoRowsOK, VideoFilesOK, Video!JobStates
<1>3. CASE Video!Start
  BY <1>3, <1>0 DEF Video!Start, Video!Go, Video!rows, Video!files, RowsInv, WorkerInv,
     UnderWay, VideoRowsOK, VideoFilesOK, Video!JobStates
<1>4. CASE Video!Recover
  BY <1>4, <1>0 DEF Video!Recover, Video!Fault, Video!files, Video!Incomplete, RowsInv,
     WorkerInv, UnderWay, VideoRowsOK, VideoFilesOK, Video!JobStates
<1>5. CASE Video!Clean
  BY <1>5, <1>0 DEF Video!Clean, Video!Fault, RowsInv, WorkerInv, UnderWay, VideoRowsOK,
     VideoFilesOK, Video!JobStates
<1>6. CASE Video!Cleaned
  BY <1>6, <1>0 DEF Video!Cleaned, Video!Go, Video!rows, Video!files, RowsInv, WorkerInv,
     UnderWay, VideoRowsOK, VideoFilesOK, Video!JobStates
<1>7. CASE Video!Pick
  BY <1>7, <1>0 DEF Video!Pick, Video!Go, Video!Fault, Video!rows, Video!files, Video!Queued,
     RowsInv, WorkerInv, UnderWay, VideoRowsOK, VideoFilesOK, Video!JobStates
<1>8. CASE Video!Wake
  BY <1>8, <1>0 DEF Video!Wake, Video!Go, Video!rows, Video!files, RowsInv, WorkerInv,
     UnderWay, VideoRowsOK, VideoFilesOK, Video!JobStates
<1>9. CASE Video!Open
  BY <1>9, <1>0 DEF Video!Open, Video!Go, Video!Set, Video!Rejects, Video!rows, RowsInv,
     WorkerInv, UnderWay, VideoRowsOK, VideoFilesOK, Video!JobStates
<1>10. CASE Video!Fetch
  BY <1>10, <1>0 DEF Video!Fetch, Video!Go, Video!Set, Video!Rejects, Video!rows, RowsInv,
     WorkerInv, UnderWay, VideoRowsOK, VideoFilesOK, Video!JobStates
<1>11. CASE Video!Paths
  BY <1>11, <1>0 DEF Video!Paths, Video!Go, Video!rows, Video!files, RowsInv, WorkerInv,
     UnderWay, VideoRowsOK, VideoFilesOK, Video!JobStates
<1>12. CASE Video!Encode
  BY <1>12, <1>0 DEF Video!Encode, Video!Go, Video!Set, Video!rows, RowsInv, WorkerInv,
     UnderWay, VideoRowsOK, VideoFilesOK, Video!JobStates
<1>13. CASE Video!Promote
  BY <1>13, <1>0 DEF Video!Promote, Video!Go, Video!Set, Video!Fault, Video!rows, RowsInv,
     WorkerInv, UnderWay, VideoRowsOK, VideoFilesOK, Video!JobStates
<1>14. CASE Video!Commit
  BY <1>14, <1>0 DEF Video!Commit, Video!Go, Video!Set, Video!Fault, Video!rows, RowsInv,
     WorkerInv, UnderWay, VideoRowsOK, VideoFilesOK, Video!JobStates
<1>15. CASE Video!Discard
  BY <1>15, <1>0 DEF Video!Discard, Video!Go, Video!Set, Video!rows, RowsInv, WorkerInv,
     UnderWay, VideoRowsOK, VideoFilesOK, Video!JobStates
<1>16. CASE Video!Tick
  BY <1>16, <1>0 DEF Video!Tick, Video!ScanDue, Video!rows, Video!files, RowsInv, WorkerInv,
     UnderWay, VideoRowsOK, VideoFilesOK, Video!JobStates
<1>17. CASE Video!Crash
  BY <1>17, <1>0 DEF Video!Crash, Video!Fault, Video!files, RowsInv, WorkerInv, UnderWay,
     VideoRowsOK, VideoFilesOK, Video!JobStates
<1>18. CASE Video!RecordsTwice("claim", "open", "downloading")
  BY <1>18, <1>0 DEF Video!RecordsTwice, Video!Records, Video!Go, Video!Set, Video!Fault,
     Video!files, RowsInv, WorkerInv, UnderWay, VideoRowsOK, VideoFilesOK, Video!JobStates
<1>19. CASE Video!Records("fetched", "inspect", "downloaded")
  BY <1>19, <1>0 DEF Video!Records, Video!Go, Video!Set, Video!Fault, Video!files, RowsInv,
     WorkerInv, UnderWay, VideoRowsOK, VideoFilesOK, Video!JobStates
<1>20. CASE Video!Records("inspect", "sniff", "inspecting")
  BY <1>20, <1>0 DEF Video!Records, Video!Go, Video!Set, Video!Fault, Video!files, RowsInv,
     WorkerInv, UnderWay, VideoRowsOK, VideoFilesOK, Video!JobStates
<1>21. CASE Video!Records("sniffed", "probe", "container_checked")
  BY <1>21, <1>0 DEF Video!Records, Video!Go, Video!Set, Video!Fault, Video!files, RowsInv,
     WorkerInv, UnderWay, VideoRowsOK, VideoFilesOK, Video!JobStates
<1>22. CASE Video!Records("probe", "probing", "probing")
  BY <1>22, <1>0 DEF Video!Records, Video!Go, Video!Set, Video!Fault, Video!files, RowsInv,
     WorkerInv, UnderWay, VideoRowsOK, VideoFilesOK, Video!JobStates
<1>23. CASE Video!Records("probed", "paths", "probed")
  BY <1>23, <1>0 DEF Video!Records, Video!Go, Video!Set, Video!Fault, Video!files, RowsInv,
     WorkerInv, UnderWay, VideoRowsOK, VideoFilesOK, Video!JobStates
<1>24. CASE Video!RecordsTwice("normalize", "encode", "normalizing")
  BY <1>24, <1>0 DEF Video!RecordsTwice, Video!Records, Video!Go, Video!Set, Video!Fault,
     Video!files, RowsInv, WorkerInv, UnderWay, VideoRowsOK, VideoFilesOK, Video!JobStates
<1>25. CASE Video!Records("fail", "loop", "failed")
  BY <1>25, <1>0 DEF Video!Records, Video!Go, Video!Set, Video!Fault, Video!files, RowsInv,
     WorkerInv, UnderWay, VideoRowsOK, VideoFilesOK, Video!JobStates
<1>26. CASE Video!Vets("sniff", "sniffed")
  BY <1>26, <1>0 DEF Video!Vets, Video!Go, Video!Set, Video!Rejects, Video!rows, RowsInv,
     WorkerInv, UnderWay, VideoRowsOK, VideoFilesOK, Video!JobStates
<1>27. CASE Video!Vets("probing", "probed")
  BY <1>27, <1>0 DEF Video!Vets, Video!Go, Video!Set, Video!Rejects, Video!rows, RowsInv,
     WorkerInv, UnderWay, VideoRowsOK, VideoFilesOK, Video!JobStates
<1>28. CASE UNCHANGED videoVars
  BY <1>28, <1>0 DEF videoVars, RowsInv
<1> QED
  BY <1>1, <1>2, <1>3, <1>4, <1>5, <1>6, <1>7, <1>8, <1>9, <1>10, <1>11, <1>12, <1>13, <1>14,
     <1>15, <1>16, <1>17, <1>18, <1>19, <1>20, <1>21, <1>22, <1>23, <1>24, <1>25, <1>26, <1>27,
     <1>28
     DEF Video!Next, Video!WorkerStep, Video!Pipeline

(* Every step of the worker finds its job as it expects it.                *)
LEMMA WorkerKeeps ==
  ASSUME VideoInv, Video!Next \/ UNCHANGED videoVars
  PROVE  WorkerInv'
<1>0. VideoRowsOK /\ VideoFilesOK /\ RowsInv /\ WorkerInv
  BY DEF VideoInv, Video!TypeOK, VideoRowsOK, VideoFilesOK
<1>1. ASSUME NEW j \in Video!Ids,
             Video!Reserve(j)
      PROVE  WorkerInv'
  BY <1>1, <1>0 DEF Video!Reserve, Video!worker, WorkerInv, UnderWay, VideoRowsOK, VideoFilesOK
<1>2. ASSUME NEW j \in Video!Ids,
             Video!Insert(j)
      PROVE  WorkerInv'
  BY <1>2, <1>0 DEF Video!Insert, Video!Fault, Video!worker, WorkerInv, UnderWay, VideoRowsOK,
     VideoFilesOK
<1>3. CASE Video!Start
  BY <1>3, <1>0 DEF Video!Start, Video!Go, Video!rows, Video!files, WorkerInv, UnderWay,
     VideoRowsOK, VideoFilesOK
<1>4. CASE Video!Recover
  BY <1>4, <1>0 DEF Video!Recover, Video!Fault, Video!files, Video!Incomplete, WorkerInv,
     UnderWay, VideoRowsOK, VideoFilesOK
<1>5. CASE Video!Clean
  BY <1>5, <1>0 DEF Video!Clean, Video!Fault, WorkerInv, UnderWay, VideoRowsOK, VideoFilesOK
<1>6. CASE Video!Cleaned
  BY <1>6, <1>0 DEF Video!Cleaned, Video!Go, Video!rows, Video!files, WorkerInv, UnderWay,
     VideoRowsOK, VideoFilesOK
<1>7. CASE Video!Pick
  BY <1>7, <1>0 DEF Video!Pick, Video!Go, Video!Fault, Video!rows, Video!files, Video!Queued,
     WorkerInv, UnderWay, VideoRowsOK, VideoFilesOK
<1>8. CASE Video!Wake
  BY <1>8, <1>0 DEF Video!Wake, Video!Go, Video!rows, Video!files, WorkerInv, UnderWay,
     VideoRowsOK, VideoFilesOK
<1>9. CASE Video!Open
  BY <1>9, <1>0 DEF Video!Open, Video!Go, Video!Set, Video!Rejects, Video!rows, WorkerInv,
     UnderWay, VideoRowsOK, VideoFilesOK
<1>10. CASE Video!Fetch
  BY <1>10, <1>0 DEF Video!Fetch, Video!Go, Video!Set, Video!Rejects, Video!rows, WorkerInv,
     UnderWay, VideoRowsOK, VideoFilesOK
<1>11. CASE Video!Paths
  BY <1>11, <1>0 DEF Video!Paths, Video!Go, Video!rows, Video!files, WorkerInv, UnderWay,
     VideoRowsOK, VideoFilesOK
<1>12. CASE Video!Encode
  BY <1>12, <1>0 DEF Video!Encode, Video!Go, Video!Set, Video!rows, WorkerInv, UnderWay,
     VideoRowsOK, VideoFilesOK
<1>13. CASE Video!Promote
  BY <1>13, <1>0 DEF Video!Promote, Video!Go, Video!Set, Video!Fault, Video!rows, WorkerInv,
     UnderWay, VideoRowsOK, VideoFilesOK
<1>14. CASE Video!Commit
  BY <1>14, <1>0 DEF Video!Commit, Video!Go, Video!Set, Video!Fault, Video!rows, WorkerInv,
     UnderWay, VideoRowsOK, VideoFilesOK
<1>15. CASE Video!Discard
  BY <1>15, <1>0 DEF Video!Discard, Video!Go, Video!Set, Video!rows, WorkerInv, UnderWay,
     VideoRowsOK, VideoFilesOK
<1>16. CASE Video!Tick
  BY <1>16, <1>0 DEF Video!Tick, Video!ScanDue, Video!rows, Video!files, WorkerInv, UnderWay,
     VideoRowsOK, VideoFilesOK
<1>17. CASE Video!Crash
  BY <1>17, <1>0 DEF Video!Crash, Video!Fault, Video!files, WorkerInv, UnderWay, VideoRowsOK,
     VideoFilesOK
<1>18. CASE Video!RecordsTwice("claim", "open", "downloading")
  BY <1>18, <1>0 DEF Video!RecordsTwice, Video!Records, Video!Go, Video!Set, Video!Fault,
     Video!files, WorkerInv, UnderWay, VideoRowsOK, VideoFilesOK
<1>19. CASE Video!Records("fetched", "inspect", "downloaded")
  BY <1>19, <1>0 DEF Video!Records, Video!Go, Video!Set, Video!Fault, Video!files, WorkerInv,
     UnderWay, VideoRowsOK, VideoFilesOK
<1>20. CASE Video!Records("inspect", "sniff", "inspecting")
  BY <1>20, <1>0 DEF Video!Records, Video!Go, Video!Set, Video!Fault, Video!files, WorkerInv,
     UnderWay, VideoRowsOK, VideoFilesOK
<1>21. CASE Video!Records("sniffed", "probe", "container_checked")
  BY <1>21, <1>0 DEF Video!Records, Video!Go, Video!Set, Video!Fault, Video!files, WorkerInv,
     UnderWay, VideoRowsOK, VideoFilesOK
<1>22. CASE Video!Records("probe", "probing", "probing")
  BY <1>22, <1>0 DEF Video!Records, Video!Go, Video!Set, Video!Fault, Video!files, WorkerInv,
     UnderWay, VideoRowsOK, VideoFilesOK
<1>23. CASE Video!Records("probed", "paths", "probed")
  BY <1>23, <1>0 DEF Video!Records, Video!Go, Video!Set, Video!Fault, Video!files, WorkerInv,
     UnderWay, VideoRowsOK, VideoFilesOK
<1>24. CASE Video!RecordsTwice("normalize", "encode", "normalizing")
  BY <1>24, <1>0 DEF Video!RecordsTwice, Video!Records, Video!Go, Video!Set, Video!Fault,
     Video!files, WorkerInv, UnderWay, VideoRowsOK, VideoFilesOK
<1>25. CASE Video!Records("fail", "loop", "failed")
  BY <1>25, <1>0 DEF Video!Records, Video!Go, Video!Set, Video!Fault, Video!files, WorkerInv,
     UnderWay, VideoRowsOK, VideoFilesOK
<1>26. CASE Video!Vets("sniff", "sniffed")
  BY <1>26, <1>0 DEF Video!Vets, Video!Go, Video!Set, Video!Rejects, Video!rows, WorkerInv,
     UnderWay, VideoRowsOK, VideoFilesOK
<1>27. CASE Video!Vets("probing", "probed")
  BY <1>27, <1>0 DEF Video!Vets, Video!Go, Video!Set, Video!Rejects, Video!rows, WorkerInv,
     UnderWay, VideoRowsOK, VideoFilesOK
<1>28. CASE UNCHANGED videoVars
  BY <1>28, <1>0 DEF videoVars, WorkerInv
<1> QED
  BY <1>1, <1>2, <1>3, <1>4, <1>5, <1>6, <1>7, <1>8, <1>9, <1>10, <1>11, <1>12, <1>13, <1>14,
     <1>15, <1>16, <1>17, <1>18, <1>19, <1>20, <1>21, <1>22, <1>23, <1>24, <1>25, <1>26, <1>27,
     <1>28
     DEF Video!Next, Video!WorkerStep, Video!Pipeline

(* No download has been asked for.                                         *)
LEMMA VideoStarts ==
  ASSUME Video!Init
  PROVE  VideoInv
<1>1. 1 \in Video!Ids /\ MediaFaults \in Nat
  BY PartsAssumption DEF PartsAssumption, Video!Ids
<1>2. VideoRowsOK /\ VideoFilesOK
  BY <1>1 DEF Video!Init, VideoRowsOK, VideoFilesOK, Video!JobStates, Video!FileStates
<1>3. VideoFlagsOK
  BY DEF Video!Init, VideoFlagsOK
<1>4. videoFaults \in 0 .. MediaFaults
  BY <1>1 DEF Video!Init
<1>5. RowsInv /\ WorkerInv
  BY <1>1 DEF Video!Init, RowsInv, WorkerInv, UnderWay
<1> QED
  BY <1>2, <1>3, <1>4, <1>5 DEF VideoInv, Video!TypeOK, VideoRowsOK, VideoFilesOK, VideoFlagsOK

(* VideoInv holds in every state, for every number of downloads.           *)
THEOREM VideoInvAlways == PartsSpec => []VideoInv
<1>1. PartsInit => VideoInv
  BY VideoStarts DEF PartsInit
<1>2. [PartsNext]_partsVars => Video!Next \/ UNCHANGED videoVars
  BY DEF PartsNext, partsVars
<1>3. ASSUME VideoInv, [PartsNext]_partsVars
      PROVE  VideoInv'
  <2>1. RowsInv' /\ WorkerInv' /\ VideoRowsOK' /\ VideoFilesOK' /\ VideoFlagsOK'
        /\ videoFaults' \in 0 .. MediaFaults
    BY <1>2, <1>3, RowsKeep, WorkerKeeps, VideoRowsTypes, VideoFilesTypes, VideoFlagsTypes, VideoFaultBound
  <2> QED
    BY <2>1 DEF VideoInv, Video!TypeOK, VideoRowsOK, VideoFilesOK, VideoFlagsOK
<1> QED
  BY <1>1, <1>3, PTL DEF PartsSpec
-----------------------------------------------------------------------------
(***************************************************************************)
(* VideoLive.  Sessions only go forward, and a request to end one that was *)
(* overtaken has seen fewer states than the session has passed.            *)
(***************************************************************************)
Rank(st) ==
  CASE st = "none" -> 0 [] st = "reserved" -> 1 [] st = "starting" -> 2 [] st = "live" -> 3
    [] st = "stopping" -> 4 [] OTHER -> 5

EndInv ==
  \A s \in LiveSessions :
    /\ endPc[s] = "idle" => attempt[s] = 0
    /\ endPc[s] = "swap" =>
         /\ lastSeen[s] \in {"reserved", "starting", "live"}
         /\ attempt[s] <= Rank(lastSeen[s]) /\ Rank(lastSeen[s]) <= Rank(session[s])
    /\ endPc[s] = "again" => attempt[s] < Rank(session[s])
    /\ endPc[s] # "error"
    /\ endPc[s] = "returned" => Live!Over(s)

OpenInv == \A s, r \in LiveSessions : Live!Open(s) /\ Live!Open(r) => s = r

(* What the coordinator believes about the driver.                         *)
DriverInv ==
  /\ livePc \in {"start", "demand", "wait"} /\ ~active => resources = "none"
  /\ livePc = "exit" \/ ~claimed => resources = "none"
  /\ livePc = "start" => ~active
  /\ livePc \in {"idle", "recheck"} => active
  /\ ~claimed => livePc = "none"

LiveInv == Live!TypeOK /\ EndInv /\ OpenInv /\ DriverInv

(* The parts of the type invariant.                                        *)
SessionsOK ==
  /\ session \in [LiveSessions -> Live!States] /\ lastSeen \in [LiveSessions -> Live!States]
  /\ endPc \in [LiveSessions -> {"idle", "swap", "again", "returned", "error"}]
  /\ attempt \in [LiveSessions -> 0 .. Retries]

CoordinatorOK ==
  /\ livePc \in {"none", "demand", "start", "cleanup", "idlestop", "restop", "stopwait", "wait",
                 "idle", "recheck", "finalstop", "exit"}
  /\ resources \in {"none", "partial", "up"}
  /\ liveFaults \in 0 .. LiveFaults

LiveFlagsOK ==
  active \in BOOLEAN /\ claimed \in BOOLEAN /\ shutdown \in BOOLEAN /\ noticed \in BOOLEAN

(* A retry has at most three states to be overtaken in.                    *)
LEMMA RankBounds ==
  ASSUME NEW st \in Live!States
  PROVE  /\ Rank(st) \in 0 .. 5
         /\ st \in {"reserved", "starting", "live"} => Rank(st) \in 1 .. 3
         /\ Rank("reserved") = 1 /\ Rank("starting") = 2 /\ Rank("live") = 3
         /\ Rank("stopping") = 4 /\ Rank("ended") = 5 /\ Rank("failed") = 5
  BY DEF Rank, Live!States, Live!Terminal

(* Sessions keep their types; the attempts stay within the retries.        *)
LEMMA SessionTypes ==
  ASSUME LiveInv, Live!Next \/ UNCHANGED liveVars
  PROVE  SessionsOK'
<1>0. SessionsOK /\ CoordinatorOK /\ EndInv /\ OpenInv /\ DriverInv
  BY DEF LiveInv, Live!TypeOK, SessionsOK, CoordinatorOK
<1>a. Retries \in Nat /\ Retries >= 4 /\ LiveFaults \in Nat
  BY PartsAssumption DEF PartsAssumption
<1>1. ASSUME NEW s \in LiveSessions,
             Live!Reserve(s)
      PROVE  SessionsOK'
  BY <1>1, <1>0, <1>a DEF Live!Reserve, Live!Becomes, Live!ending, Live!coordinator,
     SessionsOK, Live!States, Live!Terminal
<1>2. ASSUME NEW s \in LiveSessions,
             Live!Advance(s)
      PROVE  SessionsOK'
  BY <1>2, <1>0, <1>a DEF Live!Advance, Live!Becomes, Live!Allowed, Live!ending,
     Live!coordinator, SessionsOK, Live!States, Live!Terminal
<1>3. ASSUME NEW s \in LiveSessions,
             Live!EndReads(s)
      PROVE  SessionsOK'
  <2>1. session[s] \in Live!States /\ attempt[s] \in 0 .. Retries /\ s \in LiveSessions
    BY <1>0 DEF SessionsOK
  <2>2. ~Live!Over(s) => session[s] \in {"reserved", "starting", "live"}
    BY <2>1, <1>3 DEF Live!EndReads, Live!Over, Live!States, Live!Terminal
  <2>3. ~Live!Over(s) => attempt[s] + 1 <= Rank(session[s]) /\ Rank(session[s]) \in 1 .. 3
    BY <1>0, <2>1, <2>2, <1>3, RankBounds DEF Live!EndReads, EndInv
  <2>4. attempt' \in [LiveSessions -> 0 .. Retries]
    BY <1>0, <1>a, <2>1, <2>3, <1>3 DEF SessionsOK, Live!EndReads
  <2> QED
    BY <1>0, <2>1, <2>4, <1>3 DEF SessionsOK, Live!EndReads, Live!States
<1>4. ASSUME NEW s \in LiveSessions,
             Live!EndSwaps(s)
      PROVE  SessionsOK'
  BY <1>4, <1>0, <1>a DEF Live!EndSwaps, Live!Ends, Live!Becomes, Live!Wanted, Live!Exhausted,
     Live!coordinator, SessionsOK, Live!States, Live!Terminal
<1>5. CASE Live!Spawn
  BY <1>5, <1>0 DEF Live!Spawn, Live!Go, Live!ending, SessionsOK
<1>6. CASE Live!ShutDown
  BY <1>6, <1>0 DEF Live!ShutDown, Live!ending, SessionsOK
<1>7. CASE Live!ReadDemand
  BY <1>7, <1>0 DEF Live!ReadDemand, Live!Fault, Live!ending, SessionsOK
<1>8. CASE Live!StartRuntime
  BY <1>8, <1>0 DEF Live!StartRuntime, Live!Go, Live!ending, SessionsOK
<1>9. CASE Live!StopRuntime
  BY <1>9, <1>0 DEF Live!StopRuntime, Live!Fault, Live!AfterFailedStop, Live!ending, SessionsOK
<1>10. CASE Live!WaitEnds
  BY <1>10, <1>0 DEF Live!WaitEnds, Live!Go, Live!ending, SessionsOK
<1>11. CASE Live!Recheck
  BY <1>11, <1>0 DEF Live!Recheck, Live!Go, Live!Fault, Live!ending, SessionsOK
<1>12. CASE Live!FinalStop
  BY <1>12, <1>0 DEF Live!FinalStop, Live!Go, Live!Fault, Live!ClaimKept, Live!ending,
     SessionsOK
<1>13. CASE Live!Exit
  BY <1>13, <1>0 DEF Live!Exit, Live!Go, Live!ending, SessionsOK
<1>14. CASE UNCHANGED liveVars
  BY <1>14, <1>0 DEF liveVars, SessionsOK
<1> QED
  BY <1>1, <1>2, <1>3, <1>4, <1>5, <1>6, <1>7, <1>8, <1>9, <1>10, <1>11, <1>12, <1>13, <1>14
     DEF Live!Next, Live!CoordinatorStep

(* ... and so does the coordinator.                                        *)
LEMMA CoordinatorTypes ==
  ASSUME LiveInv, Live!Next \/ UNCHANGED liveVars
  PROVE  CoordinatorOK'
<1>0. SessionsOK /\ CoordinatorOK /\ EndInv /\ OpenInv /\ DriverInv
  BY DEF LiveInv, Live!TypeOK, SessionsOK, CoordinatorOK
<1>a. Retries \in Nat /\ Retries >= 4 /\ LiveFaults \in Nat
  BY PartsAssumption DEF PartsAssumption
<1>1. ASSUME NEW s \in LiveSessions,
             Live!Reserve(s)
      PROVE  CoordinatorOK'
  BY <1>1, <1>0, <1>a DEF Live!Reserve, Live!Becomes, Live!ending, Live!coordinator,
     CoordinatorOK
<1>2. ASSUME NEW s \in LiveSessions,
             Live!Advance(s)
      PROVE  CoordinatorOK'
  BY <1>2, <1>0, <1>a DEF Live!Advance, Live!Becomes, Live!Allowed, Live!ending,
     Live!coordinator, CoordinatorOK
<1>3. ASSUME NEW s \in LiveSessions,
             Live!EndReads(s)
      PROVE  CoordinatorOK'
  BY <1>3, <1>0, <1>a DEF Live!EndReads, Live!Over, Live!Terminal, Live!coordinator,
     CoordinatorOK
<1>4. ASSUME NEW s \in LiveSessions,
             Live!EndSwaps(s)
      PROVE  CoordinatorOK'
  BY <1>4, <1>0, <1>a DEF Live!EndSwaps, Live!Ends, Live!Becomes, Live!Wanted, Live!Exhausted,
     Live!coordinator, CoordinatorOK
<1>5. CASE Live!Spawn
  BY <1>5, <1>0, <1>a DEF Live!Spawn, Live!Go, Live!ending, CoordinatorOK
<1>6. CASE Live!ShutDown
  BY <1>6, <1>0, <1>a DEF Live!ShutDown, Live!ending, CoordinatorOK
<1>7. CASE Live!ReadDemand
  BY <1>7, <1>0, <1>a DEF Live!ReadDemand, Live!Fault, Live!ending, CoordinatorOK
<1>8. CASE Live!StartRuntime
  BY <1>8, <1>0, <1>a DEF Live!StartRuntime, Live!Go, Live!ending, CoordinatorOK
<1>9. CASE Live!StopRuntime
  BY <1>9, <1>0, <1>a DEF Live!StopRuntime, Live!Fault, Live!AfterFailedStop, Live!ending,
     CoordinatorOK
<1>10. CASE Live!WaitEnds
  BY <1>10, <1>0, <1>a DEF Live!WaitEnds, Live!Go, Live!ending, CoordinatorOK
<1>11. CASE Live!Recheck
  BY <1>11, <1>0, <1>a DEF Live!Recheck, Live!Go, Live!Fault, Live!ending, CoordinatorOK
<1>12. CASE Live!FinalStop
  BY <1>12, <1>0, <1>a DEF Live!FinalStop, Live!Go, Live!Fault, Live!ClaimKept, Live!ending,
     CoordinatorOK
<1>13. CASE Live!Exit
  BY <1>13, <1>0, <1>a DEF Live!Exit, Live!Go, Live!ending, CoordinatorOK
<1>14. CASE UNCHANGED liveVars
  BY <1>14, <1>0 DEF liveVars, CoordinatorOK
<1> QED
  BY <1>1, <1>2, <1>3, <1>4, <1>5, <1>6, <1>7, <1>8, <1>9, <1>10, <1>11, <1>12, <1>13, <1>14
     DEF Live!Next, Live!CoordinatorStep

(* ... and its flags.                                                      *)
LEMMA LiveFlagsTypes ==
  ASSUME LiveInv, Live!Next \/ UNCHANGED liveVars
  PROVE  LiveFlagsOK'
<1>0. LiveFlagsOK
  BY DEF LiveInv, Live!TypeOK, LiveFlagsOK
<1>a. (noticed \/ livePc \in {"wait", "idle", "stopwait"}) \in BOOLEAN
  BY SMT
<1>1. ASSUME NEW s \in LiveSessions,
             Live!Reserve(s)
      PROVE  LiveFlagsOK'
  BY <1>1, <1>0, <1>a, Zenon DEF Live!Reserve, Live!Becomes, Live!ending, Live!coordinator,
     LiveFlagsOK, Live!Notify
<1>2. ASSUME NEW s \in LiveSessions,
             Live!Advance(s)
      PROVE  LiveFlagsOK'
  BY <1>2, <1>0, <1>a, Zenon DEF Live!Advance, Live!Becomes, Live!Allowed, Live!ending,
     Live!coordinator, LiveFlagsOK, Live!Notify
<1>3. ASSUME NEW s \in LiveSessions,
             Live!EndReads(s)
      PROVE  LiveFlagsOK'
  BY <1>3, <1>0, <1>a, Zenon DEF Live!EndReads, Live!Over, Live!Terminal, Live!coordinator,
     LiveFlagsOK
<1>4. ASSUME NEW s \in LiveSessions,
             Live!EndSwaps(s)
      PROVE  LiveFlagsOK'
  BY <1>4, <1>0, <1>a, Zenon DEF Live!EndSwaps, Live!Ends, Live!Becomes, Live!Wanted,
     Live!Exhausted, Live!coordinator, LiveFlagsOK, Live!Notify
<1>5. CASE Live!Spawn
  BY <1>5, <1>0, <1>a, Zenon DEF Live!Spawn, Live!Go, Live!ending, LiveFlagsOK
<1>6. CASE Live!ShutDown
  BY <1>6, <1>0, <1>a, Zenon DEF Live!ShutDown, Live!ending, LiveFlagsOK
<1>7. CASE Live!ReadDemand
  BY <1>7, <1>0, <1>a, Zenon DEF Live!ReadDemand, Live!Fault, Live!ending, LiveFlagsOK
<1>8. CASE Live!StartRuntime
  BY <1>8, <1>0, <1>a, Zenon DEF Live!StartRuntime, Live!Go, Live!ending, LiveFlagsOK
<1>9. CASE Live!StopRuntime
  BY <1>9, <1>0, <1>a, Zenon DEF Live!StopRuntime, Live!Fault, Live!AfterFailedStop,
     Live!ending, LiveFlagsOK
<1>10. CASE Live!WaitEnds
  BY <1>10, <1>0, <1>a, Zenon DEF Live!WaitEnds, Live!Go, Live!ending, LiveFlagsOK
<1>11. CASE Live!Recheck
  BY <1>11, <1>0, <1>a, Zenon DEF Live!Recheck, Live!Go, Live!Fault, Live!ending, LiveFlagsOK
<1>12. CASE Live!FinalStop
  BY <1>12, <1>0, <1>a, Zenon DEF Live!FinalStop, Live!Go, Live!Fault, Live!ClaimKept,
     Live!ending, LiveFlagsOK
<1>13. CASE Live!Exit
  BY <1>13, <1>0, <1>a, Zenon DEF Live!Exit, Live!Go, Live!ending, LiveFlagsOK
<1>14. CASE UNCHANGED liveVars
  BY <1>14, <1>0, Zenon DEF liveVars, LiveFlagsOK
<1> QED
  BY <1>1, <1>2, <1>3, <1>4, <1>5, <1>6, <1>7, <1>8, <1>9, <1>10, <1>11, <1>12, <1>13, <1>14
     DEF Live!Next, Live!CoordinatorStep

(* The driver is started only with nothing left of an earlier run.         *)
LEMMA DriverKeeps ==
  ASSUME LiveInv, Live!Next \/ UNCHANGED liveVars
  PROVE  DriverInv'
<1>0. SessionsOK /\ CoordinatorOK /\ EndInv /\ OpenInv /\ DriverInv
  BY DEF LiveInv, Live!TypeOK, SessionsOK, CoordinatorOK
<1>a. Retries \in Nat /\ Retries >= 4 /\ LiveFaults \in Nat
  BY PartsAssumption DEF PartsAssumption
<1>1. ASSUME NEW s \in LiveSessions,
             Live!Reserve(s)
      PROVE  DriverInv'
  BY <1>1, <1>0 DEF Live!Reserve, Live!Becomes, Live!ending, Live!coordinator, DriverInv,
     CoordinatorOK
<1>2. ASSUME NEW s \in LiveSessions,
             Live!Advance(s)
      PROVE  DriverInv'
  BY <1>2, <1>0 DEF Live!Advance, Live!Becomes, Live!Allowed, Live!ending, Live!coordinator,
     DriverInv, CoordinatorOK
<1>3. ASSUME NEW s \in LiveSessions,
             Live!EndReads(s)
      PROVE  DriverInv'
  BY <1>3, <1>0 DEF Live!EndReads, Live!Over, Live!Terminal, Live!coordinator, DriverInv,
     CoordinatorOK
<1>4. ASSUME NEW s \in LiveSessions,
             Live!EndSwaps(s)
      PROVE  DriverInv'
  BY <1>4, <1>0 DEF Live!EndSwaps, Live!Ends, Live!Becomes, Live!Wanted, Live!Exhausted,
     Live!coordinator, DriverInv, CoordinatorOK
<1>5. CASE Live!Spawn
  BY <1>5, <1>0 DEF Live!Spawn, Live!Go, Live!ending, DriverInv, CoordinatorOK
<1>6. CASE Live!ShutDown
  BY <1>6, <1>0 DEF Live!ShutDown, Live!ending, DriverInv, CoordinatorOK
<1>7. CASE Live!ReadDemand
  BY <1>7, <1>0 DEF Live!ReadDemand, Live!Fault, Live!ending, DriverInv, CoordinatorOK
<1>8. CASE Live!StartRuntime
  BY <1>8, <1>0 DEF Live!StartRuntime, Live!Go, Live!ending, DriverInv, CoordinatorOK
<1>9. CASE Live!StopRuntime
  BY <1>9, <1>0 DEF Live!StopRuntime, Live!Fault, Live!AfterFailedStop, Live!ending, DriverInv,
     CoordinatorOK
<1>10. CASE Live!WaitEnds
  BY <1>10, <1>0 DEF Live!WaitEnds, Live!Go, Live!ending, DriverInv, CoordinatorOK
<1>11. CASE Live!Recheck
  BY <1>11, <1>0 DEF Live!Recheck, Live!Go, Live!Fault, Live!ending, DriverInv, CoordinatorOK
<1>12. CASE Live!FinalStop
  BY <1>12, <1>0 DEF Live!FinalStop, Live!Go, Live!Fault, Live!ClaimKept, Live!ending,
     DriverInv, CoordinatorOK
<1>13. CASE Live!Exit
  BY <1>13, <1>0 DEF Live!Exit, Live!Go, Live!ending, DriverInv, CoordinatorOK
<1>14. CASE UNCHANGED liveVars
  BY <1>14, <1>0 DEF liveVars, DriverInv
<1> QED
  BY <1>1, <1>2, <1>3, <1>4, <1>5, <1>6, <1>7, <1>8, <1>9, <1>10, <1>11, <1>12, <1>13, <1>14
     DEF Live!Next, Live!CoordinatorStep

(* An asset has one open session.                                          *)
LEMMA OpenKeeps ==
  ASSUME LiveInv, Live!Next \/ UNCHANGED liveVars
  PROVE  OpenInv'
<1>0. SessionsOK /\ CoordinatorOK /\ EndInv /\ OpenInv /\ DriverInv
  BY DEF LiveInv, Live!TypeOK, SessionsOK, CoordinatorOK
<1>a. Retries \in Nat /\ Retries >= 4 /\ LiveFaults \in Nat
  BY PartsAssumption DEF PartsAssumption
<1>1. ASSUME NEW s \in LiveSessions,
             Live!Reserve(s)
      PROVE  OpenInv'
  BY <1>1, <1>0, <1>a DEF Live!Reserve, Live!Becomes, Live!ending, Live!coordinator, OpenInv,
     Live!Open, Live!Terminal, SessionsOK, Live!Demand
<1>2. ASSUME NEW s \in LiveSessions,
             Live!Advance(s)
      PROVE  OpenInv'
  BY <1>2, <1>0, <1>a DEF Live!Advance, Live!Becomes, Live!Allowed, Live!ending,
     Live!coordinator, OpenInv, Live!Open, Live!Terminal, SessionsOK
<1>3. ASSUME NEW s \in LiveSessions,
             Live!EndReads(s)
      PROVE  OpenInv'
  BY <1>3, <1>0, <1>a DEF Live!EndReads, Live!Over, Live!Terminal, Live!coordinator, OpenInv,
     Live!Open
<1>4. ASSUME NEW s \in LiveSessions,
             Live!EndSwaps(s)
      PROVE  OpenInv'
  BY <1>4, <1>0, <1>a DEF Live!EndSwaps, Live!Ends, Live!Becomes, Live!Wanted, Live!Exhausted,
     Live!coordinator, OpenInv, Live!Open, Live!Terminal, SessionsOK, EndInv
<1>5. CASE Live!Spawn
  BY <1>5, <1>0 DEF Live!Spawn, Live!Go, Live!ending, OpenInv, Live!Open, Live!Terminal
<1>6. CASE Live!ShutDown
  BY <1>6, <1>0 DEF Live!ShutDown, Live!ending, OpenInv, Live!Open, Live!Terminal
<1>7. CASE Live!ReadDemand
  BY <1>7, <1>0 DEF Live!ReadDemand, Live!Fault, Live!ending, OpenInv, Live!Open, Live!Terminal
<1>8. CASE Live!StartRuntime
  BY <1>8, <1>0 DEF Live!StartRuntime, Live!Go, Live!ending, OpenInv, Live!Open, Live!Terminal
<1>9. CASE Live!StopRuntime
  BY <1>9, <1>0 DEF Live!StopRuntime, Live!Fault, Live!AfterFailedStop, Live!ending, OpenInv,
     Live!Open, Live!Terminal
<1>10. CASE Live!WaitEnds
  BY <1>10, <1>0 DEF Live!WaitEnds, Live!Go, Live!ending, OpenInv, Live!Open, Live!Terminal
<1>11. CASE Live!Recheck
  BY <1>11, <1>0 DEF Live!Recheck, Live!Go, Live!Fault, Live!ending, OpenInv, Live!Open,
     Live!Terminal
<1>12. CASE Live!FinalStop
  BY <1>12, <1>0 DEF Live!FinalStop, Live!Go, Live!Fault, Live!ClaimKept, Live!ending, OpenInv,
     Live!Open, Live!Terminal
<1>13. CASE Live!Exit
  BY <1>13, <1>0 DEF Live!Exit, Live!Go, Live!ending, OpenInv, Live!Open, Live!Terminal
<1>14. CASE UNCHANGED liveVars
  BY <1>14, <1>0 DEF liveVars, OpenInv, Live!Open, Live!Terminal
<1> QED
  BY <1>1, <1>2, <1>3, <1>4, <1>5, <1>6, <1>7, <1>8, <1>9, <1>10, <1>11, <1>12, <1>13, <1>14
     DEF Live!Next, Live!CoordinatorStep

(* A request to end a session is overtaken less often than it retries.     *)
LEMMA EndKeeps ==
  ASSUME LiveInv, Live!Next \/ UNCHANGED liveVars
  PROVE  EndInv'
<1>0. SessionsOK /\ CoordinatorOK /\ EndInv /\ OpenInv /\ DriverInv
  BY DEF LiveInv, Live!TypeOK, SessionsOK, CoordinatorOK
<1>a. Retries \in Nat /\ Retries >= 4 /\ LiveFaults \in Nat
  BY PartsAssumption DEF PartsAssumption
<1>1. ASSUME NEW s \in LiveSessions,
             Live!Reserve(s)
      PROVE  EndInv'
  <2>1. SessionsOK /\ session[s] \in Live!States /\ s \in LiveSessions
    BY <1>0 DEF SessionsOK
  <2>2. /\ UNCHANGED <<endPc, lastSeen, attempt>>
        /\ \E to \in Live!States : session' = [session EXCEPT ![s] = to] /\ Rank(session[s]) < Rank(to)
             /\ (Live!Over(s) => to \in Live!Terminal)
    <3>1. session[s] = "none" /\ session' = [session EXCEPT ![s] = "reserved"] /\ UNCHANGED <<endPc, lastSeen, attempt>>
      BY <1>1 DEF Live!Reserve, Live!Becomes, Live!ending
    <3>2. Rank("none") = 0 /\ Rank("reserved") = 1 /\ "reserved" \in Live!States /\ ~Live!Over(s)
      BY <3>1 DEF Rank, Live!States, Live!Over, Live!Terminal
    <3>3. Rank(session[s]) < Rank("reserved")
      BY <3>1, <3>2
    <3> QED
      BY <3>1, <3>2, <3>3, Zenon
  <2>3. PICK to \in Live!States : session' = [session EXCEPT ![s] = to] /\ Rank(session[s]) < Rank(to)
             /\ (Live!Over(s) => to \in Live!Terminal)
    BY <2>2
  <2>4. ASSUME NEW r \in LiveSessions
        PROVE  Rank(session[r]) <= Rank(session'[r]) /\ Rank(session[r]) \in 0 .. 5 /\ Rank(session'[r]) \in 0 .. 5
               /\ (Live!Over(r) => session'[r] \in {"stopping"} \cup Live!Terminal)
    <3>1. session[r] \in Live!States
      BY <2>1 DEF SessionsOK
    <3>2. CASE r = s
      BY <2>1, <2>3, <3>1, <3>2, RankBounds DEF SessionsOK
    <3>3. CASE r # s
      <4>1. session'[r] = session[r]
        BY <2>1, <2>3, <3>3 DEF SessionsOK
      <4> QED
        BY <3>1, <4>1, RankBounds DEF Live!Over
    <3> QED
      BY <3>2, <3>3
  <2>5. \A r \in LiveSessions : attempt[r] \in Nat /\ (endPc[r] = "swap" => Rank(lastSeen[r]) \in 0 .. 5)
    BY <1>0, <1>a, RankBounds DEF SessionsOK
  <2> QED
    BY <1>0, <2>2, <2>4, <2>5 DEF EndInv, Live!Over
<1>2. ASSUME NEW s \in LiveSessions,
             Live!Advance(s)
      PROVE  EndInv'
  <2>1. SessionsOK /\ session[s] \in Live!States /\ s \in LiveSessions
    BY <1>0 DEF SessionsOK
  <2>2. /\ UNCHANGED <<endPc, lastSeen, attempt>>
        /\ \E to \in Live!States : session' = [session EXCEPT ![s] = to] /\ Rank(session[s]) < Rank(to)
             /\ (Live!Over(s) => to \in Live!Terminal)
    <3>1. UNCHANGED <<endPc, lastSeen, attempt>> /\ \E t \in Live!Allowed : session[s] = t[1] /\ session' = [session EXCEPT ![s] = t[2]]
      BY <1>2 DEF Live!Advance, Live!Becomes, Live!ending
    <3>2. \A t \in Live!Allowed : t[1] \in Live!States /\ t[2] \in Live!States /\ Rank(t[1]) < Rank(t[2])
                                  /\ (t[1] \in {"stopping"} \cup Live!Terminal => t[2] \in Live!Terminal)
      BY DEF Live!Allowed, Live!States, Live!Terminal, Rank
    <3> QED
      BY <3>1, <3>2 DEF Live!Over
  <2>3. PICK to \in Live!States : session' = [session EXCEPT ![s] = to] /\ Rank(session[s]) < Rank(to)
             /\ (Live!Over(s) => to \in Live!Terminal)
    BY <2>2
  <2>4. ASSUME NEW r \in LiveSessions
        PROVE  Rank(session[r]) <= Rank(session'[r]) /\ Rank(session[r]) \in 0 .. 5 /\ Rank(session'[r]) \in 0 .. 5
               /\ (Live!Over(r) => session'[r] \in {"stopping"} \cup Live!Terminal)
    <3>1. session[r] \in Live!States
      BY <2>1 DEF SessionsOK
    <3>2. CASE r = s
      BY <2>1, <2>3, <3>1, <3>2, RankBounds DEF SessionsOK
    <3>3. CASE r # s
      <4>1. session'[r] = session[r]
        BY <2>1, <2>3, <3>3 DEF SessionsOK
      <4> QED
        BY <3>1, <4>1, RankBounds DEF Live!Over
    <3> QED
      BY <3>2, <3>3
  <2>5. \A r \in LiveSessions : attempt[r] \in Nat /\ (endPc[r] = "swap" => Rank(lastSeen[r]) \in 0 .. 5)
    BY <1>0, <1>a, RankBounds DEF SessionsOK
  <2> QED
    BY <1>0, <2>2, <2>4, <2>5 DEF EndInv, Live!Over
<1>3. ASSUME NEW s \in LiveSessions,
             Live!EndReads(s)
      PROVE  EndInv'
  <2>1. session[s] \in Live!States /\ attempt[s] \in 0 .. Retries /\ s \in LiveSessions
    BY <1>0 DEF SessionsOK
  <2>2. ~Live!Over(s) => session[s] \in {"reserved", "starting", "live"}
    BY <2>1, <1>3 DEF Live!EndReads, Live!Over, Live!States, Live!Terminal
  <2>3. ~Live!Over(s) => attempt[s] + 1 <= Rank(session[s]) /\ Rank(session[s]) \in 1 .. 3
    BY <1>0, <2>1, <2>2, <1>3, RankBounds DEF Live!EndReads, EndInv
  <2>4. ASSUME NEW r \in LiveSessions
        PROVE  /\ session'[r] = session[r]
               /\ r # s => endPc'[r] = endPc[r] /\ attempt'[r] = attempt[r] /\ lastSeen'[r] = lastSeen[r]
    BY <1>0, <1>3 DEF Live!EndReads, SessionsOK
  <2>5. /\ Live!Over(s) => endPc'[s] = "returned"
        /\ ~Live!Over(s) => endPc'[s] = "swap" /\ lastSeen'[s] = session[s] /\ attempt'[s] = attempt[s] + 1
    BY <1>0, <1>3 DEF Live!EndReads, SessionsOK
  <2>6. \A r \in LiveSessions : Live!Over(r)' = Live!Over(r)
    BY <2>4 DEF Live!Over
  <2>7. /\ endPc'[s] = "swap" => /\ lastSeen'[s] \in {"reserved", "starting", "live"}
                                 /\ attempt'[s] <= Rank(lastSeen'[s]) /\ Rank(lastSeen'[s]) <= Rank(session'[s])
        /\ endPc'[s] \in {"swap", "returned"} /\ (endPc'[s] = "returned" => Live!Over(s)')
    BY <2>1, <2>2, <2>3, <2>4, <2>5, <2>6
  <2> QED
    BY <1>0, <2>4, <2>6, <2>7 DEF EndInv
<1>4. ASSUME NEW s \in LiveSessions,
             Live!EndSwaps(s)
      PROVE  EndInv'
  <2>1. endPc[s] = "swap" /\ lastSeen[s] \in {"reserved", "starting", "live"}
        /\ session[s] \in Live!States /\ attempt[s] \in 0 .. Retries
    BY <1>0, <1>4 DEF Live!EndSwaps, Live!Ends, EndInv, SessionsOK
  <2>2. Rank(lastSeen[s]) \in 1 .. 3 /\ Rank(session[s]) \in 0 .. 5
        /\ attempt[s] <= Rank(lastSeen[s]) /\ Rank(lastSeen[s]) <= Rank(session[s])
    BY <1>0, <2>1, RankBounds DEF EndInv, Live!States
  <2>3. ASSUME NEW r \in LiveSessions, r # s
        PROVE  session'[r] = session[r] /\ endPc'[r] = endPc[r] /\ attempt'[r] = attempt[r] /\ lastSeen'[r] = lastSeen[r]
    BY <1>0, <2>3, <1>4 DEF Live!EndSwaps, Live!Ends, Live!Becomes, SessionsOK
  <2>4. CASE session[s] = lastSeen[s]
    <3>1. endPc'[s] = "returned" /\ session'[s] \in {"stopping", "ended"}
      BY <1>0, <2>4, <1>4 DEF Live!EndSwaps, Live!Ends, Live!Becomes, Live!Wanted, SessionsOK
    <3> QED
      BY <1>0, <2>3, <3>1 DEF EndInv, Live!Over, Live!Terminal
  <2>5. CASE session[s] # lastSeen[s]
    <3>1. ~Live!Exhausted(s)
      BY <1>a, <2>1, <2>2 DEF Live!Exhausted
    <3>2. endPc'[s] = "again" /\ UNCHANGED <<session, attempt>>
      BY <1>0, <2>5, <3>1, <1>4 DEF Live!EndSwaps, Live!Ends, SessionsOK
    <3>3. Rank(lastSeen[s]) # Rank(session[s])
      BY <2>1, <2>5 DEF Rank, Live!States, Live!Terminal
    <3>4. attempt[s] < Rank(session[s])
      BY <2>1, <2>2, <3>3
    <3> QED
      BY <1>0, <2>3, <3>2, <3>4 DEF EndInv, Live!Over
  <2> QED
    BY <2>4, <2>5
<1>5. CASE Live!Spawn
  BY <1>5, <1>0 DEF Live!Spawn, Live!Go, Live!ending, EndInv, Live!Over, Live!Terminal
<1>6. CASE Live!ShutDown
  BY <1>6, <1>0 DEF Live!ShutDown, Live!ending, EndInv, Live!Over, Live!Terminal
<1>7. CASE Live!ReadDemand
  BY <1>7, <1>0 DEF Live!ReadDemand, Live!Fault, Live!ending, EndInv, Live!Over, Live!Terminal
<1>8. CASE Live!StartRuntime
  BY <1>8, <1>0 DEF Live!StartRuntime, Live!Go, Live!ending, EndInv, Live!Over, Live!Terminal
<1>9. CASE Live!StopRuntime
  BY <1>9, <1>0 DEF Live!StopRuntime, Live!Fault, Live!AfterFailedStop, Live!ending, EndInv,
     Live!Over, Live!Terminal
<1>10. CASE Live!WaitEnds
  BY <1>10, <1>0 DEF Live!WaitEnds, Live!Go, Live!ending, EndInv, Live!Over, Live!Terminal
<1>11. CASE Live!Recheck
  BY <1>11, <1>0 DEF Live!Recheck, Live!Go, Live!Fault, Live!ending, EndInv, Live!Over,
     Live!Terminal
<1>12. CASE Live!FinalStop
  BY <1>12, <1>0 DEF Live!FinalStop, Live!Go, Live!Fault, Live!ClaimKept, Live!ending, EndInv,
     Live!Over, Live!Terminal
<1>13. CASE Live!Exit
  BY <1>13, <1>0 DEF Live!Exit, Live!Go, Live!ending, EndInv, Live!Over, Live!Terminal
<1>14. CASE UNCHANGED liveVars
  BY <1>14, <1>0 DEF liveVars, EndInv, Live!Over, Live!Terminal
<1> QED
  BY <1>1, <1>2, <1>3, <1>4, <1>5, <1>6, <1>7, <1>8, <1>9, <1>10, <1>11, <1>12, <1>13, <1>14
     DEF Live!Next, Live!CoordinatorStep

(* No session, no coordinator.                                             *)
LEMMA LiveStarts ==
  ASSUME Live!Init
  PROVE  LiveInv
<1>1. Retries \in Nat /\ LiveFaults \in Nat
  BY PartsAssumption DEF PartsAssumption
<1>2. SessionsOK /\ CoordinatorOK
  BY <1>1 DEF Live!Init, SessionsOK, CoordinatorOK, Live!States
<1>3. LiveFlagsOK
  BY DEF Live!Init, LiveFlagsOK
<1>4. EndInv /\ OpenInv /\ DriverInv
  BY DEF Live!Init, EndInv, OpenInv, DriverInv, Live!Open
<1> QED
  BY <1>2, <1>3, <1>4 DEF LiveInv, Live!TypeOK, SessionsOK, CoordinatorOK, LiveFlagsOK

(* LiveInv holds in every state, for every set of sessions.                *)
THEOREM LiveInvAlways == PartsSpec => []LiveInv
<1>1. PartsInit => LiveInv
  BY LiveStarts DEF PartsInit
<1>2. [PartsNext]_partsVars => Live!Next \/ UNCHANGED liveVars
  BY DEF PartsNext, partsVars
<1>3. ASSUME LiveInv, [PartsNext]_partsVars
      PROVE  LiveInv'
  <2>1. EndInv' /\ OpenInv' /\ DriverInv' /\ SessionsOK' /\ CoordinatorOK' /\ LiveFlagsOK'
    BY <1>2, <1>3, EndKeeps, OpenKeeps, DriverKeeps, SessionTypes, CoordinatorTypes, LiveFlagsTypes
  <2> QED
    BY <2>1 DEF LiveInv, Live!TypeOK, SessionsOK, CoordinatorOK, LiveFlagsOK
<1> QED
  BY <1>1, <1>3, PTL DEF PartsSpec

(* The download pipeline publishes only what is whole and vetted; the live *)
(* runtime is never started over the remains of another, an asset has one  *)
(* open session, and request_end_live_session never gives up: four retries *)
(* outlast every change that can overtake it.                              *)
THEOREM MediaIsSafe == PartsSpec => []MediaSafe
<1>1. VideoInv => Video!TypeOK /\ Video!MediaSafe
  <2> SUFFICES ASSUME VideoInv, NEW j \in Video!Ids
               PROVE  /\ (asset[j] = "ready") = (job[j] = "ready")
                      /\ job[j] = "ready" => final[j] = "whole" /\ variants[j] = 1
                      /\ job[j] \in {"container_checked", "probing"} => vetted[j] >= 1
                      /\ job[j] \in {"probed", "normalizing", "ready"} => vetted[j] = 2
    BY DEF VideoInv, Video!MediaSafe
  <2>1. job[j] \in Video!JobStates
    BY DEF VideoInv, Video!TypeOK
  <2>2. asset[j] = "ready" <=> job[j] = "ready"
    BY <2>1 DEF VideoInv, RowsInv, UnderWay, Video!JobStates
  <2> QED
    BY <2>2 DEF VideoInv, RowsInv
<1>2. LiveInv => Live!TypeOK /\ Live!LiveSafe
  BY DEF LiveInv, DriverInv, OpenInv, EndInv, Live!LiveSafe
<1>3. VideoInv /\ LiveInv => MediaSafe
  BY <1>1, <1>2 DEF MediaSafe
<1> QED
  BY <1>3, VideoInvAlways, LiveInvAlways, PTL
=============================================================================
