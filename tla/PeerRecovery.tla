---------------------------- MODULE PeerRecovery ----------------------------
(***************************************************************************)
(* Peer synchronisation of Cloud Node: a node pushes its snapshot chunk by *)
(* chunk to the maintenance responder of another, which stages it across   *)
(* reconnects and restarts, proves its root and swaps it for the live tree *)
(* with two renames; opening the store resolves an interrupted swap.       *)
(* src/engine/crates/cloud-node/src/client.rs, recovery.rs, store.rs and   *)
(* src/engine/crates/backend/src/maintenance_notice.rs                     *)
(*                                                                         *)
(* One peer, its staging tree and the live tree.  A resource holds the     *)
(* number of the snapshot its bytes come from; a chunk is two units long,  *)
(* so that a crash can tear one.  A request the client gave up may still   *)
(* arrive; every request carries a fresh proof and is handled at most      *)
(* once.  A request reads the live root and takes the recovery lock in one *)
(* step.                                                                   *)
(***************************************************************************)
EXTENDS Naturals, FiniteSets

CONSTANTS Resources,  \* resources of a snapshot, in their order of sending
          Folders,    \* the first of them are folders, the others files
          Chunks,     \* chunks of a resource
          Last,       \* snapshots are numbered 1 .. Last; the receiver has 1
          Sessions,   \* authenticated sessions, reused when forgotten
          MaxFaults   \* bound on crashes, given up requests, i/o errors and disk rot

ASSUME PeerAssumption ==
  /\ Resources \in Nat \ {0} /\ Folders \in Nat /\ Chunks \in Nat \ {0}
  /\ Last \in Nat /\ MaxFaults \in Nat /\ 0 \notin Sessions

VARIABLES
  local,              \* snapshot of the sending node
  cpc, csess, plan,   \* synchronize_upstream: step, session, frozen snapshot
  cres, coff,         \* the resource and the offset it sends next
  net,                \* requests on their way
  up, rec,            \* the responder runs; its recovery, if any
  spc,                \* complete(): the next step of the swap
  sroot, done, part,  \* the staging tree: its plan, resources and partial files
  bad,                \* where a partial file holds garbage, 0 if nowhere
  live, prev,         \* storage and recovery-previous-storage
  signalled,          \* boot recovery was reported complete
  faults

client == <<cpc, csess, plan, cres, coff>>
staging == <<sroot, done, part, bad>>
store == <<live, prev>>
vars == <<local, client, net, up, rec, spc, staging, store, signalled, faults>>

Res == 1 .. Resources
Total == 2 * Chunks
Kind(r) == IF r <= Folders THEN 0 ELSE 2      \* recovery_phase
All(s) == [r \in Res |-> s]
Rotten == Last + 1        \* staged bytes that fail verification
Decayed == Last + 2       \* live bytes that fail verification
NoTree == <<>>
NoRec == [session |-> 0, root |-> 0, active |-> 0, phase |-> 0]
Steps == {"idle", "old", "new", "verify", "clean", "signal"}

Init ==
  /\ local \in 2 .. Last
  /\ cpc = "idle" /\ csess = 0 /\ plan = 0 /\ cres = 1 /\ coff = 0 /\ net = {}
  /\ up = TRUE /\ rec = NoRec /\ spc = "idle"
  /\ sroot = 0 /\ done = All(0) /\ part = All(0) /\ bad = All(0)
  /\ live = All(1) /\ prev = NoTree /\ signalled = FALSE /\ faults = 0

Fault == faults < MaxFaults /\ faults' = faults + 1

\* verify and the sync root of a tree.
Verified(t, root) == t = All(root)

\* verify alone: the tree is some snapshot.
Whole(t) == \E s \in 1 .. Last : Verified(t, s)
-----------------------------------------------------------------------------
(* The client. *)

Request(kind) ==
  [kind |-> kind, session |-> csess', root |-> plan', res |-> cres', off |-> coff']

Waiting == {"hello", "chunk", "complete"}

\* Sessions are only compared: any fresh one stands for all.
FreshSessions == {s \in Sessions : s # rec.session /\ \A m \in net : m.session # s}

\* A fresh session and the header of the local snapshot.
Negotiate ==
  /\ cpc = "idle" /\ up
  /\ FreshSessions # {} /\ csess' = CHOOSE s \in FreshSessions : TRUE
  /\ plan' = local /\ cres' = 1 /\ coff' = 0 /\ cpc' = "hello"
  /\ net' = net \cup {Request("hello")}
  /\ UNCHANGED <<local, up, rec, spc, staging, store, signalled, faults>>

\* The node stores something new.
Edit ==
  /\ local < Last /\ local' = local + 1
  /\ UNCHANGED <<client, net, up, rec, spc, staging, store, signalled, faults>>

\* The next chunk, or the completion; a responder that was restarted knows
\* nothing of the session.
SendNext ==
  /\ cpc = "walk" /\ UNCHANGED <<csess, plan, cres, coff>>
  /\ \/ csess = 0 /\ cpc' = "idle" /\ UNCHANGED net
     \/ csess # 0 /\ cres <= Resources /\ cpc' = "chunk" /\ net' = net \cup {Request("chunk")}
     \/ csess # 0 /\ cres > Resources /\ cpc' = "complete" /\ net' = net \cup {Request("complete")}
  /\ UNCHANGED <<local, up, rec, spc, staging, store, signalled, faults>>

\* The request times out; it is still on its way, or it is lost.
GiveUp ==
  /\ cpc \in Waiting /\ csess # 0 /\ Fault /\ cpc' = "idle"
  /\ net' \in {net, {m \in net : m.session # csess}}
  /\ UNCHANGED <<local, csess, plan, cres, coff, up, rec, spc, staging, store, signalled>>

\* The connection closed with the responder.
Disconnected ==
  /\ cpc \in Waiting /\ csess = 0 /\ cpc' = "idle"
  /\ UNCHANGED <<local, csess, plan, cres, coff, net, up, rec, spc, staging, store,
                 signalled, faults>>

\* An answer to m, if the client still waits for it.
Awaited(m) == m.session = csess /\ cpc \in Waiting

\* synchronize_upstream ends, well or with an error; the daemon calls it again.
Return(m) ==
  /\ cpc' = IF Awaited(m) THEN "idle" ELSE cpc
  /\ UNCHANGED <<csess, plan, cres, coff>>

\* decode_resume_ack: the next offset; a finished resource is followed by the next.
Acknowledge(m, next) ==
  IF Awaited(m)
    THEN /\ cpc' = "walk" /\ UNCHANGED <<csess, plan>>
         /\ cres' = IF next = Total THEN cres + 1 ELSE cres
         /\ coff' = IF next = Total THEN 0 ELSE next
    ELSE UNCHANGED client
-----------------------------------------------------------------------------
(* cloud_node_sync. *)

\* Staging trees are kept apart by plan and obsolete ones pruned; the phase is
\* that of the manifests staged so far.
OpenReceiver(m) ==
  /\ IF sroot = m.root THEN UNCHANGED <<done, part, bad>>
     ELSE done' = All(0) /\ part' = All(0) /\ bad' = All(0)
  /\ sroot' = m.root
  /\ rec' = [session |-> m.session, root |-> m.root, active |-> 0,
             phase |-> IF \E r \in Res : done'[r] # 0 /\ Kind(r) = 2 THEN 2 ELSE 0]

\* The recovery goes on under the new session.
Resume(m) == rec' = [rec EXCEPT !.session = m.session] /\ UNCHANGED staging

\* A responder that compares the roots of the manifests only.
RootsEqual(m) == \A r \in Res : live[r] \in {m.root, Decayed}

RootsMatch(m) == Verified(live, m.root)

\* Equal roots and an intact tree end the negotiation; otherwise a recovery of
\* the same plan is resumed under the new session and any other one replaced.
\* A client whose snapshot changed meanwhile stops there.
HandleHello(m) ==
  /\ m.kind = "hello"
  /\ \/ /\ RootsMatch(m)
        /\ signalled' = TRUE /\ Return(m) /\ UNCHANGED <<rec, staging>>
     \/ /\ ~RootsMatch(m)
        /\ IF rec # NoRec /\ rec.root = m.root THEN Resume(m) ELSE OpenReceiver(m)
        /\ IF local = plan THEN Acknowledge(m, 0) ELSE Return(m)
        /\ UNCHANGED signalled
  /\ UNCHANGED <<spc, store>>
-----------------------------------------------------------------------------
(* cloud_node_transfer, an object chunk: accept_chunk. *)

\* A responder that does not ask under which session a request was sent.
AnySession(m) == rec # NoRec

OwnsRecovery(m) == rec # NoRec /\ rec.session = m.session

Committed(m) == done[m.res] = m.root

\* enforce_recovery_order, then the active resource.
Admitted(m) ==
  /\ OwnsRecovery(m) /\ Kind(m.res) >= rec.phase
  /\ rec.active = m.res \/ (rec.active = 0 /\ m.off = 0)

Intact(m, n) == ~(m.off < bad[m.res] /\ bad[m.res] <= n)
End(m) == IF m.off + 2 > Total THEN Total ELSE m.off + 2

\* write_or_replay_recovery_chunk: a prefix that disagrees is reset, and only a
\* chunk that begins at zero is written then.
Outcome(m) ==
  LET have == part[m.res]
      overlap == IF End(m) <= have THEN End(m) ELSE have IN
  IF m.off < have /\ ~Intact(m, overlap)
    THEN [length |-> IF m.off = 0 THEN End(m) ELSE 0, bad |-> 0]
    ELSE [length |-> IF End(m) <= have THEN have ELSE End(m), bad |-> bad[m.res]]

\* A chunk of a resource already staged is recognised before anything else.
Duplicate(m) ==
  /\ OwnsRecovery(m) /\ Committed(m)
  /\ part' = [part EXCEPT ![m.res] = 0] /\ bad' = [bad EXCEPT ![m.res] = 0]
  /\ Acknowledge(m, Total)
  /\ UNCHANGED <<rec, sroot, done>>

\* A complete resource is verified and renamed, or its partial file reset.
Store(m) ==
  /\ Admitted(m) /\ ~Committed(m) /\ m.off <= part[m.res]
  /\ LET o == Outcome(m)
         keep == o.length \in 1 .. Total - 1 IN
     /\ part' = [part EXCEPT ![m.res] = IF keep THEN o.length ELSE 0]
     /\ bad' = [bad EXCEPT ![m.res] = IF keep THEN o.bad ELSE 0]
     /\ \/ /\ o.length = Total /\ o.bad = 0
           /\ done' = [done EXCEPT ![m.res] = m.root]
           /\ rec' = [rec EXCEPT !.active = 0, !.phase = Kind(m.res)]
           /\ Acknowledge(m, Total)
        \/ /\ o.length # Total \/ o.bad # 0
           /\ rec' = [rec EXCEPT !.active = m.res, !.phase = Kind(m.res)]
           /\ IF keep THEN Acknowledge(m, o.length) ELSE Return(m)
           /\ UNCHANGED done
  /\ UNCHANGED sroot

HandleChunk(m) ==
  /\ m.kind = "chunk"
  /\ \/ Duplicate(m)
     \/ Store(m)
     \/ /\ ~OwnsRecovery(m) \/ (~Committed(m) /\ (~Admitted(m) \/ m.off > part[m.res]))
        /\ Return(m) /\ UNCHANGED <<rec, staging>>
  /\ UNCHANGED <<spc, store, signalled>>
-----------------------------------------------------------------------------
(* cloud_node_transfer, the completion: complete(), under the recovery lock. *)

Completable(m) ==
  /\ OwnsRecovery(m) /\ rec.root = m.root
  /\ rec.active = 0 /\ part = All(0) /\ Verified(done, m.root) /\ prev = NoTree

HandleComplete(m) ==
  /\ m.kind = "complete"
  /\ IF Completable(m) THEN spc' = "old" /\ UNCHANGED client
     ELSE Return(m) /\ UNCHANGED spc
  /\ UNCHANGED <<rec, staging, store, signalled>>

Handle ==
  /\ up /\ spc = "idle"
  /\ \E m \in net :
       /\ net' = net \ {m}
       /\ HandleHello(m) \/ HandleChunk(m) \/ HandleComplete(m)
  /\ UNCHANGED <<local, up, faults>>

Step(from, to) == up /\ spc = from /\ spc' = to

\* complete() returns an error; the recovery stays.
Fails(from) == Step(from, "idle") /\ Return(rec)

\* The first rename.
SwapOld ==
  /\ \/ /\ Step("old", "new") /\ prev' = live /\ live' = NoTree
        /\ UNCHANGED <<client, faults>>
     \/ Fault /\ Fails("old") /\ UNCHANGED store
  /\ UNCHANGED <<local, net, up, rec, staging, signalled>>

\* The second rename, or an error that undoes the first.
SwapNew ==
  /\ \/ /\ Step("new", "verify") /\ live' = done /\ done' = All(0)
        /\ UNCHANGED <<prev, client, faults>>
     \/ /\ Fault /\ Fails("new") /\ live' = prev /\ prev' = NoTree
        /\ UNCHANGED done
  /\ UNCHANGED <<local, net, up, rec, sroot, part, bad, signalled>>

\* The activated tree is verified once more, or rollback_swap.
SwapVerify ==
  /\ \/ /\ Verified(live, rec.root) /\ Step("verify", "clean")
        /\ UNCHANGED <<done, store, client, faults>>
     \/ /\ IF Verified(live, rec.root) THEN Fault ELSE UNCHANGED faults
        /\ Fails("verify")
        /\ done' = [r \in Res |-> IF live[r] = Decayed THEN Rotten ELSE live[r]]
        /\ live' = prev /\ prev' = NoTree
  /\ UNCHANGED <<local, net, up, rec, sroot, part, bad, signalled>>

\* The previous tree is removed, then the staging directory.
SwapClean ==
  /\ \/ /\ Step("clean", "signal") /\ prev' = NoTree /\ sroot' = 0
        /\ UNCHANGED <<client, faults>>
     \/ Fault /\ Fails("clean") /\ UNCHANGED <<prev, sroot>>
  /\ UNCHANGED <<local, net, up, rec, done, part, bad, live, signalled>>

\* signal_boot_recovery_complete; the session is removed and answered.
Signal ==
  /\ Step("signal", "idle") /\ signalled' = TRUE /\ rec' = NoRec /\ Return(rec)
  /\ UNCHANGED <<local, net, up, staging, store, faults>>

SwapStep == SwapOld \/ SwapNew \/ SwapVerify \/ SwapClean \/ Signal
-----------------------------------------------------------------------------
(* Deaths of the responder, its next start, and the disks. *)

\* A chunk that was being appended may be cut short, and what is there of it
\* need not be what was written.
Torn ==
  \/ UNCHANGED <<part, bad>>
  \/ \E m \in net :
       /\ m.kind = "chunk" /\ Admitted(m) /\ ~Committed(m) /\ spc = "idle"
       /\ m.off = part[m.res]
       /\ part' = [part EXCEPT ![m.res] = @ + 1]
       /\ bad' \in {bad, [bad EXCEPT ![m.res] = IF @ = 0 THEN part[m.res] + 1 ELSE @]}

Crash ==
  /\ up /\ Fault /\ Torn
  /\ up' = FALSE /\ rec' = NoRec /\ spc' = "idle" /\ signalled' = FALSE
  /\ net' = {} /\ csess' = 0
  /\ UNCHANGED <<local, cpc, plan, cres, coff, sroot, done, store>>

\* A start that only creates the directories that are missing.
EmptyStorage == All(0)

Restored == prev

\* CloudNodeStore::open and reconcile_interrupted_swap: the valid one of two
\* trees is kept; a tree put back is verified, and open fails if it is not whole.
Reopen ==
  /\ ~up
  /\ \/ prev = NoTree /\ up' = TRUE /\ UNCHANGED store
     \/ prev # NoTree /\ Whole(live) /\ up' = TRUE /\ prev' = NoTree /\ UNCHANGED live
     \/ /\ prev # NoTree /\ ~Whole(live)
        /\ live' = Restored /\ prev' = NoTree /\ up' = Whole(prev)
  /\ UNCHANGED <<local, client, net, rec, spc, staging, signalled, faults>>

\* A resource of the staged or of the live tree goes bad on its disk.
Rot ==
  /\ Fault
  /\ \E r \in Res :
       \/ /\ done[r] \in 1 .. Last /\ done' = [done EXCEPT ![r] = Rotten]
          /\ UNCHANGED live
       \/ /\ live # NoTree /\ live[r] \in 1 .. Last
          /\ live' = [live EXCEPT ![r] = Decayed] /\ UNCHANGED done
  /\ UNCHANGED <<local, client, net, up, rec, spc, sroot, part, bad, prev, signalled>>
-----------------------------------------------------------------------------
ClientStep == Negotiate \/ SendNext \/ Disconnected

Next ==
  \/ ClientStep \/ Edit \/ GiveUp
  \/ Handle \/ SwapStep \/ Crash \/ Reopen \/ Rot

\* The daemon of the peer calls again; the responder is started again, handles
\* what arrives and finishes a swap it began.
Fairness == WF_vars(ClientStep) /\ WF_vars(Handle) /\ WF_vars(SwapStep) /\ WF_vars(Reopen)

Spec == Init /\ [][Next]_vars /\ Fairness
-----------------------------------------------------------------------------
TypeOK ==
  /\ local \in 1 .. Last /\ cpc \in Waiting \cup {"idle", "walk"}
  /\ csess \in {0} \cup Sessions /\ plan \in 0 .. Last
  /\ cres \in 1 .. Resources + 1 /\ coff \in 0 .. Total - 1
  /\ \A m \in net : m.kind \in Waiting /\ m.session \in Sessions
  /\ up \in BOOLEAN /\ spc \in Steps /\ signalled \in BOOLEAN
  /\ rec.active \in 0 .. Resources /\ rec.phase \in {0, 2}
  /\ sroot \in 0 .. Last /\ done \in [Res -> 0 .. Rotten]
  /\ part \in [Res -> 0 .. Total] /\ bad \in [Res -> 0 .. Total]
  /\ live \in {NoTree} \cup [Res -> 0 .. Decayed]
  /\ prev \in {NoTree} \cup [Res -> 0 .. Decayed]

Complete(t) == t # NoTree /\ \A r \in Res : t[r] # 0

\* One snapshot as a whole, apart from what its own disk did to it.
OneSnapshot(t) == \E s \in 1 .. Last : \A r \in Res : t[r] \in {s, Decayed}

(***************************************************************************)
(* The store is never lost: between any two renames, and after a death     *)
(* between them, a complete tree is live or set aside, and whenever the    *)
(* responder runs and no swap is under way it is the live one.  That one   *)
(* is a single snapshot, whatever was received, torn, resumed or damaged   *)
(* while it was staged, as soon as the swap has verified it.               *)
(***************************************************************************)
StoreSafe ==
  /\ TypeOK
  /\ Complete(live) \/ Complete(prev)
  /\ up /\ spc = "idle" => Complete(live)
  /\ up /\ live # NoTree /\ spc # "verify" => OneSnapshot(live)

(***************************************************************************)
(* What was acknowledged to the client in this session is on the disk of   *)
(* the receiver: every resource it has passed is staged, and the partial   *)
(* file reaches up to the offset it will send next.  Requests of sessions  *)
(* it gave up may still arrive in between.                                 *)
(***************************************************************************)
AckedIsDurable ==
  spc = "idle" /\ csess # 0 /\ rec.session = csess /\ cpc \in {"walk", "chunk"} =>
    /\ \A r \in Res : r < cres => done[r] \in {plan, Rotten}
    /\ cres <= Resources /\ done[cres] # plan => part[cres] >= coff

(***************************************************************************)
(* Boot recovery is reported complete only for a snapshot the peer has     *)
(* stored: the live tree is intact, or was when the swap verified it.      *)
(***************************************************************************)
SignalIsHonest ==
  [][~signalled /\ signalled' =>
       \E s \in 2 .. local :
         \/ Verified(live, s)
         \/ spc = "signal" /\ \A r \in Res : live[r] \in {s, Decayed}]_vars

(***************************************************************************)
(* The snapshot of the peer arrives, whatever crashed, was torn, timed out *)
(* or went bad on the way, unless the previous tree could not be removed   *)
(* or a resource went bad after it was staged: the order check refuses to  *)
(* take that one again as long as the plan is the same.                    *)
(***************************************************************************)
Replicated ==
  <>[](live = All(local)) \/ <>[](prev # NoTree) \/ <>[](\E r \in Res : done[r] = Rotten)
=============================================================================
