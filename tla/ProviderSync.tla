---------------------------- MODULE ProviderSync ----------------------------
(***************************************************************************)
(* Cloud Node provider mode: nodes that share one snapshot history through  *)
(* an object store.  A node commits its store's root on top of its local    *)
(* HEAD, compares histories with the provider's HEAD and pushes or pulls;   *)
(* a guard repeats the transaction until a pass finds nothing to do.        *)
(* Sources: cloud-node/src/provider_sync.rs (the transaction),              *)
(* provider_sync_guard.rs (the passes), provider_sync_checked.rs (the last  *)
(* check).                                                                  *)
(*                                                                          *)
(* A commit is its history: the sequence of (author, root) pairs from the   *)
(* first commit on, so an ancestor is a proper prefix.  (The id also hashes *)
(* the time, so that a node that commits one root twice on one parent gets  *)
(* two commits; here they are one.)  A HEAD's version is its content, as an *)
(* S3 ETag is.  The store's contents are sound: verify() never fails.       *)
(***************************************************************************)
EXTENDS Naturals, Sequences

CONSTANTS
  Nodes,
  Roots,        \* snapshot roots, a hash of a store's contents
  EmptyRoot,    \* the root of a store without objects
  Policy,       \* conflictPolicy of every node
  Atomic,       \* the provider offers conditional puts (S3, Azure, GCS)
  BusyEdits,    \* other processes change a store while its node synchronises
  MaxPasses,    \* MAX_PROVIDER_STABILIZATION_PASSES
  MaxEdits,     \* bound: changes of stores
  MaxFailures   \* bound: crashes, transport errors and lost answers

Policies == {"fail", "prefer-local", "prefer-remote"}

ASSUME RootAssumption == EmptyRoot \in Roots
ASSUME PolicyAssumption == Policy \in [Nodes -> Policies]
ASSUME FlagAssumption == Atomic \in BOOLEAN /\ BusyEdits \in BOOLEAN
ASSUME BoundAssumption == MaxPasses \in Nat \ {0} /\ MaxEdits \in Nat /\ MaxFailures \in Nat

VARIABLES
  root,      \* root of each node's store
  head,      \* its provider-history HEAD, << >> when untracked
  known,     \* its provider-history commit files
  rhead,     \* the provider's HEAD, << >> when absent
  rcommits,  \* commits the provider holds
  rsnaps,    \* roots whose snapshot, index included, the provider holds
  pc,        \* where each node's synchronisation is
  seen,      \* the provider HEAD it read last
  action,    \* ProviderSyncAction of the current pass
  last,      \* last_mutating_action
  pass,      \* the pass it is in
  edits, failures

local  == <<root, head, known>>
remote == <<rhead, rcommits, rsnaps>>
task   == <<pc, seen, action, last, pass>>
budget == <<edits, failures>>
vars   == <<local, remote, task, budget>>

None == << >>
Root(c) == c[Len(c)].root
Lineage(c) == {SubSeq(c, 1, k) : k \in 1..Len(c)}
Ancestor(a, d) == Len(a) < Len(d) /\ a = SubSeq(d, 1, Len(a))

(* The walk from d towards a finds all it needs among the commits cs.       *)
Reaches(a, d, cs) == Ancestor(a, d) /\ Lineage(d) \ Lineage(a) \subseteq cs

Pcs == {"idle", "read", "plan", "import", "classify", "snapshot", "commits", "recheck",
        "put", "readback", "restore", "confirm", "status", "audit", "verify"}
Actions == {"none", "push", "pull"}

Init ==
  /\ root \in [Nodes -> Roots]
  /\ head = [n \in Nodes |-> None]
  /\ known = [n \in Nodes |-> {}]
  /\ rhead = None
  /\ rcommits = {}
  /\ rsnaps = {}
  /\ pc = [n \in Nodes |-> "idle"]
  /\ seen = [n \in Nodes |-> None]
  /\ action = [n \in Nodes |-> "none"]
  /\ last = [n \in Nodes |-> "none"]
  /\ pass = [n \in Nodes |-> 0]
  /\ edits = 0
  /\ failures = 0

-----------------------------------------------------------------------------
(* store_file and the other operations that change a store.                 *)
Edit(n, r) ==
  /\ edits < MaxEdits
  /\ BusyEdits \/ pc[n] = "idle"
  /\ r # root[n]
  /\ root' = [root EXCEPT ![n] = r]
  /\ edits' = edits + 1
  /\ UNCHANGED <<head, known, remote, task, failures>>

Goes(n, from, to) ==
  /\ pc[n] = from
  /\ pc' = [pc EXCEPT ![n] = to]

(* synchronize_provider returns, or its process dies and drops the lock.    *)
Ends(n) ==
  /\ pc' = [pc EXCEPT ![n] = "idle"]
  /\ seen' = [seen EXCEPT ![n] = None]
  /\ action' = [action EXCEPT ![n] = "none"]
  /\ last' = [last EXCEPT ![n] = "none"]
  /\ pass' = [pass EXCEPT ![n] = 0]

BeginPass(n, from) ==
  /\ Goes(n, from, "read")
  /\ pass' = [pass EXCEPT ![n] = @ + 1]
  /\ action' = [action EXCEPT ![n] = "none"]

Start(n) ==
  /\ BeginPass(n, "idle")
  /\ UNCHANGED <<local, remote, seen, last, budget>>

(* A crash or an error at any point of the transaction.                     *)
Fails(n) ==
  /\ pc[n] # "idle"
  /\ failures < MaxFailures
  /\ failures' = failures + 1
  /\ Ends(n)
  /\ UNCHANGED <<local, remote, edits>>

-----------------------------------------------------------------------------
(* provider_sync.rs: one transaction under the namespace lock.              *)

ReadRemoteHead(n) ==
  /\ Goes(n, "read", "plan")
  /\ seen' = [seen EXCEPT ![n] = rhead]
  /\ UNCHANGED <<local, remote, action, last, pass, budget>>

Untracked(n) == head[n] = None
HeadIs(n, r) == ~Untracked(n) /\ Root(head[n]) = r

(* should_adopt_matching_remote_history.                                    *)
Adopts(n) == seen[n] # None /\ Root(seen[n]) = root[n] /\ ~HeadIs(n, root[n])

PlanAdopts(n) ==
  /\ Adopts(n)
  /\ Goes(n, "plan", "import")
  /\ UNCHANGED <<local, remote, seen, action, last, pass, budget>>

PullsUntracked(n) == Untracked(n) /\ seen[n] # None
PullsIntoEmpty(n) == Untracked(n) /\ seen[n] # None /\ root[n] = EmptyRoot

PlanPulls(n) ==
  /\ ~Adopts(n)
  /\ PullsIntoEmpty(n)
  /\ Goes(n, "plan", "restore")
  /\ action' = [action EXCEPT ![n] = "pull"]
  /\ UNCHANGED <<local, remote, seen, last, pass, budget>>

(* ensure_snapshot_commit.                                                  *)
PlanCommits(n) ==
  /\ ~Adopts(n)
  /\ ~PullsIntoEmpty(n)
  /\ Goes(n, "plan", "classify")
  /\ head' = [head EXCEPT ![n] =
       IF HeadIs(n, root[n]) THEN @ ELSE Append(@, [node |-> n, root |-> root[n]])]
  /\ known' = [known EXCEPT ![n] = @ \cup {head'[n]}]
  /\ UNCHANGED <<root, remote, seen, action, last, pass, budget>>

(* import_remote_history: the walk back from the provider's HEAD ends at a  *)
(* commit the node has; write_commit from the oldest missing one on, then   *)
(* set_head.  An adoption goes on to the classification, a pull is done.    *)
Missing(n) == {c \in Lineage(seen[n]) :
                 \A d \in known[n] \cap Lineage(seen[n]) : Len(d) < Len(c)}
NextImport(n) == CHOOSE c \in Missing(n) : \A d \in Missing(n) : Len(c) <= Len(d)

ImportCommit(n) ==
  /\ pc[n] = "import"
  /\ seen[n] \notin known[n]
  /\ Missing(n) \subseteq rcommits
  /\ known' = [known EXCEPT ![n] = @ \cup {NextImport(n)}]
  /\ UNCHANGED <<root, head, remote, task, budget>>

HeadKept(n) == head[n]
HeadImported(n) == seen[n]

ImportHead(n) ==
  /\ seen[n] \in known[n]
  /\ Goes(n, "import", IF action[n] = "pull" THEN "confirm" ELSE "classify")
  /\ head' = [head EXCEPT ![n] = HeadImported(n)]
  /\ last' = [last EXCEPT ![n] = IF action[n] = "pull" THEN "pull" ELSE @]
  /\ UNCHANGED <<root, known, remote, seen, action, pass, budget>>

(* status_from_heads.                                                       *)
Relation(n) ==
  CASE seen[n] = None -> "EmptyRemote"
    [] seen[n] = head[n] -> "InSync"
    [] Reaches(seen[n], head[n], known[n]) -> "LocalAhead"
    [] Reaches(head[n], seen[n], rcommits) -> "RemoteAhead"
    [] OTHER -> "Diverged"

Pushes(n) == \/ Relation(n) \in {"EmptyRemote", "LocalAhead"}
             \/ Relation(n) = "Diverged" /\ Policy[n] = "prefer-local"
Pulls(n)  == \/ Relation(n) = "RemoteAhead"
             \/ Relation(n) = "Diverged" /\ Policy[n] = "prefer-remote"

(* In sync: the snapshot is checked and repaired, HEAD stays.               *)
ClassifyInSync(n) ==
  /\ Relation(n) = "InSync"
  /\ Goes(n, "classify", "confirm")
  /\ rsnaps' = rsnaps \cup {Root(head[n])}
  /\ UNCHANGED <<local, rhead, rcommits, seen, action, last, pass, budget>>

ClassifyPush(n) ==
  /\ Pushes(n)
  /\ Goes(n, "classify", "snapshot")
  /\ action' = [action EXCEPT ![n] = "push"]
  /\ UNCHANGED <<local, remote, seen, last, pass, budget>>

ClassifyPull(n) ==
  /\ Pulls(n)
  /\ ~Pushes(n)
  /\ Goes(n, "classify", "restore")
  /\ action' = [action EXCEPT ![n] = "pull"]
  /\ UNCHANGED <<local, remote, seen, last, pass, budget>>

ClassifyRefuses(n) ==
  /\ pc[n] = "classify"
  /\ Relation(n) = "Diverged"
  /\ Policy[n] = "fail"
  /\ ~Pushes(n)
  /\ Ends(n)
  /\ UNCHANGED <<local, remote, budget>>

(* push_provider_state: the snapshot with its index last, ...               *)
UploadSnapshot(n) ==
  /\ Goes(n, "snapshot", "commits")
  /\ rsnaps' = rsnaps \cup {Root(head[n])}
  /\ UNCHANGED <<local, rhead, rcommits, seen, action, last, pass, budget>>

(* ... chain_to_ancestor, oldest first, ...                                 *)
ChainHeadOnly(n) == {head[n]}
Chain(n) == IF seen[n] \in Lineage(head[n])
            THEN Lineage(head[n]) \ Lineage(seen[n]) ELSE Lineage(head[n])
NotUploaded(n) == Chain(n) \ rcommits

UploadCommit(n) ==
  /\ pc[n] = "commits"
  /\ NotUploaded(n) # {}
  /\ LET oldest == CHOOSE c \in NotUploaded(n) : \A d \in NotUploaded(n) : Len(c) <= Len(d)
     IN  rcommits' = rcommits \cup {oldest}
  /\ UNCHANGED <<local, rhead, rsnaps, task, budget>>

UploadedAll(n) ==
  /\ NotUploaded(n) = {}
  /\ Goes(n, "commits", "recheck")
  /\ UNCHANGED <<local, remote, seen, action, last, pass, budget>>

(* ... the re-read of HEAD ...                                              *)
RecheckSame(n) ==
  /\ rhead = seen[n]
  /\ Goes(n, "recheck", "put")
  /\ UNCHANGED <<local, remote, seen, action, last, pass, budget>>

RecheckMoved(n) ==
  /\ pc[n] = "recheck"
  /\ rhead # seen[n]
  /\ Ends(n)
  /\ UNCHANGED <<local, remote, budget>>

(* ... and put_if_unchanged, unconditional where the provider cannot.       *)
PutUnchecked(n) == TRUE
PutAdmitted(n) == Atomic => rhead = seen[n]

PutHead(n) ==
  /\ PutAdmitted(n)
  /\ Goes(n, "put", IF Atomic THEN "confirm" ELSE "readback")
  /\ rhead' = head[n]
  /\ last' = [last EXCEPT ![n] = "push"]
  /\ UNCHANGED <<local, rcommits, rsnaps, seen, action, pass, budget>>

(* The put took effect but its answer was lost.                             *)
PutAnswerLost(n) ==
  /\ pc[n] = "put"
  /\ PutAdmitted(n)
  /\ failures < MaxFailures
  /\ failures' = failures + 1
  /\ rhead' = head[n]
  /\ Ends(n)
  /\ UNCHANGED <<local, rcommits, rsnaps, edits>>

PutRefused(n) ==
  /\ pc[n] = "put"
  /\ ~PutAdmitted(n)
  /\ Ends(n)
  /\ UNCHANGED <<local, remote, budget>>

(* verify_non_atomic_head_readback.                                         *)
ReadbackSame(n) ==
  /\ rhead = head[n]
  /\ Goes(n, "readback", "confirm")
  /\ UNCHANGED <<local, remote, seen, action, last, pass, budget>>

ReadbackMoved(n) ==
  /\ pc[n] = "readback"
  /\ rhead # head[n]
  /\ Ends(n)
  /\ UNCHANGED <<local, remote, budget>>

(* pull_provider_state: restore_snapshot swaps the store, whatever it holds *)
(* by then, and import_remote_history follows.                              *)
RestoreSnapshot(n) ==
  /\ Goes(n, "restore", "import")
  /\ Root(seen[n]) \in rsnaps
  /\ root' = [root EXCEPT ![n] = Root(seen[n])]
  /\ UNCHANGED <<head, known, remote, seen, action, last, pass, budget>>

-----------------------------------------------------------------------------
(* provider_sync_guard.rs: provider_status after every pass.                *)

ConfirmReads(n) ==
  /\ Goes(n, "confirm", "status")
  /\ seen' = [seen EXCEPT ![n] = rhead]
  /\ UNCHANGED <<local, remote, action, last, pass, budget>>

(* provider_status looks at the store as well as at HEAD.                   *)
StatusRelation(n) ==
  CASE seen[n] = None -> "EmptyRemote"
    [] Untracked(n) /\ Root(seen[n]) # root[n] /\ root[n] = EmptyRoot -> "RemoteAhead"
    [] ~HeadIs(n, root[n]) /\ Root(seen[n]) = root[n] -> "InSync"
    [] ~HeadIs(n, root[n]) /\ ~Untracked(n)
         /\ (seen[n] = head[n] \/ Reaches(seen[n], head[n], known[n])) -> "LocalAhead"
    [] ~HeadIs(n, root[n]) -> "Diverged"
    [] OTHER -> Relation(n)

Stable(n) == StatusRelation(n) = "InSync"
PullRegressed(n) == last[n] = "pull" /\ StatusRelation(n) \in {"EmptyRemote", "LocalAhead"}

(* A stable pass that changed nothing is the confirmation.                  *)
Confirmed(n) == Stable(n) /\ action[n] = "none"

PassesLeft(n) == pass[n] < MaxPasses

(* Where no pass changed anything the snapshot's bytes are audited first.   *)
StatusConfirmed(n) ==
  /\ Confirmed(n)
  /\ Goes(n, "status", IF last[n] = "none" THEN "audit" ELSE "verify")
  /\ UNCHANGED <<local, remote, seen, action, last, pass, budget>>

StatusAgain(n) ==
  /\ ~Confirmed(n)
  /\ ~PullRegressed(n)
  /\ PassesLeft(n)
  /\ BeginPass(n, "status")
  /\ UNCHANGED <<local, remote, seen, last, budget>>

StatusGivesUp(n) ==
  /\ pc[n] = "status"
  /\ ~Confirmed(n)
  /\ PullRegressed(n) \/ ~PassesLeft(n)
  /\ Ends(n)
  /\ UNCHANGED <<local, remote, budget>>

(* same_stable_state, after the audit.                                      *)
SameStableState(n) == rhead = seen[n] /\ Stable(n)

AuditSame(n) ==
  /\ SameStableState(n)
  /\ Goes(n, "audit", "verify")
  /\ UNCHANGED <<local, remote, seen, action, last, pass, budget>>

AuditMoved(n) ==
  /\ pc[n] = "audit"
  /\ ~SameStableState(n)
  /\ IF PassesLeft(n) THEN BeginPass(n, "audit") /\ UNCHANGED <<seen, last>> ELSE Ends(n)
  /\ UNCHANGED <<local, remote, budget>>

(* provider_sync_checked.rs: the published index is audited, and HEAD and   *)
(* root must still be the reported ones.                                    *)
Unmoved(n) == rhead = head[n] /\ HeadIs(n, root[n]) /\ Root(rhead) \in rsnaps

ReportMoved(n) ==
  /\ pc[n] = "verify"
  /\ ~Unmoved(n)
  /\ Ends(n)
  /\ UNCHANGED <<local, remote, budget>>

Report(n) ==
  /\ pc[n] = "verify"
  /\ Unmoved(n)
  /\ Ends(n)
  /\ UNCHANGED <<local, remote, budget>>

-----------------------------------------------------------------------------
SyncStep(n) ==
  \/ ReadRemoteHead(n) \/ PlanAdopts(n) \/ PlanPulls(n) \/ PlanCommits(n)
  \/ ImportCommit(n) \/ ImportHead(n)
  \/ ClassifyInSync(n) \/ ClassifyPush(n) \/ ClassifyPull(n) \/ ClassifyRefuses(n)
  \/ UploadSnapshot(n) \/ UploadCommit(n) \/ UploadedAll(n)
  \/ RecheckSame(n) \/ RecheckMoved(n) \/ PutHead(n) \/ PutRefused(n)
  \/ ReadbackSame(n) \/ ReadbackMoved(n) \/ RestoreSnapshot(n)
  \/ ConfirmReads(n) \/ StatusConfirmed(n) \/ StatusAgain(n) \/ StatusGivesUp(n)
  \/ AuditSame(n) \/ AuditMoved(n) \/ ReportMoved(n) \/ Report(n)

Next ==
  \E n \in Nodes :
    \/ \E r \in Roots : Edit(n, r)
    \/ Start(n)
    \/ SyncStep(n)
    \/ Fails(n)
    \/ PutAnswerLost(n)

Spec == Init /\ [][Next]_vars

(* The daemon of every node polls for ever.                                 *)
Fairness == \A n \in Nodes : WF_vars(Start(n) \/ SyncStep(n))
FairSpec == Spec /\ Fairness

-----------------------------------------------------------------------------
Entries == [node : Nodes, root : Roots]
Commits == Seq(Entries)

TypeOK ==
  /\ root \in [Nodes -> Roots]
  /\ head \in [Nodes -> Commits] /\ seen \in [Nodes -> Commits]
  /\ known \in [Nodes -> SUBSET (Commits \ {None})]
  /\ rhead \in Commits
  /\ rcommits \subseteq Commits \ {None}
  /\ rsnaps \subseteq Roots
  /\ pc \in [Nodes -> Pcs]
  /\ action \in [Nodes -> Actions]
  /\ last \in [Nodes -> Actions]
  /\ pass \in [Nodes -> 0..MaxPasses]
  /\ edits \in 0..MaxEdits
  /\ failures \in 0..MaxFailures

RemoteIsPullable ==
  rhead # None => Lineage(rhead) \subseteq rcommits /\ Root(rhead) \in rsnaps

LocalHistoryWhole ==
  \A n \in Nodes : \A c \in known[n] \cup ({head[n]} \ {None}) : Lineage(c) \subseteq known[n]

(* Whatever crashed where, the provider's HEAD leads to a complete history  *)
(* and a complete snapshot, so that any node can pull it; and a node can    *)
(* walk its own history to the first commit, also after a crash in the      *)
(* middle of an import: is_ancestor and chain_to_ancestor stop at a gap.    *)
HistoriesWhole == TypeOK /\ RemoteIsPullable /\ LocalHistoryWhole

(* Where nobody prefers the local side and the provider has conditional     *)
(* puts, HEAD only moves to a descendant: no published commit is ever lost. *)
NothingUnpublished == [][rhead' # rhead => Ancestor(rhead, rhead')]_vars

(* A pull never replaces contents that are in no history: what the store    *)
(* held is committed, and unless the node prefers the remote side it is in  *)
(* the history that is pulled.                                              *)
PullKeepsEdits ==
  [][\A n \in Nodes : pc[n] = "restore" /\ RestoreSnapshot(n) =>
       \/ root[n] = EmptyRoot \/ root[n] = Root(seen[n])
       \/ HeadIs(n, root[n]) /\ (Policy[n] = "prefer-remote" \/ Ancestor(head[n], seen[n]))]_vars

(* When the stores rest and nothing fails any more, all nodes end up with   *)
(* the provider's HEAD and its contents.                                    *)
Agreed == \A n \in Nodes : head[n] = rhead /\ HeadIs(n, root[n])
Converges == <>[]Agreed
=============================================================================
