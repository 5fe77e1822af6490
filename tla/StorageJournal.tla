--------------------------- MODULE StorageJournal ---------------------------
(***************************************************************************)
(* The durable outbox between project-root Storage writes and Cloud Node,   *)
(* for one logical path: the writer's prepare / write / commit sequence     *)
(* under the path's file lock, and the Cloud Node pass that recovers,       *)
(* validates, ingests and acknowledges without that lock.  Every file       *)
(* access that another process can come between is a step of its own.       *)
(* Sources: storage-sync-journal/src/lib.rs, container-runtime-core's       *)
(* write_project_file, cloud-node's ingest_storage_journal.                 *)
(*                                                                          *)
(* The names of lock, pending and ready files are a hash of the logical     *)
(* path, so paths do not share state.  An intent is its content hash and    *)
(* its level; the creation time only makes more intents differ, as the      *)
(* level does.                                                              *)
(***************************************************************************)
EXTENDS Naturals

CONSTANTS
  Writers,    \* threads or processes that call storage.write
  Consumers,  \* Cloud Node processes (the daemon, an operator's sync)
  Contents,   \* what a write may store
  Levels,     \* Data-Levels
  None        \* no file, no intent

ASSUME LevelAssumption == Levels \subseteq 1..3
ASSUME NoneAssumption == None \notin Contents \cup Writers

Intents == [content : Contents, level : Levels]
ASSUME NoIntentAssumption == None \notin Intents

VARIABLES
  file,      \* the project file's content
  pending,   \* pending/<id>.json
  ready,     \* ready/<id>.json
  stored,    \* Cloud Node's current version of the object
  lock,      \* the writer that holds locks/<id>.lock
  wpc,       \* where each writer is
  mine,      \* its prepared intent
  cpc,       \* where each consumer is
  seen,      \* the intent it is working on
  promised   \* the write that produced `file` has returned success

disk   == <<file, pending, ready, stored>>
writer == <<lock, wpc, mine, promised>>
reader == <<cpc, seen>>
vars   == <<disk, writer, reader>>

WriterPcs   == {"idle", "locking", "staging", "writing", "publishing", "readying",
                "clearing", "cancelling"}
ConsumerPcs == {"idle", "matching", "promoting", "dropping", "unstaging", "scanning",
                "checking", "discarding", "storing", "rating", "skipping", "acking", "removing"}

Init ==
  /\ file = None
  /\ pending = None
  /\ ready = None
  /\ stored = [content |-> None, level |-> 2]
  /\ lock = None
  /\ wpc = [w \in Writers |-> "idle"]
  /\ mine = [w \in Writers |-> None]
  /\ cpc = [c \in Consumers |-> "idle"]
  /\ seen = [c \in Consumers |-> None]
  /\ promised = FALSE

SourceMatches(i) == file = i.content

-----------------------------------------------------------------------------
(* write_project_file.                                                      *)

WriterGoes(w, from, to) ==
  /\ wpc[w] = from
  /\ wpc' = [wpc EXCEPT ![w] = to]

(* The call returns or its process dies; either way the lock file closes.   *)
WriterLeaves(w) ==
  /\ wpc' = [wpc EXCEPT ![w] = "idle"]
  /\ mine' = [mine EXCEPT ![w] = None]
  /\ lock' = IF lock = w THEN None ELSE lock

(* prepare up to lock_exclusive.                                            *)
Prepare(w) ==
  /\ WriterGoes(w, "idle", "locking")
  /\ \E i \in Intents : mine' = [mine EXCEPT ![w] = i]
  /\ UNCHANGED <<disk, lock, promised, reader>>

LockIgnored == TRUE
LockFree == lock = None
LockExclusive(w) ==
  /\ LockFree
  /\ WriterGoes(w, "locking", "staging")
  /\ lock' = w
  /\ UNCHANGED <<disk, mine, promised, reader>>

Stage(w) ==
  /\ WriterGoes(w, "staging", "writing")
  /\ pending' = mine[w]
  /\ UNCHANGED <<file, ready, stored, lock, mine, promised, reader>>

WriteFile(w) ==
  /\ WriterGoes(w, "writing", "publishing")
  /\ file' = mine[w].content
  /\ promised' = FALSE
  /\ UNCHANGED <<pending, ready, stored, lock, mine, reader>>

WriteFileFails(w) ==
  /\ WriterGoes(w, "writing", "cancelling")
  /\ UNCHANGED <<disk, lock, mine, promised, reader>>

(* commit: false, reported as success, when pending is not this intent.     *)
CommitSuperseded(w) ==
  /\ wpc[w] = "publishing"
  /\ pending # mine[w]
  /\ WriterLeaves(w)
  /\ promised' = TRUE
  /\ UNCHANGED <<disk, reader>>

CommitCurrent(w) ==
  /\ pending = mine[w]
  /\ WriterGoes(w, "publishing", "readying")
  /\ UNCHANGED <<disk, lock, mine, promised, reader>>

CommitReady(w) ==
  /\ WriterGoes(w, "readying", "clearing")
  /\ ready' = mine[w]
  /\ UNCHANGED <<file, pending, stored, lock, mine, promised, reader>>

(* remove_if_same on pending.  While this writer holds the lock only a      *)
(* consumer can come between the comparison and the removal, and all it can *)
(* do is remove the same file, so the two are one step.                     *)
Cleared(w) == IF pending = mine[w] THEN None ELSE pending

CommitClears(w) ==
  /\ wpc[w] = "clearing"
  /\ pending' = Cleared(w)
  /\ WriterLeaves(w)
  /\ promised' = TRUE
  /\ UNCHANGED <<file, ready, stored, reader>>

(* cancel, and the call returns its error.                                  *)
Cancel(w) ==
  /\ wpc[w] = "cancelling"
  /\ pending' = Cleared(w)
  /\ WriterLeaves(w)
  /\ UNCHANGED <<file, ready, stored, promised, reader>>

(* A crash, or an i/o error that makes prepare or commit return early.      *)
WriterAborts(w) ==
  /\ wpc[w] # "idle"
  /\ WriterLeaves(w)
  /\ UNCHANGED <<disk, promised, reader>>

-----------------------------------------------------------------------------
(* ready_intents, then ingest_storage_journal.                              *)

ConsumerGoes(c, from, to) ==
  /\ cpc[c] = from
  /\ cpc' = [cpc EXCEPT ![c] = to]

ConsumerEnds(c) ==
  /\ cpc' = [cpc EXCEPT ![c] = "idle"]
  /\ seen' = [seen EXCEPT ![c] = None]

(* recover_pending reads a pending intent, or there is none.                *)
RecoverReads(c) ==
  /\ pending # None
  /\ ConsumerGoes(c, "idle", "matching")
  /\ seen' = [seen EXCEPT ![c] = pending]
  /\ UNCHANGED <<disk, writer>>

NothingPending(c) ==
  /\ pending = None
  /\ ConsumerGoes(c, "idle", "scanning")
  /\ UNCHANGED <<disk, writer, seen>>

RecoverMatches(c) ==
  /\ ConsumerGoes(c, "matching", IF SourceMatches(seen[c]) THEN "promoting" ELSE "dropping")
  /\ UNCHANGED <<disk, writer, seen>>

RecoverPromotes(c) ==
  /\ ConsumerGoes(c, "promoting", "dropping")
  /\ ready' = seen[c]
  /\ UNCHANGED <<file, pending, stored, writer, seen>>

(* remove_if_same: compare, then remove whatever is there.                  *)
RecoverCompares(c) ==
  /\ cpc[c] = "dropping"
  /\ \/ pending = seen[c] /\ ConsumerGoes(c, "dropping", "unstaging") /\ UNCHANGED seen
     \/ pending # seen[c] /\ ConsumerGoes(c, "dropping", "scanning")
                          /\ seen' = [seen EXCEPT ![c] = None]
  /\ UNCHANGED <<disk, writer>>

RecoverUnlinks(c) ==
  /\ ConsumerGoes(c, "unstaging", "scanning")
  /\ seen' = [seen EXCEPT ![c] = None]
  /\ pending' = None
  /\ UNCHANGED <<file, ready, stored, writer>>

ScanReads(c) ==
  /\ ready # None
  /\ ConsumerGoes(c, "scanning", "checking")
  /\ seen' = [seen EXCEPT ![c] = ready]
  /\ UNCHANGED <<disk, writer>>

ScanEmpty(c) ==
  /\ cpc[c] = "scanning"
  /\ ready = None
  /\ ConsumerEnds(c)
  /\ UNCHANGED <<disk, writer>>

AckBeforeStore(c) == IF SourceMatches(seen[c]) THEN "acking" ELSE "discarding"
DiscardAll(c) == "discarding"
AfterCheck(c) == IF SourceMatches(seen[c]) THEN "storing" ELSE "discarding"
ScanChecks(c) ==
  /\ ConsumerGoes(c, "checking", AfterCheck(c))
  /\ UNCHANGED <<disk, writer, seen>>

(* A ready entry that no longer describes the file is removed by name.      *)
ScanDiscards(c) ==
  /\ cpc[c] = "discarding"
  /\ ready' = None
  /\ ConsumerEnds(c)
  /\ UNCHANGED <<file, pending, stored, writer>>

(* store_file_with_priority stores the content as it is now, which need not *)
(* be the intent's any more, and then the intent's level.                   *)
AfterStore(c) == IF file = seen[c].content THEN "rating" ELSE "skipping"
StoreContent(c) ==
  /\ ConsumerGoes(c, "storing", AfterStore(c))
  /\ stored' = [stored EXCEPT !.content = file]
  /\ UNCHANGED <<file, pending, ready, writer, seen>>

StoredLevel(c) == seen[c].level
StoreLevel(c) ==
  /\ \/ ConsumerGoes(c, "rating", "acking") /\ UNCHANGED seen
     \/ cpc[c] = "skipping" /\ ConsumerEnds(c)
  /\ stored' = [stored EXCEPT !.level = StoredLevel(c)]
  /\ UNCHANGED <<file, pending, ready, writer>>

(* acknowledge: remove_if_same on ready.                                    *)
AckCompares(c) ==
  /\ cpc[c] = "acking"
  /\ \/ ready = seen[c] /\ ConsumerGoes(c, "acking", "removing") /\ UNCHANGED seen
     \/ ready # seen[c] /\ ConsumerEnds(c)
  /\ UNCHANGED <<disk, writer>>

AckRemoves(c) ==
  /\ cpc[c] = "removing"
  /\ ready' = None
  /\ ConsumerEnds(c)
  /\ UNCHANGED <<file, pending, stored, writer>>

(* A crash, an error that ends the pass, or the caller that only counts.    *)
ConsumerAborts(c) ==
  /\ cpc[c] # "idle"
  /\ ConsumerEnds(c)
  /\ UNCHANGED <<disk, writer>>

-----------------------------------------------------------------------------
WriterStep(w) ==
  \/ LockExclusive(w) \/ Stage(w) \/ WriteFile(w) \/ WriteFileFails(w)
  \/ CommitSuperseded(w) \/ CommitCurrent(w) \/ CommitReady(w)
  \/ CommitClears(w) \/ Cancel(w)

ConsumerStep(c) ==
  \/ RecoverReads(c) \/ NothingPending(c) \/ RecoverMatches(c) \/ RecoverPromotes(c)
  \/ RecoverCompares(c) \/ RecoverUnlinks(c)
  \/ ScanReads(c) \/ ScanEmpty(c) \/ ScanChecks(c) \/ ScanDiscards(c)
  \/ StoreContent(c) \/ StoreLevel(c) \/ AckCompares(c) \/ AckRemoves(c)

Next ==
  \/ \E w \in Writers : Prepare(w) \/ WriterStep(w) \/ WriterAborts(w)
  \/ \E c \in Consumers : ConsumerStep(c) \/ ConsumerAborts(c)

Spec == Init /\ [][Next]_vars

(* The passes that happen while no write is in progress: the boot           *)
(* synchronisation, which the backend waits for before it serves anything.  *)
NoOverlap ==
  \/ \A w \in Writers : wpc[w] = "idle"
  \/ \A c \in Consumers : cpc[c] = "idle"

SerialNext == Next /\ NoOverlap'
SerialSpec == Init /\ [][SerialNext]_vars

-----------------------------------------------------------------------------
TypeOK ==
  /\ file \in Contents \cup {None}
  /\ pending \in Intents \cup {None}
  /\ ready \in Intents \cup {None}
  /\ stored \in [content : Contents \cup {None}, level : 1..3]
  /\ lock \in Writers \cup {None}
  /\ wpc \in [Writers -> WriterPcs]
  /\ mine \in [Writers -> Intents \cup {None}]
  /\ cpc \in [Consumers -> ConsumerPcs]
  /\ seen \in [Consumers -> Intents \cup {None}]
  /\ promised \in BOOLEAN

(* From staging to publication the pending file holds the lock holder's     *)
(* intent or nothing: no other writer can have superseded it, so `commit`   *)
(* can only return false because a consumer removed the intent.             *)
StagedIsOurs ==
  \A w \in Writers :
    wpc[w] \in {"writing", "publishing", "readying", "clearing", "cancelling"}
      => lock = w /\ pending \in {mine[w], None}

Describes(i) == i # None /\ i.content = file

(* A file whose write returned success is in Cloud Node or is described by  *)
(* a pending or ready intent, so some later pass will ingest it; crashes of *)
(* writers and of passes included.                                          *)
NoWriteLost == promised => stored.content = file \/ Describes(ready) \/ Describes(pending)

(* The strengthenings.  A writer that is not idle has an intent, and holds  *)
(* the lock once it has it; what a consumer works on is an intent.          *)
LockedPcs == {"staging", "writing", "publishing", "readying", "clearing", "cancelling"}

HandsInv ==
  /\ \A w \in Writers : wpc[w] # "idle" => mine[w] \in Intents
  /\ \A w \in Writers : wpc[w] \in LockedPcs => lock = w
  /\ \A c \in Consumers : cpc[c] \notin {"idle", "scanning"} => seen[c] \in Intents

IInv == TypeOK /\ HandsInv /\ StagedIsOurs

(* With no overlap the staged intent is still there at commit, and during a *)
(* pass the file stands still, so what a consumer found out about it holds. *)
Kept == stored.content = file \/ Describes(ready)

WritersInv ==
  \A w \in Writers :
    /\ wpc[w] \in {"writing", "publishing", "readying", "clearing"} => pending = mine[w]
    /\ wpc[w] \in {"publishing", "readying", "clearing"} => file = mine[w].content
    /\ wpc[w] = "clearing" => ready = mine[w]

PassInv ==
  \A c \in Consumers :
    /\ cpc[c] = "promoting" => Describes(seen[c])
    /\ cpc[c] = "checking" /\ promised => stored.content = file \/ Describes(seen[c])
    /\ cpc[c] = "discarding" /\ promised => stored.content = file
    /\ cpc[c] \in {"rating", "acking", "removing"} => stored.content = file

SerialInv == IInv /\ NoOverlap /\ WritersInv /\ PassInv /\ (promised => Kept)
=============================================================================
