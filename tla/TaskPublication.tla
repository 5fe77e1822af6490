-------------------------- MODULE TaskPublication --------------------------
(***************************************************************************)
(* What a booting backend does to the two indexes that name Container      *)
(* Tasks: the OID index, whose file the Vault attests by a trusted head,   *)
(* and the Container Task index over content-addressed images.  A boot     *)
(* opens the OID index (or creates a fresh one), completes an interrupted  *)
(* publication, links native Services, and publishes the Tasks of the      *)
(* compiled image through an intent (index.pending-txn); the Container     *)
(* then loads that image's table.  The project root is the directory of    *)
(* the binary; boots do not overlap (the OID lease).  No caller retires an *)
(* image, so the Container's collection of retired images never has work   *)
(* and the publication lock has one user; both are left out.               *)
(***************************************************************************)
EXTENDS Naturals, FiniteSets

CONSTANTS
  Images,       \* Runtime Images the project's sources compile to
  Native,       \* the native symbols of an image, numbered in canonical order
  TaskIds,      \* its Container Tasks, numbered likewise
  LastOid,      \* OID_REL_START .. OID_REL_END is 1 .. LastOid
  MaxEdits,     \* bound: how often the sources change
  MaxCrashes    \* bound: crashes and failing Vault calls

VARIABLES
  oidIndex,     \* .cache/compiler/oid/index: generation and linked bindings
  trusted,      \* the Vault's trusted head is the digest of that file
  ctiIndex,     \* .cache/compiler/container/index, a set of entries
  images,       \* the image files beside it, named by their digest
  intent,       \* index.pending-txn
  stage,        \* where the boot is
  image,        \* the image compiled from the sources
  edits, crashes

vars == <<oidIndex, trusted, ctiIndex, images, intent, stage, image, edits, crashes>>
disk == <<oidIndex, trusted, ctiIndex, images, intent>>
bounds == <<image, edits, crashes>>

NoIndex == [gen |-> 0, rel |-> [i \in {} |-> 0]]
NoIntent == [old |-> NoIndex, new |-> NoIndex, index |-> {}]
Fresh == [NoIndex EXCEPT !.gen = 1]

AllTasks == UNION {TaskIds[i] : i \in Images}
-----------------------------------------------------------------------------
\* Hole-first allocation: the k-th of the ids without an OID, in their order,
\* takes the k-th OID that is free.
Allocate(kept, ids) ==
  LET new  == ids \ DOMAIN kept
      free == (1 .. LastOid) \ {kept[i] : i \in DOMAIN kept}
      Rank(x, S) == Cardinality({y \in S : y < x})
  IN  [i \in ids |-> IF i \in DOMAIN kept THEN kept[i]
                     ELSE CHOOSE o \in free : Rank(o, free) = Rank(i, new)]

Rebind(index, rel) ==
  IF rel = index.rel THEN index ELSE [gen |-> index.gen + 1, rel |-> rel]

Keep(rel, ids) == [i \in ids \cap DOMAIN rel |-> rel[i]]

\* reconcile_rel_index: the bindings become those of the native symbols, and
\* whatever else was bound, Tasks included, is dropped.
Linked == Rebind(oidIndex, Allocate(Keep(oidIndex.rel, Native[image]), Native[image]))

\* reconcile_task_oids: bindings that are no Task's stay, Tasks that are not
\* wanted go, and wanted ones keep their OID or take a free one.
Reconciled ==
  LET others == DOMAIN oidIndex.rel \ AllTasks
      kept   == Keep(oidIndex.rel, others \cup TaskIds[image])
  IN  Rebind(oidIndex, Allocate(kept, others \cup TaskIds[image]))

\* The index entry of a Task, and the image it names: the image's digest, the
\* Task's OID and meaning, and the OIDs of the native symbols it calls.
Entry(i, t, rel) == [image |-> i, oid |-> rel[t], task |-> t, links |-> Keep(rel, Native[i])]

Built == {Entry(image, t, Reconciled.rel) : t \in TaskIds[image]}

\* The Container index with this image's entries replaced.
Staged == {e \in ctiIndex : e.image # image} \cup Built
-----------------------------------------------------------------------------
\* write_index of the OID cache: the sealed file, then the Vault's head.
WriteSealed(from, index, to) ==
  /\ stage = from
  /\ oidIndex' = index /\ trusted' = FALSE /\ stage' = to
  /\ UNCHANGED <<ctiIndex, images, intent, bounds>>

SetTrustedHead(from, to) ==
  /\ stage = from
  /\ trusted' = TRUE /\ stage' = to
  /\ UNCHANGED <<oidIndex, ctiIndex, images, intent, bounds>>

Go(from, to) == stage = from /\ stage' = to /\ UNCHANGED <<disk, bounds>>

\* open_service_oid_cache_with_vault: a file the head does not vouch for is a
\* recoverable error; the cache is cleared and opened again as a fresh one.
OpenOid ==
  \/ trusted /\ Go("open", "recover")
  \/ /\ ~trusted /\ stage = "open"
     /\ oidIndex' = NoIndex /\ stage' = "create"
     /\ UNCHANGED <<trusted, ctiIndex, images, intent, bounds>>

CreateFresh ==
  \/ WriteSealed("create", Fresh, "created")
  \/ SetTrustedHead("created", "recover")

\* recover_container_task_publication: roll forward when the OID index is the
\* new one, provided every image is there; discard when it is the old one; and
\* refuse anything else, which ends the boot.
RollsForward == oidIndex = intent.new /\ intent.index \subseteq images
Discards == oidIndex # intent.new /\ oidIndex = intent.old

\* A recovery that trusts the Container index to have been written.
KeepsCti == ctiIndex
RecoveredCti == IF RollsForward THEN intent.index ELSE ctiIndex

Recover(from, clear, done) ==
  \/ intent = NoIntent /\ Go(from, done)
  \/ /\ stage = from /\ intent # NoIntent /\ (RollsForward \/ Discards)
     /\ ctiIndex' = RecoveredCti /\ stage' = clear
     /\ UNCHANGED <<oidIndex, trusted, images, intent, bounds>>
  \/ intent # NoIntent /\ ~RollsForward /\ ~Discards /\ Go(from, "down")

ClearIntent(from, done) ==
  /\ stage = from
  /\ intent' = NoIntent /\ stage' = done
  /\ UNCHANGED <<oidIndex, trusted, ctiIndex, images, bounds>>

\* prepare_core_oid_cache: recovery, then the core records and the index again.
PrepareCore ==
  \/ Recover("recover", "clear", "persist")
  \/ ClearIntent("clear", "persist")
  \/ WriteSealed("persist", oidIndex, "persisted")
  \/ SetTrustedHead("persisted", "link")

\* prepare_native_service_cutover; the index is written even if unchanged.
LinkNative ==
  \/ Native[image] = {} /\ Go("link", "assemble")
  \/ Native[image] # {} /\ WriteSealed("link", Linked, "linked")
  \/ SetTrustedHead("linked", "assemble")

\* assemble_container_task_cache.  Its first recovery finds nothing: the boot
\* has just completed what was pending.
StageImage ==
  /\ stage = "assemble"
  /\ \E e \in Built \ images : images' = images \cup {e}
  /\ UNCHANGED <<oidIndex, trusted, ctiIndex, intent, stage, bounds>>

WriteIntent ==
  /\ stage = "assemble" /\ Built \subseteq images
  /\ IF TaskIds[image] = {} \/ (Reconciled = oidIndex /\ Staged = ctiIndex)
     THEN stage' = "activate" /\ UNCHANGED intent
     ELSE /\ intent' = [old |-> oidIndex, new |-> Reconciled, index |-> Staged]
          /\ stage' = IF Reconciled = oidIndex THEN "publish" ELSE "replace"
  /\ UNCHANGED <<oidIndex, trusted, ctiIndex, images, bounds>>

ReplaceOid ==
  \/ WriteSealed("replace", intent.new, "replaced")
  \/ SetTrustedHead("replaced", "publish")

Publish ==
  /\ stage = "publish"
  /\ ctiIndex' = intent.index /\ stage' = "finish"
  /\ UNCHANGED <<oidIndex, trusted, images, intent, bounds>>

Finish ==
  \/ Recover("finish", "finished", "activate")
  \/ ClearIntent("finished", "activate")

\* load_runtime_image: no publication is pending, the image has entries, and
\* the file of each one is there.
Table(i) == {e \in ctiIndex : e.image = i}
Loads(i) == intent = NoIntent /\ Table(i) # {} /\ Table(i) \subseteq images

\* ActivateTaskImage; the backend compares the number of Tasks with its own.
Activate ==
  LET ok == \/ TaskIds[image] = {}
            \/ Loads(image) /\ Cardinality(Table(image)) = Cardinality(TaskIds[image])
  IN  Go("activate", IF ok THEN "up" ELSE "down")
-----------------------------------------------------------------------------
Boot == Go("down", "open")

Edit ==
  /\ stage \in {"down", "up"} /\ edits < MaxEdits
  /\ image' \in Images \ {image} /\ edits' = edits + 1 /\ stage' = "down"
  /\ UNCHANGED <<disk, crashes>>

\* The process dies, or a call of the Vault fails and the boot with it.
Crash ==
  /\ stage # "down" /\ crashes < MaxCrashes
  /\ crashes' = crashes + 1 /\ stage' = "down"
  /\ UNCHANGED <<disk, image, edits>>

Init ==
  /\ oidIndex = NoIndex /\ trusted = FALSE /\ ctiIndex = {} /\ images = {}
  /\ intent = NoIntent /\ stage = "down" /\ image \in Images
  /\ edits = 0 /\ crashes = 0

BootStep ==
  \/ Boot \/ OpenOid \/ CreateFresh \/ PrepareCore \/ LinkNative
  \/ StageImage \/ WriteIntent \/ ReplaceOid \/ Publish \/ Finish \/ Activate

Next == BootStep \/ Edit \/ Crash

\* The operator, or the service manager of the host, starts the backend again,
\* and a boot runs straight through.
Spec == Init /\ [][Next]_vars /\ WF_vars(BootStep)
-----------------------------------------------------------------------------
(* The type of the two indexes, the intent and the boot.                     *)
TypeOK ==
  /\ oidIndex.gen \in Nat /\ \A i \in DOMAIN oidIndex.rel : oidIndex.rel[i] \in 1 .. LastOid
  /\ trusted \in BOOLEAN /\ image \in Images
  /\ \A e \in ctiIndex \cup images \cup intent.index :
       e.image \in Images /\ e.task \in TaskIds[e.image] /\ e.oid \in 1 .. LastOid
  /\ stage \in {"down", "open", "create", "created", "recover", "clear", "persist",
                "persisted", "link", "linked", "assemble", "replace", "replaced",
                "publish", "finish", "finished", "activate", "up"}

(* container_task_assembly.rs: wherever a boot stops, the Container index    *)
(* names only images that are there; unless a publication is pending, the    *)
(* Tasks the OID index binds are those of one image, linked against the OIDs *)
(* now bound; and when the backend serves, a Container that loads the image  *)
(* afresh finds exactly its Tasks, none sharing an OID with another symbol.  *)
TasksHaveImages ==
  /\ ctiIndex \subseteq images
  /\ intent = NoIntent =>
       \E i \in Images : \A t \in AllTasks \cap DOMAIN oidIndex.rel :
         Entry(i, t, oidIndex.rel) \in ctiIndex
  /\ stage = "up" /\ TaskIds[image] # {} =>
       Loads(image) /\ Table(image) = {Entry(image, t, oidIndex.rel) : t \in TaskIds[image]}
  /\ \A s, t \in DOMAIN oidIndex.rel : oidIndex.rel[s] = oidIndex.rel[t] => s = t

\* A pending intent that belongs to an OID index which no longer exists.
Stranded ==
  intent # NoIntent /\ oidIndex = Fresh /\ Fresh \notin {intent.old, intent.new}

(* prepare_core_oid_cache: a backend that is down comes up when it is        *)
(* started often enough, unless the OID index was rebuilt under a pending    *)
(* publication: then every boot refuses to recover.                          *)
BootsComplete == stage # "up" ~> (stage = "up" \/ Stranded)
=============================================================================
