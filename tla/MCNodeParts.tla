----------------------------- MODULE MCNodeParts -----------------------------
(***************************************************************************)
(* The recovery of a Cloud Node from a peer, the replacement of its        *)
(* registry, the directory it watches and the two halves of the Video      *)
(* Manager, which share no state, checked in one run: `subject` is chosen  *)
(* in the initial state and only the steps of that part are taken.         *)
(***************************************************************************)
EXTENDS PeerRecovery

CONSTANTS
  Downloads,                      \* VideoDownload: requests
  LiveSessions, Asked, Retries,   \* VideoLive
  RegistryPaths, Exports,         \* RegistryIngest
  WatchedPaths, WatchedTemps, Windows,   \* LocalSync
  MediaFaults, LiveFaults, IngestFaults, SyncFaults, MaxEdits   \* their bounds

ASSUME PartsAssumption ==
  /\ Downloads \in Nat \ {0}
  /\ Asked \subseteq LiveSessions /\ Retries \in Nat \ (0 .. 3)
  /\ 0 \notin DOMAIN Exports /\ \A e \in DOMAIN Exports : Exports[e] \subseteq RegistryPaths
  /\ WatchedPaths \cap WatchedTemps = {} /\ Windows \in BOOLEAN
  /\ {MediaFaults, LiveFaults, IngestFaults, SyncFaults, MaxEdits} \subseteq Nat

VARIABLES
  subject,
  job, asset, variants, quarantine, assembled, final, vetted, videoPc, videoJob, uncleaned,
  scan, recovered, notified, videoFaults,
  session, endPc, lastSeen, attempt, livePc, active, resources, claimed, shutdown,
  noticed, liveFaults,
  present, stripped, marker, ingestPc, export, before, unstored, scanPc, scanned, unread,
  disturbed, ingestFaults,
  dir, mirror, remote, unreadable, husks, head, ours, theirs, policy, syncPc, after, boot, moved,
  fill, listed, want, unwritten, touched, late, torn, edits, syncFaults

Video == INSTANCE VideoDownload
           WITH Jobs <- Downloads, MaxFaults <- MediaFaults, staging <- assembled, wpc <- videoPc,
                cur <- videoJob, todo <- uncleaned, faults <- videoFaults
Live == INSTANCE VideoLive
          WITH Sessions <- LiveSessions, MaxFaults <- LiveFaults,
               state <- session, epc <- endPc, seen <- lastSeen, cpc <- livePc,
               faults <- liveFaults
Registry == INSTANCE RegistryIngest
              WITH Paths <- RegistryPaths, MaxFaults <- IngestFaults,
                   active <- present, unreadable <- stripped, ipc <- ingestPc, todo <- unstored,
                   spc <- scanPc, seen <- scanned, left <- unread, faults <- ingestFaults
Watched == INSTANCE LocalSync
             WITH Paths <- WatchedPaths, Temps <- WatchedTemps, MaxFaults <- SyncFaults,
                  store <- mirror, pc <- syncPc, scanned <- listed, todo <- unwritten,
                  faults <- syncFaults

videoVars == <<job, asset, variants, quarantine, assembled, final, vetted, videoPc, videoJob,
               uncleaned, scan, recovered, notified, videoFaults>>
liveVars == <<session, endPc, lastSeen, attempt, livePc, active, resources, claimed,
              shutdown, noticed, liveFaults>>
registryVars == <<present, stripped, marker, ingestPc, export, before, unstored, scanPc, scanned,
                  unread, disturbed, ingestFaults>>
watchedVars == <<dir, mirror, remote, unreadable, husks, head, ours, theirs, policy, syncPc,
                 after, boot, moved, fill, listed, want, unwritten, touched, late, torn, edits,
                 syncFaults>>
partsVars == <<subject, vars, videoVars, liveVars, registryVars, watchedVars>>

PartsInit ==
  /\ subject \in {"peer", "video", "live", "registry", "watched"}
  /\ Init /\ Video!Init /\ Live!Init /\ Registry!Init /\ Watched!Init
  /\ subject # "peer" => local = Last
  /\ subject # "watched" => policy = "fail" /\ theirs = FALSE

PartsNext ==
  /\ \/ /\ subject = "peer" /\ Next
        /\ UNCHANGED <<videoVars, liveVars, registryVars, watchedVars>>
     \/ /\ subject = "video" /\ Video!Next
        /\ UNCHANGED <<vars, liveVars, registryVars, watchedVars>>
     \/ /\ subject = "live" /\ Live!Next
        /\ UNCHANGED <<vars, videoVars, registryVars, watchedVars>>
     \/ /\ subject = "registry" /\ Registry!Next
        /\ UNCHANGED <<vars, videoVars, liveVars, watchedVars>>
     \/ /\ subject = "watched" /\ Watched!Next
        /\ UNCHANGED <<vars, videoVars, liveVars, registryVars>>
  /\ UNCHANGED subject
\* Two exports that share one of their paths.
TwoExports == <<{1, 2}, {1, 3}>>
-----------------------------------------------------------------------------
\* Every part's own fairness, while it is the subject; each module says what
\* justifies it.
Moves(s, step) == subject = s /\ step

PartsFairness ==
  /\ WF_vars(Moves("peer", ClientStep)) /\ WF_vars(Moves("peer", Handle))
  /\ WF_vars(Moves("peer", SwapStep)) /\ WF_vars(Moves("peer", Reopen))
  /\ WF_videoVars(Moves("video", Video!WorkerStep)) /\ WF_videoVars(Moves("video", Video!Tick))
  /\ WF_liveVars(Moves("live", Live!CoordinatorStep))
  /\ WF_registryVars(Moves("registry", Registry!IngestStep))
  /\ WF_registryVars(Moves("registry", marker /\ \E e \in DOMAIN Exports : Registry!Validate(e)))
  /\ WF_watchedVars(Moves("watched", Watched!CycleStep))
  /\ WF_watchedVars(Moves("watched", \E b \in BOOLEAN : Watched!Begin(b)))

PartsSpec == PartsInit /\ [][PartsNext]_partsVars /\ PartsFairness
-----------------------------------------------------------------------------
(* VideoDownload: what is published is whole, vetted and published once.     *)
(* VideoLive: no start over what an earlier run left, one open session of an *)
(* asset, and no end request is dropped.                                     *)
MediaSafe ==
  /\ Video!TypeOK /\ Video!MediaSafe
  /\ Live!TypeOK /\ Live!LiveSafe

(* RegistryIngest: without the marker the registry is one export as a whole. *)
(* The type of LocalSync's variables rides along.                            *)
RegistryIsWhole == Registry!TypeOK /\ Registry!RegistryIsWhole /\ Watched!TypeOK

(* LocalSync: the node takes over only what users changed, and overwrites    *)
(* nothing they wrote before it looked.                                      *)
LocalSyncSafe == [][Watched!OnlyEditsTravel /\ Watched!EditsKept]_watchedVars

(* Something always comes of it.  PeerRecovery: when edits and faults stop,  *)
(* the peers agree.  VideoDownload: every queued download ends ready or      *)
(* failed.  VideoLive: a reservation gets its runtime and a shutdown ends    *)
(* the coordinator.  RegistryIngest: an interrupted replacement is completed *)
(* when run again.  LocalSync: directory, store and provider agree.          *)
PartsSettle ==
  /\ subject = "peer" => Replicated
  /\ subject = "video" => Video!JobsResolve
  /\ subject = "live" => Live!LiveSettles
  /\ subject = "registry" => Registry!RegistryReturns
  /\ subject = "watched" => Watched!LocalSettles
=============================================================================
