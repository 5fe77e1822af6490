---------------------------- MODULE VideoDownload ----------------------------
(***************************************************************************)
(* The download pipeline of the Video Manager: a job row and the files of  *)
(* its asset, driven by one worker through quarantine, inspection, FFprobe *)
(* and FFmpeg to a published variant, with the recovery scan that requeues *)
(* whatever an interrupted worker left.                                    *)
(* src/engine/crates/video-manager/src/lib.rs, worker.rs, pipeline.rs,     *)
(* download_worker.rs and normalization.rs                                 *)
(*                                                                         *)
(* One database.  A transaction is a step, every file operation is a step, *)
(* and the worker may die between any two.  Jobs are numbered by their     *)
(* created_at_ms.                                                          *)
(***************************************************************************)
EXTENDS Naturals, FiniteSets

CONSTANTS Jobs,       \* number of download requests
          MaxFaults   \* bound on deaths and on failing database or file calls

VARIABLES
  job, asset, variants,      \* the rows: job state, asset state, ready variants
  quarantine, staging, final, \* the files: "absent", "reserved", "partial", "whole"
  vetted,       \* history: checks passed by the bytes now in quarantine
  wpc, cur,     \* the worker's step and its job
  todo,         \* requeued jobs whose artifacts are still to be removed
  scan,         \* recovery_required
  recovered,    \* the database is in recovered_databases
  notified,     \* the permit of work_notify
  faults

rows == <<job, asset, variants>>
files == <<quarantine, staging, final>>
worker == <<wpc, cur, todo, scan, recovered>>
vars == <<rows, files, vetted, worker, notified, faults>>

Ids == 1 .. Jobs

Init ==
  /\ job = [j \in Ids |-> "none"] /\ asset = [j \in Ids |-> "none"]
  /\ variants = [j \in Ids |-> 0] /\ vetted = [j \in Ids |-> 0]
  /\ quarantine = [j \in Ids |-> "absent"] /\ staging = [j \in Ids |-> "absent"]
  /\ final = [j \in Ids |-> "absent"]
  /\ wpc = "down" /\ cur = 1 /\ todo = {} /\ scan = FALSE /\ recovered = FALSE
  /\ notified = FALSE /\ faults = 0

Fault == faults < MaxFaults /\ faults' = faults + 1

Set(f, v) == [f EXCEPT ![cur] = v]
-----------------------------------------------------------------------------
(* queue_download. *)

Reserve(j) ==
  /\ job[j] = "none" /\ job' = [job EXCEPT ![j] = "reserving"]
  /\ quarantine' = [quarantine EXCEPT ![j] = "reserved"]
  /\ UNCHANGED <<asset, variants, staging, final, vetted, worker, notified, faults>>

\* Asset and job in one transaction, or the reservation is removed.
Insert(j) ==
  /\ job[j] = "reserving"
  /\ \/ /\ job' = [job EXCEPT ![j] = "queued"]
        /\ asset' = [asset EXCEPT ![j] = "quarantined"]
        /\ notified' = TRUE /\ UNCHANGED <<quarantine, faults>>
     \/ /\ Fault /\ job' = [job EXCEPT ![j] = "refused"]
        /\ quarantine' = [quarantine EXCEPT ![j] = "absent"]
        /\ UNCHANGED <<asset, notified>>
  /\ UNCHANGED <<variants, staging, final, vetted, worker>>
-----------------------------------------------------------------------------
(* run_download_worker_loop. *)

Go(from, to) == wpc = from /\ wpc' = to

Start ==
  /\ Go("down", "loop") /\ scan' = TRUE /\ recovered' = FALSE /\ todo' = {}
  /\ UNCHANGED <<rows, files, vetted, cur, notified, faults>>

\* A scan that also takes what was published.
IncompleteOrReady ==
  {j \in Ids : job[j] \notin {"none", "reserving", "refused", "queued", "failed"}}

\* The states a worker can leave a job in.
Incomplete ==
  {j \in Ids : job[j] \in {"downloading", "downloaded", "inspecting", "container_checked",
                           "probing", "probed", "normalizing"}}

\* recover_incomplete_downloads of the database: one transaction.
Recover ==
  /\ wpc = "loop"
  /\ \/ ~scan /\ wpc' = "pick" /\ UNCHANGED <<job, todo, scan, recovered, faults>>
     \/ /\ scan /\ wpc' = "clean" /\ todo' = Incomplete
        /\ job' = [j \in Ids |-> IF j \in Incomplete THEN "queued" ELSE job[j]]
        /\ UNCHANGED <<scan, recovered, faults>>
     \/ /\ scan /\ Fault /\ wpc' = "pick" /\ scan' = FALSE /\ recovered' = FALSE
        /\ UNCHANGED <<job, todo>>
  /\ UNCHANGED <<asset, variants, files, vetted, cur, notified>>

\* cleanup_recovered_download_artifacts, job by job; one that cannot be cleaned
\* fails, and if that cannot be recorded the scan is given up.
Clean ==
  /\ wpc = "clean" /\ todo # {}
  /\ \E j \in todo :
       \/ /\ staging' = [staging EXCEPT ![j] = "absent"]
          /\ final' = [final EXCEPT ![j] = "absent"] /\ todo' = todo \ {j}
          /\ UNCHANGED <<job, wpc, scan, recovered, faults>>
       \/ /\ Fault /\ job' = [job EXCEPT ![j] = "failed"] /\ todo' = todo \ {j}
          /\ UNCHANGED <<staging, final, wpc, scan, recovered>>
       \/ /\ Fault /\ wpc' = "pick" /\ scan' = FALSE /\ recovered' = FALSE /\ todo' = {}
          /\ UNCHANGED <<job, staging, final>>
  /\ UNCHANGED <<asset, variants, quarantine, vetted, cur, notified>>

\* notify_one if any job was cleaned.
Cleaned ==
  /\ todo = {} /\ Go("clean", "pick") /\ recovered' = TRUE /\ scan' = FALSE
  /\ notified' \in {notified, TRUE}
  /\ UNCHANGED <<rows, files, vetted, cur, todo, faults>>

Queued == {j \in Ids : job[j] = "queued"}

\* next_queued_download: the oldest, of a recovered database only.
Pick ==
  /\ \/ /\ Go("pick", "claim") /\ recovered /\ UNCHANGED faults
        /\ cur' \in {j \in Queued : \A k \in Queued : j <= k}
     \/ /\ Go("pick", "wait") /\ UNCHANGED cur
        /\ IF recovered /\ Queued # {} THEN Fault ELSE UNCHANGED faults
  /\ UNCHANGED <<rows, files, vetted, todo, scan, recovered, notified>>

\* A worker that scans only when it starts.
NeverDue == FALSE

\* next_recovery_at passes.
ScanDue == wpc \in {"loop", "wait"}

Tick ==
  /\ ScanDue /\ ~scan /\ scan' = TRUE
  /\ UNCHANGED <<rows, files, vetted, wpc, cur, todo, recovered, notified, faults>>

Wake ==
  /\ Go("wait", "loop") /\ (notified \/ scan) /\ notified' = FALSE
  /\ UNCHANGED <<rows, files, vetted, cur, todo, scan, recovered, faults>>
-----------------------------------------------------------------------------
(* process_queued_download. *)

\* update_job or transition_job, which may fail and end the pipeline there.
Records(from, to, state) ==
  /\ \/ Go(from, to) /\ job' = Set(job, state) /\ UNCHANGED faults
     \/ Go(from, "loop") /\ Fault /\ UNCHANGED job
  /\ UNCHANGED <<asset, variants, files, vetted, cur, todo, scan, recovered, notified>>

\* claim_job and the transition to normalizing; a second update writes the progress
\* and may fail on its own.
RecordsTwice(from, to, state) ==
  \/ Records(from, to, state)
  \/ /\ Go(from, "loop") /\ Fault /\ job' = Set(job, state)
     /\ UNCHANGED <<asset, variants, files, vetted, cur, todo, scan, recovered, notified>>

\* An error removes the quarantined bytes before it is recorded.
Rejects(from) == Go(from, "fail") /\ quarantine' = Set(quarantine, "absent")

\* open_reserved_quarantine: a file that was removed is not created again.
Open ==
  /\ \/ /\ quarantine[cur] # "absent" /\ Go("open", "fetch")
        /\ quarantine' = Set(quarantine, "partial") /\ vetted' = Set(vetted, 0)
     \/ Rejects("open") /\ UNCHANGED vetted
  /\ UNCHANGED <<rows, staging, final, cur, todo, scan, recovered, notified, faults>>

Fetch ==
  /\ \/ Go("fetch", "fetched") /\ quarantine' = Set(quarantine, "whole")
     \/ Rejects("fetch")
  /\ UNCHANGED <<rows, staging, final, vetted, cur, todo, scan, recovered, notified, faults>>

\* probe_quarantine_container and run_ffprobe.
Vets(from, to) ==
  /\ \/ Go(from, to) /\ vetted' = Set(vetted, vetted[cur] + 1) /\ UNCHANGED quarantine
     \/ Rejects(from) /\ UNCHANGED vetted
  /\ UNCHANGED <<rows, staging, final, cur, todo, scan, recovered, notified, faults>>

\* normalized_paths: outputs that exist end the pipeline without a record.
Paths ==
  /\ Go("paths", IF staging[cur] = "absent" /\ final[cur] = "absent"
                   THEN "normalize" ELSE "loop")
  /\ UNCHANGED <<rows, files, vetted, cur, todo, scan, recovered, notified, faults>>

\* run_ffmpeg_normalize.
Encode ==
  /\ \/ Go("encode", "encoded") /\ staging' = Set(staging, "partial")
     \/ Go("encoded", "promote") /\ staging' = Set(staging, "whole")
     \/ Go("encoded", "fail") /\ staging' = Set(staging, "absent")
  /\ UNCHANGED <<rows, quarantine, final, vetted, cur, todo, scan, recovered, notified, faults>>

\* promote_normalized_output: a hard link, or an exclusive copy; the error paths
\* remove what they made.
Promote ==
  /\ \/ /\ Go("promote", "unlink") /\ final[cur] = "absent"
        /\ final' = Set(final, staging[cur]) /\ UNCHANGED <<staging, faults>>
     \/ /\ Go("promote", "copy") /\ final[cur] = "absent"
        /\ final' = Set(final, "partial") /\ UNCHANGED <<staging, faults>>
     \/ Go("copy", "unlink") /\ final' = Set(final, staging[cur]) /\ UNCHANGED <<staging, faults>>
     \/ /\ Fault /\ wpc \in {"copy", "unlink"} /\ wpc' = "fail"
        /\ final' = Set(final, "absent") /\ staging' = Set(staging, "absent")
     \/ Go("unlink", "commit") /\ staging' = Set(staging, "absent") /\ UNCHANGED <<final, faults>>
  /\ UNCHANGED <<rows, quarantine, vetted, cur, todo, scan, recovered, notified>>

\* commit_ready_variant: variant, asset and job in one transaction.
Commit ==
  /\ \/ /\ Go("commit", "discard") /\ job[cur] = "normalizing" /\ asset[cur] = "quarantined"
        /\ job' = Set(job, "ready") /\ asset' = Set(asset, "ready")
        /\ variants' = Set(variants, variants[cur] + 1) /\ UNCHANGED <<final, faults>>
     \/ /\ Go("commit", "fail") /\ Fault /\ final' = Set(final, "absent")
        /\ UNCHANGED rows
  /\ UNCHANGED <<quarantine, staging, vetted, cur, todo, scan, recovered, notified>>

Discard ==
  /\ Go("discard", "loop") /\ quarantine' = Set(quarantine, "absent")
  /\ UNCHANGED <<rows, staging, final, vetted, cur, todo, scan, recovered, notified, faults>>

Pipeline ==
  \/ RecordsTwice("claim", "open", "downloading") \/ Open \/ Fetch \/ Records("fetched", "inspect", "downloaded")
  \/ Records("inspect", "sniff", "inspecting") \/ Vets("sniff", "sniffed")
  \/ Records("sniffed", "probe", "container_checked")
  \/ Records("probe", "probing", "probing") \/ Vets("probing", "probed")
  \/ Records("probed", "paths", "probed") \/ Paths
  \/ RecordsTwice("normalize", "encode", "normalizing") \/ Encode \/ Promote
  \/ Commit \/ Discard \/ Records("fail", "loop", "failed")

\* The worker panics, is aborted at shutdown or dies with the backend, which takes
\* the calls of queue_download with it.
Crash ==
  /\ wpc # "down" /\ Fault /\ wpc' = "down" /\ todo' = {} /\ notified' \in {FALSE, notified}
  /\ \/ UNCHANGED job
     \/ job' = [j \in Ids |-> IF job[j] = "reserving" THEN "refused" ELSE job[j]]
  /\ UNCHANGED <<asset, variants, files, vetted, cur, scan, recovered>>
-----------------------------------------------------------------------------
WorkerStep == Start \/ Recover \/ Clean \/ Cleaned \/ Pick \/ Wake \/ Pipeline

Next ==
  \/ \E j \in Ids : Reserve(j) \/ Insert(j)
  \/ WorkerStep \/ Tick \/ Crash

\* The supervisor restarts the worker, every call of the pipeline has a timeout,
\* and the clock passes.
Fairness == WF_vars(WorkerStep) /\ WF_vars(Tick)

Spec == Init /\ [][Next]_vars /\ Fairness
-----------------------------------------------------------------------------
JobStates == {"none", "reserving", "refused", "queued", "downloading", "downloaded",
              "inspecting", "container_checked", "probing", "probed", "normalizing",
              "ready", "failed"}
FileStates == {"absent", "reserved", "partial", "whole"}

TypeOK ==
  /\ job \in [Ids -> JobStates] /\ asset \in [Ids -> {"none", "quarantined", "ready"}]
  /\ variants \in [Ids -> 0 .. 1] /\ vetted \in [Ids -> 0 .. 2]
  /\ quarantine \in [Ids -> FileStates] /\ staging \in [Ids -> FileStates]
  /\ final \in [Ids -> FileStates]
  /\ cur \in Ids /\ todo \subseteq Ids
  /\ scan \in BOOLEAN /\ recovered \in BOOLEAN /\ notified \in BOOLEAN
  /\ faults \in 0 .. MaxFaults

(***************************************************************************)
(* What is published is whole and vetted: an asset is ready exactly when   *)
(* its job is, then it has one variant whose file is complete and was made *)
(* from bytes that passed both checks; and no job counts as checked or     *)
(* probed on the strength of bytes that an earlier, interrupted attempt    *)
(* downloaded.                                                             *)
(***************************************************************************)
MediaSafe ==
  \A j \in Ids :
    /\ (asset[j] = "ready") = (job[j] = "ready")
    /\ job[j] = "ready" => final[j] = "whole" /\ variants[j] = 1
    /\ job[j] \in {"container_checked", "probing"} => vetted[j] >= 1
    /\ job[j] \in {"probed", "normalizing", "ready"} => vetted[j] = 2

(***************************************************************************)
(* Every queued download ends ready or failed, whatever interrupted the    *)
(* worker: also a job whose artifacts were left behind by a scan that died *)
(* after its transaction, which only a later scan can get past             *)
(* normalized_paths.                                                       *)
(***************************************************************************)
JobsResolve == \A j \in Ids : job[j] = "queued" ~> job[j] \in {"ready", "failed"}
=============================================================================
