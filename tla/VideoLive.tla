------------------------------ MODULE VideoLive ------------------------------
(***************************************************************************)
(* Live sessions of the Video Manager: their compare-and-swap life cycle,  *)
(* requests to end one, and the coordinator that starts the media runtime  *)
(* on demand and stops it when idle.                                       *)
(* src/engine/crates/video-manager/src/live.rs, live_runtime.rs, lib.rs    *)
(*                                                                         *)
(* Sessions of one asset.  The driver (RTMP, WHIP, ...) is external: start *)
(* may fail or time out and leave resources behind, stop is idempotent and *)
(* leaves none when it succeeds, and sessions advance while it runs.       *)
(***************************************************************************)
EXTENDS Naturals, FiniteSets

CONSTANTS Sessions,   \* reservations, in whatever order
          Asked,      \* the sessions that somebody asks to end
          Retries,    \* LIVE_END_TRANSITION_RETRIES
          MaxFaults   \* bound on failing stops and on failing demand queries

VARIABLES
  state,              \* of a session
  epc, seen, attempt, \* request_end_live_session: step, state read, attempt
  cpc, active,        \* the coordinator's step and its belief
  resources,          \* of the driver: "none", "partial" or "up"
  claimed, shutdown,  \* live_runtime_claimed; the handle was told to shut down
  noticed,            \* a notification arrived while the coordinator waited
  faults

ending == <<epc, seen, attempt>>
coordinator == <<cpc, active, resources, claimed, shutdown>>
vars == <<state, ending, coordinator, noticed, faults>>

Init ==
  /\ state = [s \in Sessions |-> "none"]
  /\ epc = [s \in Sessions |-> "idle"] /\ seen = [s \in Sessions |-> "none"]
  /\ attempt = [s \in Sessions |-> 0]
  /\ cpc = "none" /\ active = FALSE /\ resources = "none"
  /\ claimed = FALSE /\ shutdown = FALSE /\ noticed = FALSE /\ faults = 0

Fault == faults < MaxFaults /\ faults' = faults + 1

Terminal == {"ended", "failed"}
Open(s) == state[s] \notin {"none"} \cup Terminal
Demand == \E s \in Sessions : Open(s)

\* notify_waiters leaves nothing for a coordinator that does not wait.
Notify == noticed' = (noticed \/ cpc \in {"wait", "idle", "stopwait"})
-----------------------------------------------------------------------------
(* The sessions. *)

Becomes(s, to) == state' = [state EXCEPT ![s] = to] /\ Notify

\* reserve_live_session: one open session per asset.
Reserve(s) ==
  /\ state[s] = "none" /\ ~Demand /\ Becomes(s, "reserved")
  /\ UNCHANGED <<ending, coordinator, faults>>

\* validate_live_transition.
Allowed ==
  {<<"reserved", "starting">>, <<"reserved", "ended">>, <<"reserved", "failed">>,
   <<"starting", "live">>, <<"starting", "stopping">>, <<"starting", "failed">>,
   <<"live", "stopping">>, <<"live", "failed">>,
   <<"stopping", "ended">>, <<"stopping", "failed">>}

\* The driver binds a session, marks it ready or failed, and ends it.
Advance(s) ==
  /\ resources = "up"
  /\ \E t \in Allowed : state[s] = t[1] /\ Becomes(s, t[2])
  /\ UNCHANGED <<ending, coordinator, faults>>

Ends(s, from, to) == epc[s] = from /\ epc' = [epc EXCEPT ![s] = to]

Over(s) == state[s] \in {"stopping"} \cup Terminal

\* request_end_live_session, one attempt: the state is read ...
EndReads(s) ==
  /\ s \in Asked /\ state[s] # "none" /\ epc[s] \in {"idle", "again"}
  /\ attempt' = [attempt EXCEPT ![s] = IF Over(s) THEN 0 ELSE @ + 1]
  /\ epc' = [epc EXCEPT ![s] = IF Over(s) THEN "returned" ELSE "swap"]
  /\ seen' = [seen EXCEPT ![s] = IF Over(s) THEN "none" ELSE state[s]]
  /\ UNCHANGED <<state, coordinator, noticed, faults>>

Wanted(s) == IF seen[s] = "reserved" THEN "ended" ELSE "stopping"

Exhausted(s) == attempt[s] >= Retries

\* ... and swapped if it is still the same.
EndSwaps(s) ==
  /\ \/ /\ state[s] = seen[s] /\ Ends(s, "swap", "returned") /\ Becomes(s, Wanted(s))
        /\ attempt' = [attempt EXCEPT ![s] = 0]
     \/ /\ state[s] # seen[s] /\ Ends(s, "swap", IF Exhausted(s) THEN "error" ELSE "again")
        /\ UNCHANGED <<state, noticed, attempt>>
  /\ seen' = [seen EXCEPT ![s] = "none"]
  /\ UNCHANGED <<coordinator, faults>>
-----------------------------------------------------------------------------
(* run_live_runtime_coordinator. *)

Go(from, to) == cpc = from /\ cpc' = to

\* spawn_live_runtime: one coordinator at a time.
Spawn ==
  /\ ~claimed /\ Go("none", "demand") /\ claimed' = TRUE /\ active' = FALSE
  /\ shutdown' = FALSE /\ noticed' = FALSE
  /\ UNCHANGED <<state, ending, resources, faults>>

\* LiveRuntimeHandle::shutdown.
ShutDown ==
  /\ cpc # "none" /\ ~shutdown /\ shutdown' = TRUE
  /\ UNCHANGED <<state, ending, cpc, active, resources, claimed, noticed, faults>>

\* The demand, or an error that is waited out; the notification futures are
\* created anew.
ReadDemand ==
  /\ cpc = "demand" /\ noticed' = FALSE
  /\ \/ /\ cpc' = IF Demand /\ ~active THEN "start"
                  ELSE IF ~Demand /\ active
                    THEN IF shutdown THEN "finalstop" ELSE "idle"
                    ELSE "wait"
        /\ UNCHANGED faults
     \/ Fault /\ cpc' = "wait"
  /\ UNCHANGED <<state, ending, active, resources, claimed, shutdown>>

\* The driver's start: success, or a failure that leaves whatever it has made.
StartRuntime ==
  /\ \/ Go("start", "demand") /\ active' = TRUE /\ resources' = "up"
     \/ Go("start", "cleanup") /\ resources' \in {"none", "partial"} /\ UNCHANGED active
  /\ UNCHANGED <<state, ending, claimed, shutdown, noticed, faults>>

\* recover_failed_live_stop.
AfterFailedStop == "stopwait"

\* stop_live_runtime where a failure is retried: after a failed start, when idle.
StopRuntime ==
  /\ cpc \in {"cleanup", "idlestop", "restop"}
  /\ \/ /\ resources' = "none" /\ active' = FALSE
        /\ cpc' = IF active THEN "demand" ELSE "wait"
        /\ UNCHANGED faults
     \/ /\ Fault /\ cpc' = AfterFailedStop /\ resources' \in {"none", resources}
        /\ UNCHANGED active
  /\ noticed' = FALSE
  /\ UNCHANGED <<state, ending, claimed, shutdown>>

\* LIVE_RUNTIME_RECOVERY_SCAN or the idle timeout passes.
Scan == TRUE

\* wait_for_signal and the idle wait; a shutdown is seen first.
WaitEnds ==
  /\ noticed' = FALSE
  /\ \/ /\ shutdown /\ cpc \in {"wait", "idle", "stopwait"}
        /\ cpc' = IF cpc = "wait" /\ ~active THEN "exit" ELSE "finalstop"
     \/ /\ ~shutdown /\ (noticed \/ Scan)
        /\ \/ Go("wait", "demand") \/ Go("stopwait", "restop")
           \/ noticed /\ Go("idle", "demand")
           \/ Scan /\ Go("idle", "recheck")
  /\ UNCHANGED <<state, ending, active, resources, claimed, shutdown, faults>>

\* The demand is read once more before the runtime is stopped.
Recheck ==
  /\ \/ Go("recheck", IF Demand THEN "demand" ELSE "idlestop") /\ UNCHANGED faults
     \/ Go("recheck", "demand") /\ Fault
  /\ UNCHANGED <<state, ending, active, resources, claimed, shutdown, noticed>>

ClaimKept == TRUE

\* The last stop; an unclean exit keeps the claim.
FinalStop ==
  /\ \/ Go("finalstop", "exit") /\ resources' = "none" /\ UNCHANGED <<claimed, faults>>
     \/ /\ Fault /\ Go("finalstop", "none") /\ claimed' = ClaimKept
        /\ resources' \in {"none", resources}
  /\ noticed' = FALSE
  /\ UNCHANGED <<state, ending, active, shutdown>>

Exit ==
  /\ Go("exit", "none") /\ claimed' = FALSE /\ active' = FALSE /\ shutdown' = FALSE
  /\ UNCHANGED <<state, ending, resources, noticed, faults>>

CoordinatorStep ==
  ReadDemand \/ StartRuntime \/ StopRuntime \/ WaitEnds \/ Recheck \/ FinalStop \/ Exit
-----------------------------------------------------------------------------
Next ==
  \/ \E s \in Sessions : Reserve(s) \/ Advance(s) \/ EndReads(s) \/ EndSwaps(s)
  \/ Spawn \/ ShutDown \/ CoordinatorStep

\* The task is scheduled, its timers run out and every driver call has a timeout.
Fairness == WF_vars(CoordinatorStep)

Spec == Init /\ [][Next]_vars /\ Fairness
-----------------------------------------------------------------------------
States == {"none", "reserved", "starting", "live", "stopping"} \cup Terminal

TypeOK ==
  /\ state \in [Sessions -> States] /\ seen \in [Sessions -> States]
  /\ epc \in [Sessions -> {"idle", "swap", "again", "returned", "error"}]
  /\ attempt \in [Sessions -> 0 .. Retries]
  /\ cpc \in {"none", "demand", "start", "cleanup", "idlestop", "restop", "stopwait", "wait",
              "idle", "recheck", "finalstop", "exit"}
  /\ active \in BOOLEAN /\ resources \in {"none", "partial", "up"}
  /\ claimed \in BOOLEAN /\ shutdown \in BOOLEAN /\ noticed \in BOOLEAN
  /\ faults \in 0 .. MaxFaults

(***************************************************************************)
(* "Never retry start until the trusted driver has proved those resources  *)
(* are gone" (live_runtime.rs): the driver is started only with nothing of *)
(* an earlier run left, and the claim that admits another coordinator is   *)
(* free only then.  An asset has one open session.  An end request is      *)
(* never silently dropped: a session goes only forward, so the retries are *)
(* enough for every change that can overtake it, and when the request has  *)
(* returned the session is stopping or over.                               *)
(***************************************************************************)
LiveSafe ==
  /\ cpc = "start" \/ ~claimed => resources = "none"
  /\ \A s, r \in Sessions : Open(s) /\ Open(r) => s = r
  /\ \A s \in Sessions :
       /\ epc[s] # "error"
       /\ epc[s] = "returned" => Over(s)

(***************************************************************************)
(* A reservation made at any moment, also between the coordinator's look   *)
(* at the demand and its wait, gets its runtime: it is started, or a start *)
(* is tried, once an earlier run has been stopped.  And a shutdown ends    *)
(* the coordinator.                                                        *)
(***************************************************************************)
LiveSettles ==
  /\ (Demand /\ cpc # "none") ~> (resources = "up" \/ cpc = "start" \/ ~Demand \/ shutdown)
  /\ shutdown ~> cpc = "none"
=============================================================================
