------------------------------ MODULE ErRecovery ------------------------------
(***************************************************************************)
(* The file exchange between a process that asks CONTROL ER whether to     *)
(* restart something and the ER daemon that polls the request directory.   *)
(* src/engine/crates/backend/src/er_recovery.rs and the recovery tick of   *)
(* src/engine/crates/backend/src/error_reporter_daemon.rs                  *)
(*                                                                         *)
(* Every request has a random id and so files of its own.  What is decided *)
(* is modelled where it is used (ServiceManager, MotherSupervisor).        *)
(***************************************************************************)
EXTENDS Naturals, FiniteSets

CONSTANTS Requests, MaxPerPoll   \* MAX_REQUESTS_PER_POLL

VARIABLES asker,        \* decide_subject: "idle", "waiting", "answered" or "alone"
          req, resp,    \* the request and the response files
          old,          \* requests older than REQUEST_TTL
          dpc, todo, cur \* the daemon's poll: step, entries left, entry handled

daemon == <<dpc, todo, cur>>
vars == <<asker, req, resp, old, daemon>>

Init ==
  /\ asker = [r \in Requests |-> "idle"] /\ req = {} /\ resp = {} /\ old = {}
  /\ dpc = "idle" /\ todo = {} /\ cur = {}

Asks(r, from, to) == asker[r] = from /\ asker' = [asker EXCEPT ![r] = to]
Forget(r) == req' = req \ {r} /\ resp' = resp \ {r}
-----------------------------------------------------------------------------
(* decide_subject. *)

Ask(r) ==
  /\ Asks(r, "idle", "waiting") /\ req' = req \cup {r}
  /\ UNCHANGED <<resp, old, daemon>>

TakeAnswer(r) ==
  /\ r \in resp /\ Asks(r, "waiting", "answered") /\ Forget(r)
  /\ UNCHANGED <<old, daemon>>

\* CLIENT_TIMEOUT, or an unreadable response: the local policy decides.
GiveUp(r) ==
  /\ Asks(r, "waiting", "alone") /\ Forget(r)
  /\ UNCHANGED <<old, daemon>>

\* The asking process dies and leaves its request.
AskerDies(r) ==
  /\ Asks(r, "waiting", "alone")
  /\ UNCHANGED <<req, resp, old, daemon>>

\* REQUEST_TTL passes; a live asker has given up long before.
Age(r) ==
  /\ r \in req \ old /\ asker[r] # "waiting" /\ old' = old \cup {r}
  /\ UNCHANGED <<asker, req, resp, daemon>>
-----------------------------------------------------------------------------
(* process_pending_requests. *)

\* The directory is listed; what is created later is found by the next poll.
Poll ==
  /\ dpc = "idle" /\ dpc' = "entry"
  /\ todo' \in {s \in SUBSET req : Cardinality(s) = MaxPerPoll
                                   \/ (s = req /\ Cardinality(req) < MaxPerPoll)}
  /\ UNCHANGED <<asker, req, resp, old, cur>>

Fresh(r) == r \notin old

\* An entry is gone, is removed unanswered, or is decided.
ReadEntry ==
  /\ dpc = "entry"
  /\ \E r \in todo :
       /\ todo' = todo \ {r}
       /\ IF r \in req /\ Fresh(r)
            THEN dpc' = "publish" /\ cur' = {r} /\ UNCHANGED req
            ELSE req' = req \ {r} /\ UNCHANGED <<dpc, cur>>
  /\ UNCHANGED <<asker, resp, old>>

EndPoll ==
  /\ dpc = "entry" /\ todo = {} /\ dpc' = "idle"
  /\ UNCHANGED <<asker, req, resp, old, todo, cur>>

\* write_atomic of the response; an error aborts the poll.
Publish ==
  /\ dpc = "publish"
  /\ \/ dpc' = "log" /\ resp' = resp \cup cur /\ UNCHANGED <<todo, cur>>
     \/ dpc' = "idle" /\ todo' = {} /\ cur' = {} /\ UNCHANGED resp
  /\ UNCHANGED <<asker, req, old>>

\* append_decision_log; an error aborts the poll and keeps the request.
Log ==
  /\ dpc = "log"
  /\ \/ dpc' = "remove" /\ UNCHANGED <<todo, cur>>
     \/ dpc' = "idle" /\ todo' = {} /\ cur' = {}
  /\ UNCHANGED <<asker, req, resp, old>>

Remove ==
  /\ dpc = "remove" /\ dpc' = "entry" /\ req' = req \ cur /\ cur' = {}
  /\ UNCHANGED <<asker, resp, old, todo>>

\* The daemon dies and is started again.
DaemonDies ==
  /\ dpc # "idle" /\ dpc' = "idle" /\ todo' = {} /\ cur' = {}
  /\ UNCHANGED <<asker, req, resp, old>>
-----------------------------------------------------------------------------
DaemonStep == Poll \/ EndPoll \/ Publish \/ Log \/ Remove

Next ==
  \/ \E r \in Requests : Ask(r) \/ TakeAnswer(r) \/ GiveUp(r) \/ AskerDies(r) \/ Age(r)
  \/ DaemonStep \/ ReadEntry \/ DaemonDies

\* The asker's deadline and the clock pass; the daemon is not killed over and
\* over between listing the directory and reading its entries.
Fairness ==
  /\ \A r \in Requests : WF_vars(TakeAnswer(r) \/ GiveUp(r)) /\ WF_vars(Age(r))
  /\ WF_vars(DaemonStep) /\ SF_vars(ReadEntry)

Spec == Init /\ [][Next]_vars /\ Fairness
-----------------------------------------------------------------------------
TypeOK ==
  /\ asker \in [Requests -> {"idle", "waiting", "answered", "alone"}]
  /\ req \subseteq Requests /\ resp \subseteq Requests /\ old \subseteq Requests
  /\ dpc \in {"idle", "entry", "publish", "log", "remove"}
  /\ todo \subseteq Requests /\ Cardinality(todo) <= MaxPerPoll
  /\ cur \subseteq Requests /\ (cur # {}) = (dpc \in {"publish", "log", "remove"})

(***************************************************************************)
(* The request directory drains: no request stays for ever, not even if    *)
(* its asker died and every append to the decision log fails, which aborts *)
(* the poll before the request is removed.                                 *)
(***************************************************************************)
RequestsDrain == \A r \in Requests : r \in req ~> r \notin req
=============================================================================
