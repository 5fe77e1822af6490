-------------------------- MODULE MCServiceManager --------------------------
(* TLC instances of ServiceManager. *)
EXTENDS ServiceManager, TLC

CONSTANTS c1, c2, x1, x2, h1

Symmetry == Permutations(Callers) \cup Permutations(Restarts)

(* A hybrid service with restart = on-failure boots, sleeps, wakes, crashes  *)
(* and exits cleanly: it meets every branch of the liveness properties.      *)
HybridInit == Init /\ mode = "hybrid" /\ policy = "on_failure"

HybridSpec == HybridInit /\ [][Next]_vars /\ TaskFairness /\ SpawnFairness
=============================================================================
