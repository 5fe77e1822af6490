--------------------------- MODULE MCProviderSync ---------------------------
(* Instances of ProviderSync for TLC: two nodes, and stores that are empty  *)
(* or hold one of two contents.                                             *)
EXTENDS ProviderSync, TLC

CONSTANTS n1, n2, a, b

AllFail  == [n \in Nodes |-> "fail"]
OneLeads == [n \in Nodes |-> IF n = n1 THEN "prefer-local" ELSE "prefer-remote"]

(* Nodes of one policy, and contents, may be exchanged.                     *)
SamePolicy == Permutations({n1, n2}) \cup Permutations({a, b})
=============================================================================
