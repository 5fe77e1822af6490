---------------------------- MODULE AtomicBundle ----------------------------
(***************************************************************************)
(* What an update of an installed bundle promises: the bundle is always    *)
(* one version as a whole, and it only ever becomes a version whose        *)
(* candidate was seen healthy.                                             *)
(***************************************************************************)
EXTENDS Naturals

CONSTANT Last            \* versions are numbered 1 .. Last

VARIABLES bundle, proved \* the version in force; the versions seen healthy

Init == bundle = 1 /\ proved = {1}

Prove(v) == proved' = proved \cup {v} /\ UNCHANGED bundle

Switch(v) == v \in proved /\ bundle' = v /\ UNCHANGED proved

Next == \E v \in 1 .. Last : Prove(v) \/ Switch(v)

Spec == Init /\ [][Next]_<<bundle, proved>>
=============================================================================
