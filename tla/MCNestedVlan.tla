----------------------------- MODULE MCNestedVlan -----------------------------
(* Model-checking instance of NestedVlan.                                   *)
EXTENDS NestedVlan, TLC

CONSTANTS p1, p2, p3, t1, t2

\* Two pods on one machine, one on another.
MCTrunk == (p1 :> t1) @@ (p2 :> t1) @@ (p3 :> t2)

IdSymmetry == Permutations(Ports) \cup Permutations(Vlans)
=============================================================================
