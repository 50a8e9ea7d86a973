------------------------------ MODULE MCChaos ------------------------------
(* Chaos on small instances: three nodes, of which each key has two. *)
EXTENDS Chaos, TLC

CONSTANTS n1, n2, n3, k1, k2

MCHoldersOf == (k1 :> {n1, n2}) @@ (k2 :> {n2, n3})
=============================================================================
