------------------------------ MODULE MCQuota ------------------------------
(* Quota on small instances. *)
EXTENDS Quota, TLC

CONSTANTS c1, c2, a1, p1, p2

\* Two CAS objects of a fixed size and an action-cache entry that is empty or not.
MCSizesOf == (c1 :> {1}) @@ (c2 :> {2}) @@ (a1 :> {0, 2})

PutterSymmetry == Permutations(Putters)
=============================================================================
