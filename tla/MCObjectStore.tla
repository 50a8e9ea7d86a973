--------------------------- MODULE MCObjectStore ---------------------------
(* ObjectStore on small instances. *)
EXTENDS ObjectStore, TLC

CONSTANTS c1, c2, a1, s1, b1, b2, b3, w1, w2, w3

\* Every object of an instance lies in the one shard directory.
MCShardOf == [r \in Refs |-> s1]

\* b1 is the content of c1; b2 and b3 are larger, and b3 is over the limit.
MCDigestOf == (b1 :> c1) @@ (b2 :> c2) @@ (b3 :> c2)
MCSizeOf == (b1 :> 1) @@ (b2 :> 2) @@ (b3 :> 3)

WriterSymmetry == Permutations(Writers)
=============================================================================
