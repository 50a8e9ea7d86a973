--------------------------- MODULE MCReplication ---------------------------
(* Replication on small instances: three nodes, two of them holders. *)
EXTENDS Replication

CONSTANTS n1, n2, n3, p1, p2

MCOrder == <<n1, n2, n3>>
=============================================================================
