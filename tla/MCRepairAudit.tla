---------------------------- MODULE MCRepairAudit ----------------------------
(***************************************************************************)
(* An index of four rows, one of which another node answers for: more than *)
(* the queue holds and more than one pass examines.                        *)
(***************************************************************************)
EXTENDS RepairAudit

CONSTANT w1

MCWorkers == {w1}
MCOurs == {1, 3, 4}
=============================================================================
