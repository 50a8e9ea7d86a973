---------------------------- MODULE MCForwarding ----------------------------
(* Forwarding on small instances, for all rings of three nodes. *)
EXTENDS Forwarding
=============================================================================
