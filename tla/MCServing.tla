------------------------------ MODULE MCServing ------------------------------
(***************************************************************************)
(* Requests for module Serving.                                            *)
(***************************************************************************)
EXTENDS Serving

CONSTANTS p1, p2, g1

MCOnePut == {p1}
MCPuts == {p1, p2}
MCOneGet == {g1}
=============================================================================
