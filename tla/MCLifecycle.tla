----------------------------- MODULE MCLifecycle -----------------------------
(***************************************************************************)
(* The three background workers and two requests.                          *)
(***************************************************************************)
EXTENDS Lifecycle

CONSTANTS evictor, flusher, repair, r1, r2

MCWorkers == {evictor, flusher, repair}
MCFlushers == {evictor, flusher}
MCRequests == {r1, r2}
=============================================================================
