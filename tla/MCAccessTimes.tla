--------------------------- MODULE MCAccessTimes ---------------------------
(* AccessTimes on small instances. *)
EXTENDS AccessTimes, TLC

CONSTANTS k1, k2

KeySymmetry == Permutations(Keys)
=============================================================================
