---------------------------- MODULE DurableStore ----------------------------
(***************************************************************************)
(* What the object store promises its callers (the package comment of      *)
(* internal/storage, the Durable field of PutResult and ADR-0003), without *)
(* temp files, directories, caches or concurrent calls.  A name holds one  *)
(* whole value or none.  A write and a removal take effect at once, a kill *)
(* of the process changes nothing, and a power loss may bring back an      *)
(* earlier value, until that value has been forced out.  A write that was  *)
(* called durable is not lost to any of this.                              *)
(*                                                                         *)
(* Module ObjectStore is shown to implement it.                            *)
(***************************************************************************)
CONSTANTS
    Names,    \* the objects
    Content,  \* the values each name may hold
    Absent    \* a name that holds none

VARIABLES
    value,     \* what a reader finds under each name
    fallback,  \* what may be found there after a power loss
    promised   \* names whose last writer was told Durable: true

vars == <<value, fallback, promised>>

Init ==
    /\ value = [n \in Names |-> Absent]
    /\ fallback = [n \in Names |-> {Absent}]
    /\ promised = {}

\* A Put takes effect.
Write(n, v) ==
    /\ value' = [value EXCEPT ![n] = v]
    /\ fallback' = [fallback EXCEPT ![n] = @ \cup {v}]
    /\ UNCHANGED promised

\* A Delete or an eviction takes effect, and ends what was promised.
Remove(n) ==
    /\ value' = [value EXCEPT ![n] = Absent]
    /\ fallback' = [fallback EXCEPT ![n] = @ \cup {Absent}]
    /\ promised' = promised \ {n}

\* Some earlier values can no longer come back.
Persist ==
    /\ fallback' \in [Names -> SUBSET UNION {fallback[n] : n \in Names}]
    /\ \A n \in Names : value[n] \in fallback'[n] /\ fallback'[n] \subseteq fallback[n]
    /\ UNCHANGED <<value, promised>>

\* A Put answers Durable: true.
Promise(n) ==
    /\ Absent \notin fallback[n]
    /\ promised' = promised \cup {n}
    /\ UNCHANGED <<value, fallback>>

PowerLoss ==
    /\ value' \in [Names -> UNION {fallback[n] : n \in Names}]
    /\ \A n \in Names : value'[n] \in fallback[n]
    /\ fallback' = [n \in Names |-> {value'[n]}]
    /\ UNCHANGED promised

Next ==
    \/ \E n \in Names : Remove(n) \/ Promise(n) \/ \E v \in Content[n] \ {Absent} : Write(n, v)
    \/ Persist
    \/ PowerLoss

Spec == Init /\ [][Next]_vars
=============================================================================
