------------------------------- MODULE Quota -------------------------------
(***************************************************************************)
(* Quota accounting of one node: the index rows that Store.Put upserts     *)
(* after publishing a file, the evictor goroutine that sweeps when the     *)
(* rows add up to more than the high-water mark (evict.go), the wake       *)
(* channel between them, the copies that the repair workers of the other   *)
(* holders send back and the probe that declines them (coordinator.go,     *)
(* node.go), and the reconciliation of rows with files at startup          *)
(* (store.go, index.go).                                                   *)
(*                                                                         *)
(* Recency and the eviction score only order the victims: here ColdestN    *)
(* and the candidate heap may pick any rows, in any order.  Which row is   *)
(* coldest is the subject of module AccessTimes.                           *)
(***************************************************************************)
EXTENDS Integers, FiniteSets, FiniteSetsExt

CONSTANTS
    Putters,     \* concurrent calls of Store.Put for clients' writes
    Repairers,   \* concurrent calls of it for the repair workers of other holders
    Objects,     \* (namespace, key) pairs
    SizesOf,     \* the sizes an object can have: one for CAS, several for AC
    HighBytes,   \* Quota.HighBytes
    LowBytes,    \* Quota.LowBytes
    BatchSize,   \* Evictor.batchSize
    Unremovable, \* objects whose file may turn out impossible to unlink
    MaxPuts,     \* bound: files published by clients' writes in a behaviour
    MaxFaults,   \* bound: failed index or unlink calls, and kills
    None         \* no file, no row, no call

Callers == Putters \cup Repairers
Sizes == UNION {SizesOf[o] : o \in Objects}
Calls == [obj : Objects, size : Sizes, at : {"store", "index", "wake"}]

ASSUME QuotaAssumption ==
    /\ IsFiniteSet(Objects) /\ Objects # {} /\ IsFiniteSet(Sizes)
    /\ \A o \in Objects : SizesOf[o] \subseteq Nat /\ SizesOf[o] # {}
    /\ LowBytes \in Nat /\ HighBytes \in Nat /\ LowBytes <= HighBytes
    /\ BatchSize \in Nat \ {0}
    /\ Unremovable \subseteq Objects
    /\ MaxPuts \in Nat /\ MaxFaults \in Nat
    /\ None \notin Sizes \cup Calls

VARIABLES
    up,        \* the process runs and Open has returned
    stuck,     \* objects whose file cannot be unlinked: a property of the disk
    file,      \* size of each object's file
    row,       \* size column of each object's row
    call,      \* each Put from its rename, or its probe, to its return
    wake,      \* Evictor.wake holds a request
    ev,        \* where Sweep is: "idle", "batch", "unlink" or "remove"
    mustFree,  \* its local mustFree
    freed,     \* its local freed
    batch,     \* rows of the batch still on the heap, as ColdestN read them
    refs,      \* its local refs
    puts,      \* published so far by clients' writes
    faults,    \* faults so far
    quiet      \* history: no Upsert and no fault since this sweep began

evictor == <<ev, mustFree, freed, batch, refs>>
vars == <<up, stuck, file, row, call, wake, evictor, puts, faults, quiet>>

\* Type invariant: sizes are those an object can have, and what a sweep has to
\* free is never negative.
TypeOK ==
    /\ up \in BOOLEAN
    /\ stuck \subseteq Unremovable
    /\ \A o \in Objects : file[o] \in SizesOf[o] \cup {None}
    /\ \A o \in Objects : row[o] \in SizesOf[o] \cup {None}
    /\ call \in [Callers -> Calls \cup {None}]
    /\ wake \in BOOLEAN
    /\ ev \in {"idle", "batch", "unlink", "remove"}
    /\ mustFree \in Nat /\ freed \in Nat
    /\ batch \in [Objects -> Sizes \cup {None}]
    /\ refs \subseteq Objects
    /\ puts \in 0..MaxPuts /\ faults \in 0..MaxFaults
    /\ quiet \in BOOLEAN

\* The objects a column has a size for, and the sum of its sizes.
Present(column) == {o \in Objects : column[o] # None}
Total(column) == MapThenSumSet(LAMBDA o : column[o], Present(column))

\* Index.Totals: what the evictor believes is used.
Used == Total(row)

Nothing == [o \in Objects |-> None]

Init ==
    /\ up = TRUE
    /\ stuck \in SUBSET Unremovable
    /\ file = Nothing /\ row = Nothing
    /\ call = [p \in Callers |-> None]
    /\ wake = TRUE
    /\ ev = "idle" /\ mustFree = 0 /\ freed = 0 /\ batch = Nothing /\ refs = {}
    /\ puts = 0 /\ faults = 0 /\ quiet = TRUE

Fault ==
    /\ faults < MaxFaults
    /\ faults' = faults + 1

-----------------------------------------------------------------------------
(* Store.Put, from the rename on *)

PutPublishes(p, o, size) ==
    /\ up
    /\ call[p] = None
    /\ puts < MaxPuts
    /\ puts' = puts + 1
    /\ file' = [file EXCEPT ![o] = size]
    /\ call' = [call EXCEPT ![p] = [obj |-> o, size |-> size, at |-> "index"]]
    /\ UNCHANGED <<up, stuck, row, wake, evictor, faults, quiet>>

\* Mutant of RepairProbed: a repair write is stored like any other.
RepairIsPut(p, o, size) ==
    /\ up
    /\ call[p] = None
    /\ call' = [call EXCEPT ![p] = [obj |-> o, size |-> size, at |-> "store"]]
    /\ UNCHANGED <<up, stuck, file, row, wake, evictor, puts, faults, quiet>>

\* A repair worker of another holder sends a copy.  The quota probe declines it
\* with a 507, and nothing changes, when the rows add up to more than the mark;
\* a probe that cannot read the index accepts.  Peers never stop sending.
RepairProbed(p, o, size) ==
    /\ up
    /\ call[p] = None
    /\ \/ Used <= HighBytes /\ UNCHANGED faults
       \/ Used > HighBytes /\ Fault
    /\ call' = [call EXCEPT ![p] = [obj |-> o, size |-> size, at |-> "store"]]
    /\ UNCHANGED <<up, stuck, file, row, wake, evictor, puts, quiet>>

\* The copy has arrived whole and is renamed into place, however long ago the
\* probe was; or the transfer failed.
RepairStores(p) ==
    /\ up
    /\ call[p] # None
    /\ call[p].at = "store"
    /\ \/ /\ file' = [file EXCEPT ![call[p].obj] = call[p].size]
          /\ call' = [call EXCEPT ![p].at = "index"]
       \/ call' = [call EXCEPT ![p] = None] /\ UNCHANGED file
    /\ UNCHANGED <<up, stuck, row, wake, evictor, puts, faults, quiet>>

\* Index.Upsert.
PutUpserts(p) ==
    /\ up
    /\ call[p] # None
    /\ call[p].at = "index"
    /\ row' = [row EXCEPT ![call[p].obj] = call[p].size]
    /\ call' = [call EXCEPT ![p].at = "wake"]
    /\ quiet' = FALSE
    /\ UNCHANGED <<up, stuck, file, wake, evictor, puts, faults>>

\* Upsert fails, on the request's cancelled context for one: only logged.
PutUpsertFails(p) ==
    /\ up
    /\ call[p] # None
    /\ call[p].at = "index"
    /\ Fault
    /\ call' = [call EXCEPT ![p].at = "wake"]
    /\ quiet' = FALSE
    /\ UNCHANGED <<up, stuck, file, row, wake, evictor, puts>>

\* Mutant of PutWakes: no request is queued while a sweep runs.
PutWakesIdleEvictor(p) ==
    /\ up
    /\ call[p] # None
    /\ call[p].at = "wake"
    /\ wake' = (wake \/ ev = "idle")
    /\ call' = [call EXCEPT ![p] = None]
    /\ UNCHANGED <<up, stuck, file, row, evictor, puts, faults, quiet>>

\* Evictor.Wake, then Put returns.
PutWakes(p) ==
    /\ up
    /\ call[p] # None
    /\ call[p].at = "wake"
    /\ wake' = TRUE
    /\ call' = [call EXCEPT ![p] = None]
    /\ UNCHANGED <<up, stuck, file, row, evictor, puts, faults, quiet>>

-----------------------------------------------------------------------------
(* Evictor.Run and Evictor.Sweep *)

EndSweep ==
    /\ ev' = "idle"
    /\ mustFree' = 0 /\ freed' = 0 /\ batch' = Nothing /\ refs' = {}

\* Mutants of SweepBegins: the subtraction is turned round; the sweep stops at
\* the high-water mark.
SweepBeginsNegative(cause) ==
    /\ up
    /\ ev = "idle"
    /\ cause = "wake" => wake
    /\ Used > HighBytes
    /\ wake' = (wake /\ cause = "tick")
    /\ ev' = "batch" /\ mustFree' = LowBytes - Used /\ quiet' = TRUE
    /\ UNCHANGED <<up, stuck, file, row, call, freed, batch, refs, puts, faults>>
SweepBeginsForHigh(cause) ==
    /\ up
    /\ ev = "idle"
    /\ cause = "wake" => wake
    /\ Used > HighBytes
    /\ wake' = (wake /\ cause = "tick")
    /\ ev' = "batch" /\ mustFree' = Used - HighBytes /\ quiet' = TRUE
    /\ UNCHANGED <<up, stuck, file, row, call, freed, batch, refs, puts, faults>>

\* A wake-up or a tick, and usage is above the high-water mark.
SweepBegins(cause) ==
    /\ up
    /\ ev = "idle"
    /\ cause = "wake" => wake
    /\ Used > HighBytes
    /\ wake' = (wake /\ cause = "tick")
    /\ ev' = "batch" /\ mustFree' = Used - LowBytes /\ quiet' = TRUE
    /\ UNCHANGED <<up, stuck, file, row, call, freed, batch, refs, puts, faults>>

\* A wake-up, and it is not; or the sweep fails before it looks (FlushTouches,
\* Totals).
SweepDeclines ==
    /\ up
    /\ ev = "idle"
    /\ wake
    /\ wake' = FALSE
    /\ \/ Used <= HighBytes /\ UNCHANGED faults
       \/ Fault
    /\ UNCHANGED <<up, stuck, file, row, call, evictor, puts, quiet>>

\* ColdestN: a full batch of rows, or all there are.
SweepReads(rows) ==
    /\ up
    /\ ev = "batch"
    /\ rows \subseteq Present(row)
    /\ Cardinality(rows) = BatchSize \/ (Cardinality(rows) < BatchSize /\ rows = Present(row))
    /\ rows # {}
    /\ batch' = [o \in Objects |-> IF o \in rows THEN row[o] ELSE None]
    /\ refs' = {}
    /\ ev' = "unlink"
    /\ UNCHANGED <<up, stuck, file, row, call, wake, mustFree, freed, puts, faults, quiet>>

\* ColdestN fails, or finds no row: the sweep ends (with Overshoot counted).
SweepGivesUp ==
    /\ up
    /\ ev = "batch"
    /\ \/ Present(row) = {} /\ UNCHANGED <<faults, quiet>>
       \/ Fault /\ quiet' = FALSE
    /\ EndSweep
    /\ UNCHANGED <<up, stuck, file, row, call, wake, puts>>

\* A candidate is popped and DeleteFile unlinks it, or finds it gone already.
SweepUnlinks(o) ==
    /\ up
    /\ ev = "unlink"
    /\ freed < mustFree
    /\ batch[o] # None
    /\ o \notin stuck
    /\ file' = [file EXCEPT ![o] = None]
    /\ refs' = refs \cup {o}
    /\ freed' = freed + batch[o]
    /\ batch' = [batch EXCEPT ![o] = None]
    /\ UNCHANGED <<up, stuck, row, call, wake, ev, mustFree, puts, faults, quiet>>

\* A candidate is popped and DeleteFile fails.
SweepCannotUnlink(o) ==
    /\ up
    /\ ev = "unlink"
    /\ freed < mustFree
    /\ batch[o] # None
    /\ file[o] # None
    /\ \/ o \in stuck /\ UNCHANGED faults
       \/ Fault
    /\ batch' = [batch EXCEPT ![o] = None]
    /\ quiet' = FALSE
    /\ UNCHANGED <<up, stuck, file, row, call, wake, ev, mustFree, freed, refs, puts>>

\* The inner loop ends: the heap is empty or enough has been freed.
SweepPopped ==
    /\ up
    /\ ev = "unlink"
    /\ freed >= mustFree \/ Present(batch) = {}
    /\ ev' = "remove"
    /\ UNCHANGED <<up, stuck, file, row, call, wake, mustFree, freed, batch, refs>>
    /\ UNCHANGED <<puts, faults, quiet>>

\* Mutant of NextBatch: no check that the batch made progress.
NextBatchAnyway ==
    IF freed >= mustFree
    THEN EndSweep
    ELSE /\ ev' = "batch"
         /\ batch' = Nothing /\ refs' = {}
         /\ UNCHANGED <<mustFree, freed>>

\* The outer loop: another batch, unless this one made no progress.
NextBatch ==
    IF refs = {} \/ freed >= mustFree
    THEN EndSweep
    ELSE /\ ev' = "batch"
         /\ batch' = Nothing /\ refs' = {}
         /\ UNCHANGED <<mustFree, freed>>

\* RemoveBatch deletes the rows of the files unlinked, in one transaction.
SweepRemoves ==
    /\ up
    /\ ev = "remove"
    /\ row' = [o \in Objects |-> IF o \in refs THEN None ELSE row[o]]
    /\ NextBatch
    /\ UNCHANGED <<up, stuck, file, call, wake, puts, faults, quiet>>

\* RemoveBatch fails and the rows stay: only logged.
SweepCannotRemove ==
    /\ up
    /\ ev = "remove"
    /\ refs # {}
    /\ Fault
    /\ NextBatch
    /\ quiet' = FALSE
    /\ UNCHANGED <<up, stuck, file, row, call, wake, puts>>

-----------------------------------------------------------------------------
(* A kill of the process, and Open *)

Killed ==
    /\ up
    /\ Fault
    /\ up' = FALSE
    /\ call' = [p \in Callers |-> None]
    /\ wake' = FALSE
    /\ EndSweep
    /\ UNCHANGED <<stuck, file, row, puts, quiet>>

\* Reconcile makes the rows those of the files found; Run then sweeps once
\* before it waits, as if woken.
Reconcile ==
    /\ ~up
    /\ up' = TRUE
    /\ row' = file
    /\ wake' = TRUE
    /\ UNCHANGED <<stuck, file, call, evictor, puts, faults, quiet>>

PutStep(p) == PutUpserts(p) \/ PutUpsertFails(p) \/ PutWakes(p)

SweepStep ==
    \/ \E rows \in SUBSET Objects : SweepReads(rows)
    \/ \E o \in Objects : SweepUnlinks(o) \/ SweepCannotUnlink(o)
    \/ SweepGivesUp \/ SweepPopped \/ SweepRemoves \/ SweepCannotRemove

RunStep ==
    \/ \E cause \in {"wake", "tick"} : SweepBegins(cause)
    \/ SweepDeclines

Next ==
    \/ \E p \in Callers : PutStep(p)
    \/ \E o \in Objects : \E size \in SizesOf[o] :
           \/ \E p \in Putters : PutPublishes(p, o, size)
           \/ \E p \in Repairers : RepairProbed(p, o, size)
    \/ \E p \in Repairers : RepairStores(p)
    \/ SweepStep \/ RunStep
    \/ Killed \/ Reconcile

\* The goroutines of a live process are scheduled, the ticker ticks, and a dead
\* process is restarted.
Fairness ==
    /\ \A p \in Callers : WF_vars(PutStep(p))
    /\ WF_vars(SweepStep)
    /\ WF_vars(RunStep)
    /\ WF_vars(Reconcile)

Spec == Init /\ [][Next]_vars /\ Fairness

-----------------------------------------------------------------------------
(* Properties *)

\* Wake-ups are coalesced but never lost: as long as nothing has failed, an idle
\* evictor that has not been woken is looking at an index within the mark, or
\* at a Put that is about to wake it.
OverQuotaIsNoticed ==
    up /\ ev = "idle" /\ Used > HighBytes /\ faults = 0 /\ stuck = {} =>
        wake \/ \E p \in Callers : call[p] # None /\ call[p].at = "wake"

\* A sweep during which nothing was indexed and nothing failed ends with usage
\* at or below the low-water mark, and not a whole object further down.
QuietSweepLandsAtLow ==
    [][ev # "idle" /\ ev' = "idle" /\ quiet' /\ up' =>
        Used' <= LowBytes /\ Used' + Max(Sizes) > LowBytes]_vars

\* Usage above the high-water mark is drained again, however often the other
\* holders send evicted objects back, across failures of the index, failed
\* unlinks and kills at any step of a Put or a sweep, on a disk where no file is
\* impossible to unlink.
QuotaDrains == (stuck = {} /\ Used > HighBytes) ~> (Used <= HighBytes)

\* A sweep ends, even when a file cannot be removed, unless empty objects arrive
\* for as long as it runs: unlinking one counts as progress and frees nothing.
\* (RemoveBatch fails finitely often here.  If it never succeeded, rows of empty
\* objects would be progress again and again.)
SweepEnds ==
    (ev # "idle") ~> (ev = "idle" \/ \E p \in Callers : call[p] # None /\ call[p].size = 0)

\* Unlinking before removing the row leaves at worst a row without a file: every
\* file has a row, or a Put that is about to index it.
NoFileWithoutRow ==
    up /\ faults = 0 => \A o \in Objects : file[o] # None =>
        row[o] # None \/ \E p \in Callers : call[p] # None /\ call[p].obj = o

\* The documented tolerance: usage exceeds the high-water mark by no more than
\* the size of one object.
UsedWithinTolerance == Used <= HighBytes + Max(Sizes)
=============================================================================
