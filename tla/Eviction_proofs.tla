--------------------------- MODULE Eviction_proofs ---------------------------
(***************************************************************************)
(* What the evictor relies on.  AccessTimes: the recency it ranks by, for  *)
(* any number of keys and any queue limit.  Quota: the usage it acts on,   *)
(* for any objects, sizes, marks, batch size and number of callers.        *)
(***************************************************************************)
EXTENDS Quota, AccessTimes, FiniteSetTheorems, TLAPS

-----------------------------------------------------------------------------
(* Smallest and largest elements *)

\* Among subsets of a finite set there is a smallest one: the form of induction
\* over an index's rows that sums and extremes need.
LEMMA Minimal ==
    ASSUME NEW S, IsFiniteSet(S), NEW B \in SUBSET (SUBSET S), B # {}
    PROVE  \E s \in B : \A t \in B : ~ (t \subseteq s /\ t # s)
<1>1. IsWellFoundedOn(StrictSubsetOrdering(S), SUBSET S)
    BY FS_StrictSubsetOrderingWellFounded, FS_FiniteSubsetsOfFinite
<1>2. \E s \in B : \A t \in B : ~ (<<t, s>> \in StrictSubsetOrdering(S))
    BY <1>1, WFMin
<1> QED
    BY <1>2 DEF StrictSubsetOrdering

\* A finite set of sizes or of stamps has a largest.
LEMMA MaxIsLargest ==
    ASSUME NEW S, IsFiniteSet(S), S # {}
    PROVE  S \subseteq Nat => Max(S) \in S /\ \A y \in S : Max(S) >= y
<1>0. \A F \in SUBSET (SUBSET S) :
          F # {} => \E s \in F : \A t \in F : ~ (t \subseteq s /\ t # s)
    BY Minimal
<1> HAVE S \subseteq Nat
<1> DEFINE HasMax(s) == \E x \in s : \A y \in s : x >= y
           B == {s \in SUBSET S : s # {} /\ ~ HasMax(s)}
<1>1. ASSUME B # {} PROVE FALSE
    <2>0. B \in SUBSET (SUBSET S)
        OBVIOUS
    <2>1. PICK s \in B : \A t \in B : ~ (t \subseteq s /\ t # s)
        <3> HIDE DEF B
        <3> QED
            BY <1>0, <1>1, <2>0, Zenon
    <2>2. PICK x \in s : TRUE
        BY <2>1
    <2>3. s # {x}
        BY <2>1
    <2>4. HasMax(s \ {x})
        <3>1. s \ {x} \in SUBSET S /\ s \ {x} # {} /\ s \ {x} \subseteq s /\ s \ {x} # s
            BY <2>2, <2>3
        <3> HIDE DEF HasMax
        <3> QED
            BY <2>1, <3>1
    <2>5. PICK m \in s \ {x} : \A y \in s \ {x} : m >= y
        BY <2>4
    <2>6. x \in Nat /\ m \in Nat /\ s \in SUBSET Nat
        BY <2>2, <2>5
    <2>7. CASE m >= x
        BY <2>1, <2>2, <2>5, <2>7
    <2>8. CASE x > m
        <3>1. \A y \in s : x >= y
            BY <2>2, <2>5, <2>6, <2>8
        <3> QED
            BY <2>1, <2>2, <3>1
    <2> QED
        BY <2>6, <2>7, <2>8
<1>2. HasMax(S)
    BY <1>1
<1> QED
    BY <1>2 DEF Max

\* Index.Touch: among the stamps of a finite time there is an oldest.
LEMMA MinIsSmallest ==
    ASSUME NEW n \in Nat, NEW S \in SUBSET (0 .. n), S # {}
    PROVE  Min(S) \in S /\ \A y \in S : Min(S) <= y
<1> DEFINE R == {n - x : x \in S}
<1>1. R # {} /\ R \subseteq 0 .. n
    <2>1. \A x \in S : n - x \in 0 .. n
        OBVIOUS
    <2> QED
        BY <2>1
<1>2. IsFiniteSet(R)
    <2>1. IsFiniteSet(0 .. n)
        BY FS_Interval
    <2> HIDE DEF R
    <2> QED
        BY <1>1, <2>1, FS_Subset
<1>3. Max(R) \in R /\ \A y \in R : Max(R) >= y
    <2> HIDE DEF R
    <2>1. R \subseteq Nat
        BY <1>1
    <2> QED
        BY <1>1, <1>2, <2>1, MaxIsLargest
<1>4. PICK x \in S : Max(R) = n - x
    BY <1>3
<1>5. \A y \in S : x <= y
    <2> TAKE y \in S
    <2>1. n - y \in R
        OBVIOUS
    <2>2. n - x >= n - y
        BY <1>3, <1>4, <2>1
    <2> QED
        BY <2>2
<1> QED
    BY <1>4, <1>5 DEF Min

-----------------------------------------------------------------------------
(* AccessTimes *)

\* Index.flushing: who flushes holds it, nobody else has a batch, and Close has not
\* flushed before it was called.
MutexInv ==
    /\ phase \in {"serving", "stopping"} => pc["closer"] = "idle"
    /\ \A f \in Flushers : pc[f] = "flush" <=> holder = f
    /\ \A f \in Flushers : holder # f => taken[f] = Zero

\* Touches are in the past, a sweep waits for none that was not queued, what has no
\* row waits for nothing, and what is still to be recorded is no older than what a
\* touch of the object was queued with.
TimeInv ==
    /\ \A k \in Keys :
          /\ queued[k] <= clock
          /\ due[k] <= queued[k]
          /\ access[k] = 0 => queued[k] = 0
    /\ \A u \in underway : queued[u.key] <= u.at /\ u.at <= clock

\* The last touch of a key is in the queue; if not, in the batch under way; if
\* neither has one, in the row.
RecordInv ==
    Undisturbed => \A k \in Keys :
        /\ pending[k] # 0 => pending[k] >= queued[k]
        /\ pending[k] = 0 => \A f \in Flushers : taken[f][k] # 0 => taken[f][k] >= queued[k]
        /\ pending[k] = 0 /\ (\A f \in Flushers : taken[f][k] = 0) => access[k] >= queued[k]

\* From its flush on the evictor misses nothing that was due: it is in the rows
\* or its own batch, and no batch that is written later can undo it.
RankInv ==
    Undisturbed => \A k \in Keys :
        /\ pc["evictor"] = "flush" =>
              IF taken["evictor"][k] # 0 THEN taken["evictor"][k] >= due[k]
                                         ELSE access[k] >= due[k]
        /\ pc["evictor"] = "rank" =>
              /\ access[k] >= due[k]
              /\ \A f \in Flushers : taken[f][k] # 0 => taken[f][k] >= due[k]

TouchInv == TouchTypeOK /\ MutexInv /\ TimeInv /\ RecordInv /\ RankInv

\* Index.Touch: what it is queued with is the stamp of some use of the object under
\* way, and no such stamp is older.
LEMMA OldestIs ==
    ASSUME TouchTypeOK, NEW w \in underway
    PROVE  /\ \E v \in underway : v.key = w.key /\ v.at = Oldest(w.key)
           /\ \A v \in underway : v.key = w.key => Oldest(w.key) <= v.at
<1> DEFINE S == {v.at : v \in {x \in underway : x.key = w.key}}
<1>1. S \in SUBSET (0 .. MaxClock) /\ S # {} /\ MaxClock \in Nat
    BY AccessAssumption DEF TouchTypeOK, Uses, Times
<1>2. Min(S) \in S /\ \A y \in S : Min(S) <= y
    <2> HIDE DEF S
    <2> QED
        BY <1>1, MinIsSmallest
<1>3. Oldest(w.key) = Min(S)
    BY DEF Oldest
<1> HIDE DEF S
<1>4. Oldest(w.key) \in S /\ \A y \in S : Oldest(w.key) <= y
    BY <1>2, <1>3
<1> QED
    BY <1>4 DEF S

\* Every action assigns values of the variables' types.
LEMMA TouchTypeStep == TouchTypeOK /\ [TouchNext]_touchVars => TouchTypeOK'
<1> SUFFICES ASSUME TouchTypeOK, [TouchNext]_touchVars PROVE TouchTypeOK'
    OBVIOUS
<1> USE AccessAssumption DEF TouchTypeOK, Times
<1>0. Zero \in [Keys -> Times]
    BY DEF Zero
<1>a. ASSUME NEW op \in {"touch", "upsert"}, NEW k \in Keys, Stamp(op, k) PROVE TouchTypeOK'
    <2>1. clock' \in Times /\ [op |-> op, key |-> k, at |-> clock'] \in Uses
        BY <1>a DEF Stamp, Uses
    <2> QED
        BY <1>a, <2>1 DEF Stamp
<1>1. ASSUME NEW u \in underway, Touch(u) PROVE TouchTypeOK'
    <2>1. u.key \in Keys /\ u.at \in Times /\ 0 \in Times
        BY DEF Uses
    <2>2. Oldest(u.key) \in Times
        <3>1. PICK v \in underway : v.at = Oldest(u.key)
            BY OldestIs, Zenon
        <3> QED
            BY <3>1 DEF Uses
    <2>3. pending' \in [Keys -> Times] /\ queued' \in [Keys -> Times]
        BY <1>1, <2>1, <2>2 DEF Touch
    <2> QED
        BY <1>1, <2>3 DEF Touch
<1>2. ASSUME NEW u \in underway, Upsert(u) \/ UpsertFails(u) PROVE TouchTypeOK'
    <2>1. u.key \in Keys /\ u.at \in Times
        BY DEF Uses
    <2> QED
        BY <1>2, <2>1 DEF Upsert, UpsertFails
<1>3. ASSUME NEW f \in Flushers, FlushBegins(f) PROVE TouchTypeOK'
    BY <1>3 DEF FlushBegins
<1>4. ASSUME NEW f \in Flushers, FlushLocks(f) PROVE TouchTypeOK'
    BY <1>0, <1>4 DEF FlushLocks, AfterFlush, AfterError
<1>5. ASSUME NEW f \in Flushers, FlushCommits(f) PROVE TouchTypeOK'
    BY <1>0, <1>5 DEF FlushCommits, AfterFlush, AfterError
<1>6. ASSUME NEW f \in Flushers, FlushFails(f) PROVE TouchTypeOK'
    <2>1. cancelled' \in BOOLEAN
        BY <1>6, Zenon DEF FlushFails
    <2>2. errors' \in 0 .. MaxErrors
        BY <1>6 DEF FlushFails
    <2> QED
        BY <1>0, <1>6, <2>1, <2>2 DEF FlushFails, AfterError
<1>7. ASSUME NEW objects \in SUBSET Keys, SweepDropsTouches(objects) PROVE TouchTypeOK'
    BY <1>7 DEF SweepDropsTouches
<1>8. CASE SweepDeletesRows
    BY <1>0, <1>8 DEF SweepDeletesRows, Flushers
<1>9. CASE SweepKeepsRows
    <2>1. cancelled' \in BOOLEAN
        BY <1>9, Zenon DEF SweepKeepsRows
    <2>2. errors' \in 0 .. MaxErrors
        BY <1>9 DEF SweepKeepsRows
    <2> QED
        BY <1>0, <1>9, <2>1, <2>2 DEF SweepKeepsRows, Flushers
<1>10. CASE StopBackground \/ FinalFlush \/ EvictorExits \/ CloseBegins \/ CloseReturns
    BY <1>10 DEF StopBackground, FinalFlush, EvictorExits, CloseBegins, CloseReturns
<1>11. CASE UNCHANGED touchVars
    BY <1>11 DEF touchVars
<1> QED
    BY <1>a, <1>1, <1>2, <1>3, <1>4, <1>5, <1>6, <1>7, <1>8, <1>9, <1>10, <1>11
       DEF TouchNext, FlushStep

\* Nobody enters or leaves a flush without the mutex.
LEMMA MutexStep ==
    ASSUME TouchTypeOK, MutexInv, [TouchNext]_touchVars
    PROVE  MutexInv'
<1> USE DEF TouchTypeOK, MutexInv
<1>a. ASSUME NEW op \in {"touch", "upsert"}, NEW k \in Keys, Stamp(op, k) PROVE MutexInv'
    BY <1>a DEF Stamp
<1>1. ASSUME NEW u \in underway, Touch(u) \/ Upsert(u) \/ UpsertFails(u) PROVE MutexInv'
    BY <1>1 DEF Touch, Upsert, UpsertFails
<1>2. ASSUME NEW f \in Flushers, FlushBegins(f) PROVE MutexInv'
    BY <1>2 DEF FlushBegins
<1>3. ASSUME NEW f \in Flushers, FlushLocks(f) PROVE MutexInv'
    BY <1>3 DEF FlushLocks, AfterFlush, AfterError, Flushers
<1>4. ASSUME NEW f \in Flushers, FlushCommits(f) PROVE MutexInv'
    BY <1>4 DEF FlushCommits, AfterFlush, AfterError, Flushers
<1>5. ASSUME NEW f \in Flushers, FlushFails(f) PROVE MutexInv'
    BY <1>5 DEF FlushFails, AfterError, Flushers
<1>6. ASSUME NEW objects \in SUBSET Keys, SweepDropsTouches(objects) PROVE MutexInv'
    BY <1>6 DEF SweepDropsTouches
<1>7. CASE SweepDeletesRows \/ SweepKeepsRows
    BY <1>7 DEF SweepDeletesRows, SweepKeepsRows, Flushers
<1>8. CASE StopBackground \/ CloseReturns \/ UNCHANGED touchVars
    BY <1>8 DEF StopBackground, CloseReturns, touchVars
<1>9. CASE FinalFlush \/ EvictorExits \/ CloseBegins
    BY <1>9 DEF FinalFlush, EvictorExits, CloseBegins, Flushers
<1> QED
    BY <1>a, <1>1, <1>2, <1>3, <1>4, <1>5, <1>6, <1>7, <1>8, <1>9 DEF TouchNext, FlushStep

\* A touch is recorded at the present, and a victim's waiting ends with its row.
LEMMA TimeStep ==
    ASSUME TouchTypeOK, TimeInv, [TouchNext]_touchVars
    PROVE  TimeInv'
<1> USE AccessAssumption DEF TouchTypeOK, TimeInv, Times
<1>0. \A u \in underway : u.key \in Keys /\ u.at \in Times
    BY DEF Uses
<1>a. ASSUME NEW op \in {"touch", "upsert"}, NEW k \in Keys, Stamp(op, k) PROVE TimeInv'
    BY <1>0, <1>a DEF Stamp
<1>1. ASSUME NEW u \in underway, Touch(u) PROVE TimeInv'
    <2>1. CASE UNCHANGED <<pending, queued>>
        BY <1>1, <2>1 DEF Touch
    <2>2. CASE ~ UNCHANGED <<pending, queued>>
        <3> DEFINE q == Oldest(u.key)
        <3>1. PICK v \in underway : v.key = u.key /\ v.at = q
            BY OldestIs, Zenon
        <3>2. \A x \in underway : x.key = u.key => q <= x.at
            BY OldestIs, Zenon
        <3>3. q \in Nat /\ q <= clock /\ queued[u.key] <= q
            BY <1>0, <3>1
        <3>4. /\ queued' = [queued EXCEPT ![u.key] = IF access[u.key] = 0 THEN 0 ELSE q]
              /\ underway' = underway \ {u}
              /\ UNCHANGED <<access, due, clock>>
            BY <1>1, <2>2 DEF Touch
        <3> HIDE DEF q
        <3> QED
            BY <1>0, <3>2, <3>3, <3>4
    <2> QED
        BY <2>1, <2>2
<1>2. ASSUME NEW u \in underway, Upsert(u) \/ UpsertFails(u) PROVE TimeInv'
    BY <1>0, <1>2 DEF Upsert, UpsertFails
<1>3. ASSUME NEW f \in Flushers, FlushBegins(f) PROVE TimeInv'
    BY <1>3 DEF FlushBegins
<1>4. ASSUME NEW f \in Flushers, FlushCommits(f) PROVE TimeInv'
    BY <1>4 DEF FlushCommits
<1>5. ASSUME NEW objects \in SUBSET Keys, SweepDropsTouches(objects) PROVE TimeInv'
    BY <1>0, <1>5 DEF SweepDropsTouches
<1>6. CASE SweepDeletesRows
    BY <1>0, <1>6 DEF SweepDeletesRows, Zero
<1>7. CASE SweepKeepsRows
    BY <1>7 DEF SweepKeepsRows, Zero
<1>8. ASSUME NEW f \in Flushers, FlushLocks(f) \/ FlushFails(f) PROVE TimeInv'
    BY <1>8 DEF FlushLocks, FlushFails
<1>9. CASE StopBackground \/ FinalFlush \/ EvictorExits \/ CloseBegins \/ CloseReturns
    BY <1>9 DEF StopBackground, FinalFlush, EvictorExits, CloseBegins, CloseReturns
<1>10. CASE UNCHANGED touchVars
    BY <1>10 DEF touchVars
<1> QED
    BY <1>a, <1>1, <1>2, <1>3, <1>4, <1>5, <1>6, <1>7, <1>8, <1>9, <1>10
       DEF TouchNext, FlushStep

\* No step takes back a failure.
LEMMA DisturbedStays ==
    ASSUME TouchTypeOK, [TouchNext]_touchVars, Undisturbed'
    PROVE  Undisturbed
<1> USE DEF TouchTypeOK, Undisturbed
<1>a. ASSUME NEW op \in {"touch", "upsert"}, NEW k \in Keys, Stamp(op, k) PROVE Undisturbed
    BY <1>a DEF Stamp
<1>1. ASSUME NEW u \in underway, Touch(u) \/ Upsert(u) \/ UpsertFails(u) PROVE Undisturbed
    BY <1>1 DEF Touch, Upsert, UpsertFails
<1>2. ASSUME NEW f \in Flushers, FlushStep(f) PROVE Undisturbed
    BY <1>2 DEF FlushStep, FlushBegins, FlushLocks, FlushCommits, FlushFails
<1>3. ASSUME NEW objects \in SUBSET Keys, SweepDropsTouches(objects) PROVE Undisturbed
    BY <1>3 DEF SweepDropsTouches
<1>4. CASE SweepDeletesRows \/ SweepKeepsRows
    BY <1>4 DEF SweepDeletesRows, SweepKeepsRows
<1>5. CASE StopBackground \/ FinalFlush \/ EvictorExits \/ CloseBegins \/ CloseReturns
    BY <1>5 DEF StopBackground, FinalFlush, EvictorExits, CloseBegins, CloseReturns
<1>6. CASE UNCHANGED touchVars
    BY <1>6 DEF touchVars
<1> QED
    BY <1>a, <1>1, <1>2, <1>3, <1>4, <1>5, <1>6 DEF TouchNext

\* What is queued replaces what was queued, a batch is the whole queue, and a
\* batch is written before the next is taken.
LEMMA RecordStep ==
    ASSUME TouchTypeOK, MutexInv, TimeInv, RecordInv, [TouchNext]_touchVars
    PROVE  RecordInv'
<1> SUFFICES ASSUME Undisturbed' PROVE RecordInv'
    BY DEF RecordInv
<1>0. Undisturbed
    BY DisturbedStays
<1> USE AccessAssumption, <1>0 DEF TouchTypeOK, RecordInv, Times
<1>b. \A u \in underway : u.key \in Keys /\ u.at \in Times
    BY DEF Uses
<1>a. ASSUME NEW op \in {"touch", "upsert"}, NEW k \in Keys, Stamp(op, k) PROVE RecordInv'
    BY <1>a DEF Stamp
<1>1. ASSUME NEW u \in underway, Touch(u) PROVE RecordInv'
    <2>1. CASE UNCHANGED <<pending, queued>>
        BY <1>1, <2>1 DEF Touch
    <2>2. CASE ~ UNCHANGED <<pending, queued>>
        <3>1. PICK q \in Nat : /\ q <= u.at
                               /\ queued' = [queued EXCEPT ![u.key] = q]
            <4>1. Oldest(u.key) <= u.at /\ Oldest(u.key) \in Nat
                <5>1. PICK v \in underway : v.at = Oldest(u.key)
                    BY OldestIs, Zenon
                <5>2. Oldest(u.key) <= u.at
                    BY OldestIs, Zenon
                <5> QED
                    BY <1>b, <5>1, <5>2
            <4> QED
                BY <1>1, <1>b, <2>2, <4>1 DEF Touch
        <3>2. /\ pending' = [pending EXCEPT ![u.key] = u.at]
              /\ UNCHANGED <<access, taken>>
            BY <1>1, <2>2 DEF Touch
        <3> QED
            BY <1>b, <3>1, <3>2
    <2> QED
        BY <2>1, <2>2
<1>2. ASSUME NEW u \in underway, Upsert(u) \/ UpsertFails(u) PROVE RecordInv'
    BY <1>b, <1>2 DEF Upsert, UpsertFails, TimeInv
<1>3. ASSUME NEW f \in Flushers, FlushLocks(f) PROVE RecordInv'
    <2>1. \A g \in Flushers : taken[g] = Zero
        BY <1>3 DEF FlushLocks, MutexInv, Flushers
    <2> QED
        BY <1>3, <2>1 DEF FlushLocks, Zero
<1>4. ASSUME NEW f \in Flushers, FlushCommits(f) PROVE RecordInv'
    <2>1. \A g \in Flushers \ {f} : taken[g] = Zero
        BY <1>4 DEF FlushCommits, MutexInv
    <2>2. \A g \in Flushers : taken'[g] = Zero
        BY <1>4, <2>1 DEF FlushCommits
    <2>3. ASSUME NEW k \in Keys, pending[k] = 0 PROVE access'[k] >= queued[k]
        BY <1>4, <2>1, <2>3 DEF FlushCommits, Zero, TimeInv
    <2> QED
        BY <1>4, <2>2, <2>3 DEF FlushCommits, Zero
<1>5. ASSUME NEW f \in Flushers, FlushFails(f) PROVE FALSE
    BY <1>5 DEF FlushFails, Undisturbed
<1>6. ASSUME NEW objects \in SUBSET Keys, SweepDropsTouches(objects) PROVE RecordInv'
    BY <1>6 DEF SweepDropsTouches
<1>7. CASE SweepDeletesRows
    BY <1>7 DEF SweepDeletesRows
<1>8. CASE SweepKeepsRows
    BY <1>8 DEF SweepKeepsRows, Undisturbed
<1>9. ASSUME NEW f \in Flushers, FlushBegins(f) PROVE RecordInv'
    BY <1>9 DEF FlushBegins
<1>10. CASE StopBackground \/ FinalFlush \/ EvictorExits \/ CloseBegins \/ CloseReturns
    BY <1>10 DEF StopBackground, FinalFlush, EvictorExits, CloseBegins, CloseReturns
<1>11. CASE UNCHANGED touchVars
    BY <1>11 DEF touchVars
<1> QED
    BY <1>a, <1>1, <1>2, <1>3, <1>4, <1>5, <1>6, <1>7, <1>8, <1>9, <1>10, <1>11
       DEF TouchNext, FlushStep

\* The evictor takes the mutex with no other batch under way, so what was due is
\* in the queue or in the rows; what is recorded later is no older than that.
LEMMA RankStep ==
    ASSUME TouchInv, [TouchNext]_touchVars
    PROVE  RankInv'
<1> SUFFICES ASSUME Undisturbed' PROVE RankInv'
    BY DEF RankInv
<1>0. Undisturbed
    BY DisturbedStays DEF TouchInv
<1>a. "evictor" \in Flushers
    BY DEF Flushers
<1> USE AccessAssumption, <1>0, <1>a DEF TouchInv, TouchTypeOK, RankInv, Times
<1>b. \A u \in underway : u.key \in Keys /\ u.at \in Times /\ due[u.key] <= u.at
    BY DEF Uses, TimeInv
<1>c. ASSUME NEW op \in {"touch", "upsert"}, NEW k \in Keys, Stamp(op, k) PROVE RankInv'
    BY <1>c DEF Stamp
<1>1. ASSUME NEW u \in underway, Touch(u) PROVE RankInv'
    BY <1>1 DEF Touch
<1>2. ASSUME NEW u \in underway, Upsert(u) \/ UpsertFails(u) PROVE RankInv'
    BY <1>b, <1>2 DEF Upsert, UpsertFails
<1>3. ASSUME NEW f \in Flushers, FlushBegins(f) PROVE RankInv'
    BY <1>3 DEF FlushBegins
<1>4. ASSUME NEW f \in Flushers, FlushLocks(f) PROVE RankInv'
    <2>1. \A g \in Flushers : taken[g] = Zero
        BY <1>4 DEF FlushLocks, MutexInv, Flushers
    <2>2. pc["evictor"] # "flush"
        BY <1>4 DEF FlushLocks, MutexInv, Flushers
    <2>3. ASSUME NEW k \in Keys
          PROVE  IF pending[k] # 0 THEN pending[k] >= due[k] ELSE access[k] >= due[k]
        BY <2>1 DEF Zero, RecordInv, TimeInv
    <2>4. CASE Queue = {}
        BY <1>4, <2>1, <2>2, <2>3, <2>4 DEF FlushLocks, Queue, Zero, AfterFlush, AfterError
    <2>5. CASE Queue # {}
        <3>1. /\ pc' = [pc EXCEPT ![f] = "flush"]
              /\ taken' = [taken EXCEPT ![f] = pending]
              /\ UNCHANGED <<access, due>>
            BY <1>4, <2>5 DEF FlushLocks
        <3>2. CASE f = "evictor"
            BY <2>3, <3>1, <3>2
        <3>3. CASE f # "evictor"
            BY <2>1, <2>2, <2>3, <3>1, <3>3 DEF Zero
        <3> QED
            BY <3>2, <3>3
    <2> QED
        BY <2>4, <2>5
<1>5. ASSUME NEW f \in Flushers, FlushCommits(f) PROVE RankInv'
    <2>1. \A g \in Flushers : taken'[g] = Zero
        BY <1>5 DEF FlushCommits, MutexInv
    <2>2. pc'["evictor"] # "flush"
        BY <1>5 DEF FlushCommits, MutexInv, AfterFlush, AfterError
    <2>3. ASSUME NEW k \in Keys, pc'["evictor"] = "rank" PROVE access'[k] >= due[k]
        <3>1. pc["evictor"] = IF f = "evictor" THEN "flush" ELSE "rank"
            BY <1>5, <2>3 DEF FlushCommits
        <3>2. access[k] = 0 => due[k] = 0
            BY DEF TimeInv
        <3> QED
            BY <1>5, <3>1, <3>2 DEF FlushCommits
    <2> QED
        BY <1>5, <2>1, <2>2, <2>3 DEF FlushCommits, Zero
<1>6. ASSUME NEW f \in Flushers, FlushFails(f) PROVE FALSE
    BY <1>6 DEF FlushFails, Undisturbed
<1>7. ASSUME NEW objects \in SUBSET Keys, SweepDropsTouches(objects) PROVE RankInv'
    BY <1>7 DEF SweepDropsTouches
<1>8. CASE SweepDeletesRows
    BY <1>8 DEF SweepDeletesRows
<1>9. CASE SweepKeepsRows
    BY <1>9 DEF SweepKeepsRows
<1>10. CASE FinalFlush \/ EvictorExits \/ CloseBegins
    BY <1>10 DEF FinalFlush, EvictorExits, CloseBegins
<1>11. CASE StopBackground \/ CloseReturns
    BY <1>11 DEF StopBackground, CloseReturns
<1>12. CASE UNCHANGED touchVars
    BY <1>12 DEF touchVars
<1> QED
    BY <1>c, <1>1, <1>2, <1>3, <1>4, <1>5, <1>6, <1>7, <1>8, <1>9, <1>10, <1>11, <1>12
       DEF TouchNext, FlushStep

\* The invariant holds in every behaviour of the index's touches.
THEOREM TouchInvHolds == TouchSpec => []TouchInv
<1>1. ASSUME TouchInit PROVE TouchInv
    <2>1. Zero \in [Keys -> Times] /\ (\A k \in Keys : Zero[k] = 0)
        BY AccessAssumption DEF Zero, Times
    <2>2. TouchTypeOK
        <3>1. cancelled \in BOOLEAN
            BY <1>1, Zenon DEF TouchInit
        <3>2. clock \in Times /\ errors \in 0 .. MaxErrors
            BY <1>1, AccessAssumption DEF TouchInit, Times
        <3> QED
            BY <1>1, <2>1, <3>1, <3>2 DEF TouchInit, TouchTypeOK
    <2>3. MutexInv
        BY <1>1 DEF TouchInit, MutexInv, Flushers
    <2>4. TimeInv /\ RecordInv
        BY <1>1, <2>1 DEF TouchInit, TimeInv, RecordInv
    <2>5. RankInv
        BY <1>1 DEF TouchInit, RankInv, Flushers
    <2> QED
        BY <2>2, <2>3, <2>4, <2>5 DEF TouchInv
<1>2. TouchInv /\ [TouchNext]_touchVars => TouchInv'
    BY TouchTypeStep, MutexStep, TimeStep, RecordStep, RankStep DEF TouchInv
<1> QED
    BY <1>1, <1>2, PTL DEF TouchSpec

\* Index: times and batches keep their types, and the flush mutex one holder.
THEOREM TouchTypeCorrect == TouchSpec => []TouchTypeOK
BY TouchInvHolds, PTL DEF TouchInv

\* Touch, Upsert and FlushTouches never leave a row older than a touch that has left
\* the queue and than all uses under way beside it, for any number of keys, of
\* concurrent calls and any queue limit.
THEOREM FlushedTouchIsKeptHolds == TouchSpec => []FlushedTouchIsKept
<1>1. TouchInv => FlushedTouchIsKept
    BY DEF TouchInv, RecordInv, FlushedTouchIsKept
<1> QED
    BY <1>1, TouchInvHolds, PTL

\* Sweep ranks by every read queued before it began, or by a use under way beside it.
THEOREM SweepSeesQueuedReadsHolds == TouchSpec => []SweepSeesQueuedReads
<1>1. TouchInv => SweepSeesQueuedReads
    BY DEF TouchInv, RankInv, SweepSeesQueuedReads
<1> QED
    BY <1>1, TouchInvHolds, PTL

-----------------------------------------------------------------------------
(***************************************************************************)
(* Sums over a column of the index (Index.Totals).  The community module   *)
(* defines them by recursion on finite sets; each fact is shown for a      *)
(* smallest set it could fail for.                                         *)
(***************************************************************************)

\* The sum of c over s, and the recursive function the library takes it from.
Sum(c, s) == MapThenSumSet(LAMBDA o : c[o], s)
Pick(s) == CHOOSE x \in s : TRUE
IsSum(g, c, S) == g = [s \in SUBSET S |-> IF s = {} THEN 0 ELSE c[Pick(s)] + g[s \ {Pick(s)}]]
Iter(c, S) == CHOOSE g : IsSum(g, c, S)

\* Index.Totals: a sum is the value of that function at the whole set.
LEMMA SumIs == ASSUME NEW c, NEW S PROVE Sum(c, S) = Iter(c, S)[S]
    BY DEF Sum, MapThenSumSet, MapThenFoldSet, Iter, IsSum, Pick

\* Index.Totals: its equation has at most one solution on a finite set.
LEMMA SumUnique ==
    ASSUME NEW c, NEW S, IsFiniteSet(S), NEW g, NEW h, IsSum(g, c, S), IsSum(h, c, S)
    PROVE  g = h
<1> DEFINE B == {s \in SUBSET S : g[s] # h[s]}
<1>0. /\ \A s \in SUBSET S : g[s] = IF s = {} THEN 0 ELSE c[Pick(s)] + g[s \ {Pick(s)}]
      /\ \A s \in SUBSET S : h[s] = IF s = {} THEN 0 ELSE c[Pick(s)] + h[s \ {Pick(s)}]
      /\ g = [s \in SUBSET S |-> g[s]] /\ h = [s \in SUBSET S |-> h[s]]
    BY Zenon DEF IsSum
<1>1. ASSUME B # {} PROVE FALSE
    <2>0. B \in SUBSET (SUBSET S)
        OBVIOUS
    <2>1. PICK s \in B : \A t \in B : ~ (t \subseteq s /\ t # s)
        <3> HIDE DEF B
        <3> QED
            BY <1>1, <2>0, Minimal
    <2>2. s # {}
        BY <1>0
    <2>3. Pick(s) \in s
        BY <2>2 DEF Pick
    <2>4. g[s \ {Pick(s)}] = h[s \ {Pick(s)}]
        BY <2>1, <2>3
    <2> QED
        BY <1>0, <2>2, <2>4
<1>2. \A s \in SUBSET S : g[s] = h[s]
    BY <1>1
<1> QED
    BY <1>0, <1>2

\* Index.Totals: a solution solves the equation on every part of the set.
LEMMA SumRestricts ==
    ASSUME NEW c, NEW S, NEW g, IsSum(g, c, S), NEW U \in SUBSET S
    PROVE  IsSum([t \in SUBSET U |-> g[t]], c, U)
<1> DEFINE h == [t \in SUBSET U |-> g[t]]
<1>0. \A s \in SUBSET S : g[s] = IF s = {} THEN 0 ELSE c[Pick(s)] + g[s \ {Pick(s)}]
    BY Zenon DEF IsSum
<1>1. \A t \in SUBSET U : t \in SUBSET S /\ t \ {Pick(t)} \in SUBSET U
    OBVIOUS
<1>2. \A t \in SUBSET U : h[t] = g[t]
    OBVIOUS
<1>3. \A t \in SUBSET U : h[t] = IF t = {} THEN 0 ELSE c[Pick(t)] + h[t \ {Pick(t)}]
    BY <1>0, <1>1, <1>2
<1>4. h = [t \in SUBSET U |-> h[t]]
    OBVIOUS
<1> HIDE DEF h
<1>5. IsSum(h, c, U)
    BY <1>3, <1>4 DEF IsSum
<1> QED
    BY <1>5 DEF h

\* Index.Totals: the equation has a solution on every finite set.
LEMMA SumExists ==
    ASSUME NEW c, NEW S, IsFiniteSet(S)
    PROVE  IsSum(Iter(c, S), c, S)
<1> DEFINE B == {s \in SUBSET S : ~ \E g : IsSum(g, c, s)}
<1>1. ASSUME B # {} PROVE FALSE
    <2>0. B \in SUBSET (SUBSET S)
        OBVIOUS
    <2>1. PICK s \in B : \A t \in B : ~ (t \subseteq s /\ t # s)
        <3> HIDE DEF B
        <3> QED
            BY <1>1, <2>0, Minimal
    <2>2. \A t \in SUBSET s : t # s => IsSum(Iter(c, t), c, t)
        BY <2>1 DEF Iter
    <2>3. \A t \in SUBSET s : IsFiniteSet(t)
        BY FS_Subset
    <2> DEFINE part(t) == Iter(c, t)[t]
               rest(t) == t \ {Pick(t)}
               h == [t \in SUBSET s |-> IF t = {} THEN 0 ELSE c[Pick(t)] + part(rest(t))]
    <2>4. ASSUME NEW t \in SUBSET s, t # s PROVE part(t) = h[t]
        <3>1. CASE t = {}
            <4>1. Iter(c, t)[t] = 0
                BY <2>2, <3>1, <2>4 DEF IsSum
            <4> QED
                BY <3>1, <4>1
        <3>2. CASE t # {}
            <4>1. Iter(c, t)[t] = c[Pick(t)] + Iter(c, t)[rest(t)]
                BY <2>2, <3>2, <2>4, Zenon DEF IsSum
            <4>2. rest(t) \in SUBSET t /\ rest(t) \in SUBSET s /\ rest(t) # s
                BY <2>4
            <4>3. IsSum([u \in SUBSET rest(t) |-> Iter(c, t)[u]], c, rest(t))
                BY <2>2, <2>4, <4>2, SumRestricts, Zenon
            <4>4. IsSum(Iter(c, rest(t)), c, rest(t)) /\ IsFiniteSet(rest(t))
                BY <2>2, <2>3, <4>2, Zenon
            <4>5. [u \in SUBSET rest(t) |-> Iter(c, t)[u]] = Iter(c, rest(t))
                BY <4>3, <4>4, SumUnique, Zenon
            <4>6. Iter(c, t)[rest(t)] = Iter(c, rest(t))[rest(t)]
                BY <4>5, Zenon
            <4> QED
                BY <3>2, <4>1, <4>6
        <3> QED
            BY <3>1, <3>2
    <2>5. ASSUME NEW t \in SUBSET s, t # {} PROVE rest(t) \in SUBSET s /\ rest(t) # s
        <3>1. Pick(t) \in t
            BY <2>5 DEF Pick
        <3> QED
            BY <3>1
    <2>6. \A t \in SUBSET s : h[t] = IF t = {} THEN 0 ELSE c[Pick(t)] + h[rest(t)]
        BY <2>4, <2>5
    <2>7. h = [t \in SUBSET s |-> h[t]]
        OBVIOUS
    <2> HIDE DEF h
    <2>8. IsSum(h, c, s)
        BY <2>6, <2>7 DEF IsSum
    <2> QED
        BY <2>1, <2>8
<1>2. \E g : IsSum(g, c, S)
    BY <1>1
<1> QED
    BY <1>2 DEF Iter

\* Index.Totals: nothing adds up to nothing, and otherwise to what is picked and
\* the sum of the rest.
LEMMA SumStep ==
    ASSUME NEW c, NEW S, IsFiniteSet(S)
    PROVE  /\ S = {} => Sum(c, S) = 0
           /\ S # {} => Pick(S) \in S /\ Sum(c, S) = c[Pick(S)] + Sum(c, S \ {Pick(S)})
<1> DEFINE T == S \ {Pick(S)}
<1>1. IsSum(Iter(c, S), c, S)
    BY SumExists
<1>2. Iter(c, S)[S] = IF S = {} THEN 0 ELSE c[Pick(S)] + Iter(c, S)[T]
    BY <1>1, Zenon DEF IsSum
<1>3. T \in SUBSET S /\ IsFiniteSet(T)
    BY FS_Subset
<1>4. Iter(c, S)[T] = Iter(c, T)[T]
    <2> HIDE DEF T
    <2>1. IsSum([u \in SUBSET T |-> Iter(c, S)[u]], c, T)
        BY <1>1, <1>3, SumRestricts, Zenon
    <2>2. IsSum(Iter(c, T), c, T)
        BY <1>3, SumExists
    <2>3. [u \in SUBSET T |-> Iter(c, S)[u]] = Iter(c, T)
        BY <1>3, <2>1, <2>2, SumUnique, Zenon
    <2> QED
        BY <2>3, Zenon
<1>5. Sum(c, S) = Iter(c, S)[S] /\ Sum(c, T) = Iter(c, T)[T]
    BY SumIs
<1>6. S # {} => Pick(S) \in S
    BY DEF Pick
<1> QED
    BY <1>2, <1>4, <1>5, <1>6

\* Index.Totals: a sum of sizes is a size.
LEMMA SumNat ==
    ASSUME NEW c, NEW S, IsFiniteSet(S), \A x \in S : c[x] \in Nat
    PROVE  Sum(c, S) \in Nat
<1> DEFINE B == {s \in SUBSET S : Sum(c, s) \notin Nat}
<1>1. ASSUME B # {} PROVE FALSE
    <2>0. B \in SUBSET (SUBSET S)
        OBVIOUS
    <2>1. PICK s \in B : \A t \in B : ~ (t \subseteq s /\ t # s)
        <3> HIDE DEF B
        <3> QED
            BY <1>1, <2>0, Minimal
    <2>2. IsFiniteSet(s)
        BY FS_Subset
    <2>3. s # {}
        <3>1. s = {} => Sum(c, s) = 0
            BY <2>2, SumStep
        <3> QED
            BY <2>1, <3>1
    <2>4. Pick(s) \in s /\ Sum(c, s) = c[Pick(s)] + Sum(c, s \ {Pick(s)})
        BY <2>2, <2>3, SumStep
    <2>5. Sum(c, s \ {Pick(s)}) \in Nat
        BY <2>1, <2>4
    <2> QED
        BY <2>4, <2>5
<1> QED
    BY <1>1

\* Index.Totals: a sum does not depend on which row is counted first.
LEMMA SumRemove ==
    ASSUME NEW c, NEW S, IsFiniteSet(S), \A x \in S : c[x] \in Nat, NEW e \in S
    PROVE  Sum(c, S) = c[e] + Sum(c, S \ {e})
<1> DEFINE B == {s \in SUBSET S : \E x \in s : Sum(c, s) # c[x] + Sum(c, s \ {x})}
<1>1. ASSUME B # {} PROVE FALSE
    <2>0. B \in SUBSET (SUBSET S)
        OBVIOUS
    <2>1. PICK s \in B : \A t \in B : ~ (t \subseteq s /\ t # s)
        <3> HIDE DEF B
        <3> QED
            BY <1>1, <2>0, Minimal
    <2>2. PICK x \in s : Sum(c, s) # c[x] + Sum(c, s \ {x})
        BY <2>1
    <2> DEFINE y == Pick(s)
    <2>3. \A t \in SUBSET s : IsFiniteSet(t)
        BY FS_Subset
    <2>4. y \in s /\ Sum(c, s) = c[y] + Sum(c, s \ {y})
        BY <2>2, <2>3, SumStep
    <2> HIDE DEF y
    <2>5. x # y
        BY <2>2, <2>4
    <2>6. Sum(c, s \ {y}) = c[x] + Sum(c, (s \ {y}) \ {x})
        BY <2>1, <2>4, <2>5
    <2>7. Sum(c, s \ {x}) = c[y] + Sum(c, (s \ {x}) \ {y})
        BY <2>1, <2>2, <2>4, <2>5
    <2>8. (s \ {y}) \ {x} = (s \ {x}) \ {y}
        OBVIOUS
    <2>9. \A z \in (s \ {x}) \ {y} : c[z] \in Nat
        OBVIOUS
    <2>10. Sum(c, (s \ {x}) \ {y}) \in Nat
        <3>1. IsFiniteSet((s \ {x}) \ {y})
            BY <2>3
        <3> QED
            BY <2>9, <3>1, SumNat
    <2>11. c[x] \in Nat /\ c[y] \in Nat
        BY <2>2, <2>4
    <2> HIDE DEF B
    <2> QED
        BY <2>2, <2>4, <2>6, <2>7, <2>8, <2>10, <2>11
<1>2. S \in SUBSET S
    OBVIOUS
<1> QED
    BY <1>1, <1>2

\* Index.Totals: columns that agree on a set of rows have the same sum over it.
LEMMA SumAgree ==
    ASSUME NEW c, NEW d, NEW S, IsFiniteSet(S), \A x \in S : c[x] = d[x]
    PROVE  Sum(c, S) = Sum(d, S)
<1> DEFINE B == {s \in SUBSET S : Sum(c, s) # Sum(d, s)}
<1>1. ASSUME B # {} PROVE FALSE
    <2>0. B \in SUBSET (SUBSET S)
        OBVIOUS
    <2>1. PICK s \in B : \A t \in B : ~ (t \subseteq s /\ t # s)
        <3> HIDE DEF B
        <3> QED
            BY <1>1, <2>0, Minimal
    <2>2. IsFiniteSet(s)
        BY FS_Subset
    <2>3. s # {}
        BY <2>2, SumStep
    <2>4. /\ Pick(s) \in s
          /\ Sum(c, s) = c[Pick(s)] + Sum(c, s \ {Pick(s)})
          /\ Sum(d, s) = d[Pick(s)] + Sum(d, s \ {Pick(s)})
        BY <2>2, <2>3, SumStep
    <2>5. Sum(c, s \ {Pick(s)}) = Sum(d, s \ {Pick(s)})
        BY <2>1, <2>4
    <2> QED
        BY <2>4, <2>5
<1> QED
    BY <1>1


-----------------------------------------------------------------------------
(* Quota: columns *)

Columns == [Objects -> Sizes \cup {None}]
Without(column, s) == [o \in Objects |-> IF o \in s THEN None ELSE column[o]]

\* Sizes are positive numbers, none of them None, and there is a largest.
LEMMA SizesAreNumbers ==
    /\ Sizes \subseteq Nat /\ None \notin Sizes /\ Sizes # {}
    /\ \A o \in Objects : SizesOf[o] \subseteq Sizes
    /\ Max(Sizes) \in Nat /\ \A size \in Sizes : Max(Sizes) >= size
<1>1. Sizes \subseteq Nat /\ Sizes # {} /\ \A o \in Objects : SizesOf[o] \subseteq Sizes
    BY QuotaAssumption DEF Sizes
<1>2. Max(Sizes) \in Sizes /\ \A size \in Sizes : Max(Sizes) >= size
    BY <1>1, MaxIsLargest, QuotaAssumption
<1> QED
    BY <1>1, <1>2, QuotaAssumption

\* Index.Totals of a column is a number, and 0 when the column has no rows.
LEMMA TotalIsNat ==
    ASSUME NEW column \in Columns
    PROVE  Total(column) \in Nat /\ (Present(column) = {} => Total(column) = 0)
<1>1. IsFiniteSet(Present(column))
    BY FS_Subset, QuotaAssumption DEF Present
<1>2. \A o \in Present(column) : column[o] \in Nat
    BY SizesAreNumbers DEF Present, Columns
<1>3. Total(column) = Sum(column, Present(column))
    BY DEF Total, Sum
<1> QED
    BY <1>1, <1>2, <1>3, SumNat, SumStep

\* Index.RemoveBatch of one more row takes its size off the total.
LEMMA TotalWithout ==
    ASSUME NEW column \in Columns, NEW s \in SUBSET Objects,
           NEW o \in Objects, column[o] # None, o \notin s
    PROVE  Total(Without(column, s)) = column[o] + Total(Without(column, s \cup {o}))
<1> DEFINE c == Without(column, s)
           d == Without(column, s \cup {o})
<1>1. c \in Columns /\ d \in Columns
    BY DEF Columns, Without
<1>2. o \in Present(c) /\ c[o] = column[o] /\ Present(d) = Present(c) \ {o}
    BY DEF Present, Without
<1>3. \A x \in Present(d) : c[x] = d[x]
    BY DEF Present, Without
<1>4. /\ Total(c) = Sum(c, Present(c))
      /\ Total(d) = Sum(d, Present(d))
    BY DEF Total, Sum
<1> HIDE DEF c, d
<1>5. IsFiniteSet(Present(c)) /\ IsFiniteSet(Present(d))
    BY FS_Subset, QuotaAssumption DEF Present
<1>6. \A x \in Present(c) : c[x] \in Nat
    BY <1>1, SizesAreNumbers DEF Present, Columns
<1>7. Sum(c, Present(c)) = c[o] + Sum(c, Present(c) \ {o})
    BY <1>2, <1>5, <1>6, SumRemove
<1>8. Sum(c, Present(d)) = Sum(d, Present(d))
    BY <1>3, <1>5, SumAgree
<1>9. Total(c) = column[o] + Total(d)
    BY <1>2, <1>4, <1>7, <1>8
<1> QED
    BY <1>9 DEF c, d

-----------------------------------------------------------------------------
(* Quota: the invariant *)

\* Columns are functions, and a Put writes a size its object can have.
ColumnInv ==
    /\ file \in Columns /\ row \in Columns
    /\ \A p \in Callers : call[p] # None => call[p].size \in SizesOf[call[p].obj]

\* Between sweeps Sweep has no locals, and a dead process does not sweep.
IdleInv ==
    /\ ev = "idle" => mustFree = 0 /\ freed = 0 /\ refs = {}
    /\ ~up => ev = "idle"

\* The accounts of a sweep nothing has interfered with: what is left, without the
\* files already unlinked, and what was freed make up what was used; the rows of
\* the batch are still those of the index; and every batch makes progress.
SweepInv ==
    ev # "idle" /\ quiet =>
        /\ refs \subseteq Present(row)
        /\ Total(Without(row, refs)) + freed = mustFree + LowBytes
        /\ freed < mustFree + Max(Sizes)
        /\ ev = "batch" => refs = {} /\ freed < mustFree
        /\ ev # "batch" => \A o \in Present(batch) : o \notin refs /\ row[o] = batch[o]
        /\ ev = "unlink" => refs # {} \/ (freed < mustFree /\ Present(batch) # {})
        /\ ev = "remove" => refs # {}

AboutToWake == wake \/ \E p \in Callers : call[p] # None /\ call[p].at = "wake"

\* Who indexed something during a sweep has woken the evictor or is about to.
WakeInv == ev # "idle" /\ ~quiet /\ faults = 0 /\ stuck = {} => AboutToWake

QuotaInv == TypeOK /\ ColumnInv /\ IdleInv /\ SweepInv /\ WakeInv /\ OverQuotaIsNoticed

\* Usage is a number.
LEMMA UsedIsNat == ASSUME ColumnInv PROVE Used \in Nat
    BY TotalIsNat DEF ColumnInv, Used

\* A call that has not returned is a call of the model, whatever its stage.
LEMMA CallStages ==
    ASSUME TypeOK, NEW p \in Callers, call[p] # None
    PROVE  /\ call[p].obj \in Objects /\ call[p].size \in Sizes
           /\ \A stage \in {"store", "index", "wake"} :
                 /\ [call[p] EXCEPT !.at = stage] \in Calls
                 /\ [call[p] EXCEPT !.at = stage] # None
                 /\ [call[p] EXCEPT !.at = stage].at = stage
                 /\ [call[p] EXCEPT !.at = stage].obj = call[p].obj
                 /\ [call[p] EXCEPT !.at = stage].size = call[p].size
<1>1. call[p] \in Calls
    BY DEF TypeOK
<1>2. call[p].obj \in Objects /\ call[p].size \in Sizes
    BY <1>1 DEF Calls
<1>3. ASSUME NEW stage \in {"store", "index", "wake"}
      PROVE  /\ [call[p] EXCEPT !.at = stage] \in Calls
             /\ [call[p] EXCEPT !.at = stage].at = stage
             /\ [call[p] EXCEPT !.at = stage].obj = call[p].obj
             /\ [call[p] EXCEPT !.at = stage].size = call[p].size
    BY <1>1 DEF Calls
<1> QED
    BY <1>2, <1>3, QuotaAssumption

\* A call begins as a call of the model.
LEMMA CallBegins ==
    ASSUME NEW o \in Objects, NEW size \in SizesOf[o], NEW stage \in {"store", "index", "wake"}
    PROVE  [obj |-> o, size |-> size, at |-> stage] \in Calls \ {None}
    BY SizesAreNumbers, QuotaAssumption DEF Calls

\* Faults are counted up to their bound.
LEMMA FaultIsCounted ==
    ASSUME TypeOK, Fault \/ UNCHANGED faults
    PROVE  faults' \in 0 .. MaxFaults
<1>1. faults \in 0 .. MaxFaults /\ MaxFaults \in Nat
    BY QuotaAssumption DEF TypeOK
<1> QED
    BY <1>1 DEF Fault

\* Every action of Put and of Sweep assigns values of the variables' types.
LEMMA QuotaTypeStep ==
    ASSUME TypeOK, ColumnInv, [Next]_vars
    PROVE  TypeOK' /\ ColumnInv'
<1> USE QuotaAssumption, SizesAreNumbers DEF TypeOK, ColumnInv
<1>1. ASSUME NEW p \in Putters, NEW o \in Objects, NEW size \in SizesOf[o],
             PutPublishes(p, o, size)
      PROVE  TypeOK' /\ ColumnInv'
    <2> DEFINE c == [obj |-> o, size |-> size, at |-> "index"]
    <2>1. c \in Calls /\ c.obj = o /\ c.size = size
        BY CallBegins
    <2>2. call' = [call EXCEPT ![p] = c] /\ p \in Callers
        BY <1>1 DEF PutPublishes, Callers
    <2> HIDE DEF c
    <2>3. call' \in [Callers -> Calls \cup {None}]
        BY <2>1, <2>2
    <2>4. \A q \in Callers : call'[q] # None => call'[q].size \in SizesOf[call'[q].obj]
        BY <2>1, <2>2
    <2>5. file' \in Columns /\ \A x \in Objects : file'[x] \in SizesOf[x] \cup {None}
        BY <1>1 DEF PutPublishes, Columns
    <2>6. puts' \in 0 .. MaxPuts
        BY <1>1 DEF PutPublishes
    <2> QED
        BY <1>1, <2>3, <2>4, <2>5, <2>6 DEF PutPublishes, evictor
<1>2. ASSUME NEW p \in Repairers, NEW o \in Objects, NEW size \in SizesOf[o],
             RepairProbed(p, o, size)
      PROVE  TypeOK' /\ ColumnInv'
    <2> DEFINE c == [obj |-> o, size |-> size, at |-> "store"]
    <2>1. c \in Calls /\ c.obj = o /\ c.size = size
        BY CallBegins
    <2>2. call' = [call EXCEPT ![p] = c] /\ p \in Callers
        BY <1>2 DEF RepairProbed, Callers
    <2> HIDE DEF c
    <2>3. faults' \in 0 .. MaxFaults
        BY <1>2, FaultIsCounted DEF RepairProbed
    <2>4. call' \in [Callers -> Calls \cup {None}]
        BY <2>1, <2>2
    <2>5. \A q \in Callers : call'[q] # None => call'[q].size \in SizesOf[call'[q].obj]
        BY <2>1, <2>2
    <2> QED
        BY <1>2, <2>3, <2>4, <2>5 DEF RepairProbed, evictor
<1>3. ASSUME NEW p \in Callers, RepairStores(p)
      PROVE  TypeOK' /\ ColumnInv'
    <2> DEFINE c == [call[p] EXCEPT !.at = "index"]
    <2>1. c \in Calls /\ c.obj = call[p].obj /\ c.size = call[p].size
        BY <1>3, CallStages DEF RepairStores
    <2>2. call[p].obj \in Objects /\ call[p].size \in Sizes
          /\ call[p].size \in SizesOf[call[p].obj]
        BY <1>3, CallStages DEF RepairStores
    <2>3. /\ call' = [call EXCEPT ![p] = c] \/ call' = [call EXCEPT ![p] = None]
          /\ file' = [file EXCEPT ![call[p].obj] = call[p].size] \/ file' = file
        BY <1>3 DEF RepairStores
    <2> HIDE DEF c
    <2>4. call' \in [Callers -> Calls \cup {None}]
        BY <2>1, <2>3
    <2>5. file' \in Columns /\ \A o \in Objects : file'[o] \in SizesOf[o] \cup {None}
        BY <2>2, <2>3 DEF Columns
    <2>6. \A q \in Callers : call'[q] # None => call'[q].size \in SizesOf[call'[q].obj]
        BY <2>1, <2>2, <2>3
    <2> QED
        BY <1>3, <2>4, <2>5, <2>6 DEF RepairStores, evictor
<1>4. ASSUME NEW p \in Callers, PutUpserts(p) \/ PutUpsertFails(p)
      PROVE  TypeOK' /\ ColumnInv'
    <2> DEFINE c == [call[p] EXCEPT !.at = "wake"]
    <2>1. c \in Calls /\ c.obj = call[p].obj /\ c.size = call[p].size
        BY <1>4, CallStages DEF PutUpserts, PutUpsertFails
    <2>2. call[p].obj \in Objects /\ call[p].size \in Sizes
          /\ call[p].size \in SizesOf[call[p].obj]
        BY <1>4, CallStages DEF PutUpserts, PutUpsertFails
    <2>3. /\ call' = [call EXCEPT ![p] = c]
          /\ row' = [row EXCEPT ![call[p].obj] = call[p].size] \/ row' = row
        BY <1>4 DEF PutUpserts, PutUpsertFails
    <2> HIDE DEF c
    <2>4. call' \in [Callers -> Calls \cup {None}]
        BY <2>1, <2>3
    <2>5. row' \in Columns /\ \A o \in Objects : row'[o] \in SizesOf[o] \cup {None}
        BY <2>2, <2>3 DEF Columns
    <2>6. \A q \in Callers : call'[q] # None => call'[q].size \in SizesOf[call'[q].obj]
        BY <2>1, <2>2, <2>3
    <2>7. faults' \in 0 .. MaxFaults
        BY <1>4, FaultIsCounted DEF PutUpserts, PutUpsertFails
    <2> QED
        BY <1>4, <2>4, <2>5, <2>6, <2>7 DEF PutUpserts, PutUpsertFails, evictor
<1>5. ASSUME NEW p \in Callers, PutWakes(p)
      PROVE  TypeOK' /\ ColumnInv'
    BY <1>5 DEF PutWakes, evictor
<1>6. ASSUME NEW cause \in {"wake", "tick"}, SweepBegins(cause)
      PROVE  TypeOK' /\ ColumnInv'
    <2>1. mustFree' \in Nat
        BY <1>6, UsedIsNat DEF SweepBegins
    <2>2. wake' \in BOOLEAN
        BY <1>6, Zenon DEF SweepBegins
    <2> QED
        BY <1>6, <2>1, <2>2 DEF SweepBegins
<1>7. CASE SweepDeclines
    <2>1. faults' \in 0 .. MaxFaults
        BY <1>7, FaultIsCounted DEF SweepDeclines
    <2> QED
        BY <1>7, <2>1 DEF SweepDeclines, evictor
<1>8. ASSUME NEW rows \in SUBSET Objects, SweepReads(rows)
      PROVE  TypeOK' /\ ColumnInv'
    <2>1. batch' \in [Objects -> Sizes \cup {None}]
        BY <1>8 DEF SweepReads
    <2> QED
        BY <1>8, <2>1 DEF SweepReads
<1>9. CASE SweepGivesUp
    <2>1. faults' \in 0 .. MaxFaults
        BY <1>9, FaultIsCounted DEF SweepGivesUp
    <2>2. quiet' \in BOOLEAN
        BY <1>9, Zenon DEF SweepGivesUp
    <2> QED
        BY <1>9, <2>1, <2>2 DEF SweepGivesUp, EndSweep, Nothing
<1>10. ASSUME NEW o \in Objects, SweepUnlinks(o)
       PROVE  TypeOK' /\ ColumnInv'
    <2>1. file' \in Columns /\ \A x \in Objects : file'[x] \in SizesOf[x] \cup {None}
        BY <1>10 DEF SweepUnlinks, Columns
    <2>2. batch[o] \in Nat
        BY <1>10 DEF SweepUnlinks
    <2>3. freed' \in Nat
        BY <1>10, <2>2 DEF SweepUnlinks
    <2>4. batch' \in [Objects -> Sizes \cup {None}]
        BY <1>10 DEF SweepUnlinks
    <2> QED
        BY <1>10, <2>1, <2>3, <2>4 DEF SweepUnlinks
<1>11. ASSUME NEW o \in Objects, SweepCannotUnlink(o)
       PROVE  TypeOK' /\ ColumnInv'
    <2>1. faults' \in 0 .. MaxFaults
        BY <1>11, FaultIsCounted DEF SweepCannotUnlink
    <2> QED
        BY <1>11, <2>1 DEF SweepCannotUnlink
<1>12. CASE SweepPopped
    BY <1>12 DEF SweepPopped
<1>13. ASSUME NextBatch
       PROVE  /\ ev' \in {"idle", "batch"} /\ mustFree' \in Nat /\ freed' \in Nat
              /\ batch' \in [Objects -> Sizes \cup {None}] /\ refs' \subseteq Objects
    BY <1>13 DEF NextBatch, EndSweep, Nothing
<1>14. CASE SweepRemoves
    <2>1. row' \in Columns /\ \A o \in Objects : row'[o] \in SizesOf[o] \cup {None}
        BY <1>14 DEF SweepRemoves, Columns
    <2> QED
        BY <1>13, <1>14, <2>1 DEF SweepRemoves
<1>15. CASE SweepCannotRemove
    <2>1. faults' \in 0 .. MaxFaults
        BY <1>15, FaultIsCounted DEF SweepCannotRemove
    <2> QED
        BY <1>13, <1>15, <2>1 DEF SweepCannotRemove
<1>16. CASE Killed
    <2>1. faults' \in 0 .. MaxFaults
        BY <1>16, FaultIsCounted DEF Killed
    <2> QED
        BY <1>16, <2>1 DEF Killed, EndSweep, Nothing
<1>17. CASE Reconcile
    BY <1>17 DEF Reconcile, evictor
<1>18. CASE UNCHANGED vars
    BY <1>18 DEF vars, evictor
<1> QED
    BY <1>1, <1>2, <1>3, <1>4, <1>5, <1>6, <1>7, <1>8, <1>9, <1>10, <1>11, <1>12, <1>14,
       <1>15, <1>16, <1>17, <1>18
       DEF Next, PutStep, SweepStep, RunStep, Callers

\* Sweep's locals are reset when it returns, and with the process.
LEMMA IdleStep ==
    ASSUME TypeOK, IdleInv, [Next]_vars
    PROVE  IdleInv'
<1> USE DEF IdleInv
<1>1. ASSUME NEW p \in Callers, PutStep(p) \/ RepairStores(p) PROVE IdleInv'
    BY <1>1 DEF PutStep, PutUpserts, PutUpsertFails, PutWakes, RepairStores, evictor
<1>2. ASSUME NEW p, NEW o, NEW size, PutPublishes(p, o, size) \/ RepairProbed(p, o, size)
      PROVE  IdleInv'
    BY <1>2 DEF PutPublishes, RepairProbed, evictor
<1>3. CASE SweepStep
    BY <1>3 DEF SweepStep, SweepReads, SweepUnlinks, SweepCannotUnlink, SweepGivesUp,
                SweepPopped, SweepRemoves, SweepCannotRemove, NextBatch, EndSweep
<1>4. CASE RunStep
    BY <1>4 DEF RunStep, SweepBegins, SweepDeclines, evictor
<1>5. CASE Killed \/ Reconcile
    BY <1>5 DEF Killed, Reconcile, EndSweep, evictor
<1>6. CASE UNCHANGED vars
    BY <1>6 DEF vars, evictor
<1> QED
    BY <1>1, <1>2, <1>3, <1>4, <1>5, <1>6 DEF Next, Callers

\* With no files unlinked what is left is the index, and what is left once they
\* are is the index without them.
LEMMA WithoutRefs ==
    ASSUME ColumnInv
    PROVE  Without(row, {}) = row /\ (Present(row) = {} => Used = 0)
    BY TotalIsNat DEF ColumnInv, Columns, Without, Used

\* The steps that leave a sweep's accounts as they are.
LEMMA AccountsStay ==
    ASSUME SweepInv, UNCHANGED <<evictor, row>>, quiet' => quiet
    PROVE  SweepInv'
<1>1. UNCHANGED <<ev, mustFree, freed, batch, refs, row>>
    BY DEF evictor
<1> QED
    BY <1>1 DEF SweepInv

\* A sweep that has unlinked all it will, undisturbed, has what it set out to free.
LEMMA EndIsAtLow ==
    ASSUME QuotaInv, SweepRemoves, quiet, freed >= mustFree
    PROVE  Used' <= LowBytes /\ Used' + Max(Sizes) > LowBytes
<1>1. row' = Without(row, refs)
    BY DEF SweepRemoves, Without
<1>2. Used' = Total(Without(row, refs))
    BY <1>1 DEF Used
<1>3. Total(Without(row, refs)) + freed = mustFree + LowBytes /\ freed < mustFree + Max(Sizes)
    BY DEF QuotaInv, SweepInv, SweepRemoves
<1>4. Without(row, refs) \in Columns
    BY DEF QuotaInv, ColumnInv, Columns, Without
<1>5. Used' \in Nat
    BY <1>2, <1>4, TotalIsNat
<1> QED
    BY <1>2, <1>3, <1>5, QuotaAssumption, SizesAreNumbers DEF QuotaInv, TypeOK

\* The accounts of a sweep add up from SweepBegins to the last RemoveBatch.
LEMMA SweepInvStep ==
    ASSUME QuotaInv, [Next]_vars
    PROVE  SweepInv'
<1> USE QuotaAssumption DEF QuotaInv
<1>1. ASSUME NEW p, NEW o, NEW size, PutPublishes(p, o, size) \/ RepairProbed(p, o, size)
      PROVE  SweepInv'
    <2>1. UNCHANGED <<evictor, row, quiet>>
        BY <1>1 DEF PutPublishes, RepairProbed
    <2> QED
        BY <2>1, AccountsStay
<1>2. ASSUME NEW p, RepairStores(p) \/ PutWakes(p) PROVE SweepInv'
    <2>1. UNCHANGED <<evictor, row, quiet>>
        BY <1>2 DEF RepairStores, PutWakes
    <2> QED
        BY <2>1, AccountsStay
<1>3. ASSUME NEW p, PutUpserts(p) \/ PutUpsertFails(p) PROVE SweepInv'
    BY <1>3 DEF PutUpserts, PutUpsertFails, SweepInv
<1>4. ASSUME NEW cause, SweepBegins(cause) PROVE SweepInv'
    <2>1. /\ ev' = "batch" /\ refs' = {} /\ freed' = 0 /\ row' = row
          /\ mustFree' = Used - LowBytes /\ Used > LowBytes
        BY <1>4, UsedIsNat DEF SweepBegins, IdleInv
    <2>2. Total(Without(row, {})) = Used
        BY WithoutRefs DEF Used
    <2>3. Used + 0 = mustFree' + LowBytes /\ 0 < mustFree' /\ 0 < mustFree' + Max(Sizes)
        BY <2>1, UsedIsNat, SizesAreNumbers
    <2> QED
        BY <2>1, <2>2, <2>3 DEF SweepInv
<1>5. CASE SweepDeclines
    BY <1>5, AccountsStay DEF SweepDeclines
<1>6. ASSUME NEW rows \in SUBSET Objects, SweepReads(rows) PROVE SweepInv'
    <2>1. Present(batch') = rows /\ \A o \in rows : batch'[o] = row[o]
        BY <1>6 DEF SweepReads, Present
    <2> QED
        BY <1>6, <2>1 DEF SweepReads, SweepInv
<1>7. ASSUME NEW o \in Objects, SweepUnlinks(o) PROVE SweepInv'
    <2> SUFFICES ASSUME quiet PROVE SweepInv'
        BY <1>7 DEF SweepUnlinks, SweepInv
    <2>1. o \notin refs /\ row[o] = batch[o] /\ row[o] # None
        BY <1>7 DEF SweepUnlinks, SweepInv, Present
    <2>2. refs \in SUBSET Objects /\ row \in Columns
        BY DEF TypeOK, ColumnInv
    <2>3. Total(Without(row, refs)) = row[o] + Total(Without(row, refs \cup {o}))
        BY <2>1, <2>2, TotalWithout
    <2>4. Without(row, refs \cup {o}) \in Columns
        BY <2>2 DEF Columns, Without
    <2>5. Total(Without(row, refs \cup {o})) \in Nat
        BY <2>4, TotalIsNat
    <2>6. row[o] \in Nat /\ row[o] <= Max(Sizes)
        BY <2>1, <2>2, SizesAreNumbers DEF Columns
    <2>7. /\ refs' = refs \cup {o} /\ freed' = freed + row[o] /\ ev' = "unlink"
          /\ freed < mustFree /\ batch' = [batch EXCEPT ![o] = None]
          /\ UNCHANGED <<row, mustFree>>
        BY <1>7, <2>1 DEF SweepUnlinks
    <2>8. Total(Without(row, refs)) + freed = mustFree + LowBytes /\ refs \subseteq Present(row)
        BY <1>7 DEF SweepUnlinks, SweepInv
    <2>9. Total(Without(row', refs')) + freed' = mustFree' + LowBytes
        <3>1. freed \in Nat /\ mustFree \in Nat /\ LowBytes \in Nat
            BY DEF TypeOK
        <3> DEFINE rest == Total(Without(row, refs \cup {o}))
                   size == row[o]
        <3>2. Total(Without(row', refs')) = rest /\ freed' = freed + size /\ mustFree' = mustFree
            BY <2>7
        <3>3. size + rest + freed = mustFree + LowBytes /\ rest \in Nat /\ size \in Nat
            BY <2>3, <2>5, <2>6, <2>8
        <3> HIDE DEF rest, size
        <3>4. rest + (freed + size) = mustFree + LowBytes
            BY <3>1, <3>3
        <3> QED
            BY <3>2, <3>4
    <2>10. freed' < mustFree' + Max(Sizes)
        <3>1. freed \in Nat /\ mustFree \in Nat /\ Max(Sizes) \in Nat
            BY SizesAreNumbers DEF TypeOK
        <3> QED
            BY <2>6, <2>7, <3>1
    <2>11. refs' \subseteq Present(row')
        BY <2>1, <2>7, <2>8 DEF Present
    <2>12. \A x \in Present(batch') : x \notin refs' /\ row'[x] = batch'[x]
        BY <1>7, <2>7 DEF SweepUnlinks, SweepInv, Present, TypeOK
    <2> QED
        BY <2>7, <2>9, <2>10, <2>11, <2>12 DEF SweepInv
<1>8. ASSUME NEW o, SweepCannotUnlink(o) PROVE SweepInv'
    BY <1>8 DEF SweepCannotUnlink, SweepInv
<1>9. CASE SweepGivesUp
    BY <1>9 DEF SweepGivesUp, EndSweep, SweepInv
<1>10. CASE SweepPopped
    <2>1. /\ ev = "unlink" /\ ev' = "remove"
          /\ UNCHANGED <<row, refs, mustFree, freed, batch, quiet>>
          /\ freed >= mustFree \/ Present(batch) = {}
        BY <1>10 DEF SweepPopped
    <2>2. freed \in Nat /\ mustFree \in Nat
        BY DEF TypeOK
    <2>3. quiet => refs # {}
        BY <2>1, <2>2 DEF SweepInv
    <2> QED
        BY <2>1, <2>3 DEF SweepInv
<1>11. CASE SweepRemoves
    <2> SUFFICES ASSUME quiet, ev' # "idle" PROVE SweepInv'
        BY <1>11 DEF SweepRemoves, SweepInv
    <2>1. /\ ev' = "batch" /\ refs' = {} /\ ~ (freed >= mustFree)
          /\ UNCHANGED <<mustFree, freed>>
        BY <1>11 DEF SweepRemoves, NextBatch, EndSweep
    <2>2. row' = Without(row, refs) /\ Without(row', {}) = row'
        BY <1>11 DEF SweepRemoves, Without
    <2>3. Total(Without(row, refs)) + freed = mustFree + LowBytes
        BY <1>11 DEF SweepRemoves, SweepInv
    <2>4. freed' < mustFree' /\ freed' < mustFree' + Max(Sizes)
        BY <2>1, SizesAreNumbers DEF TypeOK
    <2> QED
        BY <2>1, <2>2, <2>3, <2>4 DEF SweepInv
<1>12. CASE SweepCannotRemove
    BY <1>12 DEF SweepCannotRemove, SweepInv
<1>13. CASE Killed
    BY <1>13 DEF Killed, EndSweep, SweepInv
<1>14. CASE Reconcile
    BY <1>14 DEF Reconcile, IdleInv, SweepInv, evictor
<1>15. CASE UNCHANGED vars
    BY <1>15, AccountsStay DEF vars
<1> QED
    BY <1>1, <1>2, <1>3, <1>4, <1>5, <1>6, <1>7, <1>8, <1>9, <1>10, <1>11, <1>12, <1>13,
       <1>14, <1>15
       DEF Next, PutStep, SweepStep, RunStep

\* Who is about to wake the evictor still is after a step of another Put.
LEMMA OthersStillWake ==
    ASSUME TypeOK, AboutToWake, wake' = wake, NEW p \in Callers, NEW c,
           call[p] = None \/ call[p].at # "wake", call' = [call EXCEPT ![p] = c]
    PROVE  AboutToWake'
<1>1. CASE wake
    BY <1>1 DEF AboutToWake
<1>2. CASE ~ wake
    <2>1. PICK q \in Callers : call[q] # None /\ call[q].at = "wake"
        BY <1>2 DEF AboutToWake
    <2>2. q # p
        BY <2>1
    <2>3. call'[q] = call[q]
        BY <2>2 DEF TypeOK
    <2> QED
        BY <2>1, <2>3 DEF AboutToWake
<1> QED
    BY <1>1, <1>2

\* Put wakes after it indexes, Wake is kept while Sweep runs, and a sweep that
\* nobody wrote into leaves nothing to notice.
LEMMA NoticeStep ==
    ASSUME QuotaInv, [Next]_vars
    PROVE  WakeInv' /\ OverQuotaIsNoticed'
<1> SUFFICES ASSUME faults' = 0, stuck' = {} PROVE WakeInv' /\ OverQuotaIsNoticed'
    BY DEF WakeInv, OverQuotaIsNoticed
<1> USE DEF QuotaInv
<1>0. ~ Fault
    BY DEF Fault, TypeOK
<1> DEFINE Same == UNCHANGED <<up, stuck, row, ev, faults, quiet>>
<1>a. ASSUME Same, AboutToWake => AboutToWake' PROVE WakeInv' /\ OverQuotaIsNoticed'
    <2>1. Used' = Used
        BY <1>a DEF Used
    <2> QED
        BY <1>a, <2>1 DEF WakeInv, OverQuotaIsNoticed, AboutToWake
<1>b. ASSUME AboutToWake' PROVE WakeInv' /\ OverQuotaIsNoticed'
    BY <1>b DEF WakeInv, OverQuotaIsNoticed, AboutToWake
<1>1. ASSUME NEW p \in Callers, NEW o, NEW size, PutPublishes(p, o, size)
      PROVE  WakeInv' /\ OverQuotaIsNoticed'
    BY <1>1, <1>a, OthersStillWake DEF PutPublishes, evictor
<1>2. ASSUME NEW p \in Callers, NEW o, NEW size, RepairProbed(p, o, size)
      PROVE  WakeInv' /\ OverQuotaIsNoticed'
    BY <1>0, <1>2, <1>a, OthersStillWake DEF RepairProbed, evictor
<1>3. ASSUME NEW p \in Callers, RepairStores(p) PROVE WakeInv' /\ OverQuotaIsNoticed'
    <2>1. call[p].at # "wake" /\ wake' = wake /\ Same
        BY <1>3 DEF RepairStores, evictor
    <2>2. \E c : call' = [call EXCEPT ![p] = c]
        BY <1>3 DEF RepairStores
    <2> QED
        BY <1>a, <2>1, <2>2, OthersStillWake
<1>4. ASSUME NEW p \in Callers, PutUpserts(p) PROVE WakeInv' /\ OverQuotaIsNoticed'
    <2>1. call'[p] # None /\ call'[p].at = "wake"
        BY <1>4, CallStages DEF PutUpserts, TypeOK
    <2> QED
        BY <1>b, <2>1 DEF AboutToWake
<1>5. ASSUME NEW p, PutUpsertFails(p) PROVE FALSE
    BY <1>0, <1>5 DEF PutUpsertFails
<1>6. ASSUME NEW p, PutWakes(p) PROVE WakeInv' /\ OverQuotaIsNoticed'
    BY <1>6, <1>b DEF PutWakes, AboutToWake
<1>7. ASSUME NEW cause, SweepBegins(cause) PROVE WakeInv' /\ OverQuotaIsNoticed'
    BY <1>7 DEF SweepBegins, WakeInv, OverQuotaIsNoticed
<1>8. CASE SweepDeclines
    <2>1. Used' = Used /\ Used <= HighBytes /\ ev' = "idle"
        BY <1>0, <1>8 DEF SweepDeclines, Used, evictor
    <2>2. Used \in Nat
        BY UsedIsNat
    <2> QED
        BY <2>1, <2>2, QuotaAssumption DEF WakeInv, OverQuotaIsNoticed
<1>9. CASE \/ \E rows \in SUBSET Objects : SweepReads(rows)
           \/ \E o \in Objects : SweepUnlinks(o)
           \/ SweepPopped
    <2>1. /\ ev # "idle" /\ ev' # "idle"
          /\ UNCHANGED <<stuck, call, wake, faults, quiet>>
        BY <1>9 DEF SweepReads, SweepUnlinks, SweepPopped
    <2> QED
        BY <2>1 DEF WakeInv, OverQuotaIsNoticed, AboutToWake
<1>10. ASSUME NEW o, SweepCannotUnlink(o) PROVE FALSE
    BY <1>0, <1>10 DEF SweepCannotUnlink
<1>11. CASE SweepGivesUp
    <2>1. Used' = 0 /\ ev' = "idle"
        BY <1>0, <1>11, WithoutRefs DEF SweepGivesUp, EndSweep, Used
    <2>2. ~ (Used' > HighBytes)
        BY <2>1, QuotaAssumption
    <2> QED
        BY <2>1, <2>2 DEF WakeInv, OverQuotaIsNoticed
<1>12. CASE SweepRemoves
    <2>1. CASE quiet
        <3>1. CASE ev' = "idle"
            <4>1. freed >= mustFree
                BY <1>12, <2>1, <3>1 DEF SweepRemoves, NextBatch, SweepInv
            <4>2. Used' <= LowBytes /\ Used' \in Nat
                <5>1. Without(row, refs) \in Columns /\ row' = Without(row, refs)
                    BY <1>12 DEF SweepRemoves, ColumnInv, Columns, Without
                <5> QED
                    BY <1>12, <2>1, <4>1, <5>1, EndIsAtLow, TotalIsNat DEF Used
            <4> QED
                BY <3>1, <4>2, QuotaAssumption DEF WakeInv, OverQuotaIsNoticed
        <3>2. CASE ev' # "idle"
            BY <1>12, <2>1, <3>2 DEF SweepRemoves, WakeInv, OverQuotaIsNoticed
        <3> QED
            BY <3>1, <3>2
    <2>2. CASE ~ quiet
        <3>1. AboutToWake
            BY <1>12, <2>2 DEF SweepRemoves, WakeInv
        <3> QED
            BY <1>12, <1>b, <3>1 DEF SweepRemoves, AboutToWake
    <2> QED
        BY <2>1, <2>2
<1>13. CASE SweepCannotRemove \/ Killed
    BY <1>0, <1>13 DEF SweepCannotRemove, Killed
<1>14. CASE Reconcile
    BY <1>14, <1>b DEF Reconcile, AboutToWake
<1>15. CASE UNCHANGED vars
    BY <1>15, <1>a DEF vars, evictor, AboutToWake
<1> QED
    BY <1>1, <1>2, <1>3, <1>4, <1>5, <1>6, <1>7, <1>8, <1>9, <1>10, <1>11, <1>12, <1>13,
       <1>14, <1>15
       DEF Next, PutStep, SweepStep, RunStep, Callers

\* The invariant holds initially and after every step.
THEOREM QuotaInvHolds == Spec => []QuotaInv
<1>1. ASSUME Init PROVE QuotaInv
    <2>1. Nothing \in Columns
        BY DEF Nothing, Columns
    <2>2. TypeOK
        <3>1. up \in BOOLEAN /\ wake \in BOOLEAN /\ quiet \in BOOLEAN
            BY <1>1, Zenon DEF Init
        <3>2. puts \in 0 .. MaxPuts /\ faults \in 0 .. MaxFaults
              /\ mustFree \in Nat /\ freed \in Nat
            BY <1>1, QuotaAssumption DEF Init
        <3> QED
            BY <1>1, <2>1, <3>1, <3>2 DEF Init, TypeOK, Nothing, Columns
    <2>3. ColumnInv
        BY <1>1, <2>1 DEF Init, ColumnInv
    <2>4. IdleInv /\ SweepInv /\ WakeInv /\ OverQuotaIsNoticed
        BY <1>1 DEF Init, IdleInv, SweepInv, WakeInv, OverQuotaIsNoticed
    <2> QED
        BY <2>2, <2>3, <2>4 DEF QuotaInv
<1>2. QuotaInv /\ [Next]_vars => QuotaInv'
    BY QuotaTypeStep, IdleStep, SweepInvStep, NoticeStep DEF QuotaInv
<1> QED
    BY <1>1, <1>2, PTL DEF Spec

\* Store.Put and Sweep: rows and files have sizes their objects can have, and
\* mustFree is never negative.
THEOREM QuotaTypeCorrect == Spec => []TypeOK
BY QuotaInvHolds, PTL DEF QuotaInv

\* Evictor.Wake is coalesced but never lost, whatever the marks and the number of
\* concurrent Puts.
THEOREM OverQuotaIsNoticedHolds == Spec => []OverQuotaIsNoticed
BY QuotaInvHolds, PTL DEF QuotaInv

\* Sweep ends between the low-water mark and one object below it when nothing
\* interferes, whatever the sizes, the marks and the batch size.
THEOREM QuietSweepLandsAtLowHolds == Spec => QuietSweepLandsAtLow
<1> DEFINE Lands == ev # "idle" /\ ev' = "idle" /\ quiet' /\ up' =>
                        Used' <= LowBytes /\ Used' + Max(Sizes) > LowBytes
<1>1. ASSUME QuotaInv, [Next]_vars PROVE [Lands]_vars
    <2> SUFFICES ASSUME ev # "idle", ev' = "idle", quiet', up'
                 PROVE  Used' <= LowBytes /\ Used' + Max(Sizes) > LowBytes
        OBVIOUS
    <2>1. SweepGivesUp \/ SweepRemoves \/ SweepCannotRemove \/ Killed
        BY <1>1
           DEF Next, PutStep, PutUpserts, PutUpsertFails, PutWakes, PutPublishes,
               RepairProbed, RepairStores, SweepStep, SweepReads, SweepUnlinks,
               SweepCannotUnlink, SweepPopped, RunStep, SweepBegins, SweepDeclines,
               Reconcile, vars, evictor
    <2>2. ~ SweepCannotRemove /\ ~ Killed
        BY DEF SweepCannotRemove, Killed
    <2>3. ~ SweepGivesUp
        <3> SUFFICES ASSUME SweepGivesUp PROVE FALSE
            OBVIOUS
        <3>1. Present(row) = {} /\ quiet /\ ev = "batch"
            BY DEF SweepGivesUp
        <3>2. Total(Without(row, {})) + freed = mustFree + LowBytes /\ freed < mustFree
            BY <1>1, <3>1 DEF QuotaInv, SweepInv
        <3>3. Total(Without(row, {})) = 0
            BY <1>1, <3>1, WithoutRefs DEF QuotaInv, Used
        <3>4. freed \in Nat /\ mustFree \in Nat /\ LowBytes \in Nat
            BY <1>1, QuotaAssumption DEF QuotaInv, TypeOK
        <3> QED
            BY <3>2, <3>3, <3>4
    <2>4. SweepRemoves /\ quiet
        BY <2>1, <2>2, <2>3 DEF SweepRemoves
    <2>5. freed >= mustFree
        BY <1>1, <2>4 DEF QuotaInv, SweepInv, SweepRemoves, NextBatch
    <2> QED
        BY <1>1, <2>4, <2>5, EndIsAtLow
<1> QED
    BY <1>1, QuotaInvHolds, PTL DEF Spec, QuietSweepLandsAtLow
=============================================================================
