-------------------------- MODULE RepairAudit_proofs --------------------------
(***************************************************************************)
(* The auditor skips nothing, for every index, page, budget and queue.     *)
(***************************************************************************)
EXTENDS RepairAudit, FiniteSetTheorems, TLAPS

(***************************************************************************)
(* Everything of this node's at or below position p was accepted.          *)
(***************************************************************************)
Covered(p) == \A k \in Ours \cap swept : k <= p => k \in accepted

(***************************************************************************)
(* The page is ahead of the pass and has no gap: a row that has been there *)
(* all along and lies between the pass and a row of the page is in the     *)
(* page.  Rows that came or went meanwhile are not in swept, so a page     *)
(* that is stale is still gapless.                                         *)
(***************************************************************************)
PageInv ==
    /\ \A j \in page : at < j
    /\ \A k \in swept, j \in page : (at < k /\ k <= j) => k \in page

(***************************************************************************)
(* The saved cursor is covered even while a pass runs ahead of it, because *)
(* an abandoned pass goes back to it.                                      *)
(***************************************************************************)
Inv ==
    /\ TypeOK
    /\ PageInv
    /\ Covered(cursor)
    /\ phase = "passing" => Covered(at)

(***************************************************************************)
(* PageAfter returns rows past the position, with no gap.                  *)
(***************************************************************************)
LEMMA PageAfterGapless ==
    ASSUME rows \subseteq Rows, N \in Nat, PageSize \in Nat,
           NEW p \in 0..N, NEW j \in PageAfter(p), NEW k \in rows, p < k, k <= j
    PROVE  k \in PageAfter(p)
<1> DEFINE below(x) == {i \in rows : p < i /\ i < x}
<1>1. IsFiniteSet(1..N)
  BY FS_Interval
<1>2. IsFiniteSet(rows)
  BY <1>1, FS_Subset DEF Rows
<1>3. IsFiniteSet(below(j)) /\ below(k) \subseteq below(j)
  <2>1. below(j) \subseteq rows
    OBVIOUS
  <2>2. j \in Nat /\ k \in Nat /\ rows \subseteq Nat
    BY DEF PageAfter, Rows
  <2>3. ASSUME NEW i \in below(k) PROVE i \in below(j)
    <3>1. i \in rows /\ p < i /\ i < k
      OBVIOUS
    <3>2. i < j
      BY <2>2, <3>1
    <3> QED
      BY <3>1, <3>2
  <2> QED
    BY <1>2, <2>1, <2>3, FS_Subset
<1>4. Cardinality(below(k)) <= Cardinality(below(j))
  BY <1>3, FS_Subset
<1>5. Cardinality(below(k)) \in Nat /\ Cardinality(below(j)) \in Nat
  BY <1>3, FS_Subset, FS_CardinalityType
<1>6. Cardinality(below(j)) < PageSize
  BY DEF PageAfter
<1>7. Cardinality(below(k)) < PageSize
  <2> HIDE DEF below
  <2> QED
    BY <1>4, <1>5, <1>6
<1> QED
  BY <1>7 DEF PageAfter

(***************************************************************************)
(* The initial states.                                                     *)
(***************************************************************************)
LEMMA InvInit == Init => Inv
<1> SUFFICES ASSUME Init PROVE Inv
  OBVIOUS
<1> USE AuditAssumption
<1>1. TypeOK
  <2>1. worker \in [Workers -> Ours \cup {Receiving, Gone}]
    BY DEF Init
  <2>2. queue \in Seq(Ours) /\ Len(queue) <= QueueSize
    BY DEF Init
  <2>3. rows \subseteq Rows /\ page \subseteq Rows /\ swept \subseteq rows /\ accepted \subseteq Ours
    BY Zenon DEF Init
  <2>4. prompt \in BOOLEAN /\ closed \in BOOLEAN /\ cancelled \in BOOLEAN
    BY Zenon DEF Init
  <2>5. /\ cursor \in 0..N /\ at \in 0..N /\ examined \in Nat
        /\ changes \in 0..MaxChanges /\ faults \in 0..MaxFaults
    BY DEF Init
  <2> QED
    BY <2>1, <2>2, <2>3, <2>4, <2>5, Zenon DEF Init, TypeOK
<1>2. Covered(0)
  <2>1. \A k \in Ours : k \in Nat /\ ~(k <= 0)
    OBVIOUS
  <2> QED
    BY <2>1 DEF Covered
<1> QED
  BY <1>1, <1>2 DEF Init, Inv, PageInv

(***************************************************************************)
(* Types are preserved by every step.                                      *)
(***************************************************************************)
LEMMA TypeStep == TypeOK /\ [Next]_vars => TypeOK'
<1> SUFFICES ASSUME TypeOK, [Next]_vars PROVE TypeOK'
  OBVIOUS
<1> USE AuditAssumption
<1>1. ASSUME NEW k \in Rows, RowChanges(k) PROVE TypeOK'
  BY <1>1 DEF TypeOK, RowChanges, poolVars
<1>2. CASE PassBegins
  BY <1>2 DEF TypeOK, PassBegins, poolVars, indexVars
<1>3. CASE BudgetSpent
  BY <1>3 DEF TypeOK, BudgetSpent, PassReturns, poolVars, indexVars
<1>4. CASE PassAborts
  <2>1. faults' \in 0..MaxFaults
    BY <1>4 DEF TypeOK, PassAborts
  <2>2. prompt' \in BOOLEAN /\ phase' \in {"waiting", "passing", "draining", "stopped"}
    BY <1>4 DEF PassAborts, PassReturns
  <2> QED
    BY <1>4, <2>1, <2>2 DEF TypeOK, PassAborts, PassReturns, poolVars, indexVars
<1>5. CASE NextPage
  <2>1. PageAfter(at) \subseteq rows
    BY DEF PageAfter
  <2> QED
    BY <1>5, <2>1 DEF TypeOK, NextPage, poolVars, indexVars
<1>6. CASE SweepEnds
  BY <1>6 DEF TypeOK, SweepEnds, PassReturns, poolVars, indexVars
<1>7. ASSUME NEW k \in Rows, ExaminesNotOurs(k) PROVE TypeOK'
  BY <1>7 DEF TypeOK, ExaminesNotOurs, Advances, IsNext, Rows, poolVars, indexVars
<1>8. ASSUME NEW k \in Rows, ExaminesOurs(k) PROVE TypeOK'
  BY <1>8 DEF TypeOK, ExaminesOurs, Enqueue, Advances, IsNext, Rows, poolVars, indexVars
<1>9. ASSUME NEW k \in Rows, QueueFull(k) PROVE TypeOK'
  BY <1>9 DEF TypeOK, QueueFull, poolVars, indexVars
<1>10. ASSUME NEW w \in Workers, WorkerTakes(w) PROVE TypeOK'
  BY <1>10 DEF TypeOK, WorkerTakes, passVars, indexVars
<1>11. ASSUME NEW w \in Workers, WorkerReturns(w) PROVE TypeOK'
  BY <1>11 DEF TypeOK, WorkerReturns, passVars, indexVars
<1>12. ASSUME NEW w \in Workers, WorkerExits(w) PROVE TypeOK'
  BY <1>12 DEF TypeOK, WorkerExits, passVars, indexVars
<1>13. CASE Cancel
  BY <1>13 DEF TypeOK, Cancel, passVars, poolVars, indexVars
<1>14. CASE RunCloses
  BY <1>14 DEF TypeOK, RunCloses, indexVars
<1>15. CASE RunReturns
  BY <1>15 DEF TypeOK, RunReturns, poolVars, indexVars
<1>16. CASE UNCHANGED vars
  BY <1>16 DEF TypeOK, vars, passVars, poolVars, indexVars
<1> QED
  BY <1>1, <1>2, <1>3, <1>4, <1>5, <1>6, <1>7, <1>8, <1>9, <1>10, <1>11, <1>12,
     <1>13, <1>14, <1>15, <1>16 DEF Next, PassStep

(***************************************************************************)
(* A step that touches neither the walk nor the index keeps the invariant. *)
(***************************************************************************)
LEMMA WalkUntouched ==
    ASSUME Inv, UNCHANGED <<cursor, at, page, swept, accepted>>,
           phase' = "passing" => phase = "passing"
    PROVE  PageInv' /\ Covered(cursor)' /\ (phase' = "passing" => Covered(at)')
BY DEF Inv, PageInv, Covered

(***************************************************************************)
(* Every step keeps the walk gapless and covered.                          *)
(***************************************************************************)
LEMMA InvStep == Inv /\ [Next]_vars => Inv'
<1> SUFFICES ASSUME Inv, [Next]_vars PROVE Inv'
  OBVIOUS
<1> USE AuditAssumption
<1> DEFINE Walk == PageInv' /\ Covered(cursor)' /\ (phase' = "passing" => Covered(at)')
<1>0. TypeOK'
  BY TypeStep DEF Inv
<1>1. ASSUME NEW k \in Rows, RowChanges(k) PROVE Walk
  BY <1>1 DEF Inv, RowChanges, PageInv, Covered
<1>2. ASSUME PassBegins PROVE Walk
  BY <1>2 DEF Inv, PassBegins, PageInv, Covered
<1>3. ASSUME BudgetSpent PROVE Walk
  BY <1>3 DEF Inv, BudgetSpent, AtPageEnd, PassReturns, PageInv, Covered
<1>4. ASSUME PassAborts PROVE Walk
  BY <1>4, WalkUntouched DEF PassAborts, PassReturns
<1>5. ASSUME NextPage PROVE Walk
  <2>1. \A j \in PageAfter(at) : at < j
    BY DEF PageAfter, Inv, TypeOK, Rows
  <2>2. ASSUME NEW k \in swept, NEW j \in PageAfter(at), at < k, k <= j
        PROVE  k \in PageAfter(at)
    BY <2>2, PageAfterGapless DEF Inv, TypeOK
  <2> QED
    BY <1>5, <2>1, <2>2 DEF NextPage, Inv, PageInv, Covered
<1>6. ASSUME SweepEnds PROVE Walk
  BY <1>6 DEF SweepEnds, AtPageEnd, PassReturns, Inv, TypeOK, Rows, PageInv, Covered
<1>7. ASSUME NEW k \in Rows, Advances(k), accepted \subseteq accepted',
             k \in Ours => k \in accepted'
      PROVE  Walk
  <2>1. \A j \in page : j \in Nat /\ k <= j
    BY <1>7 DEF Advances, IsNext, Inv, TypeOK, Rows
  <2>2. at < k /\ k \in page /\ at \in Nat /\ k \in Nat
    BY <1>7 DEF Advances, IsNext, Inv, TypeOK, PageInv, Rows
  <2>3. swept \subseteq Nat /\ cursor \in Nat
    BY DEF Inv, TypeOK, Rows
  <2>4. PageInv'
    BY <1>7, <2>1, <2>2, <2>3 DEF Advances, Inv, PageInv
  <2>5. Covered(cursor)'
    BY <1>7 DEF Advances, Inv, Covered
  <2>6. ASSUME NEW i \in Ours \cap swept, i <= k PROVE i \in accepted'
    <3>1. CASE i <= at
      BY <1>7, <3>1 DEF Advances, Inv, Covered
    <3>2. CASE ~(i <= at)
      <4>1. i \in page
        BY <2>2, <2>3, <2>6, <3>2 DEF Inv, PageInv
      <4>2. i = k
        BY <2>1, <2>2, <2>6, <4>1
      <4> QED
        BY <1>7, <4>2
    <3> QED
      BY <3>1, <3>2
  <2>7. Covered(at)'
    BY <1>7, <2>6 DEF Advances, Covered
  <2> QED
    BY <2>4, <2>5, <2>7
<1>8. ASSUME NEW k \in Rows, ExaminesNotOurs(k) \/ ExaminesOurs(k) PROVE Walk
  BY <1>7, <1>8 DEF ExaminesNotOurs, ExaminesOurs, Enqueue
<1>9. ASSUME NEW k \in Rows, QueueFull(k) PROVE Walk
  BY <1>9 DEF QueueFull, Inv, PageInv, Covered
<1>10. ASSUME NEW w \in Workers, WorkerTakes(w) \/ WorkerReturns(w) \/ WorkerExits(w)
       PROVE  Walk
  BY <1>10, WalkUntouched DEF WorkerTakes, WorkerReturns, WorkerExits, passVars
<1>11. ASSUME Cancel \/ RunCloses \/ RunReturns PROVE Walk
  BY <1>11, WalkUntouched DEF Cancel, RunCloses, RunReturns, passVars
<1>12. ASSUME UNCHANGED vars PROVE Walk
  BY <1>12, WalkUntouched DEF vars, passVars
<1>13. Walk
  BY <1>1, <1>2, <1>3, <1>4, <1>5, <1>6, <1>8, <1>9, <1>10, <1>11, <1>12
  DEF Next, PassStep
<1> QED
  BY <1>0, <1>13 DEF Inv

(***************************************************************************)
(* The inductive invariant holds of every behaviour of the auditor.        *)
(***************************************************************************)
THEOREM InvHolds == Spec => []Inv
BY InvInit, InvStep, PTL DEF Spec

(***************************************************************************)
(* TypeOK: in particular the repair queue never outgrows its capacity.     *)
(***************************************************************************)
THEOREM TypeCorrect == Spec => []TypeOK
<1>1. Inv => TypeOK
  BY DEF Inv
<1> QED
  BY <1>1, InvHolds, PTL

(***************************************************************************)
(* NothingSkipped: every object auditPass has moved past, and that has     *)
(* been in the index since the cursor wrapped, was accepted by the queue.  *)
(***************************************************************************)
THEOREM NothingSkippedHolds == Spec => []NothingSkipped
<1>1. Inv => NothingSkipped
  BY DEF Inv, NothingSkipped, Covered, Position
<1> QED
  BY <1>1, InvHolds, PTL
=============================================================================
