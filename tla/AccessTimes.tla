---------------------------- MODULE AccessTimes ----------------------------
(***************************************************************************)
(* The recency the evictor ranks by: the last_access column of the index,  *)
(* which Upsert writes, and the queue of touches that FlushTouches moves   *)
(* into it (internal/storage/index.go).  Three goroutines flush: the       *)
(* ticker of the node (internal/node/node.go), the evictor before it ranks *)
(* (evict.go), and whoever closes the index.                               *)
(*                                                                         *)
(* A use of an object is stamped before it is recorded: Touch reads the    *)
(* clock and then waits for touchMu, Upsert reads it and then waits for    *)
(* the one connection that writes, so uses of one object are not recorded  *)
(* in the order of their stamps.  Time is a counter that every stamp       *)
(* advances; 0 stands for no row, no queued touch, nothing.                *)
(***************************************************************************)
EXTENDS Integers, FiniteSetsExt

CONSTANTS
    Keys,        \* (namespace, key) pairs
    TouchLimit,  \* Index.touchLimit
    MaxClock,    \* bound: uses stamped in a behaviour
    MaxErrors    \* bound: database errors

ASSUME AccessAssumption ==
    TouchLimit \in Nat /\ MaxClock \in Nat /\ MaxErrors \in Nat

Flushers == {"ticker", "evictor", "closer"}

VARIABLES
    phase,     \* "serving", "stopping" (bgCtx cancelled), "closing", "closed"
    clock,
    access,    \* last_access of each row
    pending,   \* Index.pendingTouch
    underway,  \* calls of Touch and Upsert that have their stamp
    pc,        \* each flusher: "idle", "want" (the mutex), "flush", "rank", "exited"
    holder,    \* who has Index.flushing
    taken,     \* the local batch of each FlushTouches
    doomed,    \* flushers whose flush has bgCtx for its context
    victim,    \* objects whose touches RemoveBatch has dropped, rows to follow
    queued,    \* history: for each row the oldest use under way when its last touch
               \* was queued, 0 once it is evicted
    due,       \* history: queued, when the evictor's sweep began
    cancelled, \* history: a flush failed because of the shutdown
    errors

touchVars == <<phase, clock, access, pending, underway, pc, holder, taken, doomed,
               victim, queued, due, cancelled, errors>>

Times == 0..MaxClock
Zero == [k \in Keys |-> 0]
Uses == [op : {"touch", "upsert"}, key : Keys, at : Times]

\* Type invariant: times are recorded uses, and the flush mutex has one holder or none.
TouchTypeOK ==
    /\ phase \in {"serving", "stopping", "closing", "closed"}
    /\ clock \in Times
    /\ {access, pending, queued, due} \subseteq [Keys -> Times]
    /\ underway \subseteq Uses
    /\ pc \in [Flushers -> {"idle", "want", "flush", "rank", "exited"}]
    /\ holder \in Flushers \cup {"nobody"}
    /\ taken \in [Flushers -> [Keys -> Times]]
    /\ doomed \subseteq Flushers
    /\ victim \subseteq Keys
    /\ cancelled \in BOOLEAN
    /\ errors \in 0..MaxErrors

TouchInit ==
    /\ phase = "serving"
    /\ clock = 0
    /\ access = Zero /\ pending = Zero /\ queued = Zero /\ due = Zero
    /\ underway = {}
    /\ pc = [f \in Flushers |-> "idle"]
    /\ holder = "nobody"
    /\ taken = [f \in Flushers |-> Zero]
    /\ doomed = {} /\ victim = {}
    /\ cancelled = FALSE /\ errors = 0

Queue == {k \in Keys : pending[k] # 0}

-----------------------------------------------------------------------------
(* Requests *)

\* Index.closed is not set: Close resets it while it flushes what was queued.
IndexOpen ==
    \/ phase \in {"serving", "stopping"}
    \/ phase = "closing" /\ pc["closer"] # "idle"

\* Touch (a read, a HEAD or a duplicate PUT of a stored object) or Upsert has
\* found the index open and read the clock.
Stamp(op, k) ==
    /\ IndexOpen
    /\ clock < MaxClock
    /\ clock' = clock + 1
    /\ underway' = underway \cup {[op |-> op, key |-> k, at |-> clock']}
    /\ UNCHANGED <<phase, access, pending, pc, holder, taken, doomed, victim, queued, due,
                   cancelled, errors>>

\* The oldest use of k whose call has not returned.
Oldest(k) == Min({u.at : u \in {v \in underway : v.key = k}})

\* Touch has touchMu.  A new key is dropped when the queue is full; otherwise the
\* stamp replaces the queued one, be it older or not.
Touch(u) ==
    /\ u \in underway /\ u.op = "touch"
    /\ IF Cardinality(Queue) >= TouchLimit /\ u.key \notin Queue
       THEN UNCHANGED <<pending, queued>>
       ELSE /\ pending' = [pending EXCEPT ![u.key] = u.at]
            /\ queued' = [queued EXCEPT ![u.key] = IF access[u.key] = 0 THEN 0
                                                   ELSE Oldest(u.key)]
    /\ underway' = underway \ {u}
    /\ UNCHANGED <<phase, clock, access, pc, holder, taken, doomed, victim, due, cancelled,
                   errors>>

\* Upsert has the connection: a new row, or the stamp replaces that of the row, be
\* it older or not.
Upsert(u) ==
    /\ u \in underway /\ u.op = "upsert"
    /\ phase # "closed"
    /\ access' = [access EXCEPT ![u.key] = u.at]
    /\ underway' = underway \ {u}
    /\ UNCHANGED <<phase, clock, pending, pc, holder, taken, doomed, victim, queued, due,
                   cancelled, errors>>

\* Or the statement fails, for the request's context, the database or the shutdown.
UpsertFails(u) ==
    /\ u \in underway /\ u.op = "upsert"
    /\ underway' = underway \ {u}
    /\ UNCHANGED <<phase, clock, access, pending, pc, holder, taken, doomed, victim, queued,
                   due, cancelled, errors>>

-----------------------------------------------------------------------------
(* FlushTouches *)

\* Where a flusher goes when FlushTouches returns: the node's loop exits after the
\* flush that has a context of its own, and the evictor ranks.
AfterError(f) == IF f = "ticker" /\ f \notin doomed THEN "exited" ELSE "idle"
AfterFlush(f) == IF f = "evictor" THEN "rank" ELSE AfterError(f)

\* The ticker fires, or a sweep starts, with bgCtx.
FlushBegins(f) ==
    /\ f = "ticker" \/ (f = "evictor" /\ phase \in {"serving", "stopping"})
    /\ pc[f] = "idle"
    /\ pc' = [pc EXCEPT ![f] = "want"]
    /\ doomed' = doomed \cup {f}
    /\ due' = IF f = "evictor" THEN queued ELSE due
    /\ UNCHANGED <<phase, clock, access, pending, underway, holder, taken, victim,
                   queued, cancelled, errors>>

\* Mutants of FlushLocks: the queue is looked at before the mutex is taken; there
\* is no mutex.
FlushLocksLate(f) ==
    /\ pc[f] = "want"
    /\ Queue = {} \/ holder = "nobody"
    /\ IF Queue = {}
       THEN /\ pc' = [pc EXCEPT ![f] = AfterFlush(f)]
            /\ UNCHANGED <<holder, taken, pending>>
       ELSE /\ pc' = [pc EXCEPT ![f] = "flush"]
            /\ holder' = f
            /\ taken' = [taken EXCEPT ![f] = pending]
            /\ pending' = Zero
    /\ UNCHANGED <<phase, clock, access, underway, doomed, victim, queued, due,
                   cancelled, errors>>
FlushLocksNothing(f) ==
    /\ pc[f] = "want"
    /\ IF Queue = {}
       THEN /\ pc' = [pc EXCEPT ![f] = AfterFlush(f)]
            /\ UNCHANGED <<holder, taken, pending>>
       ELSE /\ pc' = [pc EXCEPT ![f] = "flush"]
            /\ holder' = f
            /\ taken' = [taken EXCEPT ![f] = pending]
            /\ pending' = Zero
    /\ UNCHANGED <<phase, clock, access, underway, doomed, victim, queued, due,
                   cancelled, errors>>

\* The mutex is taken.  An empty queue is nothing to do; otherwise the queue
\* becomes the local batch.
FlushLocks(f) ==
    /\ pc[f] = "want"
    /\ holder = "nobody"
    /\ IF Queue = {}
       THEN /\ pc' = [pc EXCEPT ![f] = AfterFlush(f)]
            /\ UNCHANGED <<holder, taken, pending>>
       ELSE /\ pc' = [pc EXCEPT ![f] = "flush"]
            /\ holder' = f
            /\ taken' = [taken EXCEPT ![f] = pending]
            /\ pending' = Zero
    /\ UNCHANGED <<phase, clock, access, underway, doomed, victim, queued, due,
                   cancelled, errors>>

\* The transaction commits: an UPDATE of the rows that still exist.
FlushCommits(f) ==
    /\ pc[f] = "flush"
    /\ phase # "closed"
    /\ access' = [k \in Keys |->
                    IF access[k] # 0 /\ taken[f][k] # 0 THEN taken[f][k] ELSE access[k]]
    /\ taken' = [taken EXCEPT ![f] = Zero]
    /\ holder' = "nobody"
    /\ pc' = [pc EXCEPT ![f] = AfterFlush(f)]
    /\ UNCHANGED <<phase, clock, pending, underway, doomed, victim, queued, due,
                   cancelled, errors>>

\* The transaction fails, because bgCtx is cancelled, the database is closed or an
\* error of it: the batch is gone.
FlushFails(f) ==
    /\ pc[f] = "flush"
    /\ \/ /\ (f \in doomed /\ phase # "serving") \/ phase = "closed"
          /\ cancelled' = TRUE /\ UNCHANGED errors
       \/ errors < MaxErrors /\ errors' = errors + 1 /\ UNCHANGED cancelled
    /\ taken' = [taken EXCEPT ![f] = Zero]
    /\ holder' = "nobody"
    /\ pc' = [pc EXCEPT ![f] = AfterError(f)]
    /\ UNCHANGED <<phase, clock, access, pending, underway, doomed, victim, queued,
                   due>>

-----------------------------------------------------------------------------
(* The rest of a sweep *)

\* Mutant of SweepDropsTouches: a victim's touch becomes a tombstone that the
\* queue was not made for.
SweepMarksTouches(objects) ==
    /\ pc["evictor"] = "rank"
    /\ victim = {}
    /\ objects # {} /\ \A k \in objects : access[k] # 0
    /\ victim' = objects
    /\ pending' = [k \in Keys |-> IF k \in objects THEN -1 ELSE pending[k]]
    /\ UNCHANGED <<phase, clock, access, underway, pc, holder, taken, doomed, queued,
                   due, cancelled, errors>>

\* The sweep has its candidates; RemoveBatch first drops their queued touches.
SweepDropsTouches(objects) ==
    /\ pc["evictor"] = "rank"
    /\ victim = {}
    /\ objects # {} /\ \A k \in objects : access[k] # 0
    /\ victim' = objects
    /\ pending' = [k \in Keys |-> IF k \in objects THEN 0 ELSE pending[k]]
    /\ queued' = [k \in Keys |-> IF k \in objects THEN 0 ELSE queued[k]]
    /\ due' = [k \in Keys |-> IF k \in objects THEN 0 ELSE due[k]]
    /\ UNCHANGED <<phase, clock, access, underway, pc, holder, taken, doomed,
                   cancelled, errors>>

\* Then it deletes their rows, and the sweep is over.
SweepDeletesRows ==
    /\ pc["evictor"] = "rank"
    /\ victim = {} \/ phase # "closed"
    /\ access' = [k \in Keys |-> IF k \in victim THEN 0 ELSE access[k]]
    /\ queued' = [k \in Keys |-> IF k \in victim THEN 0 ELSE queued[k]]
    /\ victim' = {}
    /\ pc' = [pc EXCEPT !["evictor"] = "idle"]
    /\ due' = Zero
    /\ UNCHANGED <<phase, clock, pending, underway, holder, taken, doomed, cancelled,
                   errors>>

\* Or RemoveBatch fails after it has dropped the touches, and the rows stay.
SweepKeepsRows ==
    /\ pc["evictor"] = "rank"
    /\ victim # {}
    /\ \/ phase # "serving" /\ cancelled' = TRUE /\ UNCHANGED errors
       \/ errors < MaxErrors /\ errors' = errors + 1 /\ UNCHANGED cancelled
    /\ victim' = {}
    /\ pc' = [pc EXCEPT !["evictor"] = "idle"]
    /\ due' = Zero
    /\ UNCHANGED <<phase, clock, access, pending, underway, holder, taken, doomed,
                   queued>>

-----------------------------------------------------------------------------
(* Shutdown: Node.Run, stopBackground, Index.Close *)

\* The server has drained; stopBackground cancels bgCtx.
StopBackground ==
    /\ phase = "serving"
    /\ phase' = "stopping"
    /\ UNCHANGED <<clock, access, pending, underway, pc, holder, taken, doomed,
                   victim, queued, due, cancelled, errors>>

\* The node's flush loop sees ctx.Done and flushes once more, with a context of
\* its own.
FinalFlush ==
    /\ phase # "serving"
    /\ pc["ticker"] = "idle"
    /\ pc' = [pc EXCEPT !["ticker"] = "want"]
    /\ doomed' = doomed \ {"ticker"}
    /\ UNCHANGED <<phase, clock, access, pending, underway, holder, taken, victim, queued,
                   due, cancelled, errors>>

\* Evictor.Run sees ctx.Done.
EvictorExits ==
    /\ phase # "serving"
    /\ pc["evictor"] = "idle"
    /\ pc' = [pc EXCEPT !["evictor"] = "exited"]
    /\ UNCHANGED <<phase, clock, access, pending, underway, holder, taken, doomed, victim,
                   queued, due, cancelled, errors>>

\* Both have exited, or thirty seconds have passed; Index.Close flushes what is
\* still queued.
CloseBegins ==
    /\ phase = "stopping"
    /\ phase' = "closing"
    /\ pc' = [pc EXCEPT !["closer"] = IF Queue = {} THEN "idle" ELSE "want"]
    /\ UNCHANGED <<clock, access, pending, underway, holder, taken, doomed, victim, queued,
                   due, cancelled, errors>>

CloseReturns ==
    /\ phase = "closing"
    /\ pc["closer"] = "idle"
    /\ phase' = "closed"
    /\ UNCHANGED <<clock, access, pending, underway, pc, holder, taken, doomed,
                   victim, queued, due, cancelled, errors>>

FlushStep(f) == FlushBegins(f) \/ FlushLocks(f) \/ FlushCommits(f) \/ FlushFails(f)

TouchNext ==
    \/ \E op \in {"touch", "upsert"}, k \in Keys : Stamp(op, k)
    \/ \E u \in underway : Touch(u) \/ Upsert(u) \/ UpsertFails(u)
    \/ \E f \in Flushers : FlushStep(f)
    \/ \E objects \in SUBSET Keys : SweepDropsTouches(objects)
    \/ SweepDeletesRows \/ SweepKeepsRows
    \/ StopBackground \/ FinalFlush \/ EvictorExits \/ CloseBegins \/ CloseReturns

TouchSpec == TouchInit /\ [][TouchNext]_touchVars

-----------------------------------------------------------------------------
(* Properties *)

Undisturbed == errors = 0 /\ ~cancelled

\* Once a touch of an indexed object has left the queue its row is as recent as
\* that read, or as a use of the object that was under way beside it: no earlier
\* use takes the row back, whoever flushed what and in which order calls that had
\* their stamps got to the queue and to the connection.
FlushedTouchIsKept ==
    Undisturbed => \A k \in Keys :
        access[k] # 0 /\ pending[k] = 0 /\ (\A f \in Flushers : taken[f][k] = 0)
            => access[k] >= queued[k]

\* The evictor ranks by every read queued before its sweep began, also by those
\* another goroutine was writing when it did; a row may have been taken back by
\* then to a use under way beside that read, and no further.
SweepSeesQueuedReads ==
    pc["evictor"] = "rank" /\ Undisturbed =>
        \A k \in Keys : access[k] # 0 => access[k] >= due[k]

\* A clean shutdown (both loops have exited, Close has flushed, no request is left)
\* loses no queued read.
CleanShutdownLosesNothing ==
    /\ pc["ticker"] = "exited" /\ pc["evictor"] = "exited"
    /\ phase = "closing" /\ pc["closer"] = "idle" /\ Queue = {} /\ errors = 0
    => \A k \in Keys : access[k] # 0 => access[k] >= queued[k]
=============================================================================
