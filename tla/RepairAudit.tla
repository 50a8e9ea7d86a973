----------------------------- MODULE RepairAudit -----------------------------
(***************************************************************************)
(* The repair auditor of one node (internal/repair): the audit loop, which *)
(* walks the index in pages and offers each object it is responsible for   *)
(* to a bounded queue, and the pool of workers that empties the queue.     *)
(*                                                                         *)
(* The index is changed by writes and evictions while the auditor walks.   *)
(* Rows are ordered by (namespace, key): here they are numbers, and the    *)
(* empty cursor is 0.  What a worker does with an object it has taken is   *)
(* the subject of module Replication.                                      *)
(***************************************************************************)
EXTENDS Naturals, Sequences, FiniteSets

CONSTANTS
    N,            \* the rows an index can have are 1..N
    Ours,         \* the objects ring.SelfHolds says this node is to hold
    Workers,      \* the worker pool
    QueueSize,    \* cap(w.queue)
    AuditBudget,  \* objects one pass examines, up to the page it is in
    PageSize,     \* auditPageSize
    MaxChanges,   \* bound: rows written or removed while the auditor runs
    MaxFaults     \* bound: index queries that fail

ASSUME AuditAssumption ==
    /\ N \in Nat /\ Ours \subseteq 1..N /\ Workers # {}
    /\ QueueSize \in Nat \ {0} /\ AuditBudget \in Nat \ {0} /\ PageSize \in Nat \ {0}
    /\ MaxChanges \in Nat /\ MaxFaults \in Nat

VARIABLES
    rows,       \* the rows of the index
    cursor,     \* cursorNS, cursorKey: where the next pass resumes
    phase,      \* where Run is
    at,         \* curNS, curKey: the pass's own position
    page,       \* the rows of the current page the pass has not examined yet
    examined,   \* objects this pass has examined
    prompt,     \* the timer was last reset to backlogInterval, not to interval
    queue,      \* w.queue
    closed,     \* w.queue is closed
    worker,     \* what each worker does: an object, 0 (receiving), or N + 1 (gone)
    cancelled,  \* ctx is done
    changes,    \* rows changed so far
    faults,     \* index queries failed so far
    swept,      \* history: rows there ever since the cursor last wrapped
    accepted    \* history: objects the queue took since the cursor last wrapped

passVars == <<cursor, phase, at, page, examined, prompt, swept, accepted>>
poolVars == <<worker, closed>>
indexVars == <<rows, changes>>
vars == <<passVars, poolVars, indexVars, queue, cancelled, faults>>

Rows == 1..N
Receiving == 0
Gone == N + 1

(***************************************************************************)
(* Type invariant.                                                         *)
(***************************************************************************)
TypeOK ==
    /\ rows \subseteq Rows
    /\ cursor \in 0..N /\ at \in 0..N
    /\ phase \in {"waiting", "passing", "draining", "stopped"}
    /\ page \subseteq Rows
    /\ examined \in Nat
    /\ prompt \in BOOLEAN /\ closed \in BOOLEAN /\ cancelled \in BOOLEAN
    /\ queue \in Seq(Ours) /\ Len(queue) <= QueueSize
    /\ worker \in [Workers -> Ours \cup {Receiving, Gone}]
    /\ changes \in 0..MaxChanges /\ faults \in 0..MaxFaults
    /\ swept \subseteq rows
    /\ accepted \subseteq Ours

(***************************************************************************)
(* The index has whatever rows it has when Run starts: a node restarts     *)
(* over the objects it kept.                                               *)
(***************************************************************************)
Init ==
    /\ rows \in SUBSET Rows
    /\ swept = rows
    /\ cursor = 0 /\ at = 0 /\ page = {} /\ examined = 0
    /\ phase = "waiting" /\ prompt = FALSE
    /\ queue = <<>> /\ closed = FALSE
    /\ worker = [w \in Workers |-> Receiving]
    /\ cancelled = FALSE
    /\ changes = 0 /\ faults = 0
    /\ accepted = {}

(***************************************************************************)
(* The index under the auditor: a write adds a row, eviction removes one.  *)
(***************************************************************************)
RowChanges(k) ==
    /\ changes < MaxChanges
    /\ changes' = changes + 1
    /\ \/ k \notin rows /\ rows' = rows \cup {k} /\ UNCHANGED swept
       \/ k \in rows /\ rows' = rows \ {k} /\ swept' = swept \ {k}
    /\ UNCHANGED <<poolVars, queue, cancelled, faults, cursor, phase, at, page,
                   examined, prompt, accepted>>

(***************************************************************************)
(* Run's select: the timer fires and a pass begins at the saved cursor.    *)
(***************************************************************************)
PassBegins ==
    /\ phase = "waiting"
    /\ phase' = "passing"
    /\ at' = cursor
    /\ examined' = 0
    /\ page' = {}
    /\ UNCHANGED <<poolVars, indexVars, queue, cancelled, faults, cursor, prompt,
                   swept, accepted>>

\* auditPass returns: pending decides how soon the next pass is.
PassReturns(pending) ==
    /\ phase' = "waiting"
    /\ prompt' = pending
    /\ UNCHANGED <<poolVars, indexVars, queue, cancelled, at, examined>>

\* idx.PageAfter: the first PageSize rows past the position.
PageAfter(k) ==
    {j \in rows : j > k /\ Cardinality({i \in rows : k < i /\ i < j}) < PageSize}

\* Between two pages.
AtPageEnd == phase = "passing" /\ page = {}

\* for examined < w.auditBudget: the pass has had its share.
BudgetSpent ==
    /\ AtPageEnd
    /\ examined >= AuditBudget
    /\ cursor' = at
    /\ PassReturns(TRUE)
    /\ UNCHANGED <<page, faults, swept, accepted>>

\* ctx.Err() or the query fails: the pass is abandoned, the cursor stays.
PassAborts ==
    /\ AtPageEnd
    /\ examined < AuditBudget
    /\ \/ cancelled /\ UNCHANGED faults
       \/ faults < MaxFaults /\ faults' = faults + 1
    /\ PassReturns(FALSE)
    /\ UNCHANGED <<cursor, page, swept, accepted>>

NextPage ==
    /\ AtPageEnd
    /\ examined < AuditBudget
    /\ ~cancelled
    /\ PageAfter(at) # {}
    /\ page' = PageAfter(at)
    /\ UNCHANGED <<poolVars, indexVars, queue, cancelled, faults, cursor, phase, at,
                   examined, prompt, swept, accepted>>

\* A mutant: the end of the index leaves the cursor where it was.
SweepEndsInPlace ==
    /\ AtPageEnd
    /\ examined < AuditBudget
    /\ ~cancelled
    /\ PageAfter(at) = {}
    /\ cursor' = at
    /\ swept' = rows
    /\ accepted' = {}
    /\ PassReturns(queue # <<>>)
    /\ UNCHANGED <<page, faults>>

\* The end of the index: setCursor("", ""), and pendingAfterFullSweep.
SweepEnds ==
    /\ AtPageEnd
    /\ examined < AuditBudget
    /\ ~cancelled
    /\ PageAfter(at) = {}
    /\ cursor' = 0
    /\ swept' = rows
    /\ accepted' = {}
    /\ PassReturns(queue # <<>>)
    /\ UNCHANGED <<page, faults>>

\* The loop over a page takes its rows in order.
IsNext(k) == k \in page /\ \A j \in page : k <= j

\* enqueue: a send that never blocks.
Enqueue(k) ==
    /\ Len(queue) < QueueSize
    /\ queue' = Append(queue, k)
    /\ accepted' = accepted \cup {k}

\* The pass moves past row k, which another node answers for or the queue took.
Advances(k) ==
    /\ phase = "passing"
    /\ IsNext(k)
    /\ examined' = examined + 1
    /\ at' = k
    /\ page' = page \ {k}
    /\ UNCHANGED <<poolVars, indexVars, cancelled, faults, cursor, phase, prompt, swept>>

ExaminesNotOurs(k) == k \notin Ours /\ Advances(k) /\ UNCHANGED <<queue, accepted>>

ExaminesOurs(k) == k \in Ours /\ Enqueue(k) /\ Advances(k)

\* A mutant: the cursor moves past the object the full queue refused.
QueueFullSkips(k) ==
    /\ phase = "passing"
    /\ IsNext(k)
    /\ k \in Ours /\ Len(queue) >= QueueSize
    /\ cursor' = k
    /\ page' = {}
    /\ phase' = "waiting" /\ prompt' = TRUE
    /\ examined' = examined + 1
    /\ UNCHANGED <<poolVars, indexVars, queue, cancelled, faults, at, swept, accepted>>

\* The queue is full: the pass stops and will resume at this object.
QueueFull(k) ==
    /\ phase = "passing"
    /\ IsNext(k)
    /\ k \in Ours /\ Len(queue) >= QueueSize
    /\ cursor' = at
    /\ page' = {}
    /\ phase' = "waiting" /\ prompt' = TRUE
    /\ examined' = examined + 1
    /\ UNCHANGED <<poolVars, indexVars, queue, cancelled, faults, at, swept, accepted>>

PassStep ==
    \/ BudgetSpent \/ PassAborts \/ NextPage \/ SweepEnds
    \/ \E k \in Rows : ExaminesNotOurs(k) \/ ExaminesOurs(k) \/ QueueFull(k)

(***************************************************************************)
(* workerLoop.  After cancellation a task is received and dropped.         *)
(***************************************************************************)
WorkerTakes(w) ==
    /\ worker[w] = Receiving
    /\ queue # <<>>
    /\ queue' = Tail(queue)
    /\ worker' = [worker EXCEPT ![w] = IF cancelled THEN Receiving ELSE Head(queue)]
    /\ UNCHANGED <<passVars, indexVars, closed, cancelled, faults>>

\* repair returns, whatever it found; every call it makes has a deadline.
WorkerReturns(w) ==
    /\ worker[w] \in Ours
    /\ worker' = [worker EXCEPT ![w] = Receiving]
    /\ UNCHANGED <<passVars, indexVars, queue, closed, cancelled, faults>>

\* The range over a closed and empty queue ends.
WorkerExits(w) ==
    /\ worker[w] = Receiving
    /\ closed /\ queue = <<>>
    /\ worker' = [worker EXCEPT ![w] = Gone]
    /\ UNCHANGED <<passVars, indexVars, queue, closed, cancelled, faults>>

(***************************************************************************)
(* Shutdown: stopBackground cancels ctx; Run closes the queue, waits for   *)
(* the pool and returns.                                                   *)
(***************************************************************************)
Cancel ==
    /\ ~cancelled
    /\ cancelled' = TRUE
    /\ UNCHANGED <<passVars, poolVars, indexVars, queue, faults>>

\* A mutant: ctx is done and the queue is left open.
RunWaits ==
    /\ phase = "waiting" /\ cancelled
    /\ phase' = "draining"
    /\ UNCHANGED <<poolVars, indexVars, queue, cancelled, faults, cursor, at, page,
                   examined, prompt, swept, accepted>>

RunCloses ==
    /\ phase = "waiting" /\ cancelled
    /\ phase' = "draining"
    /\ closed' = TRUE
    /\ UNCHANGED <<indexVars, queue, worker, cancelled, faults, cursor, at, page,
                   examined, prompt, swept, accepted>>

RunReturns ==
    /\ phase = "draining"
    /\ \A w \in Workers : worker[w] = Gone
    /\ phase' = "stopped"
    /\ UNCHANGED <<poolVars, indexVars, queue, cancelled, faults, cursor, at, page,
                   examined, prompt, swept, accepted>>

Next ==
    \/ \E k \in Rows : RowChanges(k)
    \/ PassBegins \/ PassStep
    \/ \E w \in Workers : WorkerTakes(w) \/ WorkerReturns(w) \/ WorkerExits(w)
    \/ Cancel \/ RunCloses \/ RunReturns

\* The timer fires and every goroutine runs on.  When ctx is done and the
\* timer has fired, select takes either at random, so it does not pass over
\* ctx.Done forever.
Fairness ==
    /\ WF_vars(PassBegins) /\ WF_vars(PassStep)
    /\ SF_vars(RunCloses) /\ WF_vars(RunReturns)
    /\ \A w \in Workers : WF_vars(WorkerTakes(w) \/ WorkerReturns(w) \/ WorkerExits(w))

Spec == Init /\ [][Next]_vars /\ Fairness

-----------------------------------------------------------------------------
(***************************************************************************)
(* The position the walk has reached: the pass's own while one runs, the   *)
(* saved cursor between passes.                                            *)
(***************************************************************************)
Position == IF phase = "passing" THEN at ELSE cursor

(***************************************************************************)
(* The walk skips nothing: an object of this node's that has been in the   *)
(* index since the cursor last wrapped, and that the walk has moved past,  *)
(* was accepted by the queue.  auditPass resumes "exactly here" after a    *)
(* full queue, a spent budget or a failed query, whatever writes and       *)
(* evictions did to the rows of the page meanwhile.                        *)
(***************************************************************************)
NothingSkipped == \A k \in Ours \cap swept : k <= Position => k \in accepted

(***************************************************************************)
(* Every object of this node's that stays in the index is taken up by a    *)
(* worker again and again for as long as the node runs: the budget, the    *)
(* small queue and the wrap of the cursor postpone an object, and never    *)
(* starve it.                                                              *)
(***************************************************************************)
EveryObjectIsAudited ==
    \A k \in Ours :
        ([]~cancelled /\ <>[](k \in rows)) => []<>(\E w \in Workers : worker[w] = k)

(***************************************************************************)
(* Cancellation ends Run: the pass in progress stops, the queue is closed, *)
(* and every worker drains it and exits.                                   *)
(***************************************************************************)
ShutdownCompletes == cancelled ~> (phase = "stopped")
=============================================================================
