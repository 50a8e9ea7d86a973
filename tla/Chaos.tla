------------------------------- MODULE Chaos -------------------------------
(***************************************************************************)
(* One run of the chaos runner (cmd/chaos): client goroutines that write   *)
(* and read through any node and keep a ledger of what was acknowledged,   *)
(* the fault injector that stops and starts one node at a time meanwhile,  *)
(* and what runChaos does after them: restore the nodes, read their        *)
(* counters, wait for convergence, read every acknowledged object again,   *)
(* judge and report.                                                       *)
(*                                                                         *)
(* The cluster is external: it stores an acknowledged object on all its    *)
(* holders, repairs and evicts on its own, and its eviction counters start *)
(* again at zero with the process.                                         *)
(***************************************************************************)
EXTENDS Naturals, FiniteSets

CONSTANTS
    Nodes,         \* nodeOrder
    Keys,          \* digests of the bodies the workers generate
    Workers,       \* client goroutines
    HoldersOf,     \* the two holders of each key
    MaxCommandErrs,\* bound: docker commands that fail
    MaxDamage,     \* bound: copies that go bad on a disk
    None           \* no node, no request

ASSUME ChaosAssumption ==
    /\ \A k \in Keys : HoldersOf[k] \subseteq Nodes /\ Cardinality(HoldersOf[k]) = 2
    /\ MaxCommandErrs \in Nat /\ MaxDamage \in Nat
    /\ None \notin Nodes

VARIABLES
    \* the cluster
    up,         \* nodes whose container runs
    holds,      \* keys on the disk of each node
    bad,        \* those of them whose bytes are damaged
    counted,    \* nodes whose /stats shows evictions
    damages,    \* copies damaged so far
    evicted,    \* history: <<node, key>> of every eviction, one each at most
    \* the goroutines
    noFaults,   \* opts.noFaults
    phase,      \* where runChaos is
    ctxDone,    \* trafficCtx is done: the time is over, or a signal
    working,    \* workers that have not returned
    request,    \* the request each worker waits for
    sent,       \* keys generated so far
    victim,     \* the node injectFaults has stopped
    injector,   \* where injectFaults is
    commandErrs,\* docker commands that have failed
    \* ledger, counters and report
    want,       \* acknowledged keys
    refused,    \* keys answered 503
    errors,     \* WriteError or ReadErrors is not zero
    corrupted,  \* CorruptedReads is not zero
    events,     \* how the recorded faults went
    todo,       \* what the loop of the current phase has left to do
    unstarted,  \* nodes that restoreAll failed to start
    late,       \* convergeWait is over
    rep,        \* the report
    exit,       \* what runChaos returns
    served      \* history: damaged bytes were the answer to some GET

cluster == <<up, holds, bad, counted, damages, evicted>>
ledger == <<want, refused, errors, corrupted>>
faultVars == <<victim, injector, events>>
runner == <<noFaults, phase, ctxDone, working, request, sent, faultVars, commandErrs, ledger,
            todo, unstarted, late, rep, exit, served>>
vars == <<cluster, runner>>

Phases == {"wait", "traffic", "restore", "stats", "converge", "verify", "end"}
Requests == [op : {"write", "read"}, key : Keys, node : Nodes]
Verdicts == {"none", "corrupted", "gone", "underReplicated", "inconclusive", "pass"}
Reports == [observed : BOOLEAN, attempted : BOOLEAN, passUnder : BOOLEAN, converged : BOOLEAN,
            missing : SUBSET Keys, corrupted : BOOLEAN, errorRate : BOOLEAN, verdict : Verdicts]

\* Type invariant: damaged copies are copies, and refused keys were sent.
TypeOK ==
    /\ up \subseteq Nodes /\ counted \subseteq Nodes /\ unstarted \subseteq Nodes
    /\ holds \in [Nodes -> SUBSET Keys]
    /\ bad \in [Nodes -> SUBSET Keys] /\ \A n \in Nodes : bad[n] \subseteq holds[n]
    /\ damages \in 0..MaxDamage /\ evicted \subseteq Nodes \X Keys
    /\ noFaults \in BOOLEAN /\ ctxDone \in BOOLEAN /\ late \in BOOLEAN
    /\ phase \in Phases
    /\ request \in [Workers -> Requests \cup {None}]
    /\ working \subseteq Workers
    /\ victim \in Nodes \cup {None}
    /\ injector \in {"tick", "down", "returned"}
    /\ commandErrs \in 0..MaxCommandErrs
    /\ sent \subseteq Keys /\ want \subseteq sent /\ refused \subseteq sent
    /\ errors \in BOOLEAN /\ corrupted \in BOOLEAN
    /\ events \subseteq {"ok", "stopErr", "startErr"}
    /\ todo \subseteq Nodes \cup Keys
    /\ rep \in Reports
    /\ served \in BOOLEAN
    /\ exit \in {"none", "notReady", "noReport", "corrupted", "ok"}

Init ==
    /\ up \in SUBSET Nodes
    /\ holds = [n \in Nodes |-> {}] /\ bad = [n \in Nodes |-> {}]
    /\ counted = {} /\ damages = 0 /\ evicted = {}
    /\ noFaults \in BOOLEAN
    /\ phase = "wait" /\ ctxDone = FALSE
    /\ working = Workers /\ request = [w \in Workers |-> None] /\ sent = {}
    /\ victim = None /\ injector = "tick" /\ commandErrs = 0 /\ events = {}
    /\ want = {} /\ refused = {} /\ errors = FALSE /\ corrupted = FALSE
    /\ todo = {} /\ unstarted = {} /\ late = FALSE
    /\ rep = [observed |-> FALSE, attempted |-> FALSE, passUnder |-> FALSE, converged |-> FALSE,
              missing |-> {}, corrupted |-> FALSE, errorRate |-> FALSE, verdict |-> "none"]
    /\ exit = "none" /\ served = FALSE

-----------------------------------------------------------------------------
(* The cluster: external *)

Live(k) == {n \in up : k \in holds[n]}

Evict(n, k) ==
    /\ n \in up
    /\ k \in holds[n]
    /\ <<n, k>> \notin evicted
    /\ holds' = [holds EXCEPT ![n] = @ \ {k}]
    /\ bad' = [bad EXCEPT ![n] = @ \ {k}]
    /\ counted' = counted \cup {n}
    /\ evicted' = evicted \cup {<<n, k>>}
    /\ UNCHANGED <<up, damages>>

\* The repair worker of a live holder sends a copy to another one; the digest of
\* a damaged copy does not match and it is rejected there.
Repair(n, k) ==
    /\ n \in (up \cap HoldersOf[k]) \ Live(k)
    /\ \E m \in Live(k) : k \notin bad[m]
    /\ holds' = [holds EXCEPT ![n] = @ \cup {k}]
    /\ UNCHANGED <<up, bad, counted, damages, evicted>>

Damage(n, k) ==
    /\ damages < MaxDamage
    /\ k \in holds[n] \ bad[n]
    /\ bad' = [bad EXCEPT ![n] = @ \cup {k}]
    /\ damages' = damages + 1
    /\ UNCHANGED <<up, holds, counted, evicted>>

ClusterStep ==
    /\ \E n \in Nodes, k \in Keys : Evict(n, k) \/ Repair(n, k) \/ Damage(n, k)
    /\ UNCHANGED runner

\* A key stored on the given nodes.
Stored(k, nodes) == holds' = [n \in Nodes |-> holds[n] \cup {x \in {k} : n \in nodes}]

\* What a GET through node n can be answered: the bytes of a live copy, good or
\* damaged; a 404 when every holder was asked and has none; an error otherwise,
\* or when a timeout is missed.
Answers(n, k) ==
    {"error"}
    \cup {a \in {"good"} : n \in up /\ \E m \in Live(k) : k \notin bad[m]}
    \cup {a \in {"bad"} : n \in up /\ \E m \in Live(k) : k \in bad[m]}
    \cup {a \in {"notFound"} : n \in up /\ HoldersOf[k] \subseteq up /\ Live(k) = {}}

\* A docker command either works or, leaving the node either way, fails.
StartContainer(n) == up' = up \cup {n} /\ counted' = counted \ ({n} \ up)
StopContainer(n) == up' = up \ {n} /\ UNCHANGED counted
CommandFails(command) ==
    /\ commandErrs < MaxCommandErrs
    /\ commandErrs' = commandErrs + 1
    /\ command \/ UNCHANGED <<up, counted>>

-----------------------------------------------------------------------------
(* runChaos up to the end of the traffic *)

\* waitAllReady: a node that is down or not ready in time, or a signal, ends the
\* run before it began.
WaitAllReady ==
    /\ phase = "wait"
    /\ \/ /\ up = Nodes
          /\ phase' = "traffic"
          /\ injector' = IF noFaults THEN "returned" ELSE "tick"
          /\ UNCHANGED exit
       \/ /\ phase' = "end" /\ exit' = "notReady"
          /\ UNCHANGED injector
    /\ UNCHANGED <<cluster, noFaults, ctxDone, working, request, sent, victim, events>>
    /\ UNCHANGED <<commandErrs, ledger, todo, unstarted, late, rep, served>>

\* The duration is over, or a signal arrives.
ContextEnds ==
    /\ phase \in {"wait", "traffic"}
    /\ ~ctxDone
    /\ ctxDone' = TRUE
    /\ UNCHANGED <<cluster, noFaults, phase, working, request, sent, faultVars, commandErrs>>
    /\ UNCHANGED <<ledger, todo, unstarted, late, rep, exit, served>>

traffic == <<noFaults, phase, ctxDone, faultVars, commandErrs, todo, unstarted, late, rep, exit>>

\* doWrite sends a body nobody has sent before; doRead asks for a key of the
\* ledger.
WorkerSends(w, op, k, n) ==
    /\ phase = "traffic"
    /\ w \in working
    /\ request[w] = None
    /\ ~ctxDone
    /\ op = "write" => k \notin sent
    /\ op = "read" => k \in want
    /\ request' = [request EXCEPT ![w] = [op |-> op, key |-> k, node |-> n]]
    /\ sent' = sent \cup {k}
    /\ UNCHANGED <<cluster, working, ledger, served, traffic>>

\* The answer to a PUT: a 2xx when both holders have stored it, a 503 when too
\* few have confirmed it, an error when the node is gone or too slow.
WriteAnswered(w) ==
    /\ request[w] # None
    /\ request[w].op = "write"
    /\ LET k == request[w].key
       IN \E nodes \in SUBSET (HoldersOf[k] \cap up) :
             /\ Stored(k, nodes)
             /\ \/ /\ request[w].node \in up /\ nodes = HoldersOf[k]
                   /\ want' = want \cup {k}
                   /\ UNCHANGED <<refused, errors>>
                \/ /\ request[w].node \in up
                   /\ refused' = refused \cup ({k} \ want)
                   /\ UNCHANGED <<want, errors>>
                \/ errors' = TRUE /\ UNCHANGED <<want, refused>>
    /\ request' = [request EXCEPT ![w] = None]
    /\ UNCHANGED <<up, bad, counted, damages, evicted, working, sent, corrupted, served, traffic>>

\* Mutant of ReadAnswered: the digest that the server sends along is trusted.
ReadAnsweredUnchecked(w) ==
    /\ request[w] # None
    /\ request[w].op = "read"
    /\ \E answer \in Answers(request[w].node, request[w].key) :
          /\ errors' = (errors \/ answer = "error")
          /\ served' = (served \/ answer = "bad")
    /\ request' = [request EXCEPT ![w] = None]
    /\ UNCHANGED <<cluster, working, sent, want, refused, corrupted, traffic>>

\* The answer to a GET, compared with the ledger's digest.
ReadAnswered(w) ==
    /\ request[w] # None
    /\ request[w].op = "read"
    /\ \E answer \in Answers(request[w].node, request[w].key) :
          /\ errors' = (errors \/ answer = "error")
          /\ corrupted' = (corrupted \/ answer = "bad")
          /\ served' = (served \/ answer = "bad")
    /\ request' = [request EXCEPT ![w] = None]
    /\ UNCHANGED <<cluster, working, sent, want, refused, traffic>>

WorkerReturns(w) ==
    /\ phase = "traffic"
    /\ w \in working
    /\ request[w] = None
    /\ ctxDone
    /\ working' = working \ {w}
    /\ UNCHANGED <<cluster, request, sent, ledger, served, traffic>>

-----------------------------------------------------------------------------
(* injectFaults *)

injection == <<holds, bad, damages, evicted, noFaults, phase, ctxDone, working, request, sent,
               ledger, todo, unstarted, late, rep, exit, served>>

\* A tick: one node is stopped.  With the context done as well, select takes
\* either.  A stop that fails is recorded and the loop goes on.
InjectorStops(n) ==
    /\ phase = "traffic"
    /\ injector = "tick"
    /\ \/ /\ StopContainer(n)
          /\ victim' = n /\ injector' = "down"
          /\ UNCHANGED <<events, commandErrs>>
       \/ /\ CommandFails(StopContainer(n))
          /\ events' = events \cup {"stopErr"}
          /\ UNCHANGED <<victim, injector>>
    /\ UNCHANGED injection

\* Mutant of InjectorStarts: the victim is left for restoreAll.
InjectorLeavesDown ==
    /\ phase = "traffic"
    /\ injector = "down"
    /\ events' = events \cup {"ok"}
    /\ victim' = None
    /\ injector' = IF ctxDone THEN "returned" ELSE "tick"
    /\ UNCHANGED <<up, counted, commandErrs, injection>>

\* faultDown is over, or the context is done: the victim is started in any case.
InjectorStarts ==
    /\ phase = "traffic"
    /\ injector = "down"
    /\ \/ StartContainer(victim) /\ events' = events \cup {"ok"} /\ UNCHANGED commandErrs
       \/ CommandFails(StartContainer(victim)) /\ events' = events \cup {"startErr"}
    /\ victim' = None
    /\ injector' = IF ctxDone THEN "returned" ELSE "tick"
    /\ UNCHANGED injection

\* Mutant of InjectorReturns: the loop only listens to the ticker.
InjectorIgnoresContext ==
    /\ phase = "traffic"
    /\ injector = "tick"
    /\ noFaults
    /\ injector' = "returned"
    /\ UNCHANGED <<up, counted, victim, events, commandErrs, injection>>

InjectorReturns ==
    /\ phase = "traffic"
    /\ injector = "tick"
    /\ ctxDone
    /\ injector' = "returned"
    /\ UNCHANGED <<up, counted, victim, events, commandErrs, injection>>

-----------------------------------------------------------------------------
(* runChaos after the traffic *)

after == <<noFaults, ctxDone, working, request, sent, faultVars, want, refused, errors>>

\* Mutant of TrafficEnds: restoreAll is given the context of the traffic.
TrafficEndsDone ==
    /\ phase = "traffic"
    /\ working = {}
    /\ injector = "returned"
    /\ phase' = "restore"
    /\ todo' = IF noFaults \/ ctxDone THEN {} ELSE Nodes
    /\ rep' = [rep EXCEPT !.errorRate = errors]
    /\ UNCHANGED <<cluster, after, commandErrs, corrupted, unstarted, late, exit, served>>

\* wg.Wait, <-faultDone and buildReport.
TrafficEnds ==
    /\ phase = "traffic"
    /\ working = {}
    /\ injector = "returned"
    /\ phase' = "restore"
    /\ todo' = IF noFaults THEN {} ELSE Nodes
    /\ rep' = [rep EXCEPT !.errorRate = errors]
    /\ UNCHANGED <<cluster, after, commandErrs, corrupted, unstarted, late, exit, served>>

\* restoreAll starts every node, one after the other, and goes on after an error.
RestoreOne(n) ==
    /\ phase = "restore"
    /\ n \in todo
    /\ todo' = todo \ {n}
    /\ \/ StartContainer(n) /\ UNCHANGED <<commandErrs, unstarted>>
       \/ CommandFails(StartContainer(n)) /\ unstarted' = unstarted \cup {n}
    /\ UNCHANGED <<holds, bad, damages, evicted, after, phase, corrupted, late, rep, exit, served>>

\* waitAllReady, whose error is only printed, and collectNodeStats, which leaves
\* out the nodes that do not answer.
CollectNodeStats ==
    /\ phase = "restore"
    /\ todo = {}
    /\ \E answering \in SUBSET up : rep' = [rep EXCEPT !.observed = answering \cap counted # {}]
    /\ phase' = "stats"
    /\ UNCHANGED <<cluster, after, commandErrs, corrupted, todo, unstarted, late, exit, served>>

\* measureConvergence takes its sample, if there is one.
ConvergenceBegins ==
    /\ phase = "stats"
    /\ rep' = [rep EXCEPT !.attempted = want \cup refused # {}]
    /\ phase' = IF rep'.attempted THEN "converge" ELSE "verify"
    /\ todo' = want \cup refused
    /\ UNCHANGED <<cluster, after, commandErrs, corrupted, unstarted, late, exit, served>>

\* countReplicas on one key: HEAD to every node, of its own disk.  A key that no
\* node that answered has is absent, and not held against convergence.
UnderReplicated(k, answering) == answering = {} \/ Cardinality(Live(k) \cap answering) = 1
CountReplicas(k) ==
    /\ phase = "converge"
    /\ k \in todo
    /\ todo' = todo \ {k}
    /\ \E answering \in SUBSET up : rep' = [rep EXCEPT !.passUnder = @ \/ UnderReplicated(k, answering)]
    /\ UNCHANGED <<cluster, after, phase, commandErrs, corrupted, unstarted, late, exit, served>>

ConvergeWaitEnds ==
    /\ phase = "converge"
    /\ ~late
    /\ late' = TRUE
    /\ UNCHANGED <<cluster, after, phase, commandErrs, corrupted, todo, unstarted, rep, exit, served>>

\* The end of a pass: converged, out of time, or another pass.
PassEnds ==
    /\ phase = "converge"
    /\ todo = {}
    /\ IF rep.passUnder /\ ~late
       THEN /\ rep' = [rep EXCEPT !.passUnder = FALSE]
            /\ todo' = want \cup refused
            /\ UNCHANGED phase
       ELSE /\ rep' = [rep EXCEPT !.converged = ~rep.passUnder]
            /\ todo' = want
            /\ phase' = "verify"
    /\ UNCHANGED <<cluster, after, commandErrs, corrupted, unstarted, late, exit, served>>

\* Mutant of FinalVerify: whatever is not a 200 is missing.
FinalVerifyNot200(k, n) ==
    /\ phase = "verify"
    /\ k \in todo
    /\ todo' = todo \ {k}
    /\ \E answer \in Answers(n, k) :
          /\ rep' = [rep EXCEPT !.missing = @ \cup {x \in {k} : answer \in {"notFound", "error"}},
                                !.corrupted = @ \/ answer = "bad"]
          /\ corrupted' = (corrupted \/ answer = "bad")
          /\ served' = (served \/ answer = "bad")
    /\ UNCHANGED <<cluster, after, phase, commandErrs, unstarted, late, exit>>

\* finalVerify on one key, through some node.
FinalVerify(k, n) ==
    /\ phase = "verify"
    /\ k \in todo
    /\ todo' = todo \ {k}
    /\ \E answer \in Answers(n, k) :
          /\ rep' = [rep EXCEPT !.missing = @ \cup {x \in {k} : answer = "notFound"},
                                !.corrupted = @ \/ answer = "bad"]
          /\ corrupted' = (corrupted \/ answer = "bad")
          /\ served' = (served \/ answer = "bad")
    /\ UNCHANGED <<cluster, after, phase, commandErrs, unstarted, late, exit>>

verdict ==
    IF corrupted \/ rep.corrupted THEN "corrupted"
    ELSE IF rep.missing # {} /\ ~rep.observed THEN "gone"
    ELSE IF rep.attempted /\ ~rep.converged THEN "underReplicated"
    ELSE IF ~noFaults /\ ~rep.errorRate /\ events # {} THEN "inconclusive"
    ELSE "pass"

\* The verdict, writeReport, and the error that runChaos returns.
RunReports ==
    /\ phase = "verify"
    /\ todo = {}
    /\ phase' = "end"
    /\ rep' = [rep EXCEPT !.verdict = verdict]
    /\ exit' \in {"noReport", IF corrupted \/ rep.corrupted THEN "corrupted" ELSE "ok"}
    /\ UNCHANGED <<cluster, after, commandErrs, corrupted, todo, unstarted, late, served>>

-----------------------------------------------------------------------------

WorkerStep(w) == WriteAnswered(w) \/ ReadAnswered(w) \/ WorkerReturns(w)
InjectorStep == InjectorStarts \/ InjectorReturns
RunStep ==
    \/ WaitAllReady \/ TrafficEnds \/ CollectNodeStats \/ ConvergenceBegins
    \/ \E n \in Nodes : RestoreOne(n)
    \/ \E k \in Keys : CountReplicas(k)
    \/ PassEnds
    \/ \E k \in Keys, n \in Nodes : FinalVerify(k, n)
    \/ RunReports

Next ==
    \/ \E w \in Workers, op \in {"write", "read"}, k \in Keys, n \in Nodes : WorkerSends(w, op, k, n)
    \/ \E w \in Workers : WorkerStep(w)
    \/ \E n \in Nodes : InjectorStops(n)
    \/ InjectorStep \/ RunStep
    \/ ContextEnds \/ ConvergeWaitEnds
    \/ ClusterStep

\* Goroutines are scheduled, timers fire, and the client's timeout of thirty
\* seconds ends a request; a docker command returns.
Fairness ==
    /\ \A w \in Workers : WF_vars(WorkerStep(w))
    /\ WF_vars(InjectorStep)
    /\ WF_vars(RunStep)
    /\ WF_vars(ContextEnds) /\ WF_vars(ConvergeWaitEnds)

Spec == Init /\ [][Next]_vars /\ Fairness

-----------------------------------------------------------------------------
(* Properties *)

\* One node at a time, never two: unless a docker command failed, an object that
\* was acknowledged and never evicted always has a running holder, so that an
\* error of a read can be interpreted.
AckedHasLiveHolder ==
    commandErrs = 0 => \A k \in want : Live(k) # {} \/ \E n \in Nodes : <<n, k>> \in evicted

\* What finalVerify counts as missing was acknowledged, and each of its holders has
\* evicted it: a node that is down or slow at the final read never makes an object
\* missing.
MissingWasEvicted ==
    \A k \in rep.missing : k \in want /\ \A n \in HoldersOf[k] : <<n, k>> \in evicted

\* A run that injected faults leaves no node down, however it ended, except the
\* ones that restoreAll itself could not start.
ExitLeavesClusterUp ==
    exit \notin {"none", "notReady"} => Nodes \ up \subseteq unstarted

\* Damaged bytes that were served at any moment of the run, to a worker or to
\* the final verification, end it with the failing verdict and an error.
ServedDamageFails ==
    served /\ exit # "none" => rep.verdict = "corrupted" /\ exit \in {"corrupted", "noReport"}

\* The run ends: after the time is over or a signal has come, the workers and
\* the injector return, and neither restoring nor convergence waits for ever.
RunEnds == <>(exit # "none")

\* The verdict of lost data is given only when an acknowledged object is gone that
\* no node evicted.
GoneMeansLost == rep.verdict = "gone" => \E k \in rep.missing : \A n \in Nodes : <<n, k>> \notin evicted

\* Convergence means that no sampled object is left with a single copy on the
\* disks, unless it has been evicted.
ConvergedMeansReplicated ==
    [][phase = "converge" /\ phase' = "verify" /\ rep'.converged =>
        \A k \in want \cup refused : (\A n \in Nodes : <<n, k>> \notin evicted) =>
            Cardinality({n \in Nodes : k \in holds[n]}) # 1]_vars
=============================================================================
