---------------------------- MODULE Chaos_proofs ----------------------------
(***************************************************************************)
(* What a run of the chaos runner may conclude and how it leaves the       *)
(* cluster, for any number of nodes, keys and workers, any number of       *)
(* failed docker commands and any number of damaged copies.                *)
(***************************************************************************)
EXTENDS Chaos, FiniteSetTheorems, TLAPS

\* runChaos has got past waitAllReady.
Started == phase # "wait" /\ exit # "notReady"

\* The cluster: a copy of an acknowledged object leaves a holder by eviction
\* only.
ClusterInv ==
    /\ up \subseteq Nodes /\ counted \subseteq Nodes
    /\ holds \in [Nodes -> SUBSET Keys]
    /\ bad \in [Nodes -> SUBSET Keys]
    /\ \A n \in Nodes : bad[n] \subseteq holds[n]
    /\ damages \in 0..MaxDamage /\ evicted \subseteq Nodes \X Keys
    /\ \A k \in want : \A n \in HoldersOf[k] : k \in holds[n] \/ <<n, k>> \in evicted

\* The workers: a request is under way only while there is traffic.
WorkerInv ==
    /\ request \in [Workers -> Requests \cup {None}]
    /\ working \subseteq Workers
    /\ sent \subseteq Keys /\ want \subseteq sent /\ refused \subseteq sent
    /\ \A w \in Workers : request[w] # None =>
          phase = "traffic" /\ w \in working /\ request[w].key \in sent
    /\ ~Started => want = {}

\* The injector: without a failed command only its victim is down, and without
\* faults nothing is.
FaultInv ==
    /\ victim \in Nodes \cup {None}
    /\ injector \in {"tick", "down", "returned"}
    /\ injector = "down" => victim \in Nodes
    /\ commandErrs \in 0..MaxCommandErrs
    /\ events \subseteq {"ok", "stopErr", "startErr"}
    /\ Started /\ noFaults => injector = "returned" /\ up = Nodes
    /\ Started /\ commandErrs = 0 => Nodes \ up \subseteq {n \in {victim} : injector = "down"}

\* The order of the phases, and what restoreAll has got to.
PhaseInv ==
    /\ phase \in Phases
    /\ exit \in {"none", "notReady", "noReport", "corrupted", "ok"}
    /\ exit # "none" <=> phase = "end"
    /\ unstarted \subseteq Nodes
    /\ todo \subseteq Nodes \cup Keys
    /\ phase = "restore" => todo \subseteq Nodes /\ Nodes \ up \subseteq unstarted \cup todo
    /\ phase \in {"stats", "converge", "verify"} \/ exit \in {"noReport", "corrupted", "ok"}
          => Nodes \ up \subseteq unstarted
    /\ phase = "converge" => todo \subseteq want \cup refused
    /\ phase = "verify" => todo \subseteq want

\* The report.
ReportInv ==
    /\ rep \in Reports
    /\ \A k \in rep.missing : k \in want /\ \A n \in HoldersOf[k] : <<n, k>> \in evicted
    /\ served => corrupted /\ Started
    /\ served /\ exit # "none" => rep.verdict = "corrupted" /\ exit \in {"corrupted", "noReport"}

Flags ==
    /\ noFaults \in BOOLEAN /\ ctxDone \in BOOLEAN /\ late \in BOOLEAN
    /\ errors \in BOOLEAN /\ corrupted \in BOOLEAN /\ served \in BOOLEAN

ChaosInv == ClusterInv /\ WorkerInv /\ FaultInv /\ PhaseInv /\ ReportInv /\ Flags

-----------------------------------------------------------------------------
(***************************************************************************)
(* No step of the runner or the cluster takes a copy from a disk but an    *)
(* eviction, so that ClusterInv is kept.                                   *)
(***************************************************************************)
LEMMA ClusterInvStep == ClusterInv /\ WorkerInv /\ FaultInv /\ [Next]_vars => ClusterInv'
<1> SUFFICES ASSUME ClusterInv, WorkerInv, FaultInv, [Next]_vars PROVE ClusterInv'
  OBVIOUS
<1> USE ChaosAssumption DEF ClusterInv, WorkerInv, FaultInv, Started,
                           cluster, runner, ledger, faultVars, traffic, injection, after
<1>1. ASSUME NEW n \in Nodes, NEW k \in Keys, Evict(n, k), UNCHANGED runner PROVE ClusterInv'
  BY <1>1 DEF Evict
<1>2. ASSUME NEW n \in Nodes, NEW k \in Keys, Repair(n, k), UNCHANGED runner PROVE ClusterInv'
  BY <1>2 DEF Repair, Live
<1>3. ASSUME NEW n \in Nodes, NEW k \in Keys, Damage(n, k), UNCHANGED runner PROVE ClusterInv'
  BY <1>3 DEF Damage
<1>4. ASSUME WaitAllReady PROVE ClusterInv'
  BY <1>4 DEF WaitAllReady
<1>5. ASSUME ContextEnds PROVE ClusterInv'
  BY <1>5 DEF ContextEnds
<1>6. ASSUME NEW w \in Workers, NEW op \in {"write", "read"}, NEW k \in Keys, NEW n \in Nodes, WorkerSends(w, op, k, n)
     PROVE  ClusterInv'
  BY <1>6 DEF WorkerSends
<1>7. ASSUME NEW w \in Workers, WriteAnswered(w) PROVE ClusterInv'
  BY <1>7 DEF WriteAnswered, Stored
<1>8. ASSUME NEW w \in Workers, ReadAnswered(w) PROVE ClusterInv'
  BY <1>8 DEF ReadAnswered
<1>9. ASSUME NEW w \in Workers, WorkerReturns(w) PROVE ClusterInv'
  BY <1>9 DEF WorkerReturns
<1>10. ASSUME NEW n \in Nodes, InjectorStops(n) PROVE ClusterInv'
  BY <1>10 DEF InjectorStops, StopContainer, CommandFails
<1>11. ASSUME InjectorStarts PROVE ClusterInv'
  BY <1>11 DEF InjectorStarts, StartContainer, CommandFails
<1>12. ASSUME InjectorReturns PROVE ClusterInv'
  BY <1>12 DEF InjectorReturns
<1>13. ASSUME TrafficEnds PROVE ClusterInv'
  BY <1>13 DEF TrafficEnds
<1>14. ASSUME NEW n \in Nodes, RestoreOne(n) PROVE ClusterInv'
  BY <1>14 DEF RestoreOne, StartContainer, CommandFails
<1>15. ASSUME CollectNodeStats PROVE ClusterInv'
  BY <1>15 DEF CollectNodeStats
<1>16. ASSUME ConvergenceBegins PROVE ClusterInv'
  BY <1>16 DEF ConvergenceBegins
<1>17. ASSUME NEW k \in Keys, CountReplicas(k) PROVE ClusterInv'
  BY <1>17 DEF CountReplicas
<1>18. ASSUME ConvergeWaitEnds PROVE ClusterInv'
  BY <1>18 DEF ConvergeWaitEnds
<1>19. ASSUME PassEnds PROVE ClusterInv'
  BY <1>19 DEF PassEnds
<1>20. ASSUME NEW k \in Keys, NEW n \in Nodes, FinalVerify(k, n) PROVE ClusterInv'
  BY <1>20 DEF FinalVerify, Answers, Live
<1>21. ASSUME RunReports PROVE ClusterInv'
  BY <1>21 DEF RunReports
<1>22. CASE UNCHANGED vars
  BY <1>22 DEF vars
<1> QED
  BY <1>1, <1>2, <1>3, <1>4, <1>5, <1>6, <1>7, <1>8, <1>9, <1>10, <1>11, <1>12, <1>13, <1>14,
     <1>15, <1>16, <1>17, <1>18, <1>19, <1>20, <1>21, <1>22
     DEF Next, WorkerStep, InjectorStep, RunStep, ClusterStep

(***************************************************************************)
(* A worker returns only with its request answered, and the traffic ends   *)
(* only when all have: WorkerInv is kept.                                  *)
(***************************************************************************)
LEMMA WorkerInvStep == WorkerInv /\ PhaseInv /\ [Next]_vars => WorkerInv'
<1> SUFFICES ASSUME WorkerInv, PhaseInv, [Next]_vars PROVE WorkerInv'
  OBVIOUS
<1> USE ChaosAssumption DEF WorkerInv, PhaseInv, Started,
                           cluster, runner, ledger, faultVars, traffic, injection, after, Requests
<1>1. ASSUME NEW n \in Nodes, NEW k \in Keys, Evict(n, k), UNCHANGED runner PROVE WorkerInv'
  BY <1>1 DEF Evict
<1>2. ASSUME NEW n \in Nodes, NEW k \in Keys, Repair(n, k), UNCHANGED runner PROVE WorkerInv'
  BY <1>2 DEF Repair, Live
<1>3. ASSUME NEW n \in Nodes, NEW k \in Keys, Damage(n, k), UNCHANGED runner PROVE WorkerInv'
  BY <1>3 DEF Damage
<1>4. ASSUME WaitAllReady PROVE WorkerInv'
  BY <1>4 DEF WaitAllReady
<1>5. ASSUME ContextEnds PROVE WorkerInv'
  BY <1>5 DEF ContextEnds
<1>6. ASSUME NEW w \in Workers, NEW op \in {"write", "read"}, NEW k \in Keys, NEW n \in Nodes, WorkerSends(w, op, k, n)
     PROVE  WorkerInv'
  BY <1>6 DEF WorkerSends
<1>7. ASSUME NEW w \in Workers, WriteAnswered(w) PROVE WorkerInv'
  BY <1>7 DEF WriteAnswered, Stored
<1>8. ASSUME NEW w \in Workers, ReadAnswered(w) PROVE WorkerInv'
  BY <1>8 DEF ReadAnswered
<1>9. ASSUME NEW w \in Workers, WorkerReturns(w) PROVE WorkerInv'
  BY <1>9 DEF WorkerReturns
<1>10. ASSUME NEW n \in Nodes, InjectorStops(n) PROVE WorkerInv'
  BY <1>10 DEF InjectorStops, StopContainer, CommandFails
<1>11. ASSUME InjectorStarts PROVE WorkerInv'
  BY <1>11 DEF InjectorStarts, StartContainer, CommandFails
<1>12. ASSUME InjectorReturns PROVE WorkerInv'
  BY <1>12 DEF InjectorReturns
<1>13. ASSUME TrafficEnds PROVE WorkerInv'
  BY <1>13 DEF TrafficEnds
<1>14. ASSUME NEW n \in Nodes, RestoreOne(n) PROVE WorkerInv'
  BY <1>14 DEF RestoreOne, StartContainer, CommandFails
<1>15. ASSUME CollectNodeStats PROVE WorkerInv'
  BY <1>15 DEF CollectNodeStats
<1>16. ASSUME ConvergenceBegins PROVE WorkerInv'
  BY <1>16 DEF ConvergenceBegins
<1>17. ASSUME NEW k \in Keys, CountReplicas(k) PROVE WorkerInv'
  BY <1>17 DEF CountReplicas
<1>18. ASSUME ConvergeWaitEnds PROVE WorkerInv'
  BY <1>18 DEF ConvergeWaitEnds
<1>19. ASSUME PassEnds PROVE WorkerInv'
  BY <1>19 DEF PassEnds
<1>20. ASSUME NEW k \in Keys, NEW n \in Nodes, FinalVerify(k, n) PROVE WorkerInv'
  BY <1>20 DEF FinalVerify, Answers, Live
<1>21. ASSUME RunReports PROVE WorkerInv'
  BY <1>21 DEF RunReports
<1>22. CASE UNCHANGED vars
  BY <1>22 DEF vars
<1> QED
  BY <1>1, <1>2, <1>3, <1>4, <1>5, <1>6, <1>7, <1>8, <1>9, <1>10, <1>11, <1>12, <1>13, <1>14,
     <1>15, <1>16, <1>17, <1>18, <1>19, <1>20, <1>21, <1>22
     DEF Next, WorkerStep, InjectorStep, RunStep, ClusterStep

(***************************************************************************)
(* injectFaults has one victim at a time and starts it again whatever      *)
(* ended the wait: FaultInv is kept.                                       *)
(***************************************************************************)
LEMMA FaultInvStep == FaultInv /\ PhaseInv /\ WorkerInv /\ [Next]_vars => FaultInv'
<1> SUFFICES ASSUME FaultInv, PhaseInv, WorkerInv, [Next]_vars PROVE FaultInv'
  OBVIOUS
<1> USE ChaosAssumption DEF FaultInv, PhaseInv, WorkerInv, Started,
                           cluster, runner, ledger, faultVars, traffic, injection, after
<1>1. ASSUME NEW n \in Nodes, NEW k \in Keys, Evict(n, k), UNCHANGED runner PROVE FaultInv'
  BY <1>1 DEF Evict
<1>2. ASSUME NEW n \in Nodes, NEW k \in Keys, Repair(n, k), UNCHANGED runner PROVE FaultInv'
  BY <1>2 DEF Repair, Live
<1>3. ASSUME NEW n \in Nodes, NEW k \in Keys, Damage(n, k), UNCHANGED runner PROVE FaultInv'
  BY <1>3 DEF Damage
<1>4. ASSUME WaitAllReady PROVE FaultInv'
  BY <1>4 DEF WaitAllReady
<1>5. ASSUME ContextEnds PROVE FaultInv'
  BY <1>5 DEF ContextEnds
<1>6. ASSUME NEW w \in Workers, NEW op \in {"write", "read"}, NEW k \in Keys, NEW n \in Nodes, WorkerSends(w, op, k, n)
     PROVE  FaultInv'
  BY <1>6 DEF WorkerSends
<1>7. ASSUME NEW w \in Workers, WriteAnswered(w) PROVE FaultInv'
  BY <1>7 DEF WriteAnswered, Stored
<1>8. ASSUME NEW w \in Workers, ReadAnswered(w) PROVE FaultInv'
  BY <1>8 DEF ReadAnswered
<1>9. ASSUME NEW w \in Workers, WorkerReturns(w) PROVE FaultInv'
  BY <1>9 DEF WorkerReturns
<1>10. ASSUME NEW n \in Nodes, InjectorStops(n) PROVE FaultInv'
  <2>1. exit = "none" /\ injector = "tick" /\ ~noFaults
    BY <1>10 DEF InjectorStops
  <2>2. CASE StopContainer(n) /\ victim' = n /\ injector' = "down" /\ UNCHANGED <<events, commandErrs>>
    <3>1. commandErrs = 0 => Nodes \ up = {}
      BY <1>10, <2>1 DEF InjectorStops
    <3>2. commandErrs = 0 => Nodes \ up' \subseteq {n}
      BY <2>2, <3>1 DEF StopContainer
    <3> QED
      BY <1>10, <2>1, <2>2, <3>2 DEF InjectorStops
  <2>3. CASE CommandFails(StopContainer(n)) /\ events' = events \cup {"stopErr"} /\ UNCHANGED <<victim, injector>>
    <3>1. commandErrs' \in 0..MaxCommandErrs /\ commandErrs' # 0
      BY <2>3 DEF CommandFails
    <3> QED
      BY <1>10, <2>1, <2>3, <3>1 DEF InjectorStops
  <2> QED
    BY <1>10, <2>2, <2>3 DEF InjectorStops
<1>11. ASSUME InjectorStarts PROVE FaultInv'
  <2>1. exit = "none" /\ injector = "down" /\ ~noFaults /\ victim \in Nodes
    BY <1>11 DEF InjectorStarts
  <2>2. victim' = None /\ injector' \in {"tick", "returned"} /\ events' \subseteq {"ok", "stopErr", "startErr"}
    BY <1>11 DEF InjectorStarts
  <2>3. CASE StartContainer(victim) /\ UNCHANGED commandErrs
    <3>1. commandErrs = 0 => Nodes \ up' = {}
      BY <1>11, <2>1, <2>3 DEF InjectorStarts, StartContainer
    <3> QED
      BY <1>11, <2>1, <2>2, <2>3, <3>1 DEF InjectorStarts
  <2>4. CASE CommandFails(StartContainer(victim))
    <3>1. commandErrs' \in 0..MaxCommandErrs /\ commandErrs' # 0
      BY <2>4 DEF CommandFails
    <3> QED
      BY <1>11, <2>1, <2>2, <3>1 DEF InjectorStarts
  <2> QED
    BY <1>11, <2>3, <2>4 DEF InjectorStarts
<1>12. ASSUME InjectorReturns PROVE FaultInv'
  BY <1>12 DEF InjectorReturns
<1>13. ASSUME TrafficEnds PROVE FaultInv'
  BY <1>13 DEF TrafficEnds
<1>14. ASSUME NEW n \in Nodes, RestoreOne(n) PROVE FaultInv'
  <2>1. exit = "none" /\ UNCHANGED <<phase, exit, noFaults, victim, injector, events>>
    BY <1>14 DEF RestoreOne
  <2>2. up \subseteq up' /\ (up = Nodes => up' = Nodes)
    BY <1>14 DEF RestoreOne, StartContainer, CommandFails
  <2>3. CASE StartContainer(n) /\ UNCHANGED commandErrs
    BY <2>1, <2>2, <2>3
  <2>4. CASE CommandFails(StartContainer(n))
    <3>1. commandErrs' \in 0..MaxCommandErrs /\ commandErrs' # 0
      BY <2>4 DEF CommandFails
    <3> QED
      BY <2>1, <2>2, <3>1
  <2> QED
    BY <1>14, <2>3, <2>4 DEF RestoreOne
<1>15. ASSUME CollectNodeStats PROVE FaultInv'
  BY <1>15 DEF CollectNodeStats
<1>16. ASSUME ConvergenceBegins PROVE FaultInv'
  BY <1>16 DEF ConvergenceBegins
<1>17. ASSUME NEW k \in Keys, CountReplicas(k) PROVE FaultInv'
  BY <1>17 DEF CountReplicas
<1>18. ASSUME ConvergeWaitEnds PROVE FaultInv'
  BY <1>18 DEF ConvergeWaitEnds
<1>19. ASSUME PassEnds PROVE FaultInv'
  BY <1>19 DEF PassEnds
<1>20. ASSUME NEW k \in Keys, NEW n \in Nodes, FinalVerify(k, n) PROVE FaultInv'
  BY <1>20 DEF FinalVerify, Answers, Live
<1>21. ASSUME RunReports PROVE FaultInv'
  BY <1>21 DEF RunReports
<1>22. CASE UNCHANGED vars
  BY <1>22 DEF vars
<1> QED
  BY <1>1, <1>2, <1>3, <1>4, <1>5, <1>6, <1>7, <1>8, <1>9, <1>10, <1>11, <1>12, <1>13, <1>14,
     <1>15, <1>16, <1>17, <1>18, <1>19, <1>20, <1>21, <1>22
     DEF Next, WorkerStep, InjectorStep, RunStep, ClusterStep

(***************************************************************************)
(* restoreAll goes through every node before the counters are read, and    *)
(* the phases follow each other: PhaseInv is kept.                         *)
(***************************************************************************)
LEMMA PhaseInvStep == PhaseInv /\ FaultInv /\ WorkerInv /\ ReportInv /\ [Next]_vars => PhaseInv'
<1> SUFFICES ASSUME PhaseInv, FaultInv, WorkerInv, ReportInv, [Next]_vars PROVE PhaseInv'
  OBVIOUS
<1> USE ChaosAssumption DEF PhaseInv, FaultInv, WorkerInv, ReportInv, Started,
                           cluster, runner, ledger, faultVars, traffic, injection, after, Phases
<1>1. ASSUME NEW n \in Nodes, NEW k \in Keys, Evict(n, k), UNCHANGED runner PROVE PhaseInv'
  BY <1>1 DEF Evict
<1>2. ASSUME NEW n \in Nodes, NEW k \in Keys, Repair(n, k), UNCHANGED runner PROVE PhaseInv'
  BY <1>2 DEF Repair, Live
<1>3. ASSUME NEW n \in Nodes, NEW k \in Keys, Damage(n, k), UNCHANGED runner PROVE PhaseInv'
  BY <1>3 DEF Damage
<1>4. ASSUME WaitAllReady PROVE PhaseInv'
  BY <1>4 DEF WaitAllReady
<1>5. ASSUME ContextEnds PROVE PhaseInv'
  BY <1>5 DEF ContextEnds
<1>6. ASSUME NEW w \in Workers, NEW op \in {"write", "read"}, NEW k \in Keys, NEW n \in Nodes, WorkerSends(w, op, k, n)
     PROVE  PhaseInv'
  BY <1>6 DEF WorkerSends
<1>7. ASSUME NEW w \in Workers, WriteAnswered(w) PROVE PhaseInv'
  BY <1>7 DEF WriteAnswered, Stored
<1>8. ASSUME NEW w \in Workers, ReadAnswered(w) PROVE PhaseInv'
  BY <1>8 DEF ReadAnswered
<1>9. ASSUME NEW w \in Workers, WorkerReturns(w) PROVE PhaseInv'
  BY <1>9 DEF WorkerReturns
<1>10. ASSUME NEW n \in Nodes, InjectorStops(n) PROVE PhaseInv'
  BY <1>10 DEF InjectorStops, StopContainer, CommandFails
<1>11. ASSUME InjectorStarts PROVE PhaseInv'
  BY <1>11 DEF InjectorStarts, StartContainer, CommandFails
<1>12. ASSUME InjectorReturns PROVE PhaseInv'
  BY <1>12 DEF InjectorReturns
<1>13. ASSUME TrafficEnds PROVE PhaseInv'
  BY <1>13 DEF TrafficEnds
<1>14. ASSUME NEW n \in Nodes, RestoreOne(n) PROVE PhaseInv'
  BY <1>14 DEF RestoreOne, StartContainer, CommandFails
<1>15. ASSUME CollectNodeStats PROVE PhaseInv'
  BY <1>15 DEF CollectNodeStats
<1>16. ASSUME ConvergenceBegins PROVE PhaseInv'
  <2>1. rep'.attempted = (want \cup refused # {})
    BY <1>16 DEF ConvergenceBegins, ReportInv, Reports
  <2>2. phase' = "converge" \/ (phase' = "verify" /\ want \cup refused = {})
    BY <1>16, <2>1 DEF ConvergenceBegins
  <2>3. todo' = want \cup refused /\ UNCHANGED <<up, unstarted, exit, want, refused>> /\ exit = "none"
    BY <1>16 DEF ConvergenceBegins
  <2> QED
    BY <1>16, <2>2, <2>3 DEF ConvergenceBegins
<1>17. ASSUME NEW k \in Keys, CountReplicas(k) PROVE PhaseInv'
  BY <1>17 DEF CountReplicas
<1>18. ASSUME ConvergeWaitEnds PROVE PhaseInv'
  BY <1>18 DEF ConvergeWaitEnds
<1>19. ASSUME PassEnds PROVE PhaseInv'
  BY <1>19 DEF PassEnds
<1>20. ASSUME NEW k \in Keys, NEW n \in Nodes, FinalVerify(k, n) PROVE PhaseInv'
  BY <1>20 DEF FinalVerify, Answers, Live
<1>21. ASSUME RunReports PROVE PhaseInv'
  BY <1>21 DEF RunReports
<1>22. CASE UNCHANGED vars
  BY <1>22 DEF vars
<1> QED
  BY <1>1, <1>2, <1>3, <1>4, <1>5, <1>6, <1>7, <1>8, <1>9, <1>10, <1>11, <1>12, <1>13, <1>14,
     <1>15, <1>16, <1>17, <1>18, <1>19, <1>20, <1>21, <1>22
     DEF Next, WorkerStep, InjectorStep, RunStep, ClusterStep

(***************************************************************************)
(* finalVerify calls missing only what every holder was asked for, and a   *)
(* mismatch of a digest is never forgotten: ReportInv is kept.             *)
(***************************************************************************)
LEMMA ReportInvStep == ClusterInv /\ WorkerInv /\ PhaseInv /\ ReportInv /\ Flags /\ [Next]_vars => ReportInv'
<1> SUFFICES ASSUME ClusterInv, WorkerInv, PhaseInv, ReportInv, Flags, [Next]_vars PROVE ReportInv'
  OBVIOUS
<1> USE ChaosAssumption DEF ClusterInv, WorkerInv, PhaseInv, ReportInv, Flags, Started,
                           cluster, runner, ledger, faultVars, traffic, injection, after
<1>1. ASSUME NEW n \in Nodes, NEW k \in Keys, Evict(n, k), UNCHANGED runner PROVE ReportInv'
  BY <1>1 DEF Evict
<1>2. ASSUME NEW n \in Nodes, NEW k \in Keys, Repair(n, k), UNCHANGED runner PROVE ReportInv'
  BY <1>2 DEF Repair, Live
<1>3. ASSUME NEW n \in Nodes, NEW k \in Keys, Damage(n, k), UNCHANGED runner PROVE ReportInv'
  BY <1>3 DEF Damage
<1>4. ASSUME WaitAllReady PROVE ReportInv'
  BY <1>4 DEF WaitAllReady
<1>5. ASSUME ContextEnds PROVE ReportInv'
  BY <1>5 DEF ContextEnds
<1>6. ASSUME NEW w \in Workers, NEW op \in {"write", "read"}, NEW k \in Keys, NEW n \in Nodes, WorkerSends(w, op, k, n)
     PROVE  ReportInv'
  BY <1>6 DEF WorkerSends
<1>7. ASSUME NEW w \in Workers, WriteAnswered(w) PROVE ReportInv'
  BY <1>7 DEF WriteAnswered, Stored
<1>8. ASSUME NEW w \in Workers, ReadAnswered(w) PROVE ReportInv'
  BY <1>8 DEF ReadAnswered
<1>9. ASSUME NEW w \in Workers, WorkerReturns(w) PROVE ReportInv'
  BY <1>9 DEF WorkerReturns
<1>10. ASSUME NEW n \in Nodes, InjectorStops(n) PROVE ReportInv'
  BY <1>10 DEF InjectorStops, StopContainer, CommandFails
<1>11. ASSUME InjectorStarts PROVE ReportInv'
  BY <1>11 DEF InjectorStarts, StartContainer, CommandFails
<1>12. ASSUME InjectorReturns PROVE ReportInv'
  BY <1>12 DEF InjectorReturns
<1>13. ASSUME TrafficEnds PROVE ReportInv'
  <2> DEFINE r == [rep EXCEPT !.errorRate = errors]
  <2>1. errors \in BOOLEAN
    BY DEF Flags
  <2>2. rep' = r /\ UNCHANGED <<want, evicted, served, corrupted, exit>>
        /\ phase' \notin {"wait", "end"} /\ exit = "none"
    BY <1>13 DEF TrafficEnds, Phases
  <2>3. r \in Reports /\ r.missing = rep.missing
    BY <2>1 DEF Reports
  <2> QED
    BY <2>2, <2>3
<1>14. ASSUME NEW n \in Nodes, RestoreOne(n) PROVE ReportInv'
  BY <1>14 DEF RestoreOne, StartContainer, CommandFails
<1>15. ASSUME CollectNodeStats PROVE ReportInv'
  <2>1. PICK answering \in SUBSET up : rep' = [rep EXCEPT !.observed = (answering \cap counted # {})]
    BY <1>15 DEF CollectNodeStats
  <2> DEFINE b == (answering \cap counted # {})
             r == [rep EXCEPT !.observed = b]
  <2>2. b \in BOOLEAN /\ rep' = r
    BY <2>1 DEF Reports
  <2>3. UNCHANGED <<want, evicted, served, corrupted, exit>> /\ phase' \notin {"wait", "end"} /\ exit = "none"
    BY <1>15 DEF CollectNodeStats, Phases
  <2> HIDE DEF b
  <2>4. r \in Reports /\ r.missing = rep.missing
    BY <2>2 DEF Reports
  <2> QED
    BY <2>2, <2>3, <2>4
<1>16. ASSUME ConvergenceBegins PROVE ReportInv'
  <2> DEFINE r == [rep EXCEPT !.attempted = (want \cup refused # {})]
  <2>1. (want \cup refused # {}) \in BOOLEAN
    BY DEF Flags
  <2>2. rep' = r /\ UNCHANGED <<want, evicted, served, corrupted, exit>>
        /\ phase' \notin {"wait", "end"} /\ exit = "none"
    BY <1>16 DEF ConvergenceBegins, Phases
  <2>3. r \in Reports /\ r.missing = rep.missing
    BY <2>1 DEF Reports
  <2> QED
    BY <2>2, <2>3
<1>17. ASSUME NEW k \in Keys, CountReplicas(k) PROVE ReportInv'
  <2>1. PICK answering \in SUBSET up : rep' = [rep EXCEPT !.passUnder = (rep.passUnder \/ UnderReplicated(k, answering))]
    BY <1>17 DEF CountReplicas
  <2> DEFINE b == (rep.passUnder \/ UnderReplicated(k, answering))
             r == [rep EXCEPT !.passUnder = b]
  <2>2. b \in BOOLEAN /\ rep' = r
    BY <2>1 DEF Reports
  <2>3. UNCHANGED <<want, evicted, served, corrupted, exit>> /\ phase' \notin {"wait", "end"} /\ exit = "none"
    BY <1>17 DEF CountReplicas, Phases
  <2> HIDE DEF b
  <2>4. r \in Reports /\ r.missing = rep.missing
    BY <2>2 DEF Reports
  <2> QED
    BY <2>2, <2>3, <2>4
<1>18. ASSUME ConvergeWaitEnds PROVE ReportInv'
  BY <1>18 DEF ConvergeWaitEnds
<1>19. ASSUME PassEnds PROVE ReportInv'
  <2>1. /\ UNCHANGED <<want, evicted, served, corrupted, exit>> /\ exit = "none"
        /\ phase' \in {"converge", "verify"}
    BY <1>19 DEF PassEnds
  <2>2. PICK c \in BOOLEAN, d \in BOOLEAN : rep' = [rep EXCEPT !.passUnder = c, !.converged = d]
    <3> DEFINE again == [rep EXCEPT !.passUnder = FALSE]
               done == [rep EXCEPT !.converged = ~rep.passUnder]
    <3>1. rep.passUnder \in BOOLEAN /\ rep.converged \in BOOLEAN
      BY DEF Reports
    <3>2. again = [rep EXCEPT !.passUnder = FALSE, !.converged = rep.converged]
      BY DEF Reports
    <3>3. done = [rep EXCEPT !.passUnder = rep.passUnder, !.converged = ~rep.passUnder]
      BY DEF Reports
    <3>4. rep' = again \/ rep' = done
      BY <1>19 DEF PassEnds
    <3> QED
      BY <3>1, <3>2, <3>3, <3>4, Zenon
  <2>3. rep' \in Reports /\ rep'.missing = rep.missing
    BY <2>2 DEF Reports
  <2> QED
    BY <2>1, <2>3
<1>20. ASSUME NEW k \in Keys, NEW n \in Nodes, FinalVerify(k, n) PROVE ReportInv'
  <2>1. PICK answer \in Answers(n, k) :
          /\ rep' = [rep EXCEPT !.missing = @ \cup {x \in {k} : answer = "notFound"},
                                !.corrupted = @ \/ answer = "bad"]
          /\ corrupted' = (corrupted \/ answer = "bad")
          /\ served' = (served \/ answer = "bad")
    BY <1>20 DEF FinalVerify
  <2>2. UNCHANGED <<want, evicted, exit, phase>> /\ exit = "none" /\ phase = "verify" /\ k \in want
    BY <1>20 DEF FinalVerify
  <2>3. answer = "notFound" => \A m \in HoldersOf[k] : <<m, k>> \in evicted
    BY <2>2 DEF Answers, Live
  <2> DEFINE missing == rep.missing \cup {x \in {k} : answer = "notFound"}
             differs == rep.corrupted \/ answer = "bad"
             r == [rep EXCEPT !.missing = missing, !.corrupted = differs]
  <2>4. rep' = r
    BY <2>1
  <2>5. missing \in SUBSET Keys /\ differs \in BOOLEAN
    BY DEF Reports
  <2>6. \A j \in missing : j \in want /\ \A m \in HoldersOf[j] : <<m, j>> \in evicted
    BY <2>2, <2>3
  <2> HIDE DEF missing, differs
  <2>7. r \in Reports /\ r.missing = missing
    BY <2>5 DEF Reports
  <2>8. served' => corrupted'
    BY <2>1
  <2> QED
    BY <2>2, <2>4, <2>6, <2>7, <2>8
<1>21. ASSUME RunReports PROVE ReportInv'
  <2> DEFINE r == [rep EXCEPT !.verdict = verdict]
  <2>1. verdict \in Verdicts /\ (corrupted => verdict = "corrupted")
    BY DEF verdict, Verdicts
  <2>2. /\ rep' = r /\ UNCHANGED <<want, evicted, served, corrupted>> /\ phase' = "end"
        /\ exit' # "notReady" /\ (corrupted => exit' \in {"noReport", "corrupted"})
    BY <1>21 DEF RunReports
  <2> HIDE DEF verdict
  <2>3. r \in Reports /\ r.missing = rep.missing /\ r.verdict = verdict
    BY <2>1 DEF Reports
  <2> QED
    BY <2>1, <2>2, <2>3
<1>22. CASE UNCHANGED vars
  BY <1>22 DEF vars
<1> QED
  BY <1>1, <1>2, <1>3, <1>4, <1>5, <1>6, <1>7, <1>8, <1>9, <1>10, <1>11, <1>12, <1>13, <1>14,
     <1>15, <1>16, <1>17, <1>18, <1>19, <1>20, <1>21, <1>22
     DEF Next, WorkerStep, InjectorStep, RunStep, ClusterStep

(***************************************************************************)
(* The flags stay Boolean.                                                 *)
(***************************************************************************)
LEMMA FlagsStep == Flags /\ [Next]_vars => Flags'
<1> SUFFICES ASSUME Flags, [Next]_vars PROVE Flags'
  OBVIOUS
<1> USE ChaosAssumption DEF Flags, Started,
                           cluster, runner, ledger, faultVars, traffic, injection, after
<1>1. ASSUME NEW n \in Nodes, NEW k \in Keys, Evict(n, k), UNCHANGED runner PROVE Flags'
  BY <1>1 DEF Evict
<1>2. ASSUME NEW n \in Nodes, NEW k \in Keys, Repair(n, k), UNCHANGED runner PROVE Flags'
  BY <1>2 DEF Repair, Live
<1>3. ASSUME NEW n \in Nodes, NEW k \in Keys, Damage(n, k), UNCHANGED runner PROVE Flags'
  BY <1>3 DEF Damage
<1>4. ASSUME WaitAllReady PROVE Flags'
  BY <1>4 DEF WaitAllReady
<1>5. ASSUME ContextEnds PROVE Flags'
  BY <1>5 DEF ContextEnds
<1>6. ASSUME NEW w \in Workers, NEW op \in {"write", "read"}, NEW k \in Keys, NEW n \in Nodes, WorkerSends(w, op, k, n)
     PROVE  Flags'
  BY <1>6 DEF WorkerSends
<1>7. ASSUME NEW w \in Workers, WriteAnswered(w) PROVE Flags'
  BY <1>7 DEF WriteAnswered, Stored
<1>8. ASSUME NEW w \in Workers, ReadAnswered(w) PROVE Flags'
  BY <1>8 DEF ReadAnswered
<1>9. ASSUME NEW w \in Workers, WorkerReturns(w) PROVE Flags'
  BY <1>9 DEF WorkerReturns
<1>10. ASSUME NEW n \in Nodes, InjectorStops(n) PROVE Flags'
  BY <1>10 DEF InjectorStops, StopContainer, CommandFails
<1>11. ASSUME InjectorStarts PROVE Flags'
  BY <1>11 DEF InjectorStarts, StartContainer, CommandFails
<1>12. ASSUME InjectorReturns PROVE Flags'
  BY <1>12 DEF InjectorReturns
<1>13. ASSUME TrafficEnds PROVE Flags'
  BY <1>13 DEF TrafficEnds
<1>14. ASSUME NEW n \in Nodes, RestoreOne(n) PROVE Flags'
  BY <1>14 DEF RestoreOne, StartContainer, CommandFails
<1>15. ASSUME CollectNodeStats PROVE Flags'
  BY <1>15 DEF CollectNodeStats
<1>16. ASSUME ConvergenceBegins PROVE Flags'
  BY <1>16 DEF ConvergenceBegins
<1>17. ASSUME NEW k \in Keys, CountReplicas(k) PROVE Flags'
  BY <1>17 DEF CountReplicas
<1>18. ASSUME ConvergeWaitEnds PROVE Flags'
  BY <1>18 DEF ConvergeWaitEnds
<1>19. ASSUME PassEnds PROVE Flags'
  BY <1>19 DEF PassEnds
<1>20. ASSUME NEW k \in Keys, NEW n \in Nodes, FinalVerify(k, n) PROVE Flags'
  BY <1>20 DEF FinalVerify, Answers, Live
<1>21. ASSUME RunReports PROVE Flags'
  BY <1>21 DEF RunReports
<1>22. CASE UNCHANGED vars
  BY <1>22 DEF vars
<1> QED
  BY <1>1, <1>2, <1>3, <1>4, <1>5, <1>6, <1>7, <1>8, <1>9, <1>10, <1>11, <1>12, <1>13, <1>14,
     <1>15, <1>16, <1>17, <1>18, <1>19, <1>20, <1>21, <1>22
     DEF Next, WorkerStep, InjectorStep, RunStep, ClusterStep

-----------------------------------------------------------------------------
(***************************************************************************)
(* Nothing has run yet.                                                    *)
(***************************************************************************)
LEMMA ChaosInit == Init => ChaosInv
<1> SUFFICES ASSUME Init PROVE ChaosInv
  OBVIOUS
<1> USE ChaosAssumption DEF Init
<1>1. ClusterInv
  BY DEF ClusterInv
<1>2. WorkerInv
  BY DEF WorkerInv, Started
<1>3. FaultInv
  BY DEF FaultInv, Started
<1>4. PhaseInv
  BY DEF PhaseInv, Phases
<1>5. ReportInv
  BY DEF ReportInv, Reports, Verdicts
<1>6. Flags
  BY DEF Flags
<1> QED
  BY <1>1, <1>2, <1>3, <1>4, <1>5, <1>6 DEF ChaosInv

(***************************************************************************)
(* The invariants together hold in every reachable state.                  *)
(***************************************************************************)
THEOREM ChaosInvariant == Spec => []ChaosInv
<1>1. ChaosInv /\ [Next]_vars => ChaosInv'
  BY ClusterInvStep, WorkerInvStep, FaultInvStep, PhaseInvStep, ReportInvStep, FlagsStep DEF ChaosInv
<1> QED
  BY <1>1, ChaosInit, PTL DEF Spec

(***************************************************************************)
(* TypeOK always holds.                                                    *)
(***************************************************************************)
THEOREM TypeCorrect == Spec => []TypeOK
<1>1. ChaosInv => TypeOK
  BY DEF ChaosInv, ClusterInv, WorkerInv, FaultInv, PhaseInv, ReportInv, Flags, TypeOK
<1> QED
  BY <1>1, ChaosInvariant, PTL

(***************************************************************************)
(* injectFaults: while no docker command has failed, an object that was    *)
(* acknowledged and never evicted has a holder that runs: of its two holders*)
(* the injector has stopped one at most.                                   *)
(***************************************************************************)
THEOREM AckedHasLiveHolderHolds == Spec => []AckedHasLiveHolder
<1>1. ChaosInv => AckedHasLiveHolder
  <2> SUFFICES ASSUME ChaosInv, commandErrs = 0, NEW k \in want,
                      \A n \in Nodes : <<n, k>> \notin evicted
               PROVE  Live(k) # {}
    BY DEF AckedHasLiveHolder
  <2>1. k \in Keys /\ Started
    BY DEF ChaosInv, WorkerInv
  <2>2. HoldersOf[k] \subseteq Nodes /\ Cardinality(HoldersOf[k]) = 2
    BY <2>1, ChaosAssumption
  <2>3. \A n \in HoldersOf[k] : k \in holds[n]
    BY <2>2 DEF ChaosInv, ClusterInv
  <2>4. Nodes \ up \subseteq {victim}
    BY <2>1 DEF ChaosInv, FaultInv
  <2>5. PICK n \in HoldersOf[k] : n # victim
    <3>1. HoldersOf[k] # {} /\ HoldersOf[k] # {victim}
      <4>1. Cardinality({}) = 0 /\ Cardinality({victim}) = 1
        BY FS_EmptySet, FS_Singleton
      <4> QED
        BY <2>2, <4>1
    <3> QED
      BY <3>1
  <2>6. n \in Live(k)
    BY <2>2, <2>3, <2>4, <2>5 DEF Live
  <2> QED
    BY <2>6
<1> QED
  BY <1>1, ChaosInvariant, PTL

(***************************************************************************)
(* finalVerify: what is counted as missing was acknowledged, and each of   *)
(* its holders has evicted it.                                             *)
(***************************************************************************)
THEOREM MissingWasEvictedHolds == Spec => []MissingWasEvicted
<1>1. ChaosInv => MissingWasEvicted
  BY DEF ChaosInv, ReportInv, MissingWasEvicted
<1> QED
  BY <1>1, ChaosInvariant, PTL

(***************************************************************************)
(* runChaos and restoreAll: however the traffic ended, a node that is down *)
(* when the run is over is one that restoreAll could not start.            *)
(***************************************************************************)
THEOREM ExitLeavesClusterUpHolds == Spec => []ExitLeavesClusterUp
<1>1. ChaosInv => ExitLeavesClusterUp
  BY DEF ChaosInv, PhaseInv, ExitLeavesClusterUp
<1> QED
  BY <1>1, ChaosInvariant, PTL

(***************************************************************************)
(* doRead, finalVerify and verdict: damaged bytes that were served fail the*)
(* run.                                                                    *)
(***************************************************************************)
THEOREM ServedDamageFailsHolds == Spec => []ServedDamageFails
<1>1. ChaosInv => ServedDamageFails
  BY DEF ChaosInv, ReportInv, ServedDamageFails
<1> QED
  BY <1>1, ChaosInvariant, PTL
=============================================================================
