--------------------------- MODULE Lifecycle_proofs ---------------------------
(***************************************************************************)
(* Readiness, the quiet stop and the closed store, for any number of       *)
(* workers and request handlers.  SignalEndsNode is a liveness property    *)
(* and stays with TLC.                                                     *)
(***************************************************************************)
EXTENDS Lifecycle, TLAPS

(***************************************************************************)
(* Where main is says what the store and the workers are.                  *)
(***************************************************************************)
Building == {"opening", "assembling", "starting"}

StageInv ==
    /\ main = "opening" => store = "none"
    /\ main \in {"assembling", "starting", "announcing", "launching", "serving", "shutting",
                 "draining", "joining", "stopping", "closing", "unserved"} => store = "open"
    /\ main \in {"flushing", "releasing"} => store = "closed"
    /\ main = "exited" => store # "open"
    /\ main \in Building => /\ connected = {} /\ handling = {}
                            /\ \A w \in Workers : worker[w] = "off"
    /\ main \notin Building =>
           main = "exited" \/ \A w \in Workers : worker[w] # "off"

(***************************************************************************)
(* Before Serve there are no connections.  Readiness ends with the         *)
(* shutdown or, when Serve failed, goes unheard from server.Close on.      *)
(***************************************************************************)
ReadyInv ==
    /\ main \in Building \cup {"announcing", "launching"} =>
           serve = "off" /\ connected = {} /\ ~down
    /\ ready => main \notin Building
    /\ main \in {"serving", "shutting"} => ~down
    /\ main \in {"shutting", "draining", "joining"} => ~ready
    /\ ready /\ connected # {} => /\ main \in {"serving", "stopping", "closing"}
                                  /\ ~down
    /\ main \in {"unserved", "flushing", "releasing", "exited"} => connected = {}
    /\ connected # {} => \A w \in Workers : worker[w] # "off"
    /\ main \in {"draining", "joining", "unserved", "flushing", "releasing"} => down
    /\ serve \in {"starting", "accepting"} /\ ~down => main \in {"serving", "shutting"}

(***************************************************************************)
(* Within the grace periods, a handler that runs still has its connection, *)
(* there is no connection once the drain is over, and no worker runs once  *)
(* the store closes.                                                       *)
(***************************************************************************)
QuietInv ==
    ~overran =>
        /\ late = {}
        /\ handling \subseteq connected
        /\ main \in {"joining", "stopping", "closing", "unserved", "flushing", "releasing", "exited"} =>
               connected = {} /\ (down \/ main = "exited")
        /\ main \in {"closing", "unserved", "flushing", "releasing", "exited"} =>
               \A w \in Workers : worker[w] # "running"

LifeInv == TypeOK /\ StageInv /\ ReadyInv /\ QuietInv

(***************************************************************************)
(* A process that has just started is in its first stage.                  *)
(***************************************************************************)
LEMMA LifeInit == Init => LifeInv
BY DEF Init, LifeInv, TypeOK, StageInv, Building, ReadyInv, QuietInv

(***************************************************************************)
(* Every step of the main goroutine, of Serve, of a handler and of a       *)
(* worker keeps the invariant.                                             *)
(***************************************************************************)
LEMMA LifeStep == LifeInv /\ [Next]_vars => LifeInv'
<1> SUFFICES ASSUME LifeInv, [Next]_vars PROVE LifeInv'
  OBVIOUS
<1> USE LifecycleAssumption
    DEF LifeInv, TypeOK, StageInv, Building, ReadyInv, QuietInv, Goes, Late,
        vars, serverVars, handlerVars, workerVars, indexVars
<1>1. CASE Signal
  BY <1>1 DEF Signal
<1>2. CASE StoreOpens
  BY <1>2 DEF StoreOpens
<1>3. CASE StoreCannotOpen
  <2>1. TypeOK'
    BY <1>3 DEF StoreCannotOpen
  <2>2. StageInv'
    BY <1>3 DEF StoreCannotOpen
  <2>3. ReadyInv'
    BY <1>3 DEF StoreCannotOpen
  <2>4. QuietInv'
    BY <1>3 DEF StoreCannotOpen
  <2> QED
    BY <2>1, <2>2, <2>3, <2>4
<1>4. CASE AssemblyFails
  <2>1. TypeOK'
    BY <1>4 DEF AssemblyFails
  <2>2. StageInv'
    BY <1>4 DEF AssemblyFails
  <2>3. ReadyInv'
    BY <1>4 DEF AssemblyFails
  <2>4. QuietInv'
    BY <1>4 DEF AssemblyFails
  <2> QED
    BY <2>1, <2>2, <2>3, <2>4
<1>5. CASE Assembled
  BY <1>5 DEF Assembled
<1>6. CASE WorkersStart
  BY <1>6 DEF WorkersStart
<1>7. CASE SetReady
  BY <1>7 DEF SetReady
<1>8. CASE ServerRuns
  BY <1>8 DEF ServerRuns
<1>9. CASE RunReturnsError
  BY <1>9 DEF RunReturnsError
<1>10. CASE SetNotReady
  BY <1>10 DEF SetNotReady
<1>11. CASE ShutdownBegins
  BY <1>11 DEF ShutdownBegins
<1>12. CASE Drained
  <2>1. TypeOK'
    BY <1>12 DEF Drained
  <2>2. StageInv'
    BY <1>12 DEF Drained
  <2>3. ReadyInv'
    BY <1>12 DEF Drained
  <2>4. QuietInv'
    BY <1>12 DEF Drained
  <2> QED
    BY <2>1, <2>2, <2>3, <2>4
<1>13. CASE GraceExpires
  BY <1>13 DEF GraceExpires
<1>14. CASE ServeJoined
  BY <1>14 DEF ServeJoined
<1>15. CASE WorkersStopped
  BY <1>15 DEF WorkersStopped
<1>16. CASE WorkersOverrun
  BY <1>16 DEF WorkersOverrun
<1>17. CASE ServerCloses
  BY <1>17 DEF ServerCloses
<1>18. CASE StoreCloses
  BY <1>18 DEF StoreCloses
<1>19. CASE LastFlush
  BY <1>19 DEF LastFlush
<1>20. CASE Exits
  BY <1>20 DEF Exits
<1>21. CASE ServeAccepts
  BY <1>21 DEF ServeAccepts
<1>22. CASE ServeReturns
  BY <1>22 DEF ServeReturns
<1>23. CASE ServeFails
  BY <1>23 DEF ServeFails
<1>24. ASSUME NEW r \in Requests, Connects(r) PROVE LifeInv'
  <2>1. TypeOK'
    BY <1>24 DEF Connects
  <2>2. StageInv'
    BY <1>24 DEF Connects
  <2>3. ReadyInv'
    BY <1>24 DEF Connects
  <2>4. QuietInv'
    BY <1>24 DEF Connects
  <2> QED
    BY <2>1, <2>2, <2>3, <2>4
<1>25. ASSUME NEW r \in Requests, IdleCloses(r) PROVE LifeInv'
  BY <1>25 DEF IdleCloses
<1>26. ASSUME NEW r \in Requests, RequestBegins(r) PROVE LifeInv'
  BY <1>26 DEF RequestBegins
<1>27. ASSUME NEW r \in Requests, RequestEnds(r) PROVE LifeInv'
  BY <1>27 DEF RequestEnds
<1>28. ASSUME NEW w \in Flushers, FlushBegins(w) PROVE LifeInv'
  <2>1. TypeOK'
    BY <1>28 DEF FlushBegins
  <2>2. StageInv'
    BY <1>28 DEF FlushBegins
  <2>3. ReadyInv'
    BY <1>28 DEF FlushBegins
  <2>4. QuietInv'
    BY <1>28 DEF FlushBegins
  <2> QED
    BY <2>1, <2>2, <2>3, <2>4
<1>29. ASSUME NEW w \in Flushers, FlushEnds(w) PROVE LifeInv'
  BY <1>29 DEF FlushEnds
<1>30. ASSUME NEW w \in Workers, WorkerEnds(w) PROVE LifeInv'
  BY <1>30 DEF WorkerEnds
<1>31. ASSUME NEW a \in Requests \cup Workers, UsesStore(a) PROVE LifeInv'
  <2>0. queued' \in BOOLEAN
    BY <1>31, Zenon DEF UsesStore
  <2>1. TypeOK'
    BY <1>31, <2>0 DEF UsesStore
  <2>2. StageInv'
    BY <1>31 DEF UsesStore
  <2>3. ReadyInv'
    BY <1>31 DEF UsesStore
  <2>4. QuietInv'
    BY <1>31 DEF UsesStore
  <2> QED
    BY <2>1, <2>2, <2>3, <2>4
<1>32. CASE UNCHANGED vars
  BY <1>32
<1> QED
  BY <1>1, <1>2, <1>3, <1>4, <1>5, <1>6, <1>7, <1>8, <1>9, <1>10, <1>11,
     <1>12, <1>13, <1>14, <1>15, <1>16, <1>17, <1>18, <1>19, <1>20, <1>21, <1>22,
     <1>23, <1>24, <1>25, <1>26, <1>27, <1>28, <1>29, <1>30, <1>31, <1>32
  DEF Next, MainStep

(***************************************************************************)
(* The invariant holds throughout the life of the process.                 *)
(***************************************************************************)
THEOREM LifeInvariant == Spec => []LifeInv
BY LifeInit, LifeStep, PTL DEF Spec

(***************************************************************************)
(* TypeOK.                                                                 *)
(***************************************************************************)
THEOREM TypeCorrect == Spec => []TypeOK
<1>1. LifeInv => TypeOK
  BY DEF LifeInv
<1> QED
  BY <1>1, LifeInvariant, PTL

(***************************************************************************)
(* ReadyMeansOpen: whoever is told over a connection that the node is      *)
(* ready has a node with its workers started, its store open and no        *)
(* shutdown begun, also after Serve has failed.                            *)
(***************************************************************************)
THEOREM ReadyMeansOpenHolds == Spec => []ReadyMeansOpen
<1>1. LifeInv => ReadyMeansOpen
  BY DEF LifeInv, StageInv, ReadyInv, ReadyMeansOpen
<1> QED
  BY <1>1, LifeInvariant, PTL

(***************************************************************************)
(* CleanStopIsQuiet: a stop within its grace periods closes the store only *)
(* when nobody is left to use it.                                          *)
(***************************************************************************)
THEOREM CleanStopIsQuietHolds == Spec => []CleanStopIsQuiet
<1>1. LifeInv => CleanStopIsQuiet
  BY DEF LifeInv, QuietInv, CleanStopIsQuiet
<1> QED
  BY <1>1, LifeInvariant, PTL

(***************************************************************************)
(* ExitsClosed: every way out of the process that opened the store closed  *)
(* it.                                                                     *)
(***************************************************************************)
THEOREM ExitsClosedHolds == Spec => []ExitsClosed
<1>1. LifeInv => ExitsClosed
  BY DEF LifeInv, StageInv, ExitsClosed
<1> QED
  BY <1>1, LifeInvariant, PTL
=============================================================================
