------------------------------ MODULE Lifecycle ------------------------------
(***************************************************************************)
(* The life of one node process (cmd/kilncache, internal/node and          *)
(* internal/httpapi/server.go): it assembles the node, starts the          *)
(* background workers, serves, drains on a signal, stops the workers and   *)
(* closes the store, while request handlers and workers use the store and  *)
(* end when they please.                                                   *)
(*                                                                         *)
(* A handler or a worker may take longer than any grace period: a peer     *)
(* does not answer, a disk does not return.  Opening the store may, too.   *)
(***************************************************************************)
EXTENDS FiniteSets

CONSTANTS
    Workers,   \* the background goroutines: evictor, flushTouches, repair
    Flushers,  \* those of them that call Index.FlushTouches
    Requests,  \* connections, each with one request on it
    Nobody

ASSUME LifecycleAssumption == Flushers \subseteq Workers /\ Nobody \notin Workers

VARIABLES
    main,       \* where the main goroutine is
    store,      \* the object store and its index
    ready,      \* health.ready
    serve,      \* the goroutine of srv.Serve
    down,       \* srv.Shutdown or srv.Close has been called
    connected,  \* connections that the server has accepted and not closed
    handling,   \* those whose handler runs
    served,     \* connections there have been
    worker,     \* the background goroutines
    bgCancelled,\* bgCtx is done
    queued,     \* Index.pendingTouch is not empty
    flushing,   \* who holds Index.flushing
    signalled,  \* ctx is done: SIGTERM or an interrupt
    overran,    \* a grace period ran out, or Run returned without a drain
    late        \* history: who used the store after it was closed

serverVars == <<serve, down, connected>>
handlerVars == <<handling, served>>
workerVars == <<worker, bgCancelled>>
indexVars == <<queued, flushing>>
vars == <<main, store, ready, serverVars, handlerVars, workerVars, indexVars,
          signalled, overran, late>>

(***************************************************************************)
(* Type invariant.                                                         *)
(***************************************************************************)
TypeOK ==
    /\ main \in {"opening", "assembling", "starting", "announcing", "launching",
                 "serving", "shutting", "draining", "joining", "stopping",
                 "closing", "unserved", "flushing", "releasing", "exited"}
    /\ store \in {"none", "open", "closed"}
    /\ ready \in BOOLEAN /\ down \in BOOLEAN /\ queued \in BOOLEAN
    /\ serve \in {"off", "starting", "accepting", "returned"}
    /\ served \subseteq Requests
    /\ handling \subseteq served /\ connected \subseteq served
    /\ worker \in [Workers -> {"off", "running", "ended"}]
    /\ flushing \in Flushers \cup {Nobody}
    /\ bgCancelled \in BOOLEAN /\ signalled \in BOOLEAN /\ overran \in BOOLEAN
    /\ late \subseteq Workers \cup Requests

Init ==
    /\ main = "opening"
    /\ store = "none"
    /\ ready = FALSE
    /\ serve = "off" /\ down = FALSE /\ connected = {}
    /\ handling = {} /\ served = {}
    /\ worker = [w \in Workers |-> "off"]
    /\ bgCancelled = FALSE
    /\ queued = FALSE /\ flushing = Nobody
    /\ signalled = FALSE /\ overran = FALSE
    /\ late = {}

(***************************************************************************)
(* main: signal.NotifyContext takes the signals from here on.              *)
(***************************************************************************)
Signal ==
    /\ ~signalled
    /\ main # "exited"
    /\ signalled' = TRUE
    /\ UNCHANGED <<main, store, ready, serverVars, handlerVars, workerVars, indexVars,
                   overran, late>>

\* The main goroutine gets from one place to the next.
Goes(from, to) == main = from /\ main' = to

(***************************************************************************)
(* node.New.  It does not look at ctx.                                     *)
(***************************************************************************)
StoreOpens ==
    /\ Goes("opening", "assembling")
    /\ store' = "open"
    /\ UNCHANGED <<ready, serverVars, handlerVars, workerVars, indexVars, signalled, overran, late>>

StoreCannotOpen ==
    /\ Goes("opening", "exited")
    /\ UNCHANGED <<store, ready, serverVars, handlerVars, workerVars, indexVars, signalled,
                   overran, late>>

\* A mutant: the store is left open when a later part cannot be built.
AssemblyFailsOpen ==
    /\ Goes("assembling", "exited")
    /\ UNCHANGED <<store, ready, serverVars, handlerVars, workerVars, indexVars, signalled,
                   overran, late>>

\* The ring, coordinator, evictor, repair worker, metrics or listener fails:
\* closeAll, and main returns the error.
AssemblyFails ==
    /\ Goes("assembling", "exited")
    /\ store' = "closed"
    /\ UNCHANGED <<ready, serverVars, handlerVars, workerVars, indexVars, signalled, overran, late>>

Assembled ==
    /\ Goes("assembling", "starting")
    /\ UNCHANGED <<store, ready, serverVars, handlerVars, workerVars, indexVars, signalled,
                   overran, late>>

(***************************************************************************)
(* node.Run: the workers, SetReady, then server.Run and its go statement.  *)
(* The listener has been bound since New, so a connection made in between  *)
(* waits for Serve.                                                        *)
(***************************************************************************)
WorkersStart ==
    /\ Goes("starting", "announcing")
    /\ worker' = [w \in Workers |-> "running"]
    /\ UNCHANGED <<store, ready, serverVars, handlerVars, bgCancelled, indexVars, signalled,
                   overran, late>>

SetReady ==
    /\ Goes("announcing", "launching")
    /\ ready' = TRUE
    /\ UNCHANGED <<store, serverVars, handlerVars, workerVars, indexVars, signalled, overran, late>>

ServerRuns ==
    /\ Goes("launching", "serving")
    /\ serve' = "starting"
    /\ UNCHANGED <<store, ready, down, connected, handlerVars, workerVars, indexVars, signalled,
                   overran, late>>

(***************************************************************************)
(* srv.Serve, as net/http documents it: it accepts until the server is     *)
(* shut down or closed, which may happen before it has begun, or until     *)
(* Accept fails.  The connections it accepted outlive it.                  *)
(***************************************************************************)
ServeReturns ==
    /\ serve \in {"starting", "accepting"}
    /\ down
    /\ serve' = "returned"
    /\ UNCHANGED <<main, store, ready, down, connected, handlerVars, workerVars, indexVars,
                   signalled, overran, late>>

ServeAccepts ==
    /\ serve = "starting"
    /\ ~down
    /\ serve' = "accepting"
    /\ UNCHANGED <<main, store, ready, down, connected, handlerVars, workerVars, indexVars,
                   signalled, overran, late>>

ServeFails ==
    /\ serve = "accepting"
    /\ ~down
    /\ serve' = "returned"
    /\ UNCHANGED <<main, store, ready, down, connected, handlerVars, workerVars, indexVars,
                   signalled, overran, late>>

(***************************************************************************)
(* Handlers: any number of uses of the store, and an end that may be late. *)
(***************************************************************************)
Connects(r) ==
    /\ serve = "accepting"
    /\ ~down
    /\ r \notin served
    /\ served' = served \cup {r}
    /\ connected' = connected \cup {r}
    /\ UNCHANGED <<main, store, ready, serve, down, handling, workerVars, indexVars, signalled,
                   overran, late>>

\* A connection without a request is closed: by the peer, by IdleTimeout, by Shutdown.
IdleCloses(r) ==
    /\ r \in connected \ handling
    /\ main # "exited"
    /\ connected' = connected \ {r}
    /\ UNCHANGED <<main, store, ready, serve, down, handlerVars, workerVars, indexVars, signalled,
                   overran, late>>

RequestBegins(r) ==
    /\ r \in connected \ handling
    /\ main # "exited"
    /\ handling' = handling \cup {r}
    /\ UNCHANGED <<main, store, ready, serverVars, served, workerVars, indexVars, signalled,
                   overran, late>>

Late(a) == IF store = "closed" THEN late \cup {a} ELSE late

\* A handler's use may be a Get, which queues a touch while the index is open.
UsesStore(a) ==
    /\ main # "exited"
    /\ a \in handling \/ (a \in Workers /\ worker[a] = "running")
    /\ late' = Late(a)
    /\ queued' \in {queued, queued \/ (a \in handling /\ store = "open")}
    /\ UNCHANGED <<main, store, ready, serverVars, handlerVars, workerVars, flushing, signalled,
                   overran>>

\* Whatever the handler left of the connection belongs to another request.
RequestEnds(r) ==
    /\ r \in handling
    /\ main # "exited"
    /\ handling' = handling \ {r}
    /\ connected' = connected \ {r}
    /\ UNCHANGED <<main, store, ready, serve, down, served, workerVars, indexVars, signalled,
                   overran, late>>

(***************************************************************************)
(* Index.FlushTouches in a worker: i.flushing is held from the moment the  *)
(* queue is taken until the transaction returns, whenever that is.         *)
(***************************************************************************)
FlushBegins(w) ==
    /\ main # "exited"
    /\ worker[w] = "running"
    /\ queued /\ flushing = Nobody
    /\ queued' = FALSE
    /\ flushing' = w
    /\ late' = Late(w)
    /\ UNCHANGED <<main, store, ready, serverVars, handlerVars, workerVars, signalled, overran>>

FlushEnds(w) ==
    /\ main # "exited"
    /\ flushing = w
    /\ flushing' = Nobody
    /\ UNCHANGED <<main, store, ready, serverVars, handlerVars, workerVars, queued, signalled,
                   overran, late>>

WorkerEnds(w) ==
    /\ bgCancelled
    /\ worker[w] = "running"
    /\ flushing # w
    /\ main # "exited"
    /\ worker' = [worker EXCEPT ![w] = "ended"]
    /\ UNCHANGED <<main, store, ready, serverVars, handlerVars, bgCancelled, indexVars, signalled,
                   overran, late>>

(***************************************************************************)
(* server.Run.  Of two cases that are ready, its select takes either.      *)
(***************************************************************************)
\* Serve has returned an error, and Run returns it without draining:
\* stopBackground cancels bgCtx.
RunReturnsError ==
    /\ Goes("serving", "stopping")
    /\ serve = "returned"
    /\ overran' = TRUE
    /\ bgCancelled' = TRUE
    /\ UNCHANGED <<store, ready, serverVars, handlerVars, worker, indexVars, signalled, late>>

SetNotReady ==
    /\ Goes("serving", "shutting")
    /\ signalled
    /\ ready' = FALSE
    /\ UNCHANGED <<store, serverVars, handlerVars, workerVars, indexVars, signalled, overran, late>>

\* srv.Shutdown closes the listener and waits for the connections to end.
ShutdownBegins ==
    /\ Goes("shutting", "draining")
    /\ down' = TRUE
    /\ UNCHANGED <<store, ready, serve, connected, handlerVars, workerVars, indexVars, signalled,
                   overran, late>>

\* A mutant: the drain does not wait for the handlers.
DrainReturns ==
    /\ Goes("draining", "joining")
    /\ UNCHANGED <<store, ready, serverVars, handlerVars, workerVars, indexVars, signalled,
                   overran, late>>

Drained ==
    /\ Goes("draining", "joining")
    /\ connected = {}
    /\ UNCHANGED <<store, ready, serverVars, handlerVars, workerVars, indexVars, signalled,
                   overran, late>>

\* A mutant: Shutdown is given no deadline.
NoGrace ==
    /\ FALSE
    /\ UNCHANGED vars

\* ShutdownTimeout: srv.Close cuts the connections and waits for no handler.
GraceExpires ==
    /\ Goes("draining", "joining")
    /\ connected # {}
    /\ connected' = {}
    /\ overran' = TRUE
    /\ UNCHANGED <<store, ready, serve, down, handlerVars, workerVars, indexVars, signalled, late>>

\* <-errCh, and Run goes on to stopBackground.
ServeJoined ==
    /\ Goes("joining", "stopping")
    /\ serve = "returned"
    /\ bgCancelled' = TRUE
    /\ UNCHANGED <<store, ready, serverVars, handlerVars, worker, indexVars, signalled, overran,
                   late>>

(***************************************************************************)
(* stopBackground waits for the workers, thirty seconds at most.           *)
(***************************************************************************)
WorkersStopped ==
    /\ Goes("stopping", "closing")
    /\ \A w \in Workers : worker[w] = "ended"
    /\ UNCHANGED <<store, ready, serverVars, handlerVars, workerVars, indexVars, signalled,
                   overran, late>>

WorkersOverrun ==
    /\ Goes("stopping", "closing")
    /\ \E w \in Workers : worker[w] = "running"
    /\ overran' = TRUE
    /\ UNCHANGED <<store, ready, serverVars, handlerVars, workerVars, indexVars, signalled, late>>

(***************************************************************************)
(* The deferred node.Close: server.Close, peers.Close, store.Close; then   *)
(* main returns.                                                           *)
(***************************************************************************)
\* A mutant: storage is closed before the server.
ServerClosesLast ==
    /\ Goes("closing", "unserved")
    /\ UNCHANGED <<store, ready, serverVars, handlerVars, workerVars, indexVars, signalled,
                   overran, late>>

ServerCloses ==
    /\ Goes("closing", "unserved")
    /\ down' = TRUE
    /\ connected' = {}
    /\ UNCHANGED <<store, ready, serve, handlerVars, workerVars, indexVars, signalled, overran,
                   late>>

\* Store.Close and Index.Close, which looks whether touches are queued.
StoreCloses ==
    /\ main = "unserved"
    /\ main' = IF queued THEN "flushing" ELSE "releasing"
    /\ store' = "closed"
    /\ UNCHANGED <<ready, serverVars, handlerVars, workerVars, indexVars, signalled, overran, late>>

\* Its FlushTouches waits for i.flushing without a deadline; what follows has one.
LastFlush ==
    /\ Goes("flushing", "releasing")
    /\ flushing = Nobody
    /\ queued' = FALSE
    /\ UNCHANGED <<store, ready, serverVars, handlerVars, workerVars, flushing, signalled, overran,
                   late>>

Exits ==
    /\ Goes("releasing", "exited")
    /\ UNCHANGED <<store, ready, serverVars, handlerVars, workerVars, indexVars, signalled,
                   overran, late>>

MainStep ==
    \/ AssemblyFails \/ Assembled \/ WorkersStart \/ SetReady \/ ServerRuns
    \/ RunReturnsError \/ SetNotReady \/ ShutdownBegins \/ Drained \/ GraceExpires \/ ServeJoined
    \/ WorkersStopped \/ WorkersOverrun
    \/ ServerCloses \/ StoreCloses \/ LastFlush \/ Exits

Next ==
    \/ Signal \/ StoreOpens \/ StoreCannotOpen \/ MainStep
    \/ ServeAccepts \/ ServeReturns \/ ServeFails
    \/ \E r \in Requests : Connects(r) \/ IdleCloses(r) \/ RequestBegins(r) \/ RequestEnds(r)
    \/ \E w \in Flushers : FlushBegins(w) \/ FlushEnds(w)
    \/ \E w \in Workers : WorkerEnds(w)
    \/ \E a \in Requests \cup Workers : UsesStore(a)

\* The main goroutine runs on and its timers fire, and Serve returns once its
\* listener is closed.  Nothing is assumed of the handlers, of the workers, of
\* a flush, or of the time it takes to open the store.
Fairness == WF_vars(MainStep) /\ WF_vars(ServeReturns)

Spec == Init /\ [][Next]_vars /\ Fairness

-----------------------------------------------------------------------------
(***************************************************************************)
(* Whoever can still ask over a connection and is told that the node is    *)
(* ready has a node with every worker started, with an open store, and not *)
(* being shut down.  SetNotReady comes before Shutdown; when Serve has     *)
(* failed nothing takes the readiness back, and it is server.Close, before *)
(* the store closes, that leaves nobody to ask.                            *)
(***************************************************************************)
ReadyMeansOpen ==
    ready /\ connected # {} =>
        /\ store = "open"
        /\ ~down
        /\ \A w \in Workers : worker[w] # "off"

(***************************************************************************)
(* When the drain and the workers keep within their grace periods, nothing *)
(* uses the store after node.Close has closed it.                          *)
(***************************************************************************)
CleanStopIsQuiet == ~overran => late = {}

(***************************************************************************)
(* The process never ends with its store open: every way out of New, Run   *)
(* and Close that opened it closes it.                                     *)
(***************************************************************************)
ExitsClosed == main = "exited" => store # "open"

(***************************************************************************)
(* A signal ends a node whose store is open, though handlers or workers    *)
(* hang: ShutdownTimeout and the thirty seconds of stopBackground bound    *)
(* the wait for either.  The one wait without a bound is that of           *)
(* Index.Close for i.flushing, so every flush must end.                    *)
(***************************************************************************)
SignalEndsNode ==
    []<>(flushing = Nobody) => ((signalled /\ store = "open") ~> (main = "exited"))

(***************************************************************************)
(* What the comment in stopBackground wants of a worker that will not      *)
(* stop: it must not block the shutdown for ever.  Refuted by a worker     *)
(* that hangs in a flush while touches are queued.                         *)
(***************************************************************************)
HungWorkerBlocksNobody == (signalled /\ store = "open") ~> (main = "exited")

(***************************************************************************)
(* What the comment on node.Close says its order prevents: a request in    *)
(* flight that touches a store which has been closed.                      *)
(***************************************************************************)
NoRequestUsesClosedStore == late \cap Requests = {}

(***************************************************************************)
(* What the comment in cmd/kilncache says: a node stuck opening a damaged  *)
(* store still responds to an interrupt.                                   *)
(***************************************************************************)
SignalEndsStuckOpen == (signalled /\ main = "opening") ~> (main # "opening")
=============================================================================
