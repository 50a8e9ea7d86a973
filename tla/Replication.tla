---------------------------- MODULE Replication ----------------------------
(***************************************************************************)
(* One key of the cluster: where its copies are.  A client's PUT reaches   *)
(* any node, which coordinates it or forwards the body to the first        *)
(* holder; the coordinator stores the object, then sends it to the other   *)
(* holders and answers 2xx only if each confirmed (coordinator.go).  The   *)
(* repair workers send copies to holders that lack one (repair.go), the    *)
(* evictors remove copies, and reads look locally first and then ask the   *)
(* peers.  Nodes crash and restart with their disk, and messages are lost, *)
(* late or answered after the sender's timeout (client.go).                *)
(*                                                                         *)
(* Store.Put is one step here: module ObjectStore is about its inside.     *)
(***************************************************************************)
EXTENDS Integers, Sequences, FiniteSets

CONSTANTS
    Nodes,
    Order,             \* Ring.Owners(key): every node, in preference order
    ReplicaCount,
    ContentAddressed,  \* whether the key is in the CAS or the AC namespace
    Ops,               \* client PUTs
    None,              \* no copy, no node
    MaxFaults          \* bound: crashes, losses, timeouts, evictions, refusals

ASSUME ReplicationAssumption ==
    /\ Order \in Seq(Nodes)
    /\ \A n \in Nodes : \E i \in DOMAIN Order : Order[i] = n
    /\ ReplicaCount \in 1..Len(Order)
    /\ ContentAddressed \in BOOLEAN
    /\ None \notin Nodes \cup Ops \cup {"blob"}
    /\ MaxFaults \in Nat

\* Ring.Holders.
Holders == {Order[i] : i \in 1..ReplicaCount}

\* What a PUT writes: the one content of a CAS key, or an action result.
Value(p) == IF ContentAddressed THEN "blob" ELSE p
Values == {Value(p) : p \in Ops}

VARIABLES
    up,          \* nodes that run
    copy,        \* each node's copy of the object
    indexed,     \* nodes whose index has a row for it
    evicting,    \* nodes whose evictor has deleted the file and not yet the row
    stage,       \* each PUT at its coordinator
    coord,       \* its coordinator
    front,       \* the node the client sent it to
    waiting,     \* holders the coordinator has yet to hear from
    sent,        \* holders it has sent a copy to
    acked,       \* nodes that confirmed a copy, the coordinator included
    answer,      \* what the client was told
    net,         \* replica and repair writes under way
    repairs,     \* repair tasks between the HEAD and the PUT
    read,        \* a client's GET or HEAD
    stored,      \* history: the nodes that stored a copy for each PUT
    evicted,     \* history: some copy has been evicted
    sequential,  \* history: no PUT began before the last one was answered
    faults

putVars == <<stage, coord, front, waiting, sent, acked, answer, sequential>>
rows == <<indexed, evicting>>
vars == <<up, copy, rows, putVars, net, repairs, read, stored, evicted, faults>>

Stages == {"new", "forwarded", "local", "fanout", "done"}
Writes == [by : Ops \cup {None}, to : Nodes, value : Values]

\* "next" is the position in Order of the next peer to ask, "down" that a peer
\* could not be asked, "promised" that a PUT was acknowledged before the read.
Reads == [state : {"idle", "asking", "hit", "miss", "unavailable", "cut"},
          at : Nodes \cup {None}, next : Nat, down : BOOLEAN, promised : BOOLEAN]

\* Type invariant: copies and writes under way carry values that were put.
TypeOK ==
    /\ up \subseteq Nodes
    /\ copy \in [Nodes -> Values \cup {None}]
    /\ indexed \subseteq Nodes /\ evicting \subseteq Nodes
    /\ stage \in [Ops -> Stages]
    /\ coord \in [Ops -> Nodes \cup {None}]
    /\ front \in [Ops -> Nodes \cup {None}]
    /\ waiting \in [Ops -> SUBSET Nodes]
    /\ sent \in [Ops -> SUBSET Nodes]
    /\ acked \in [Ops -> SUBSET Nodes]
    /\ answer \in [Ops -> {"none", "ok", "error"}]
    /\ net \subseteq Writes
    /\ repairs \subseteq Nodes \X Nodes
    /\ read \in Reads
    /\ stored \in [Ops -> SUBSET Nodes]
    /\ evicted \in BOOLEAN
    /\ sequential \in BOOLEAN
    /\ faults \in 0..MaxFaults

Init ==
    /\ up = Nodes
    /\ copy = [n \in Nodes |-> None]
    /\ indexed = {} /\ evicting = {}
    /\ stage = [p \in Ops |-> "new"]
    /\ coord = [p \in Ops |-> None]
    /\ front = [p \in Ops |-> None]
    /\ waiting = [p \in Ops |-> {}]
    /\ sent = [p \in Ops |-> {}]
    /\ acked = [p \in Ops |-> {}]
    /\ answer = [p \in Ops |-> "none"]
    /\ net = {}
    /\ repairs = {}
    /\ read = [state |-> "idle", at |-> None, next |-> 1, down |-> FALSE, promised |-> FALSE]
    /\ stored = [p \in Ops |-> {}]
    /\ evicted = FALSE
    /\ sequential = TRUE
    /\ faults = 0

Fault ==
    /\ faults < MaxFaults
    /\ faults' = faults + 1

FaultUnless(ok) == IF ok THEN UNCHANGED faults ELSE Fault

\* Store.Put: a CAS object that is present is left alone.
AlreadyStored(n) == ContentAddressed /\ copy[n] # None
Stored(n, value) == IF AlreadyStored(n) THEN copy ELSE [copy EXCEPT ![n] = value]

\* Otherwise Put ends with index.Upsert.  When that fails ("row" is FALSE) the
\* failure is logged and the Put succeeds.
Indexed(n, row) == IF row /\ ~AlreadyStored(n) THEN indexed \cup {n} ELSE indexed

-----------------------------------------------------------------------------
(* A client's PUT *)

\* Mutant of ClientPuts: whatever node is addressed coordinates.
ClientPutsAnywhere(p, n) ==
    /\ stage[p] = "new"
    /\ n \in up
    /\ front' = [front EXCEPT ![p] = n]
    /\ coord' = [coord EXCEPT ![p] = n]
    /\ stage' = [stage EXCEPT ![p] = "local"]
    /\ UNCHANGED <<up, copy, waiting, sent, acked, answer, sequential, net, repairs, read,
                   stored, evicted, rows, faults>>

\* Coordinator.Put with HopClient: a holder coordinates, another node forwards
\* the body to the first holder.
ClientPuts(p, n) ==
    /\ stage[p] = "new"
    /\ n \in up
    /\ front' = [front EXCEPT ![p] = n]
    /\ coord' = [coord EXCEPT ![p] = IF n \in Holders THEN n ELSE Order[1]]
    /\ stage' = [stage EXCEPT ![p] = IF n \in Holders THEN "local" ELSE "forwarded"]
    /\ sequential' = (sequential /\ \A q \in Ops : stage[q] = "new" \/ answer[q] # "none")
    /\ UNCHANGED <<up, copy, waiting, sent, acked, answer, net, repairs, read, stored,
                   evicted, rows, faults>>

\* The forwarded request arrives, with HopCoordinator.
ForwardArrives(p) ==
    /\ stage[p] = "forwarded"
    /\ coord[p] \in up
    /\ stage' = [stage EXCEPT ![p] = "local"]
    /\ UNCHANGED <<up, copy, coord, front, waiting, sent, acked, answer, sequential, net,
                   repairs, read, stored, evicted, rows, faults>>

\* proxyPut cannot reach the coordinator: the body is gone and the PUT fails.
ForwardRefused(p) ==
    /\ stage[p] = "forwarded"
    /\ coord[p] \notin up
    /\ stage' = [stage EXCEPT ![p] = "done"]
    /\ answer' = [answer EXCEPT ![p] = "error"]
    /\ UNCHANGED <<up, copy, coord, front, waiting, sent, acked, sequential, net, repairs,
                   read, stored, evicted, rows, faults>>

\* proxyPut gives up on a coordinator that may be at work all the same.
ForwardTimesOut(p) ==
    /\ stage[p] \in {"forwarded", "local", "fanout"}
    /\ front[p] # coord[p]
    /\ answer[p] = "none"
    /\ Fault
    /\ answer' = [answer EXCEPT ![p] = "error"]
    /\ UNCHANGED <<up, copy, stage, coord, front, waiting, sent, acked, sequential, net,
                   repairs, read, stored, evicted, rows>>

\* coordinate stores the object here first.
StoresLocally(p, row) ==
    /\ stage[p] = "local"
    /\ FaultUnless(row)
    /\ copy' = Stored(coord[p], Value(p))
    /\ indexed' = Indexed(coord[p], row)
    /\ stored' = [stored EXCEPT ![p] = @ \cup {coord[p]}]
    /\ acked' = [acked EXCEPT ![p] = {coord[p]}]
    /\ waiting' = [waiting EXCEPT ![p] = Holders \ {coord[p]}]
    /\ stage' = [stage EXCEPT ![p] = "fanout"]
    /\ UNCHANGED <<up, coord, front, sent, answer, sequential, net, repairs, read, evicted,
                   evicting>>

\* Or Store.Put fails, and so does the PUT.
LocalPutFails(p) ==
    /\ stage[p] = "local"
    /\ Fault
    /\ stage' = [stage EXCEPT ![p] = "done"]
    /\ answer' = [answer EXCEPT ![p] = "error"]
    /\ UNCHANGED <<up, copy, coord, front, waiting, sent, acked, sequential, net, repairs,
                   read, stored, evicted, rows>>

\* replicateOne reopens the local copy, whoever wrote it, and sends that.
Replicates(p, t) ==
    /\ stage[p] = "fanout"
    /\ t \in waiting[p] \ sent[p]
    /\ t \in up
    /\ copy[coord[p]] # None
    /\ sent' = [sent EXCEPT ![p] = @ \cup {t}]
    /\ net' = net \cup {[by |-> p, to |-> t, value |-> copy[coord[p]]]}
    /\ UNCHANGED <<up, copy, stage, coord, front, waiting, acked, answer, sequential,
                   repairs, read, stored, evicted, rows, faults>>

\* The local copy has been evicted since it was stored, or the peer is down.
CannotReplicate(p, t) ==
    /\ stage[p] = "fanout"
    /\ t \in waiting[p] \ sent[p]
    /\ copy[coord[p]] = None \/ t \notin up
    /\ waiting' = [waiting EXCEPT ![p] = @ \ {t}]
    /\ UNCHANGED <<up, copy, stage, coord, front, sent, acked, answer, sequential, net,
                   repairs, read, stored, evicted, rows, faults>>

\* HTTPClient.Put fails: the request or its answer was lost, or the deadline
\* passed, in which case the peer may yet store the copy.
ReplicaFails(p, t) ==
    /\ stage[p] = "fanout"
    /\ t \in waiting[p] \cap sent[p]
    /\ IF \E m \in net : m.by = p /\ m.to = t THEN Fault ELSE UNCHANGED faults
    /\ waiting' = [waiting EXCEPT ![p] = @ \ {t}]
    /\ UNCHANGED <<up, copy, stage, coord, front, sent, acked, answer, sequential, net,
                   repairs, read, stored, evicted, rows>>

\* Mutant of CoordinatorAnswers: failures of replicas are logged, not counted.
CoordinatorAnswersAnyway(p) ==
    /\ stage[p] = "fanout"
    /\ waiting[p] = {}
    /\ stage' = [stage EXCEPT ![p] = "done"]
    /\ answer' = [answer EXCEPT ![p] = IF @ # "none" THEN @ ELSE "ok"]
    /\ UNCHANGED <<up, copy, coord, front, waiting, sent, acked, sequential, net, repairs,
                   read, stored, evicted, rows, faults>>

\* Every holder has confirmed or failed: 503 if got < wanted.
CoordinatorAnswers(p) ==
    /\ stage[p] = "fanout"
    /\ waiting[p] = {}
    /\ stage' = [stage EXCEPT ![p] = "done"]
    /\ answer' = [answer EXCEPT ![p] =
                     IF @ # "none" THEN @
                     ELSE IF Cardinality(acked[p]) < Cardinality(Holders) THEN "error" ELSE "ok"]
    /\ UNCHANGED <<up, copy, coord, front, waiting, sent, acked, sequential, net, repairs,
                   read, stored, evicted, rows, faults>>

-----------------------------------------------------------------------------
(* Copies under way *)

\* A peer stores the copy (putLocalOnly), and its answer arrives or is lost.
Delivered(m, replied, row) ==
    /\ m.to \in up
    /\ FaultUnless(replied /\ row)
    /\ copy' = Stored(m.to, m.value)
    /\ indexed' = Indexed(m.to, row)
    /\ net' = net \ {m}
    /\ stored' = IF m.by = None THEN stored ELSE [stored EXCEPT ![m.by] = @ \cup {m.to}]
    /\ IF replied /\ m.by # None /\ m.to \in waiting[m.by]
       THEN /\ acked' = [acked EXCEPT ![m.by] = @ \cup {m.to}]
            /\ waiting' = [waiting EXCEPT ![m.by] = @ \ {m.to}]
       ELSE UNCHANGED <<acked, waiting>>
    /\ UNCHANGED <<up, stage, coord, front, sent, answer, sequential, repairs, read, evicted,
                   evicting>>

\* A write never arrives or is refused; a repair may be declined with 507.
Lost(m) ==
    /\ Fault
    /\ net' = net \ {m}
    /\ UNCHANGED <<up, copy, putVars, repairs, read, stored, evicted, rows>>

\* Mutant of RepairChecks: only the first holder repairs.
RepairChecksPrimary(n, t) ==
    /\ n = Order[1]
    /\ {n, t} \subseteq Holders \cap up
    /\ n \in indexed
    /\ copy[n] # None
    /\ copy[t] = None
    /\ repairs' = repairs \cup {<<n, t>>}
    /\ UNCHANGED <<up, copy, putVars, net, read, stored, evicted, rows, faults>>

\* The auditor of n reads the object's row in the index, a worker finds its own
\* copy, and its HEAD that holder t has none.
RepairChecks(n, t) ==
    /\ {n, t} \subseteq Holders \cap up
    /\ n \in indexed
    /\ copy[n] # None
    /\ copy[t] = None
    /\ repairs' = repairs \cup {<<n, t>>}
    /\ UNCHANGED <<up, copy, putVars, net, read, stored, evicted, rows, faults>>

\* sendCopy reopens the local copy and sends it, if both are still there.
RepairSends(n, t) ==
    /\ <<n, t>> \in repairs
    /\ repairs' = repairs \ {<<n, t>>}
    /\ net' = IF copy[n] = None \/ t \notin up THEN net
              ELSE net \cup {[by |-> None, to |-> t, value |-> copy[n]]}
    /\ UNCHANGED <<up, copy, putVars, read, stored, evicted, rows, faults>>

\* The evictor of a node takes the object as a victim: the file goes first.
Evicts(n) ==
    /\ n \in up
    /\ copy[n] # None
    /\ Fault
    /\ copy' = [copy EXCEPT ![n] = None]
    /\ evicting' = evicting \cup {n}
    /\ evicted' = TRUE
    /\ UNCHANGED <<up, indexed, putVars, net, repairs, read, stored>>

\* RemoveBatch removes the row, be it that of a copy stored in the meantime.
RemovesRow(n) ==
    /\ n \in evicting
    /\ evicting' = evicting \ {n}
    /\ indexed' = indexed \ {n}
    /\ UNCHANGED <<up, copy, putVars, net, repairs, read, stored, evicted, faults>>

-----------------------------------------------------------------------------
(* A read *)

Promised == \E p \in Ops : answer[p] = "ok"

\* Coordinator.Open and Stat look for a local copy first.
ReadBegins(n) ==
    /\ read.state = "idle"
    /\ n \in up
    /\ read' = [state |-> IF copy[n] # None THEN "hit" ELSE "asking",
                at |-> n, next |-> 1, down |-> FALSE, promised |-> Promised]
    /\ UNCHANGED <<up, copy, putVars, net, repairs, stored, evicted, rows, faults>>

\* Mutant of ReadAsks: a peer that cannot be asked is a peer without a copy.
ReadAsksForgetful ==
    /\ read.state = "asking"
    /\ read.next \in DOMAIN Order
    /\ LET m == Order[read.next] IN
       read' = IF m # read.at /\ m \in up /\ copy[m] # None THEN [read EXCEPT !.state = "hit"]
               ELSE [read EXCEPT !.next = @ + 1]
    /\ UNCHANGED <<up, copy, putVars, net, repairs, stored, evicted, rows, faults>>

\* The next peer in readOrder has a copy, has none, or is down.
ReadAsks ==
    /\ read.state = "asking"
    /\ read.next \in DOMAIN Order
    /\ LET m == Order[read.next] IN
       read' = IF m # read.at /\ m \in up /\ copy[m] # None THEN [read EXCEPT !.state = "hit"]
               ELSE [read EXCEPT !.next = @ + 1,
                                 !.down = @ \/ (m # read.at /\ m \notin up)]
    /\ UNCHANGED <<up, copy, putVars, net, repairs, stored, evicted, rows, faults>>

\* A peer that is up does not answer in time.
ReadTimesOut ==
    /\ read.state = "asking"
    /\ read.next \in DOMAIN Order
    /\ Order[read.next] # read.at
    /\ Fault
    /\ read' = [read EXCEPT !.next = @ + 1, !.down = TRUE]
    /\ UNCHANGED <<up, copy, putVars, net, repairs, stored, evicted, rows>>

\* Nobody had it: 503 if somebody could not be asked, 404 otherwise.
ReadAnswers ==
    /\ read.state = "asking"
    /\ read.next \notin DOMAIN Order
    /\ read' = [read EXCEPT !.state = IF read.down THEN "unavailable" ELSE "miss"]
    /\ UNCHANGED <<up, copy, putVars, net, repairs, stored, evicted, rows, faults>>

-----------------------------------------------------------------------------

\* A node dies.  What it was doing ends, its clients see an error, and what was
\* on its way to it is lost; its disk and what it has sent remain.
Crashes(n) ==
    /\ n \in up
    /\ Fault
    /\ up' = up \ {n}
    /\ evicting' = evicting \ {n}
    /\ stage' = [p \in Ops |-> IF coord[p] = n THEN "done" ELSE stage[p]]
    /\ waiting' = [p \in Ops |-> IF coord[p] = n THEN {} ELSE waiting[p]]
    /\ answer' = [p \in Ops |-> IF n \in {front[p], coord[p]} /\ answer[p] = "none"
                                THEN "error" ELSE answer[p]]
    /\ net' = {m \in net : m.to # n}
    /\ repairs' = {r \in repairs : r[1] # n}
    /\ read' = IF read.state = "asking" /\ read.at = n THEN [read EXCEPT !.state = "cut"]
               ELSE read
    /\ UNCHANGED <<copy, indexed, coord, front, sent, acked, sequential, stored, evicted>>

\* Store.Reconcile makes the index agree with the files before the node serves.
Restarts(n) ==
    /\ n \in Nodes \ up
    /\ up' = up \cup {n}
    /\ indexed' = IF copy[n] = None THEN indexed \ {n} ELSE indexed \cup {n}
    /\ UNCHANGED <<copy, evicting, putVars, net, repairs, read, stored, evicted, faults>>

PutStep(p) ==
    \/ ForwardArrives(p) \/ ForwardRefused(p) \/ CoordinatorAnswers(p)
    \/ \E row \in BOOLEAN : StoresLocally(p, row)
    \/ \E t \in Nodes : Replicates(p, t) \/ CannotReplicate(p, t) \/ ReplicaFails(p, t)

Arrives(m) == \E replied, row \in BOOLEAN : Delivered(m, replied, row)

ReadStep == ReadAsks \/ ReadAnswers

Next ==
    \/ \E p \in Ops : PutStep(p) \/ ForwardTimesOut(p) \/ LocalPutFails(p)
    \/ \E p \in Ops, n \in Nodes : ClientPuts(p, n)
    \/ \E m \in net : Arrives(m) \/ Lost(m)
    \/ \E n, t \in Nodes : RepairChecks(n, t) \/ RepairSends(n, t)
    \/ \E n \in Nodes : Evicts(n) \/ RemovesRow(n)
    \/ \E n \in Nodes : Crashes(n) \/ Restarts(n) \/ ReadBegins(n)
    \/ ReadStep \/ ReadTimesOut

\* What is scheduled runs; a write under way to a node that stays up arrives;
\* a dead node is restarted; the auditor gets round to every row of its index
\* (module RepairAudit), and to no copy without one.
Fairness ==
    /\ \A p \in Ops : WF_vars(PutStep(p))
    /\ \A m \in Writes : WF_vars(m \in net /\ Arrives(m))
    /\ \A n, t \in Nodes : WF_vars(RepairChecks(n, t)) /\ WF_vars(RepairSends(n, t))
    /\ \A n \in Nodes : WF_vars(Restarts(n))

Spec == Init /\ [][Next]_vars /\ Fairness

-----------------------------------------------------------------------------
(* Properties *)

\* A 2xx is given only after every holder of the key has stored the object for
\* this very PUT; a lost answer, a late copy or a crash never counts for one.
AckedOnEveryHolder ==
    \A p \in Ops : answer[p] = "ok" => Holders \subseteq stored[p]

\* A copy is only ever made on a holder: forwarding leaves nothing behind on the
\* node the client happened to address.
CopiesOnlyOnHolders ==
    \A n \in Nodes : copy[n] # None => n \in Holders

\* An object that was acknowledged before a read began, and of which no copy was
\* evicted, is never answered with 404, whatever nodes are down or slow.
AckedIsNotMissed ==
    read.state = "miss" /\ read.promised => evicted

\* The copies that repair starts from: auditPass pages through index rows, and
\* a copy whose Upsert failed or whose row RemoveBatch took has none.
Repairable(n) == copy[n] # None /\ n \in indexed

\* Once the faults are over, an object that some holder has and has indexed
\* comes to be on every holder, through repair if not through its PUT, unless no
\* holder is left that has both the file and its row.
ReplicationConverges ==
    (\E n \in Holders : Repairable(n))
        ~> (\/ \A n \in Holders : copy[n] # None
            \/ \A n \in Holders : ~Repairable(n))

\* Put says of an object without a row that it costs accurate accounting until
\* the next reconciliation; it would cost nothing else if the object were still
\* repaired.  It is not: the auditor never comes across it.
UnindexedConverges ==
    (\E n \in Holders : copy[n] # None)
        ~> (\/ \A n \in Holders : copy[n] # None
            \/ \A n \in Holders : copy[n] = None)

\* When a PUT is acknowledged, every holder has a copy.
HeldWhenAcked ==
    [][\A p \in Ops : answer[p] # "ok" /\ answer'[p] = "ok" =>
        \A n \in Holders : copy'[n] # None]_vars

\* Action results that were written one after the other and all acknowledged
\* leave the holders with the same one once nothing is under way.
SequentialWritesAgree ==
    /\ sequential
    /\ \A p \in Ops : stage[p] = "new" \/ (stage[p] = "done" /\ answer[p] = "ok")
    /\ net = {} /\ repairs = {}
    => \A n, m \in Holders : None \in {copy[n], copy[m]} \/ copy[n] = copy[m]
=============================================================================
