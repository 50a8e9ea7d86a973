----------------------------- MODULE Forwarding -----------------------------
(***************************************************************************)
(* How far a client's request travels.  Every node routes by its own ring, *)
(* and the rings may disagree: a node may have been started with another   *)
(* peer list.  What bounds the journey is the role in the hop header       *)
(* (protocol.Hop, inboundHop, Coordinator.Put and Open).                   *)
(*                                                                         *)
(* A behaviour is one request and everything sent on its account.          *)
(***************************************************************************)
EXTENDS Integers, Sequences, FiniteSets

CONSTANTS
    Nodes,
    ReplicaCount,
    PeerHeaders  \* hop headers of nodes of other versions; "client" is none

ASSUME ForwardingAssumption ==
    /\ ReplicaCount \in Nat \ {0}
    /\ IsFiniteSet(Nodes)

VARIABLES
    rings,      \* each node's preference list for the key
    sent,       \* whether the client has sent its request
    inflight,   \* requests being handled or on their way
    stalled,    \* those of them whose body has stopped moving
    stored      \* nodes that stored a copy

vars == <<rings, sent, inflight, stalled, stored>>

\* protocol.Hop, "client" being the empty header.
Hops == {"client", "coordinator", "replica", "repair", "read"}

\* "depth" counts the nodes from the client's to this one, "asked" how far
\* a read has come in the preference list, "forwarded" the X-Kilncache-Forwarded-By header.
Requests == [op : {"put", "get"}, forwarded : BOOLEAN, header : Hops \cup PeerHeaders,
             at : Nodes, depth : Nat \ {0}, asked : Nat]

\* Preference lists over some members, the node itself among them.
Rings(n) ==
    UNION {{f \in [1..k -> Nodes] : /\ \A i, j \in 1..k : f[i] = f[j] => i = j
                                    /\ \E i \in 1..k : f[i] = n}
           : k \in 1..Cardinality(Nodes)}

\* Type invariant: a request names a role that protocol.Hop or another version defines.
TypeOK ==
    /\ rings \in [Nodes -> Seq(Nodes) \ {<<>>}]
    /\ sent \in BOOLEAN
    /\ inflight \subseteq Requests
    /\ stalled \subseteq Requests
    /\ stored \subseteq Nodes

Init ==
    /\ rings \in {r \in [Nodes -> UNION {Rings(n) : n \in Nodes}] :
                    \A n \in Nodes : r[n] \in Rings(n)}
    /\ sent = FALSE
    /\ inflight = {}
    /\ stalled = {}
    /\ stored = {}

-----------------------------------------------------------------------------
(* Roles *)

\* Mutant of ParseHop: a role this version does not know is a client's.
ParseHopOpen(header) == IF header \in Hops THEN header ELSE "client"

\* protocol.ParseHop: an unknown role is terminal.
ParseHop(header) == IF header \in Hops THEN header ELSE "replica"

\* inboundHop: only another node's request has a role.
InboundHop(r) == IF r.forwarded THEN ParseHop(r.header) ELSE "client"

Terminal(hop) == hop \in {"replica", "read", "repair"}

\* Ring.Holders, clamped to the members of n's ring.
HoldersOf(n) ==
    {rings[n][i] : i \in {j \in DOMAIN rings[n] : j <= ReplicaCount}}

\* A request to peer m on account of r, with the headers HTTPClient sets.
Forward(r, m, header) ==
    [op |-> r.op, forwarded |-> TRUE, header |-> header, at |-> m,
     depth |-> r.depth + 1, asked |-> 0]

-----------------------------------------------------------------------------
(* Bodies *)

\* HTTPPeerClient.Put sends under a deadline, and the receiver's read ends when
\* the sender gives up.  Get's deadline ends with the headers, and the server
\* has no ReadTimeout and by default no WriteTimeout: nothing limits the time
\* that a client's PUT or the answer to a GET takes.
HasDeadline(r) ==
    r.op = "put" /\ r.forwarded /\ r.header \in {"coordinator", "replica", "repair"}

\* The other side stops sending or reading, and goes on later or never.
BodyStalls(r) ==
    /\ ~HasDeadline(r)
    /\ stalled' = stalled \cup {r}
    /\ UNCHANGED <<rings, sent, inflight, stored>>

BodyResumes(r) ==
    /\ r \in stalled
    /\ stalled' = stalled \ {r}
    /\ UNCHANGED <<rings, sent, inflight, stored>>

\* A handler waits for its own body, and for the one it relays.
Stuck(r) == \E q \in stalled : q = r \/ q.depth > r.depth

-----------------------------------------------------------------------------
(* Handlers *)

\* A client sends a request to some node.
ClientSends(op, n) ==
    /\ ~sent
    /\ sent' = TRUE
    /\ inflight' = {[op |-> op, forwarded |-> FALSE, header |-> "client", at |-> n,
                     depth |-> 1, asked |-> 0]}
    /\ UNCHANGED <<rings, stalled, stored>>

\* A node of another version forwards a client's request.
PeerSends(op, n, header) ==
    /\ ~sent
    /\ sent' = TRUE
    /\ inflight' = {[op |-> op, forwarded |-> TRUE, header |-> header, at |-> n,
                     depth |-> 2, asked |-> 0]}
    /\ UNCHANGED <<rings, stalled, stored>>

\* Coordinator.putLocalOnly.
PutLocalOnly(r) ==
    /\ r.op = "put"
    /\ ~Stuck(r)
    /\ Terminal(InboundHop(r))
    /\ stored' = stored \cup {r.at}
    /\ inflight' = inflight \ {r}
    /\ UNCHANGED <<rings, sent, stalled>>

\* Mutant of Coordinate: the other holders are asked to coordinate too.
CoordinateEverywhere(r) ==
    /\ r.op = "put"
    /\ ~Stuck(r)
    /\ \/ InboundHop(r) = "coordinator"
       \/ InboundHop(r) = "client" /\ r.at \in HoldersOf(r.at)
    /\ stored' = stored \cup {r.at}
    /\ inflight' = (inflight \ {r})
                   \cup {Forward(r, m, "coordinator") : m \in HoldersOf(r.at) \ {r.at}}
    /\ UNCHANGED <<rings, sent, stalled>>

\* Coordinator.coordinate: store here, send replicas to the other holders.
Coordinate(r) ==
    /\ r.op = "put"
    /\ ~Stuck(r)
    /\ \/ InboundHop(r) = "coordinator"
       \/ InboundHop(r) = "client" /\ r.at \in HoldersOf(r.at)
    /\ stored' = stored \cup {r.at}
    /\ inflight' = (inflight \ {r})
                   \cup {Forward(r, m, "replica") : m \in HoldersOf(r.at) \ {r.at}}
    /\ UNCHANGED <<rings, sent, stalled>>

\* Mutant of ProxyPut: the front door stages a copy of its own.
ProxyPutStaging(r) ==
    /\ r.op = "put"
    /\ InboundHop(r) = "client"
    /\ r.at \notin HoldersOf(r.at)
    /\ stored' = stored \cup {r.at}
    /\ inflight' = (inflight \ {r}) \cup {Forward(r, rings[r.at][1], "coordinator")}
    /\ stalled' = stalled \ {r}
    /\ UNCHANGED <<rings, sent>>

\* Coordinator.proxyPut: pass the body on to the first holder.
ProxyPut(r) ==
    /\ r.op = "put"
    /\ InboundHop(r) = "client"
    /\ r.at \notin HoldersOf(r.at)
    /\ inflight' = (inflight \ {r}) \cup {Forward(r, rings[r.at][1], "coordinator")}
    /\ stalled' = stalled \ {r}
    /\ UNCHANGED <<rings, sent, stored>>

\* Coordinator.Open and Stat without a local copy: once the last peer has
\* answered, ask the next in readOrder, which leaves out the node itself.
Open(r) ==
    /\ r.op = "get"
    /\ ~Stuck(r)
    /\ ~Terminal(InboundHop(r))
    /\ r.asked < Len(rings[r.at])
    /\ \A q \in inflight : q.depth <= r.depth
    /\ inflight' = (inflight \ {r}) \cup {[r EXCEPT !.asked = @ + 1]}
                   \cup {Forward(r, m, "read") : m \in {rings[r.at][r.asked + 1]} \ {r.at}}
    /\ UNCHANGED <<rings, sent, stalled, stored>>

\* Mutant of Answer: a read starts over when nobody had the object.
AnswerRetries(r) ==
    /\ inflight' = (inflight \ {r})
                   \cup {q \in {[r EXCEPT !.asked = 0]} : r.asked > 0}
    /\ stalled' = stalled \ {r}
    /\ UNCHANGED <<rings, sent, stored>>

\* A handler returns: a local hit, a terminal miss, the answer of a peer, the
\* end of the list, or any failure on the way, a connection that breaks included.
Answer(r) ==
    /\ inflight' = inflight \ {r}
    /\ stalled' = stalled \ {r}
    /\ UNCHANGED <<rings, sent, stored>>

Handle(r) == PutLocalOnly(r) \/ Coordinate(r) \/ ProxyPut(r) \/ Open(r) \/ Answer(r)

Next ==
    \/ \E op \in {"put", "get"}, n \in Nodes :
        ClientSends(op, n) \/ \E header \in PeerHeaders : PeerSends(op, n, header)
    \/ \E r \in inflight : Handle(r) \/ BodyStalls(r) \/ BodyResumes(r)

\* A handler runs that does not wait for a body.  Passing a body on is a
\* request of its own, with a deadline of its own.
Runs(r) == (~Stuck(r) /\ Handle(r)) \/ ProxyPut(r)

Spec == Init /\ [][Next]_vars /\ WF_vars(\E r \in inflight : Runs(r))

-----------------------------------------------------------------------------
(* Properties *)

\* However the rings disagree, a client's request visits at most three nodes in
\* a row: the roles form no cycle, and a role nobody knows is the last one.
ChainIsBounded ==
    \A r \in inflight : r.depth <= 3

\* A PUT makes at most one copy more than replica_count: that of a coordinator
\* whose own ring does not make it a holder.
CopiesAreBounded ==
    Cardinality(stored) <= ReplicaCount + 1

\* Everything a request causes comes to an end, if bodies do not stall for ever:
\* no handler asks its peers in circles.  What one node PUTs to another ends
\* even then, as when a client stops sending to a node that only passes it on.
RequestsEnd ==
    /\ <>[](stalled = {}) => (sent ~> inflight = {})
    /\ (\E r \in inflight : HasDeadline(r)) ~> (\A r \in inflight : ~HasDeadline(r))

\* A forwarded request that names no hop is terminal: nothing is forwarded on its
\* account.
UnnamedHopIsTerminal ==
    [][\A r \in inflight : r.forwarded /\ r.header = "client" =>
        \A q \in inflight' \ inflight : q.depth <= r.depth]_vars
=============================================================================
