------------------------- MODULE Replication_proofs -------------------------
(***************************************************************************)
(* What an acknowledgement of the cluster is worth, for any number of      *)
(* nodes, holders and PUTs and any number of faults.  The inductive        *)
(* invariant Inv says that only holders are written to, that the           *)
(* coordinator counts a copy only after it was stored, that without an     *)
(* eviction a stored copy stays, and what a read under way has ruled out.  *)
(***************************************************************************)
EXTENDS Replication, FiniteSetTheorems, TLAPS

\* Everything that writes a copy is aimed at a holder, and every copy counted
\* has been stored.
PutInv ==
    \A p \in Ops :
        /\ stage[p] \in {"forwarded", "local", "fanout"} => coord[p] \in Holders
        /\ waiting[p] \subseteq Holders
        /\ acked[p] \subseteq Holders \cap stored[p]
        /\ answer[p] = "ok" => stage[p] = "done" /\ Holders \subseteq stored[p]

PlaceInv ==
    /\ \A m \in net : m.to \in Holders
    /\ repairs \subseteq Holders \X Holders
    /\ CopiesOnlyOnHolders

\* A copy stays where it was stored until an evictor takes it.
KeptInv ==
    ~evicted => \A p \in Ops : \A n \in stored[p] : copy[n] # None

\* A read of an acknowledged object began on a node that is no holder, and each
\* holder it has passed could not be asked.
ReadInv ==
    /\ read.next \in Nat \ {0}
    /\ read.state = "idle" => ~read.promised
    /\ read.promised => Promised
    /\ ~evicted /\ read.promised =>
        /\ read.state = "asking" =>
             /\ read.at \notin Holders
             /\ \A i \in 1..(read.next - 1) : Order[i] \in Holders => read.down
        /\ read.state # "miss"

Inv == TypeOK /\ PutInv /\ PlaceInv /\ KeptInv /\ ReadInv

-----------------------------------------------------------------------------
(* Facts about the constants *)

\* Ring.Holders is a finite set of nodes, the first of the preference list in it.
LEMMA HoldersAreNodes ==
    /\ Holders \subseteq Nodes
    /\ Order[1] \in Holders
    /\ IsFiniteSet(Holders)
<1>1. Holders \subseteq Nodes /\ Order[1] \in Holders
    BY ReplicationAssumption DEF Holders
<1>2. IsFiniteSet(1..ReplicaCount)
    BY ReplicationAssumption, FS_Interval
<1> DEFINE f == [i \in 1..ReplicaCount |-> Order[i]]
<1>3. f \in Surjection(1..ReplicaCount, Holders)
    BY ReplicationAssumption DEF Holders, Surjection
<1>4. IsFiniteSet(Holders)
    BY <1>2, <1>3, FS_Surjection
<1> QED  BY <1>1, <1>4

\* What is written is never the absence of a copy.
LEMMA ValuesAreCopies ==
    /\ None \notin Values
    /\ \A p \in Ops : Value(p) \in Values
BY ReplicationAssumption DEF Values, Value

\* got >= wanted among the holders means all of them.
LEMMA EnoughIsAll ==
    ASSUME NEW S \in SUBSET Holders, ~(Cardinality(S) < Cardinality(Holders))
    PROVE  S = Holders
<1>1. IsFiniteSet(S) /\ Cardinality(S) <= Cardinality(Holders)
    BY HoldersAreNodes, FS_Subset
<1>2. Cardinality(S) \in Nat /\ Cardinality(Holders) \in Nat
    BY <1>1, HoldersAreNodes, FS_CardinalityType
<1>3. Cardinality(S) = Cardinality(Holders)
    BY <1>1, <1>2
<1> QED  BY <1>3, HoldersAreNodes, FS_Subset

-----------------------------------------------------------------------------
(* Inv is inductive *)

\* A PUT is coordinated by a holder, whoever receives it.
LEMMA ClientPutsKeepsInv ==
    ASSUME Inv, NEW p \in Ops, NEW n \in Nodes, ClientPuts(p, n)
    PROVE  Inv'
<1> USE ReplicationAssumption, HoldersAreNodes, ValuesAreCopies DEF Inv, TypeOK, rows
<1>1. TypeOK'
    BY DEF ClientPuts, Stages
<1>2. PutInv'
    BY DEF ClientPuts, PutInv
<1>3. PlaceInv'
    BY DEF ClientPuts, PlaceInv, CopiesOnlyOnHolders
<1>4. KeptInv'
    BY DEF ClientPuts, KeptInv
<1>5. ReadInv'
    BY DEF ClientPuts, ReadInv, Promised
<1> QED  BY <1>1, <1>2, <1>3, <1>4, <1>5

\* The forwarded PUT goes on at the first holder.
LEMMA ForwardArrivesKeepsInv ==
    ASSUME Inv, NEW p \in Ops, ForwardArrives(p)
    PROVE  Inv'
<1> USE ReplicationAssumption, HoldersAreNodes, ValuesAreCopies DEF Inv, TypeOK, rows
<1>1. TypeOK'
    BY DEF ForwardArrives, Stages
<1>2. PutInv'
    BY DEF ForwardArrives, PutInv
<1>3. PlaceInv'
    BY DEF ForwardArrives, PlaceInv, CopiesOnlyOnHolders
<1>4. KeptInv'
    BY DEF ForwardArrives, KeptInv
<1>5. ReadInv'
    BY DEF ForwardArrives, ReadInv, Promised
<1> QED  BY <1>1, <1>2, <1>3, <1>4, <1>5

\* A PUT that cannot be forwarded is not acknowledged.
LEMMA ForwardRefusedKeepsInv ==
    ASSUME Inv, NEW p \in Ops, ForwardRefused(p)
    PROVE  Inv'
<1> USE ReplicationAssumption, HoldersAreNodes, ValuesAreCopies DEF Inv, TypeOK, rows
<1>1. TypeOK'
    BY DEF ForwardRefused, Stages
<1>2. PutInv'
    BY DEF ForwardRefused, PutInv
<1>3. PlaceInv'
    BY DEF ForwardRefused, PlaceInv, CopiesOnlyOnHolders
<1>4. KeptInv'
    BY DEF ForwardRefused, KeptInv
<1>5. ReadInv'
    BY DEF ForwardRefused, ReadInv, Promised, PutInv
<1> QED  BY <1>1, <1>2, <1>3, <1>4, <1>5

\* Nor is one whose coordinator is too slow.
LEMMA ForwardTimesOutKeepsInv ==
    ASSUME Inv, NEW p \in Ops, ForwardTimesOut(p)
    PROVE  Inv'
<1> USE ReplicationAssumption, HoldersAreNodes, ValuesAreCopies DEF Inv, TypeOK, rows
<1>1. TypeOK'
    BY DEF ForwardTimesOut, Fault
<1>2. PutInv'
    BY DEF ForwardTimesOut, PutInv
<1>3. PlaceInv'
    BY DEF ForwardTimesOut, PlaceInv, CopiesOnlyOnHolders
<1>4. KeptInv'
    BY DEF ForwardTimesOut, KeptInv
<1>5. ReadInv'
    BY DEF ForwardTimesOut, ReadInv, Promised
<1> QED  BY <1>1, <1>2, <1>3, <1>4, <1>5

\* The coordinator counts its own copy once it is stored.
LEMMA StoresLocallyKeepsInv ==
    ASSUME Inv, NEW p \in Ops, NEW row \in BOOLEAN, StoresLocally(p, row)
    PROVE  Inv'
<1> USE ReplicationAssumption, HoldersAreNodes, ValuesAreCopies DEF Inv, TypeOK, rows
<1>1. TypeOK'
    BY DEF StoresLocally, Stored, AlreadyStored, Indexed, FaultUnless, Fault, Stages, PutInv
<1>2. PutInv'
    BY DEF StoresLocally, PutInv
<1>3. PlaceInv'
    BY DEF StoresLocally, Stored, AlreadyStored, PlaceInv, PutInv, CopiesOnlyOnHolders
<1>4. KeptInv'
    BY DEF StoresLocally, Stored, AlreadyStored, KeptInv, PutInv
<1>5. ReadInv'
    BY DEF StoresLocally, ReadInv, Promised
<1> QED  BY <1>1, <1>2, <1>3, <1>4, <1>5

\* A PUT the local store refuses is not acknowledged.
LEMMA LocalPutFailsKeepsInv ==
    ASSUME Inv, NEW p \in Ops, LocalPutFails(p)
    PROVE  Inv'
<1> USE ReplicationAssumption, HoldersAreNodes, ValuesAreCopies DEF Inv, TypeOK, rows
<1>1. TypeOK'
    BY DEF LocalPutFails, Fault, Stages
<1>2. PutInv'
    BY DEF LocalPutFails, PutInv
<1>3. PlaceInv'
    BY DEF LocalPutFails, PlaceInv, CopiesOnlyOnHolders
<1>4. KeptInv'
    BY DEF LocalPutFails, KeptInv
<1>5. ReadInv'
    BY DEF LocalPutFails, ReadInv, Promised, PutInv
<1> QED  BY <1>1, <1>2, <1>3, <1>4, <1>5

\* Replica writes go to the other holders.
LEMMA ReplicatesKeepsInv ==
    ASSUME Inv, NEW p \in Ops, NEW t \in Nodes, Replicates(p, t)
    PROVE  Inv'
<1> USE ReplicationAssumption, HoldersAreNodes, ValuesAreCopies DEF Inv, TypeOK, rows
<1>1. TypeOK'
    BY DEF Replicates, Writes, PutInv
<1>2. PutInv'
    BY DEF Replicates, PutInv
<1>3. PlaceInv'
    BY DEF Replicates, PlaceInv, PutInv, CopiesOnlyOnHolders
<1>4. KeptInv'
    BY DEF Replicates, KeptInv
<1>5. ReadInv'
    BY DEF Replicates, ReadInv, Promised
<1> QED  BY <1>1, <1>2, <1>3, <1>4, <1>5

\* A holder that was not sent a copy is not counted.
LEMMA CannotReplicateKeepsInv ==
    ASSUME Inv, NEW p \in Ops, NEW t \in Nodes, CannotReplicate(p, t)
    PROVE  Inv'
<1> USE ReplicationAssumption, HoldersAreNodes, ValuesAreCopies DEF Inv, TypeOK, rows
<1>1. TypeOK'
    BY DEF CannotReplicate
<1>2. PutInv'
    BY DEF CannotReplicate, PutInv
<1>3. PlaceInv'
    BY DEF CannotReplicate, PlaceInv, CopiesOnlyOnHolders
<1>4. KeptInv'
    BY DEF CannotReplicate, KeptInv
<1>5. ReadInv'
    BY DEF CannotReplicate, ReadInv, Promised
<1> QED  BY <1>1, <1>2, <1>3, <1>4, <1>5

\* A holder that did not confirm is not counted, even if it stored the copy.
LEMMA ReplicaFailsKeepsInv ==
    ASSUME Inv, NEW p \in Ops, NEW t \in Nodes, ReplicaFails(p, t)
    PROVE  Inv'
<1> USE ReplicationAssumption, HoldersAreNodes, ValuesAreCopies DEF Inv, TypeOK, rows
<1>1. TypeOK'
    BY DEF ReplicaFails, Fault
<1>2. PutInv'
    BY DEF ReplicaFails, PutInv
<1>3. PlaceInv'
    BY DEF ReplicaFails, PlaceInv, CopiesOnlyOnHolders
<1>4. KeptInv'
    BY DEF ReplicaFails, KeptInv
<1>5. ReadInv'
    BY DEF ReplicaFails, ReadInv, Promised
<1> QED  BY <1>1, <1>2, <1>3, <1>4, <1>5

\* A 2xx needs as many copies as there are holders.
LEMMA CoordinatorAnswersKeepsInv ==
    ASSUME Inv, NEW p \in Ops, CoordinatorAnswers(p)
    PROVE  Inv'
<1> USE ReplicationAssumption, HoldersAreNodes, ValuesAreCopies DEF Inv, TypeOK, rows
<1>1. TypeOK'
    BY DEF CoordinatorAnswers, Stages
<1>2. PutInv'
    <2>1. acked[p] \subseteq Holders \cap stored[p]
        BY DEF PutInv
    <2>2. ~ (Cardinality(acked[p]) < Cardinality(Holders)) => Holders \subseteq stored[p]
        BY <2>1, EnoughIsAll
    <2>3. answer[p] = "ok" => Holders \subseteq stored[p]
        BY DEF PutInv
    <2>4. answer'[p] = "ok" => Holders \subseteq stored[p]
        BY <2>2, <2>3 DEF CoordinatorAnswers
    <2> QED
        BY <2>4 DEF CoordinatorAnswers, PutInv
<1>3. PlaceInv'
    BY DEF CoordinatorAnswers, PlaceInv, CopiesOnlyOnHolders
<1>4. KeptInv'
    BY DEF CoordinatorAnswers, KeptInv
<1>5. ReadInv'
    BY DEF CoordinatorAnswers, ReadInv, Promised
<1> QED  BY <1>1, <1>2, <1>3, <1>4, <1>5

\* A confirmation follows the store of the copy.
LEMMA DeliveredKeepsInv ==
    ASSUME Inv, NEW m \in net, NEW replied \in BOOLEAN, NEW row \in BOOLEAN,
           Delivered(m, replied, row)
    PROVE  Inv'
<1> USE ReplicationAssumption, HoldersAreNodes, ValuesAreCopies DEF Inv, TypeOK, rows
<1>1. TypeOK'
    <2>1. m.by \in Ops \cup {None} /\ m.to \in Nodes /\ m.value \in Values
        BY DEF Writes
    <2>2. copy' \in [Nodes -> Values \cup {None}]
        BY <2>1 DEF Delivered, Stored, AlreadyStored
    <2>3. stored' \in [Ops -> SUBSET Nodes]
        BY <2>1 DEF Delivered
    <2>4. /\ acked' \in [Ops -> SUBSET Nodes]
          /\ waiting' \in [Ops -> SUBSET Nodes]
        <3>1. CASE replied /\ m.by # None /\ m.to \in waiting[m.by]
            <4>1. /\ acked' = [acked EXCEPT ![m.by] = @ \cup {m.to}]
                  /\ waiting' = [waiting EXCEPT ![m.by] = @ \ {m.to}]
                BY <3>1, Zenon DEF Delivered
            <4> QED  BY <2>1, <3>1, <4>1
        <3>2. CASE ~(replied /\ m.by # None /\ m.to \in waiting[m.by])
            <4>1. UNCHANGED <<acked, waiting>>
                BY <3>2, Zenon DEF Delivered
            <4> QED  BY <4>1
        <3> QED  BY <3>1, <3>2
    <2>5. indexed' \subseteq Nodes /\ faults' \in 0..MaxFaults
        BY <2>1 DEF Delivered, Indexed, FaultUnless, Fault
    <2> QED
        BY <2>2, <2>3, <2>4, <2>5 DEF Delivered
<1>2. PutInv'
    BY DEF Delivered, PutInv
<1>3. PlaceInv'
    BY DEF Delivered, Stored, AlreadyStored, PlaceInv, CopiesOnlyOnHolders
<1>4. KeptInv'
    BY DEF Delivered, Stored, AlreadyStored, KeptInv, Writes
<1>5. ReadInv'
    BY DEF Delivered, ReadInv, Promised
<1> QED  BY <1>1, <1>2, <1>3, <1>4, <1>5

\* A lost write changes no copy.
LEMMA LostKeepsInv ==
    ASSUME Inv, NEW m \in net, Lost(m)
    PROVE  Inv'
<1> USE ReplicationAssumption, HoldersAreNodes, ValuesAreCopies DEF Inv, TypeOK, rows
<1>1. TypeOK'
    BY DEF Lost, Fault, putVars
<1>2. PutInv'
    BY DEF Lost, putVars, PutInv
<1>3. PlaceInv'
    BY DEF Lost, PlaceInv, CopiesOnlyOnHolders
<1>4. KeptInv'
    BY DEF Lost, KeptInv
<1>5. ReadInv'
    BY DEF Lost, putVars, ReadInv, Promised
<1> QED  BY <1>1, <1>2, <1>3, <1>4, <1>5

\* Repair is planned between holders.
LEMMA RepairChecksKeepsInv ==
    ASSUME Inv, NEW n \in Nodes, NEW t \in Nodes, RepairChecks(n, t)
    PROVE  Inv'
<1> USE ReplicationAssumption, HoldersAreNodes, ValuesAreCopies DEF Inv, TypeOK, rows
<1>1. TypeOK'
    BY DEF RepairChecks, putVars
<1>2. PutInv'
    BY DEF RepairChecks, putVars, PutInv
<1>3. PlaceInv'
    BY DEF RepairChecks, PlaceInv, CopiesOnlyOnHolders
<1>4. KeptInv'
    BY DEF RepairChecks, KeptInv
<1>5. ReadInv'
    BY DEF RepairChecks, putVars, ReadInv, Promised
<1> QED  BY <1>1, <1>2, <1>3, <1>4, <1>5

\* And sent to one.
LEMMA RepairSendsKeepsInv ==
    ASSUME Inv, NEW n \in Nodes, NEW t \in Nodes, RepairSends(n, t)
    PROVE  Inv'
<1> USE ReplicationAssumption, HoldersAreNodes, ValuesAreCopies DEF Inv, TypeOK, rows
<1>1. TypeOK'
    BY DEF RepairSends, Writes, putVars
<1>2. PutInv'
    BY DEF RepairSends, putVars, PutInv
<1>3. PlaceInv'
    BY DEF RepairSends, PlaceInv, CopiesOnlyOnHolders
<1>4. KeptInv'
    BY DEF RepairSends, KeptInv
<1>5. ReadInv'
    BY DEF RepairSends, putVars, ReadInv, Promised
<1> QED  BY <1>1, <1>2, <1>3, <1>4, <1>5

\* An eviction is remembered.
LEMMA EvictsKeepsInv ==
    ASSUME Inv, NEW n \in Nodes, Evicts(n)
    PROVE  Inv'
<1> USE ReplicationAssumption, HoldersAreNodes, ValuesAreCopies DEF Inv, TypeOK, rows
<1>1. TypeOK'
    BY DEF Evicts, Fault, putVars
<1>2. PutInv'
    BY DEF Evicts, putVars, PutInv
<1>3. PlaceInv'
    BY DEF Evicts, PlaceInv, CopiesOnlyOnHolders
<1>4. KeptInv'
    BY DEF Evicts, KeptInv
<1>5. ReadInv'
    BY DEF Evicts, putVars, ReadInv, Promised
<1> QED  BY <1>1, <1>2, <1>3, <1>4, <1>5

\* Rows are the auditor's business: no copy goes with one.
LEMMA RemovesRowKeepsInv ==
    ASSUME Inv, NEW n \in Nodes, RemovesRow(n)
    PROVE  Inv'
<1> USE ReplicationAssumption, HoldersAreNodes, ValuesAreCopies DEF Inv, TypeOK, rows
<1>1. TypeOK'
    BY DEF RemovesRow, putVars
<1>2. PutInv'
    BY DEF RemovesRow, putVars, PutInv
<1>3. PlaceInv'
    BY DEF RemovesRow, PlaceInv, CopiesOnlyOnHolders
<1>4. KeptInv'
    BY DEF RemovesRow, KeptInv
<1>5. ReadInv'
    BY DEF RemovesRow, putVars, ReadInv, Promised
<1> QED  BY <1>1, <1>2, <1>3, <1>4, <1>5

\* A promised object is found at once if the read starts at a holder.
LEMMA ReadBeginsKeepsInv ==
    ASSUME Inv, NEW n \in Nodes, ReadBegins(n)
    PROVE  Inv'
<1> USE ReplicationAssumption, HoldersAreNodes, ValuesAreCopies DEF Inv, TypeOK, rows
<1>1. TypeOK'
    <2>1. read' \in Reads
        <3> DEFINE state == IF copy[n] # None THEN "hit" ELSE "asking"
                   promised == Promised
        <3>1. 1 \in Nat /\ FALSE \in BOOLEAN /\ state \in {"hit", "asking"}
            OBVIOUS
        <3>2. promised \in BOOLEAN
            BY DEF Promised
        <3>3. read' = [state |-> state, at |-> n, next |-> 1, down |-> FALSE,
                       promised |-> promised]
            BY Zenon DEF ReadBegins
        <3> HIDE DEF promised, state
        <3> QED  BY <3>1, <3>2, <3>3, Zenon DEF Reads
    <2> QED
        BY <2>1 DEF ReadBegins, putVars
<1>2. PutInv'
    BY DEF ReadBegins, putVars, PutInv
<1>3. PlaceInv'
    BY DEF ReadBegins, PlaceInv, CopiesOnlyOnHolders
<1>4. KeptInv'
    BY DEF ReadBegins, KeptInv
<1>5. ReadInv'
    BY DEF ReadBegins, putVars, ReadInv, Promised, PutInv, KeptInv
<1> QED  BY <1>1, <1>2, <1>3, <1>4, <1>5

\* A holder that is up has the promised object.
LEMMA ReadAsksKeepsInv ==
    ASSUME Inv, ReadAsks
    PROVE  Inv'
<1> USE ReplicationAssumption, HoldersAreNodes, ValuesAreCopies DEF Inv, TypeOK, rows
<1>1. TypeOK'
    <2>1. read' \in Reads
        <3> DEFINE down == \/ read.down
                           \/ Order[read.next] # read.at /\ Order[read.next] \notin up
        <3>1. read.next + 1 \in Nat
            BY DEF Reads
        <3>2. down \in BOOLEAN
            OBVIOUS
        <3>3. \/ read' = [read EXCEPT !.state = "hit"]
              \/ read' = [read EXCEPT !.next = read.next + 1, !.down = down]
            BY Zenon DEF ReadAsks
        <3> HIDE DEF down
        <3> QED  BY <3>1, <3>2, <3>3, Zenon DEF Reads
    <2> QED
        BY <2>1 DEF ReadAsks, putVars
<1>2. PutInv'
    BY DEF ReadAsks, putVars, PutInv
<1>3. PlaceInv'
    BY DEF ReadAsks, PlaceInv, CopiesOnlyOnHolders
<1>4. KeptInv'
    BY DEF ReadAsks, KeptInv
<1>5. ReadInv'
    BY DEF ReadAsks, putVars, ReadInv, Promised, Reads, PutInv, KeptInv
<1> QED  BY <1>1, <1>2, <1>3, <1>4, <1>5

\* A holder that is slow is remembered as one that could not be asked.
LEMMA ReadTimesOutKeepsInv ==
    ASSUME Inv, ReadTimesOut
    PROVE  Inv'
<1> USE ReplicationAssumption, HoldersAreNodes, ValuesAreCopies DEF Inv, TypeOK, rows
<1>1. TypeOK'
    <2>1. read' \in Reads
        <3>1. read.next + 1 \in Nat /\ TRUE \in BOOLEAN
            BY DEF Reads
        <3>2. read' = [read EXCEPT !.next = read.next + 1, !.down = TRUE]
            BY Zenon DEF ReadTimesOut
        <3> QED  BY <3>1, <3>2, Zenon DEF Reads
    <2> QED
        BY <2>1 DEF ReadTimesOut, Fault, putVars
<1>2. PutInv'
    BY DEF ReadTimesOut, putVars, PutInv
<1>3. PlaceInv'
    BY DEF ReadTimesOut, PlaceInv, CopiesOnlyOnHolders
<1>4. KeptInv'
    BY DEF ReadTimesOut, KeptInv
<1>5. ReadInv'
    BY DEF ReadTimesOut, putVars, ReadInv, Promised
<1> QED  BY <1>1, <1>2, <1>3, <1>4, <1>5

\* A read that passed every holder of a promised object answers 503.
LEMMA ReadAnswersKeepsInv ==
    ASSUME Inv, ReadAnswers
    PROVE  Inv'
<1> USE ReplicationAssumption, HoldersAreNodes, ValuesAreCopies DEF Inv, TypeOK, rows
<1>1. TypeOK'
    BY DEF ReadAnswers, Reads, putVars
<1>2. PutInv'
    BY DEF ReadAnswers, putVars, PutInv
<1>3. PlaceInv'
    BY DEF ReadAnswers, PlaceInv, CopiesOnlyOnHolders
<1>4. KeptInv'
    BY DEF ReadAnswers, KeptInv
<1>5. ReadInv'
    <2>1. ASSUME ~evicted, read.promised PROVE read.down
        <3>1. 1 \in 1..(read.next - 1)
            BY DEF ReadAnswers, ReadInv
        <3> QED  BY <2>1, <3>1 DEF ReadAnswers, ReadInv
    <2>2. read' = [read EXCEPT !.state = IF read.down THEN "unavailable" ELSE "miss"]
        BY DEF ReadAnswers
    <2> QED
        BY <2>1, <2>2 DEF ReadAnswers, putVars, ReadInv, Promised
<1> QED  BY <1>1, <1>2, <1>3, <1>4, <1>5

\* A crash acknowledges nothing and loses no copy.
LEMMA CrashesKeepsInv ==
    ASSUME Inv, NEW n \in Nodes, Crashes(n)
    PROVE  Inv'
<1> USE ReplicationAssumption, HoldersAreNodes, ValuesAreCopies DEF Inv, TypeOK, rows
<1>1. TypeOK'
    <2>1. read' \in Reads
        BY DEF Crashes, Reads
    <2> QED
        BY <2>1 DEF Crashes, Fault, Stages
<1>2. PutInv'
    BY DEF Crashes, PutInv
<1>3. PlaceInv'
    BY DEF Crashes, PlaceInv, CopiesOnlyOnHolders
<1>4. KeptInv'
    BY DEF Crashes, KeptInv
<1>5. ReadInv'
    BY DEF Crashes, ReadInv, Promised
<1> QED  BY <1>1, <1>2, <1>3, <1>4, <1>5

\* A restart finds the disk as it was.
LEMMA RestartsKeepsInv ==
    ASSUME Inv, NEW n \in Nodes, Restarts(n)
    PROVE  Inv'
<1> USE ReplicationAssumption, HoldersAreNodes, ValuesAreCopies DEF Inv, TypeOK, rows
<1>1. TypeOK'
    BY DEF Restarts, putVars
<1>2. PutInv'
    BY DEF Restarts, putVars, PutInv
<1>3. PlaceInv'
    BY DEF Restarts, PlaceInv, CopiesOnlyOnHolders
<1>4. KeptInv'
    BY DEF Restarts, KeptInv
<1>5. ReadInv'
    BY DEF Restarts, putVars, ReadInv, Promised
<1> QED  BY <1>1, <1>2, <1>3, <1>4, <1>5

\* A step that changes no variable keeps the invariant.
LEMMA StutterKeepsInv ==
    ASSUME Inv, UNCHANGED vars
    PROVE  Inv'
BY DEF vars, rows, putVars, Inv, TypeOK, PutInv, PlaceInv, CopiesOnlyOnHolders, KeptInv, ReadInv, 
       Promised

\* A cluster without the object satisfies the invariant.
LEMMA InitInv == Init => Inv
<1> SUFFICES ASSUME Init PROVE Inv
    OBVIOUS
<1>1. TypeOK
    <2>1. read \in Reads
        <3>1. read = [state |-> "idle", at |-> None, next |-> 1, down |-> FALSE,
                      promised |-> FALSE]
            BY Zenon DEF Init
        <3> QED  BY <3>1, SMT DEF Reads
    <2>2. evicted \in BOOLEAN /\ sequential \in BOOLEAN
        BY Zenon DEF Init
    <2>3. net \subseteq Writes /\ repairs \subseteq Nodes \X Nodes
        BY DEF Init
    <2>4. faults \in 0..MaxFaults
        BY ReplicationAssumption DEF Init
    <2>5. stored \in [Ops -> SUBSET Nodes] /\ answer \in [Ops -> {"none", "ok", "error"}]
        BY DEF Init
    <2> QED
        BY <2>1, <2>2, <2>3, <2>4, <2>5 DEF Init, TypeOK, Stages
<1>2. PutInv /\ PlaceInv /\ KeptInv
    BY DEF Init, PutInv, PlaceInv, CopiesOnlyOnHolders, KeptInv
<1>3. ReadInv
    BY DEF Init, ReadInv
<1> QED  BY <1>1, <1>2, <1>3 DEF Inv

\* Every step of the cluster and every fault keeps the invariant.
LEMMA NextKeepsInv == Inv /\ [Next]_vars => Inv'
<1> SUFFICES ASSUME Inv, [Next]_vars PROVE Inv'
    OBVIOUS
<1>1. ASSUME NEW p \in Ops, PutStep(p) \/ ForwardTimesOut(p) \/ LocalPutFails(p) PROVE Inv'
    BY <1>1, ForwardArrivesKeepsInv, ForwardRefusedKeepsInv, ForwardTimesOutKeepsInv,
       StoresLocallyKeepsInv, LocalPutFailsKeepsInv, ReplicatesKeepsInv,
       CannotReplicateKeepsInv, ReplicaFailsKeepsInv, CoordinatorAnswersKeepsInv DEF PutStep
<1>2. ASSUME NEW p \in Ops, NEW n \in Nodes, ClientPuts(p, n) PROVE Inv'
    BY <1>2, ClientPutsKeepsInv
<1>3. ASSUME NEW m \in net, Arrives(m) \/ Lost(m) PROVE Inv'
    BY <1>3, DeliveredKeepsInv, LostKeepsInv DEF Arrives
<1>4. ASSUME NEW n \in Nodes, NEW t \in Nodes, RepairChecks(n, t) \/ RepairSends(n, t)
      PROVE  Inv'
    BY <1>4, RepairChecksKeepsInv, RepairSendsKeepsInv
<1>5. ASSUME NEW n \in Nodes,
             Evicts(n) \/ RemovesRow(n) \/ Crashes(n) \/ Restarts(n) \/ ReadBegins(n)
      PROVE  Inv'
    BY <1>5, EvictsKeepsInv, RemovesRowKeepsInv, CrashesKeepsInv, RestartsKeepsInv,
       ReadBeginsKeepsInv
<1>6. CASE ReadStep \/ ReadTimesOut
    BY <1>6, ReadAsksKeepsInv, ReadTimesOutKeepsInv, ReadAnswersKeepsInv DEF ReadStep
<1>7. CASE UNCHANGED vars
    BY <1>7, StutterKeepsInv
<1> QED
    BY <1>1, <1>2, <1>3, <1>4, <1>5, <1>6, <1>7 DEF Next

\* The inductive invariant holds in every state of the cluster, whatever the
\* interleaving of requests, repairs, evictions, losses and crashes.
THEOREM InvHolds == Spec => []Inv
BY InitInv, NextKeepsInv, PTL DEF Spec

-----------------------------------------------------------------------------
(* What follows from Inv *)

\* The variables keep their types.
THEOREM TypeCorrect == Spec => []TypeOK
BY InvHolds, PTL DEF Inv

\* The coordinator's 2xx means that every holder stored the object for that PUT.
THEOREM AckedOnEveryHolderHolds == Spec => []AckedOnEveryHolder
<1>1. Inv => AckedOnEveryHolder
    BY DEF Inv, PutInv, AckedOnEveryHolder
<1> QED  BY <1>1, InvHolds, PTL

\* With one ring, no node but a holder ever has a copy.
THEOREM CopiesOnlyOnHoldersHolds == Spec => []CopiesOnlyOnHolders
BY InvHolds, PTL DEF Inv, PlaceInv

\* Open and Stat never answer 404 for an acknowledged object that no evictor
\* has touched.
THEOREM AckedIsNotMissedHolds == Spec => []AckedIsNotMissed
<1>1. Inv => AckedIsNotMissed
    BY DEF Inv, ReadInv, AckedIsNotMissed
<1> QED  BY <1>1, InvHolds, PTL
=============================================================================
