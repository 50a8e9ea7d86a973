------------------------------ MODULE Placement ------------------------------
(***************************************************************************)
(* Rendezvous placement (internal/cluster/ring.go): which members hold a   *)
(* key, and what an edit of the static peer list does to that.             *)
(*                                                                         *)
(* One key.  The weight of a member for the key is a 64-bit hash of the    *)
(* two; here it is any function, ties included.  Names are numbers, for    *)
(* their order.                                                            *)
(***************************************************************************)
EXTENDS Naturals, Sequences, FiniteSets

CONSTANTS
    Names,         \* the names a member can have
    MaxWeight,     \* weights are 0..MaxWeight
    HolderCount   \* n of Holders(key, n)

ASSUME PlacementAssumption ==
    /\ Names \subseteq Nat /\ IsFiniteSet(Names)
    /\ MaxWeight \in Nat
    /\ HolderCount \in Nat \ {0}

VARIABLES
    weight,  \* weight(keySeed(key), member.seed), by member
    peers    \* the --peers list the nodes run with

ring == <<weight, peers>>

\* What New accepts: at least one member, no name twice.
Accepted(list) ==
    /\ Len(list) > 0
    /\ \A i, j \in 1..Len(list) : list[i] = list[j] => i = j

PeerLists == {list \in UNION {[1..n -> Names] : n \in 0..Cardinality(Names)} : Accepted(list)}

Members(list) == {list[i] : i \in 1..Len(list)}

(***************************************************************************)
(* Type invariant.                                                         *)
(***************************************************************************)
RingTypeOK == weight \in [Names -> 0..MaxWeight] /\ peers \in PeerLists

\* A mutant: ties fall as the peer list happens to be ordered.
BeforeInList(a, b) ==
    \/ weight[a] > weight[b]
    \/ /\ weight[a] = weight[b]
       /\ \E i, j \in 1..Len(peers) : i < j /\ peers[i] = a /\ peers[j] = b

\* The comparison Owners sorts by: descending weight, then name.
Before(a, b) ==
    \/ weight[a] > weight[b]
    \/ weight[a] = weight[b] /\ a < b

\* The index of m in Owners(key): how many members come before it.
Rank(m, M) == Cardinality({x \in M : Before(x, m)})

\* A mutant: modulo hashing over the sorted membership.
HoldersModulo(M) ==
    LET hash == weight[CHOOSE x \in Names : TRUE]
    IN  {m \in M : \E d \in 0..(HolderCount - 1) :
            Cardinality({x \in M : x < m}) = (hash + d) % Cardinality(M)}

\* Holders(key, n): the first n of Owners, or all when there are fewer.
Holders(M) == {m \in M : Rank(m, M) < HolderCount}

RingInit == weight \in [Names -> 0..MaxWeight] /\ peers \in PeerLists

\* The peer list is edited and the nodes are restarted with it.
Reconfigure(list) == peers' = list /\ UNCHANGED weight

RingNext == \E list \in PeerLists : Reconfigure(list)

RingSpec == RingInit /\ [][RingNext]_ring

-----------------------------------------------------------------------------
\* The holders after the step.
HoldersNext == Holders(Members(peers))'

\* A step that reorders the list moves nothing.
ReorderStep == Members(peers') = Members(peers) => HoldersNext = Holders(Members(peers))

(***************************************************************************)
(* Reordering the --peers flag moves no keys: New sorts the members, and   *)
(* Owners breaks its ties by name.                                         *)
(***************************************************************************)
ReorderMovesNothing == [][ReorderStep]_ring

\* Old members gain nothing when members join and lose nothing when members leave.
MembershipStep ==
    LET old == Members(peers)
        new == Members(peers')
    IN  /\ old \subseteq new => HoldersNext \cap old \subseteq Holders(old)
        /\ new \subseteq old => Holders(old) \cap new \subseteq HoldersNext

(***************************************************************************)
(* Members that join take copies over, and no copy moves between two of    *)
(* the old members; members that leave hand their copies on, and every     *)
(* remaining holder keeps its own.  This is what rendezvous hashing is     *)
(* chosen for over modulo hashing.                                         *)
(***************************************************************************)
OnlyNewcomersGain == [][MembershipStep]_ring
=============================================================================
