---------------------------- MODULE Routing_proofs ----------------------------
(***************************************************************************)
(* Which nodes a key's requests reach.  Placement and Configuration: what  *)
(* an edit of the peer list can move, for every weight function,           *)
(* membership and replica count, and what Load and Validate guarantee of   *)
(* the node that runs with it.  Forwarding: how far a request travels and  *)
(* how many copies it makes, for any number of nodes, any rings and any    *)
(* replica count.                                                          *)
(***************************************************************************)
EXTENDS Configuration, Forwarding, FiniteSetTheorems, TLAPS

-----------------------------------------------------------------------------
(* Placement and Configuration *)

(***************************************************************************)
(* A larger membership only pushes a member down the preference list.      *)
(***************************************************************************)
LEMMA RankMonotonic ==
    ASSUME NEW M, NEW L, M \subseteq L, IsFiniteSet(L), NEW m
    PROVE  Rank(m, M) \in Nat /\ Rank(m, L) \in Nat /\ Rank(m, M) <= Rank(m, L)
<1> DEFINE ahead(S) == {x \in S : Before(x, m)}
<1>1. IsFiniteSet(ahead(L))
  <2>1. ahead(L) \subseteq L
    OBVIOUS
  <2> QED
    BY <2>1, FS_Subset
<1>2. ahead(M) \subseteq ahead(L)
  OBVIOUS
<1>3. IsFiniteSet(ahead(M)) /\ Cardinality(ahead(M)) <= Cardinality(ahead(L))
  BY <1>1, <1>2, FS_Subset
<1> QED
  BY <1>1, <1>3, FS_CardinalityType DEF Rank

(***************************************************************************)
(* A member that holds the key in the larger membership holds it in the    *)
(* smaller.                                                                *)
(***************************************************************************)
LEMMA HoldersShrink ==
    ASSUME NEW M, NEW L, M \subseteq L, IsFiniteSet(L)
    PROVE  Holders(L) \cap M \subseteq Holders(M)
<1> SUFFICES ASSUME NEW m \in M, Rank(m, L) < HolderCount
             PROVE  Rank(m, M) < HolderCount
  BY DEF Holders
<1> QED
  BY RankMonotonic, PlacementAssumption

(***************************************************************************)
(* The members of an accepted list are finitely many.                      *)
(***************************************************************************)
LEMMA MembersFinite ==
    ASSUME NEW list \in PeerLists
    PROVE  IsFiniteSet(Members(list))
<1>1. PICK n \in 0..Cardinality(Names) : list \in [1..n -> Names]
  BY DEF PeerLists
<1>2. n \in Nat /\ Len(list) = n
  BY <1>1, PlacementAssumption, FS_CardinalityType
<1>3. Members(list) \subseteq Names
  BY <1>1, <1>2 DEF Members
<1> QED
  BY <1>3, FS_Subset, PlacementAssumption

(***************************************************************************)
(* A restart changes the list and nothing else.                            *)
(***************************************************************************)
LEMMA RingTypeStep == RingTypeOK /\ [RingNext]_ring => RingTypeOK'
BY DEF RingTypeOK, RingNext, Reconfigure, ring

(***************************************************************************)
(* RingTypeOK: nodes run only with a peer list that New accepts.               *)
(***************************************************************************)
THEOREM RingTypeCorrect == RingSpec => []RingTypeOK
<1>1. RingInit => RingTypeOK
  BY DEF RingInit, RingTypeOK
<1> QED
  BY <1>1, RingTypeStep, PTL DEF RingSpec

(***************************************************************************)
(* Weights do not depend on the list, so neither does the order.           *)
(***************************************************************************)
LEMMA HoldersNextIs ==
    ASSUME weight' = weight
    PROVE  HoldersNext = Holders(Members(peers'))
BY DEF HoldersNext, Holders, Rank, Before, Members

(***************************************************************************)
(* Reordering the --peers flag moves no keys.                              *)
(***************************************************************************)
THEOREM ReorderMovesNothingHolds == RingSpec => ReorderMovesNothing
<1>1. [RingNext]_ring => [ReorderStep]_ring
  <2>1. ASSUME NEW list \in PeerLists, Reconfigure(list) PROVE ReorderStep
    BY <2>1, HoldersNextIs DEF Reconfigure, ReorderStep
  <2> QED
    BY <2>1 DEF RingNext
<1> QED
  BY <1>1, PTL DEF RingSpec, ReorderMovesNothing

(***************************************************************************)
(* A join moves copies only to the newcomers, and a leave only away from   *)
(* the leavers.                                                            *)
(***************************************************************************)
THEOREM OnlyNewcomersGainHolds == RingSpec => OnlyNewcomersGain
<1>1. RingTypeOK /\ [RingNext]_ring => [MembershipStep]_ring
  <2> SUFFICES ASSUME RingTypeOK, NEW list \in PeerLists, Reconfigure(list)
               PROVE  MembershipStep
    BY DEF RingNext
  <2>1. HoldersNext = Holders(Members(peers')) /\ peers' = list
    BY HoldersNextIs DEF Reconfigure
  <2>2. IsFiniteSet(Members(peers)) /\ IsFiniteSet(Members(list))
    BY MembersFinite DEF RingTypeOK
  <2> QED
    BY <2>1, <2>2, HoldersShrink DEF MembershipStep
<1> QED
  BY <1>1, RingTypeCorrect, PTL DEF RingSpec, OnlyNewcomersGain

(***************************************************************************)
(* A list without duplicates is no longer than there are names.            *)
(***************************************************************************)
LEMMA NoDuplicatesIsShort ==
    ASSUME NEW list \in Seq(Names), \A i, j \in 1..Len(list) : list[i] = list[j] => i = j
    PROVE  Len(list) <= Cardinality(Names)
<1> DEFINE D == 1..Len(list)
<1>1. Len(list) \in Nat
  OBVIOUS
<1>2. list \in [D -> Names]
  OBVIOUS
<1>3. list \in Injection(D, Names)
  BY <1>2 DEF Injection, IsInjective
<1>4. IsFiniteSet(D) /\ Cardinality(D) <= Cardinality(Names)
  BY <1>3, FS_Injection, PlacementAssumption DEF ExistsInjection
<1>5. Cardinality(D) = Len(list)
  <2>1. 1 \in Int /\ Len(list) \in Int
    BY <1>1
  <2>2. Cardinality(1..Len(list)) = IF 1 > Len(list) THEN 0 ELSE Len(list) - 1 + 1
    BY <2>1, FS_Interval, Zenon
  <2> QED
    BY <1>1, <2>2
<1> QED
  BY <1>4, <1>5

(***************************************************************************)
(* Load makes a list of spellings of whatever it is given.                 *)
(***************************************************************************)
LEMMA LoadedPeersType ==
    ASSUME NEW s \in Settings
    PROVE  LoadedPeers(s) \in Seq(Spellings)
<1>1. <<s.self>> \in Seq(Spellings)
  BY SettingsAssumption
<1>2. CASE PeersRaw(s) = << >>
  BY <1>1, <1>2 DEF LoadedPeers
<1>3. CASE PeersRaw(s) # << >>
  <2>1. PeersRaw(s) \in Seq(Spellings)
    BY <1>3, SettingsAssumption DEF PeersRaw
  <2>2. Trimmed(PeersRaw(s)) \in Seq(Spellings)
    BY <2>1, NamesAssumption DEF Trimmed
  <2> QED
    BY <1>3, <2>2 DEF LoadedPeers
<1> QED
  BY <1>2, <1>3

(***************************************************************************)
(* What cluster.New accepts is, without its blanks, a list that Placement  *)
(* is made for, and no shorter than it was.                                *)
(***************************************************************************)
LEMMA NewMakesAPeerList ==
    ASSUME NEW list \in Seq(Spellings), NEW self, NewAccepts(list, self)
    PROVE  Trimmed(list) \in PeerLists /\ Len(Trimmed(list)) = Len(list)
<1> DEFINE names == Trimmed(list)
<1>1. Len(list) \in Nat
  OBVIOUS
<1>2. \A i \in 1..Len(list) : Trim[list[i]] \in Names
  BY NamesAssumption DEF NewAccepts
<1>3. names \in Seq(Names) /\ Len(names) = Len(list)
  BY <1>1, <1>2 DEF Trimmed
<1>4. Len(names) > 0 /\ \A i, j \in 1..Len(names) : names[i] = names[j] => i = j
  BY DEF NewAccepts, Accepted
<1> HIDE DEF names
<1>5. Len(names) <= Cardinality(Names)
  BY <1>3, <1>4, NoDuplicatesIsShort
<1>6. Len(names) \in 0..Cardinality(Names) /\ names \in [1..Len(names) -> Names]
  BY <1>3, <1>5, FS_CardinalityType, PlacementAssumption
<1>7. names \in PeerLists
  BY <1>4, <1>6 DEF PeerLists, Accepted
<1> QED
  BY <1>3, <1>7 DEF names

(***************************************************************************)
(* Starting a node with any settings is, for the ring, a reconfiguration   *)
(* or nothing.                                                             *)
(***************************************************************************)
LEMMA StartReconfigures ==
    ASSUME NEW s \in Settings, Start(s)
    PROVE  [RingNext]_ring
<1>1. CASE Validate(s) /\ NewAccepts(LoadedPeers(s), s.self)
  <2>1. Reconfigure(Trimmed(LoadedPeers(s)))
    BY <1>1 DEF Start, Reconfigure
  <2>2. Trimmed(LoadedPeers(s)) \in PeerLists
    BY <1>1, LoadedPeersType, NewMakesAPeerList
  <2> QED
    BY <2>1, <2>2 DEF RingNext
<1>2. CASE ~ (Validate(s) /\ NewAccepts(LoadedPeers(s), s.self))
  BY <1>2 DEF Start, ring
<1> QED
  BY <1>1, <1>2

(***************************************************************************)
(* ImplementsPlacement: no combination of flags and environment makes a    *)
(* node run with a membership that the placement function is not made for. *)
(***************************************************************************)
THEOREM ConfigurationImplements == ConfSpec => ImplementsPlacement
<1>1. ConfInit => RingInit
  BY DEF ConfInit
<1>2. [ConfNext]_<<ring, config>> => [RingNext]_ring
  BY StartReconfigures DEF ConfNext, ring
<1> QED
  BY <1>1, <1>2, PTL DEF ConfSpec, ImplementsPlacement, RingSpec

(***************************************************************************)
(* The consequence for the operator: edits of the settings, restarts that  *)
(* fail included, move keys only as joins and leaves must.                 *)
(***************************************************************************)
COROLLARY SettingsMoveOnlyWhatTheyMust == ConfSpec => ReorderMovesNothing /\ OnlyNewcomersGain
BY ConfigurationImplements, ReorderMovesNothingHolds, OnlyNewcomersGainHolds, PTL
   DEF ImplementsPlacement

-----------------------------------------------------------------------------
(* The holders of a key, and the marks of the quota, of a node that runs *)

(***************************************************************************)
(* Owners sorts by a strict total order: of two members one comes first,   *)
(* and all that come before the first come before the second.              *)
(***************************************************************************)
LEMMA EarlierRanksLower ==
    ASSUME RingTypeOK, NEW M \in SUBSET Names, NEW a \in M, NEW b \in M, Before(a, b)
    PROVE  Rank(a, M) < Rank(b, M)
<1> DEFINE ahead(m) == {x \in M : Before(x, m)}
<1>1. \A x \in Names : x \in Nat /\ weight[x] \in Nat
  BY PlacementAssumption DEF RingTypeOK
<1>2. a \in ahead(b) /\ a \notin ahead(a) /\ ahead(a) \subseteq ahead(b)
  BY <1>1 DEF Before
<1>3. IsFiniteSet(ahead(a)) /\ IsFiniteSet(ahead(b))
  BY PlacementAssumption, FS_Subset
<1>4. Cardinality(ahead(a) \cup {a}) = Cardinality(ahead(a)) + 1
  BY <1>2, <1>3, FS_AddElement
<1>5. Cardinality(ahead(a) \cup {a}) <= Cardinality(ahead(b))
  BY <1>2, <1>3, FS_Subset
<1>6. Cardinality(ahead(a)) \in Nat /\ Cardinality(ahead(b)) \in Nat
  BY <1>3, FS_CardinalityType
<1> QED
  BY <1>4, <1>5, <1>6 DEF Rank

(***************************************************************************)
(* The preference list is a list of the members: the ranks are the numbers *)
(* from 0 up, each taken by one member, whatever weights collide.          *)
(***************************************************************************)
LEMMA RanksAreAPermutation ==
    ASSUME RingTypeOK, NEW M \in SUBSET Names
    PROVE  [m \in M |-> Rank(m, M)] \in Bijection(M, 0..(Cardinality(M) - 1))
<1> DEFINE n == Cardinality(M)
           rank == [m \in M |-> Rank(m, M)]
<1>1. IsFiniteSet(M) /\ n \in Nat
  BY PlacementAssumption, FS_Subset, FS_CardinalityType
<1>2. ASSUME NEW m \in M PROVE Rank(m, M) \in 0..(n - 1)
  <2> DEFINE ahead == {x \in M : Before(x, m)}
  <2>1. m \in Nat /\ weight[m] \in Nat
    BY PlacementAssumption DEF RingTypeOK
  <2>2. ahead \subseteq M \ {m}
    BY <2>1 DEF Before
  <2>3. IsFiniteSet(M \ {m}) /\ Cardinality(M \ {m}) = n - 1
    BY <1>1, FS_RemoveElement
  <2>4. IsFiniteSet(ahead) /\ Cardinality(ahead) <= n - 1
    BY <2>2, <2>3, FS_Subset
  <2>5. Cardinality(ahead) \in Nat
    BY <2>4, FS_CardinalityType
  <2> QED
    BY <1>1, <2>4, <2>5 DEF Rank
<1>3. ASSUME NEW a \in M, NEW b \in M, a # b PROVE Rank(a, M) # Rank(b, M)
  <2>1. Before(a, b) \/ Before(b, a)
    BY <1>3, PlacementAssumption DEF RingTypeOK, Before
  <2>2. Rank(a, M) < Rank(b, M) \/ Rank(b, M) < Rank(a, M)
    BY <2>1, EarlierRanksLower
  <2> QED
    BY <1>2, <2>2
<1>4. rank \in Injection(M, 0..(n - 1))
  BY <1>2, <1>3 DEF Injection, IsInjective
<1>5. IsFiniteSet(0..(n - 1)) /\ Cardinality(0..(n - 1)) = n
  <2>1. 0 \in Int /\ n - 1 \in Int
    BY <1>1
  <2>2. /\ IsFiniteSet(0..(n - 1))
        /\ Cardinality(0..(n - 1)) = IF 0 > n - 1 THEN 0 ELSE (n - 1) - 0 + 1
    BY <2>1, FS_Interval, Zenon
  <2> QED
    BY <1>1, <2>2
<1>6. rank \in Surjection(M, 0..(n - 1))
  BY <1>4, <1>5, FS_Injection, Zenon
<1> QED
  BY <1>4, <1>6 DEF Bijection

(***************************************************************************)
(* Holders(key, n) are n members when there are as many.                   *)
(***************************************************************************)
LEMMA HoldersAreCounted ==
    ASSUME RingTypeOK, NEW M \in SUBSET Names, NEW k \in Nat, k <= Cardinality(M)
    PROVE  Cardinality({m \in M : Rank(m, M) < k}) = k
<1> DEFINE first == {m \in M : Rank(m, M) < k}
           rank == [m \in M |-> Rank(m, M)]
           h == [m \in first |-> Rank(m, M)]
<1>1. IsFiniteSet(M) /\ Cardinality(M) \in Nat /\ IsFiniteSet(first)
  BY PlacementAssumption, FS_Subset, FS_CardinalityType
<1>2. /\ \A m \in M : Rank(m, M) \in 0..(Cardinality(M) - 1)
      /\ \A a, b \in M : Rank(a, M) = Rank(b, M) => a = b
      /\ \A r \in 0..(Cardinality(M) - 1) : \E m \in M : Rank(m, M) = r
  <2>1. rank \in Bijection(M, 0..(Cardinality(M) - 1))
    BY RanksAreAPermutation
  <2> QED
    BY <2>1 DEF Bijection, Injection, Surjection, IsInjective
<1>3. h \in [first -> 0..(k - 1)]
  BY <1>1, <1>2
<1>4. h \in Injection(first, 0..(k - 1))
  BY <1>2, <1>3 DEF Injection, IsInjective
<1>5. \A r \in 0..(k - 1) : \E m \in first : h[m] = r
  BY <1>1, <1>2
<1>6. h \in Surjection(first, 0..(k - 1))
  BY <1>3, <1>5 DEF Surjection
<1>7. ExistsBijection(first, 0..(k - 1))
  BY <1>4, <1>6 DEF ExistsBijection, Bijection
<1>8. Cardinality(0..(k - 1)) = Cardinality(first)
  BY <1>1, <1>7, FS_Bijection
<1>9. Cardinality(0..(k - 1)) = IF 0 > k - 1 THEN 0 ELSE (k - 1) - 0 + 1
  <2>1. 0 \in Int /\ k - 1 \in Int
    OBVIOUS
  <2> QED
    BY <2>1, FS_Interval, Zenon
<1> QED
  BY <1>8, <1>9

(***************************************************************************)
(* The members of an accepted list are as many as the list is long.        *)
(***************************************************************************)
LEMMA MembersAreCounted ==
    ASSUME NEW list \in PeerLists
    PROVE  /\ Members(list) \in SUBSET Names
           /\ Len(list) \in Nat
           /\ Cardinality(Members(list)) = Len(list)
<1>1. PICK n \in 0..Cardinality(Names) : list \in [1..n -> Names]
  BY DEF PeerLists
<1>2. n \in Nat /\ Len(list) = n
  BY <1>1, PlacementAssumption, FS_CardinalityType
<1>3. Members(list) \in SUBSET Names
  BY <1>1, <1>2 DEF Members
<1>4. list \in Injection(1..n, Members(list))
  BY <1>1, <1>2 DEF PeerLists, Accepted, Members, Injection, IsInjective
<1>5. list \in Surjection(1..n, Members(list))
  BY <1>1, <1>2 DEF Members, Surjection
<1>6. ExistsBijection(1..n, Members(list))
  BY <1>4, <1>5 DEF ExistsBijection, Bijection
<1>7. Cardinality(Members(list)) = n
  BY <1>2, <1>6, FS_CountingElements
<1> QED
  BY <1>2, <1>3, <1>7

(***************************************************************************)
(* What Validate has looked at, of the settings that the node runs with.   *)
(***************************************************************************)
Validated ==
    /\ replicaCount \in Nat /\ replicaCount <= Len(peers)
    /\ quota.max \in Int /\ quota.max <= MaxInt64
    /\ {quota.high, quota.low} \subseteq Int \cup {NaN}
    /\ ValidQuota(quota)

ConfInv == running => Validated

(***************************************************************************)
(* Load finds a whole number for the replica count, from whichever source. *)
(***************************************************************************)
LEMMA LoadedCountIsInt ==
    ASSUME NEW s \in Settings
    PROVE  LoadedReplicaCount(s) \in Int
<1>1. Fallback(s.flagCount, s.envCount, DefaultReplicaCount) \in Int
  BY SettingsAssumption DEF Fallback, DefaultReplicaCount
<1> QED
  BY <1>1 DEF LoadedReplicaCount

(***************************************************************************)
(* A start that fails leaves a node that does not run; one that succeeds   *)
(* leaves what Validate accepted.                                          *)
(***************************************************************************)
LEMMA StartKeepsConfInv ==
    ASSUME NEW s \in Settings, Start(s)
    PROVE  ConfInv'
<1>1. CASE Validate(s) /\ NewAccepts(LoadedPeers(s), s.self)
  <2>1. LoadedReplicaCount(s) >= 1 /\ LoadedReplicaCount(s) <= Len(LoadedPeers(s))
    BY <1>1 DEF Validate, ValidPeers
  <2>2. Len(peers') = Len(LoadedPeers(s))
    BY <1>1, LoadedPeersType, NewMakesAPeerList DEF Start
  <2>3. replicaCount' \in Nat /\ replicaCount' <= Len(peers')
    BY <1>1, <2>1, <2>2, LoadedCountIsInt DEF Start
  <2>4. /\ quota' = s.quota
        /\ quota.max' \in Int /\ quota.max' <= MaxInt64
        /\ quota.high' \in Int \cup {NaN} /\ quota.low' \in Int \cup {NaN}
    BY <1>1, SettingsAssumption DEF Start
  <2>5. ValidQuota(quota)'
    BY <1>1, <2>4 DEF Validate, ValidQuota, AtMost, Above
  <2> QED
    BY <2>3, <2>4, <2>5 DEF ConfInv, Validated
<1>2. CASE ~ (Validate(s) /\ NewAccepts(LoadedPeers(s), s.self))
  BY <1>2 DEF Start, ConfInv
<1> QED
  BY <1>1, <1>2

(***************************************************************************)
(* ConfInv, and that the ring is the one the node was given.               *)
(***************************************************************************)
THEOREM ConfInvHolds == ConfSpec => [](ConfInv /\ RingTypeOK)
<1>1. ConfInit => ConfInv
  BY DEF ConfInit, ConfInv
<1>2. ConfInv /\ [ConfNext]_<<ring, config>> => ConfInv'
  <2>1. ASSUME NEW s \in Settings, Start(s) PROVE ConfInv'
    BY <2>1, StartKeepsConfInv
  <2>2. ASSUME ConfInv, UNCHANGED <<ring, config>> PROVE ConfInv'
    BY <2>2 DEF ConfInv, Validated, ValidQuota, AtMost, Above, ring, config
  <2> QED
    BY <2>1, <2>2 DEF ConfNext
<1>3. ConfSpec => []RingTypeOK
  BY ConfigurationImplements, RingTypeCorrect, PTL DEF ImplementsPlacement
<1> QED
  BY <1>1, <1>2, <1>3, PTL DEF ConfSpec

(***************************************************************************)
(* HoldersAreReplicaCount: for every accepted configuration and any        *)
(* weights a key has exactly as many holders as copies are asked for.      *)
(***************************************************************************)
THEOREM HoldersAreReplicaCountHolds == ConfSpec => []HoldersAreReplicaCount
<1>1. ConfInv /\ RingTypeOK => HoldersAreReplicaCount
  <2> SUFFICES ASSUME ConfInv, RingTypeOK, running
               PROVE  Cardinality(ReplicaHolders) = replicaCount
    BY DEF HoldersAreReplicaCount
  <2>1. /\ Members(peers) \in SUBSET Names
        /\ replicaCount \in Nat /\ replicaCount <= Cardinality(Members(peers))
    BY MembersAreCounted DEF ConfInv, Validated, RingTypeOK
  <2> QED
    BY <2>1, HoldersAreCounted DEF ReplicaHolders
<1> QED
  BY <1>1, ConfInvHolds, PTL

(***************************************************************************)
(* Rounding to a nearest float64 keeps the order, and does not step over a *)
(* float64, whichever of two equally near ones it takes.                   *)
(***************************************************************************)
LEMMA RoundMonotonic ==
    ASSUME NEW y \in DOMAIN Round, NEW x \in 0..y
    PROVE  /\ x \in DOMAIN Round /\ Round[x] \in Nat /\ Round[y] \in Nat
           /\ Round[x] <= Round[y]
           /\ \A z \in Floats : y <= z => Round[y] <= z
<1>1. y \in Nat /\ x \in DOMAIN Round /\ x \in Nat /\ x <= y
  BY FloatAssumption
<1>2. Round[x] \in Floats /\ Round[y] \in Floats /\ Floats \subseteq Nat
  BY <1>1, FloatAssumption
<1>3. /\ \A z \in Floats : Distance(Round[y], y) <= Distance(z, y)
      /\ \A z \in Floats : Distance(Round[x], x) <= Distance(z, x)
  BY <1>1, FloatAssumption
<1>4. Round[x] \in Nat /\ Round[y] \in Nat
  BY <1>2
<1>5. Round[x] <= Round[y]
  <2> DEFINE a == Round[x]
             b == Round[y]
  <2>1. Distance(b, y) <= Distance(a, y) /\ Distance(a, x) <= Distance(b, x)
    BY <1>2, <1>3
  <2> HIDE DEF a, b
  <2>2. a \in Nat /\ b \in Nat
    BY <1>4 DEF a, b
  <2>3. CASE x = y
    BY <2>2, <2>3 DEF a, b
  <2>4. CASE x < y
    <3>1. a <= b
      BY <1>1, <2>1, <2>2, <2>4 DEF Distance
    <3> QED
      BY <3>1 DEF a, b
  <2> QED
    BY <1>1, <2>3, <2>4
<1>6. ASSUME NEW z \in Floats, y <= z PROVE Round[y] <= z
  <2>1. z \in Nat /\ Distance(Round[y], y) <= Distance(z, y)
    BY <1>2, <1>3
  <2> QED
    BY <1>1, <1>4, <1>6, <2>1 DEF Distance
<1> QED
  BY <1>1, <1>4, <1>5, <1>6

(***************************************************************************)
(* Products of a whole number with two fractions, and their whole parts,   *)
(* are in the order of the fractions.                                      *)
(***************************************************************************)
LEMMA ProductMonotonic ==
    ASSUME NEW m \in Nat, NEW a \in 0..One, NEW b \in 0..One, a <= b
    PROVE  m * a \in 0..(m * b) /\ m * b \in 0..(m * One)
<1>1. One \in Nat
  BY FloatAssumption
<1>2. ASSUME NEW c \in Nat, NEW d \in Nat, c <= d PROVE m * c \in 0..(m * d)
  <2>1. PICK e \in Nat : d = c + e
    BY <1>2
  <2>2. m * c \in Nat /\ m * e \in Nat
    OBVIOUS
  <2>3. m * d = m * c + m * e
    BY <2>1
  <2> QED
    BY <2>2, <2>3
<1>3. a \in Nat /\ b \in Nat /\ b <= One
  BY <1>1
<1> QED
  BY <1>1, <1>2, <1>3

LEMMA WholePart ==
    ASSUME NEW m \in Nat, NEW x \in Nat, NEW y \in Nat, x <= y, y <= m * One
    PROVE  0 <= x \div One /\ x \div One <= y \div One /\ y \div One <= m
<1>1. One \in Nat \ {0}
  BY FloatAssumption
<1>2. ASSUME NEW u \in Nat, NEW v \in Nat, u <= v
      PROVE  0 <= u \div One /\ u \div One <= v \div One
  BY <1>1, <1>2
<1>3. (m * One) \div One = m /\ m * One \in Nat
  BY <1>1
<1> QED
  BY <1>2, <1>3

(***************************************************************************)
(* MarksInOrder: whatever quota Validate accepts, the byte marks do not    *)
(* cross and are no higher than the quota as a float64, unless a fraction  *)
(* is not a number or the high mark overflows.                             *)
(***************************************************************************)
THEOREM MarksInOrderHolds == ConfSpec => []MarksInOrder
<1>1. ConfInv => MarksInOrder
  <2> SUFFICES ASSUME ConfInv, running, quota.high # NaN, quota.low # NaN,
                      Product(quota, quota.high) <= MaxInt64
               PROVE  \A high \in MarkBytes(quota, quota.high), low \in MarkBytes(quota, quota.low) :
                         0 <= low /\ low <= high /\ high <= Round[quota.max]
    BY DEF MarksInOrder
  <2> DEFINE max == quota.max
             h == quota.high
             l == quota.low
             m == Round[max]
  <2>1. max \in Int /\ max <= MaxInt64 /\ h \in Int /\ l \in Int /\ ValidQuota(quota)
    BY DEF ConfInv, Validated
  <2>2. max > 0 /\ ~ (h <= 0) /\ ~ (h > One) /\ ~ (l <= 0) /\ ~ (h <= l)
    <3>1. 0 # NaN /\ One # NaN
      BY FloatAssumption
    <3> QED
      BY <2>1, <3>1, Zenon DEF ValidQuota, AtMost, Above
  <2>3. /\ Product(quota, quota.high) = Round[m * h] \div One
        /\ Product(quota, quota.low) = Round[m * l] \div One
    BY Zenon DEF Product
  <2> HIDE DEF max, h, l, m
  <2>4. max \in 0..MaxInt64 /\ h \in 0..One /\ l \in 0..One /\ l <= h
    BY <2>1, <2>2, FloatAssumption
  <2>5. m \in Nat /\ m * One \in Floats /\ m * One \in DOMAIN Round
    BY <2>4, FloatAssumption DEF m
  <2>6. m * l \in 0..(m * h) /\ m * h \in 0..(m * One)
    BY <2>4, <2>5, ProductMonotonic
  <2>7. m * h \in DOMAIN Round /\ m * h <= m * One
    <3>1. 0..(m * One) \subseteq DOMAIN Round
      BY <2>5, FloatAssumption
    <3> QED
      BY <2>6, <3>1
  <2>8. /\ Round[m * l] \in Nat /\ Round[m * h] \in Nat
        /\ Round[m * l] <= Round[m * h] /\ Round[m * h] <= m * One
    BY <2>5, <2>6, <2>7, RoundMonotonic
  <2>9. /\ 0 <= Round[m * l] \div One
        /\ Round[m * l] \div One <= Round[m * h] \div One
        /\ Round[m * h] \div One <= m
    BY <2>5, <2>8, WholePart
  <2>10. Product(quota, quota.low) <= MaxInt64
    <3>1. Round[m * l] \div One \in Int /\ Round[m * h] \div One \in Int /\ MaxInt64 \in Int
      BY <2>8, FloatAssumption
    <3> QED
      BY <2>3, <2>9, <3>1
  <2>11. /\ ~ (Product(quota, quota.high) > MaxInt64)
         /\ ~ (Product(quota, quota.low) > MaxInt64)
    <3>1. Round[m * l] \div One \in Int /\ Round[m * h] \div One \in Int /\ MaxInt64 \in Int
      BY <2>8, FloatAssumption
    <3> QED
      BY <2>3, <2>10, <3>1
  <2>12. /\ MarkBytes(quota, quota.high) = {Round[m * h] \div One}
         /\ MarkBytes(quota, quota.low) = {Round[m * l] \div One}
    BY <2>3, <2>11, Zenon DEF MarkBytes
  <2>13. m = Round[quota.max]
    BY DEF m, max
  <2> QED
    BY <2>9, <2>12, <2>13, Zenon
<1> QED
  BY <1>1, ConfInvHolds, PTL

-----------------------------------------------------------------------------
(* Forwarding *)

\* The first node may do anything, the second is no client's front door, the
\* third serves or stores and is done.
Role(r) ==
    \/ r.depth = 1
    \/ r.depth = 2 /\ InboundHop(r) # "client"
    \/ r.depth = 3 /\ Terminal(InboundHop(r))

RoleInv == \A r \in inflight : Role(r)

\* A forwarded request is one hop deeper and has the role its sender gave it.
LEMMA ForwardHasRole ==
    ASSUME NEW r, NEW m, NEW header \in Hops
    PROVE  /\ Forward(r, m, header).depth = r.depth + 1
           /\ InboundHop(Forward(r, m, header)) = header
BY DEF Forward, InboundHop, ParseHop

\* A new request is a client's, or a peer's with a role.
LEMMA SendKeepsRoles ==
    ASSUME "client" \notin PeerHeaders, NEW op, NEW n,
           ClientSends(op, n) \/ \E header \in PeerHeaders : PeerSends(op, n, header)
    PROVE  RoleInv'
<1>1. CASE ClientSends(op, n)
    <2>1. \A q \in inflight' : q.depth = 1
        BY <1>1 DEF ClientSends
    <2> QED  BY <2>1 DEF RoleInv, Role
<1>2. ASSUME NEW header \in PeerHeaders, PeerSends(op, n, header) PROVE RoleInv'
    <2> DEFINE q == [op |-> op, forwarded |-> TRUE, header |-> header, at |-> n,
                     depth |-> 2, asked |-> 0]
    <2>1. inflight' = {q}
        BY <1>2 DEF PeerSends
    <2>2. q.depth = 2 /\ InboundHop(q) # "client"
        BY DEF InboundHop, ParseHop, Hops
    <2>3. Role(q)
        BY <2>2 DEF Role
    <2> HIDE DEF q
    <2> QED  BY <2>1, <2>3 DEF RoleInv
<1> QED  BY <1>1, <1>2

\* coordinate sends only terminal requests, from the first or the second node.
LEMMA CoordinateKeepsRoles ==
    ASSUME RoleInv, NEW r \in inflight, Coordinate(r)
    PROVE  RoleInv'
<1>1. r.depth \in {1, 2}
    BY DEF RoleInv, Role, Coordinate, Terminal
<1>2. ASSUME NEW m PROVE Role(Forward(r, m, "replica"))
    <2>1. /\ Forward(r, m, "replica").depth = r.depth + 1
          /\ InboundHop(Forward(r, m, "replica")) = "replica"
        BY ForwardHasRole DEF Hops
    <2> QED  BY <1>1, <2>1 DEF Role, Terminal
<1>3. \A q \in inflight' : q \in inflight \/ \E m : q = Forward(r, m, "replica")
    BY DEF Coordinate
<1> QED  BY <1>2, <1>3 DEF RoleInv

\* proxyPut forwards once, from the first node.
LEMMA ProxyPutKeepsRoles ==
    ASSUME RoleInv, NEW r \in inflight, ProxyPut(r)
    PROVE  RoleInv'
<1> DEFINE q == Forward(r, rings[r.at][1], "coordinator")
<1>1. r.depth = 1
    BY DEF RoleInv, Role, ProxyPut, Terminal
<1>2. q.depth = r.depth + 1 /\ InboundHop(q) = "coordinator"
    BY ForwardHasRole DEF Hops
<1>3. Role(q)
    BY <1>1, <1>2 DEF Role
<1>4. \A s \in inflight' : s \in inflight \/ s = q
    BY DEF ProxyPut
<1> HIDE DEF q
<1> QED  BY <1>3, <1>4 DEF RoleInv

\* Open sends terminal reads, from the first or the second node.
LEMMA OpenKeepsRoles ==
    ASSUME TypeOK, RoleInv, NEW r \in inflight, Open(r)
    PROVE  RoleInv'
<1> DEFINE again == [r EXCEPT !.asked = @ + 1]
           q == Forward(r, rings[r.at][r.asked + 1], "read")
<1>1. r.depth \in {1, 2}
    BY DEF RoleInv, Role, Open
<1>2. q.depth = r.depth + 1 /\ InboundHop(q) = "read"
    BY ForwardHasRole DEF Hops
<1>3. Role(q)
    BY <1>1, <1>2 DEF Role, Terminal
<1>4. again.depth = r.depth /\ again.forwarded = r.forwarded /\ again.header = r.header
    BY DEF TypeOK, Requests
<1>5. Role(again)
    BY <1>4 DEF RoleInv, Role, InboundHop
<1>6. \A s \in inflight' : s \in inflight \/ s = again \/ s = q
    BY DEF Open
<1> HIDE DEF again, q
<1> QED  BY <1>3, <1>5, <1>6 DEF RoleInv

\* The other handlers forward nothing.
LEMMA AnswerKeepsRoles ==
    ASSUME RoleInv, NEW r \in inflight, PutLocalOnly(r) \/ Answer(r)
    PROVE  RoleInv'
<1>1. inflight' \subseteq inflight
    BY DEF PutLocalOnly, Answer
<1> QED  BY <1>1 DEF RoleInv

\* A body that stalls or goes on changes nothing else.
LEMMA BodyKeepsRoles ==
    ASSUME RoleInv, NEW r \in inflight, BodyStalls(r) \/ BodyResumes(r)
    PROVE  RoleInv'
BY DEF BodyStalls, BodyResumes, RoleInv

-----------------------------------------------------------------------------

\* A forwarded request is well formed if it goes to a node.
LEMMA ForwardIsRequest ==
    ASSUME NEW r \in Requests, NEW m \in Nodes, NEW header \in Hops
    PROVE  Forward(r, m, header) \in Requests
<1>1. /\ r.op \in {"put", "get"}
      /\ r.depth + 1 \in Nat \ {0}
      /\ TRUE \in BOOLEAN
      /\ 0 \in Nat
    BY DEF Requests
<1> QED  BY <1>1, Zenon DEF Forward, Requests

\* The rings are preference lists of nodes.
LEMMA InitTypeOK == Init => TypeOK
<1> SUFFICES ASSUME Init PROVE TypeOK
    OBVIOUS
<1>1. Cardinality(Nodes) \in Nat
    BY ForwardingAssumption, FS_CardinalityType
<1>2. \A n \in Nodes : Rings(n) \subseteq Seq(Nodes) \ {<<>>}
    BY <1>1 DEF Rings
<1>3. rings \in [Nodes -> Seq(Nodes) \ {<<>>}]
    BY <1>2 DEF Init
<1>4. sent \in BOOLEAN
    BY Zenon DEF Init
<1> QED  BY <1>3, <1>4 DEF Init, TypeOK

\* Every request that is sent is well formed and goes to a node.
LEMMA NextTypeOK == TypeOK /\ [Next]_vars => TypeOK'
<1> SUFFICES ASSUME TypeOK, [Next]_vars PROVE TypeOK'
    OBVIOUS
<1>1. ASSUME NEW op \in {"put", "get"}, NEW n \in Nodes, ClientSends(op, n) PROVE TypeOK'
    <2>1. inflight' \subseteq Requests
        BY <1>1 DEF ClientSends, Requests, Hops
    <2> QED  BY <1>1, <2>1 DEF ClientSends, TypeOK
<1>2. ASSUME NEW op \in {"put", "get"}, NEW n \in Nodes, NEW header \in PeerHeaders,
             PeerSends(op, n, header)
      PROVE  TypeOK'
    <2>1. inflight' \subseteq Requests
        BY <1>2 DEF PeerSends, Requests
    <2> QED  BY <1>2, <2>1 DEF PeerSends, TypeOK
<1>3. ASSUME NEW r \in inflight, Handle(r) PROVE TypeOK'
    <2>1. r \in Requests /\ r.at \in Nodes /\ r.asked \in Nat
        BY DEF TypeOK, Requests
    <2>2. HoldersOf(r.at) \subseteq Nodes /\ rings[r.at][1] \in Nodes
        BY <2>1 DEF TypeOK, HoldersOf
    <2>3. CASE PutLocalOnly(r)
        BY <2>1, <2>3 DEF PutLocalOnly, TypeOK
    <2>4. CASE Coordinate(r)
        <3>1. \A m \in HoldersOf(r.at) : Forward(r, m, "replica") \in Requests
            BY <2>1, <2>2, ForwardIsRequest DEF Hops
        <3> QED  BY <2>1, <2>4, <3>1 DEF Coordinate, TypeOK
    <2>5. CASE ProxyPut(r)
        <3>1. Forward(r, rings[r.at][1], "coordinator") \in Requests
            BY <2>1, <2>2, ForwardIsRequest DEF Hops
        <3> QED  BY <2>5, <3>1 DEF ProxyPut, TypeOK
    <2>6. CASE Open(r)
        <3>1. rings[r.at][r.asked + 1] \in Nodes
            BY <2>1, <2>6 DEF Open, TypeOK
        <3>2. Forward(r, rings[r.at][r.asked + 1], "read") \in Requests
            BY <2>1, <3>1, ForwardIsRequest DEF Hops
        <3>3. [r EXCEPT !.asked = @ + 1] \in Requests
            <4>1. r.asked + 1 \in Nat
                BY <2>1
            <4> QED  BY <2>1, <4>1, Zenon DEF Requests
        <3> QED  BY <2>6, <3>2, <3>3 DEF Open, TypeOK
    <2>7. CASE Answer(r)
        BY <2>7 DEF Answer, TypeOK
    <2> QED  BY <1>3, <2>3, <2>4, <2>5, <2>6, <2>7 DEF Handle
<1>4. ASSUME NEW r \in inflight, BodyStalls(r) \/ BodyResumes(r) PROVE TypeOK'
    BY <1>4 DEF BodyStalls, BodyResumes, TypeOK
<1>5. CASE UNCHANGED vars
    BY <1>5 DEF vars, TypeOK
<1> QED  BY <1>1, <1>2, <1>3, <1>4, <1>5 DEF Next

\* The variables keep their types.
THEOREM TypeCorrect == Spec => []TypeOK
BY InitTypeOK, NextTypeOK, PTL DEF Spec

\* Every step keeps the roles narrowing, provided no peer forwards without one.
LEMMA NextKeepsRoles ==
    ASSUME "client" \notin PeerHeaders
    PROVE  TypeOK /\ RoleInv /\ [Next]_vars => RoleInv'
<1> SUFFICES ASSUME TypeOK, RoleInv, [Next]_vars PROVE RoleInv'
    OBVIOUS
<1>1. ASSUME NEW op, NEW n,
             ClientSends(op, n) \/ \E header \in PeerHeaders : PeerSends(op, n, header)
      PROVE  RoleInv'
    BY <1>1, SendKeepsRoles
<1>2. ASSUME NEW r \in inflight, Handle(r) PROVE RoleInv'
    BY <1>2, CoordinateKeepsRoles, ProxyPutKeepsRoles, OpenKeepsRoles, AnswerKeepsRoles DEF Handle
<1>3. ASSUME NEW r \in inflight, BodyStalls(r) \/ BodyResumes(r) PROVE RoleInv'
    BY <1>3, BodyKeepsRoles
<1>4. CASE UNCHANGED vars
    BY <1>4 DEF vars, RoleInv
<1> QED  BY <1>1, <1>2, <1>3, <1>4 DEF Next

\* Whatever the rings, a client's request never visits more than three nodes in
\* a row, as long as every forwarded request names its role.
THEOREM ChainIsBoundedHolds ==
    ASSUME "client" \notin PeerHeaders
    PROVE  Spec => []ChainIsBounded
<1>1. Init => RoleInv
    BY DEF Init, RoleInv
<1>2. RoleInv => ChainIsBounded
    BY DEF RoleInv, Role, ChainIsBounded
<1> QED  BY <1>1, <1>2, NextKeepsRoles, TypeCorrect, PTL DEF Spec
-----------------------------------------------------------------------------
(* The copies a PUT makes *)

\* Where copies may be once c has coordinated the PUT.
Reach(c) == {c} \cup HoldersOf(c)

\* No copy yet, and one PUT under way at most.
Uncopied ==
    /\ stored = {}
    /\ \A q, r \in inflight : q.op = "put" /\ r.op = "put" => q = r

\* All that is stored or still to be stored comes from coordinator c.
CopiedBy(c) ==
    /\ stored \subseteq Reach(c)
    /\ \A q \in inflight : q.op = "put" => Terminal(InboundHop(q)) /\ q.at \in Reach(c)

CopyInv ==
    /\ sent \/ (inflight = {} /\ stored = {})
    /\ Uncopied \/ \E c \in Nodes : CopiedBy(c)

\* Nothing is stored before the request is sent, and one is sent.
LEMMA SendKeepsCopies ==
    ASSUME CopyInv, NEW op, NEW n,
           ClientSends(op, n) \/ \E header \in PeerHeaders : PeerSends(op, n, header)
    PROVE  CopyInv'
<1>1. sent' = TRUE /\ stored' = {} /\ \E q : inflight' = {q}
    BY DEF ClientSends, PeerSends, CopyInv
<1> QED  BY <1>1 DEF CopyInv, Uncopied

\* Where copies may be depends on the rings alone.
LEMMA ReachStays ==
    ASSUME rings' = rings, NEW c
    PROVE  Reach(c)' = Reach(c)
BY DEF Reach, HoldersOf

\* putLocalOnly makes the first copy, or one that its coordinator asked for.
LEMMA LocalKeepsCopies ==
    ASSUME TypeOK, CopyInv, NEW r \in inflight, PutLocalOnly(r)
    PROVE  CopyInv'
<1>1. /\ r.op = "put" /\ r.at \in Nodes
      /\ stored' = stored \cup {r.at}
      /\ inflight' = inflight \ {r}
      /\ rings' = rings /\ sent' = sent /\ sent
    BY DEF TypeOK, Requests, PutLocalOnly, CopyInv
<1>2. CASE Uncopied
    <2>1. \A q \in inflight' : q.op # "put"
        BY <1>1, <1>2 DEF Uncopied
    <2>2. CopiedBy(r.at)'
        BY <1>1, <1>2, <2>1 DEF Uncopied, CopiedBy, Reach
    <2> QED  BY <1>1, <2>2 DEF CopyInv
<1>3. ASSUME NEW c \in Nodes, CopiedBy(c) PROVE CopyInv'
    <2>1. CopiedBy(c)'
        BY <1>1, <1>3, ReachStays DEF CopiedBy
    <2> QED  BY <1>1, <2>1 DEF CopyInv
<1> QED  BY <1>2, <1>3 DEF CopyInv

\* Coordinating is not terminal, so it is the only PUT and the first to store.
LEMMA CoordinateKeepsCopies ==
    ASSUME TypeOK, CopyInv, NEW r \in inflight, Coordinate(r)
    PROVE  CopyInv'
<1>1. /\ r.op = "put" /\ r.at \in Nodes /\ ~ Terminal(InboundHop(r))
      /\ rings' = rings /\ sent' = sent /\ sent
    BY DEF TypeOK, Requests, Coordinate, CopyInv, Terminal
<1>2. Uncopied
    BY <1>1 DEF CopyInv, CopiedBy
<1>3. stored' = {r.at}
    BY <1>2 DEF Uncopied, Coordinate
<1>4. \A q \in inflight' : q.op = "put" =>
          \E m \in HoldersOf(r.at) : q = Forward(r, m, "replica")
    BY <1>1, <1>2 DEF Uncopied, Coordinate
<1>5. \A m : Terminal(InboundHop(Forward(r, m, "replica"))) /\ Forward(r, m, "replica").at = m
    BY ForwardHasRole DEF Hops, Terminal, Forward
<1>6. CopiedBy(r.at)'
    BY <1>1, <1>3, <1>4, <1>5, ReachStays DEF CopiedBy, Reach
<1> QED  BY <1>1, <1>6 DEF CopyInv

\* A proxied PUT takes the place of the client's.
LEMMA ProxyPutKeepsCopies ==
    ASSUME TypeOK, CopyInv, NEW r \in inflight, ProxyPut(r)
    PROVE  CopyInv'
<1>1. r.op = "put" /\ ~ Terminal(InboundHop(r)) /\ sent' = sent /\ sent /\ stored' = stored
    BY DEF ProxyPut, CopyInv, Terminal
<1>2. Uncopied
    BY <1>1 DEF CopyInv, CopiedBy
<1>3. \A q \in inflight' : q.op = "put" => q = Forward(r, rings[r.at][1], "coordinator")
    BY <1>1, <1>2 DEF Uncopied, ProxyPut
<1>4. Uncopied'
    BY <1>1, <1>2, <1>3 DEF Uncopied
<1> QED  BY <1>1, <1>4 DEF CopyInv

\* Reads and answers neither store nor send a PUT.
LEMMA OtherKeepsCopies ==
    ASSUME TypeOK, CopyInv, NEW r \in inflight, Open(r) \/ Answer(r)
    PROVE  CopyInv'
<1>1. sent' = sent /\ sent /\ stored' = stored /\ rings' = rings
    BY DEF Open, Answer, CopyInv
<1>2. \A q \in inflight' : q.op = "put" => q \in inflight
    <2>1. CASE Answer(r)
        BY <2>1 DEF Answer
    <2>2. CASE Open(r)
        <3>1. r.op = "get" /\ [r EXCEPT !.asked = @ + 1].op = r.op
            BY <2>2 DEF Open, TypeOK, Requests
        <3>2. \A m : Forward(r, m, "read").op = r.op
            BY DEF Forward
        <3>3. \A q \in inflight' : \/ q \in inflight
                                   \/ q = [r EXCEPT !.asked = @ + 1]
                                   \/ \E m : q = Forward(r, m, "read")
            BY <2>2 DEF Open
        <3> QED  BY <3>1, <3>2, <3>3
    <2> QED  BY <2>1, <2>2
<1>3. CASE Uncopied
    BY <1>1, <1>2, <1>3 DEF CopyInv, Uncopied
<1>4. ASSUME NEW c \in Nodes, CopiedBy(c) PROVE CopyInv'
    <2>1. CopiedBy(c)'
        BY <1>1, <1>2, <1>4, ReachStays DEF CopiedBy
    <2> QED  BY <1>1, <2>1 DEF CopyInv
<1> QED  BY <1>3, <1>4 DEF CopyInv

\* One coordinator and at most ReplicaCount holders of its ring.
LEMMA ReachIsBounded ==
    ASSUME TypeOK, NEW c \in Nodes
    PROVE  IsFiniteSet(Reach(c)) /\ Cardinality(Reach(c)) <= ReplicaCount + 1
<1> DEFINE D == {j \in DOMAIN rings[c] : j <= ReplicaCount}
           f == [j \in D |-> rings[c][j]]
<1>1. ReplicaCount \in Nat /\ rings[c] \in Seq(Nodes)
    BY ForwardingAssumption DEF TypeOK
<1>2. D \subseteq 1..ReplicaCount
    BY <1>1
<1>3. IsFiniteSet(1..ReplicaCount) /\ Cardinality(1..ReplicaCount) = ReplicaCount
    <2>1. 1 \in Int /\ ReplicaCount \in Int
        BY <1>1
    <2>2. /\ IsFiniteSet(1..ReplicaCount)
          /\ Cardinality(1..ReplicaCount) = IF 1 > ReplicaCount THEN 0 ELSE ReplicaCount - 1 + 1
        BY <2>1, FS_Interval, Zenon
    <2> QED  BY <1>1, <2>2
<1>4. IsFiniteSet(D) /\ Cardinality(D) <= ReplicaCount
    BY <1>2, <1>3, FS_Subset
<1>5. f \in Surjection(D, HoldersOf(c))
    BY DEF Surjection, HoldersOf
<1>6. IsFiniteSet(HoldersOf(c)) /\ Cardinality(HoldersOf(c)) <= Cardinality(D)
    BY <1>4, <1>5, FS_Surjection
<1>7. /\ Cardinality(D) \in Nat /\ Cardinality(HoldersOf(c)) \in Nat
    BY <1>4, <1>6, FS_CardinalityType
<1>8. /\ IsFiniteSet(HoldersOf(c) \cup {c})
      /\ Cardinality(HoldersOf(c) \cup {c}) <= Cardinality(HoldersOf(c)) + 1
    <2>1. /\ IsFiniteSet(HoldersOf(c) \cup {c})
          /\ Cardinality(HoldersOf(c) \cup {c}) =
                IF c \in HoldersOf(c) THEN Cardinality(HoldersOf(c))
                                      ELSE Cardinality(HoldersOf(c)) + 1
        BY <1>6, FS_AddElement, Zenon
    <2> QED  BY <1>7, <2>1
<1>9. Reach(c) = HoldersOf(c) \cup {c}
    BY DEF Reach
<1>10. Cardinality(Reach(c)) \in Nat
    BY <1>8, <1>9, FS_CardinalityType
<1> QED  BY <1>1, <1>4, <1>6, <1>7, <1>8, <1>9, <1>10

\* CopiesAreBounded: however the rings disagree and whatever roles other versions
\* send, a PUT leaves at most one copy more than replica_count.
THEOREM CopiesAreBoundedHolds == Spec => []CopiesAreBounded
<1>1. Init => CopyInv
    BY DEF Init, CopyInv, Uncopied
<1>2. TypeOK /\ CopyInv /\ [Next]_vars => CopyInv'
    <2> SUFFICES ASSUME TypeOK, CopyInv, [Next]_vars PROVE CopyInv'
        OBVIOUS
    <2>1. ASSUME NEW op, NEW n,
                 ClientSends(op, n) \/ \E header \in PeerHeaders : PeerSends(op, n, header)
          PROVE  CopyInv'
        BY <2>1, SendKeepsCopies
    <2>2. ASSUME NEW r \in inflight, Handle(r) PROVE CopyInv'
        BY <2>2, LocalKeepsCopies, CoordinateKeepsCopies, ProxyPutKeepsCopies,
           OtherKeepsCopies DEF Handle
    <2>3. ASSUME NEW r \in inflight, BodyStalls(r) \/ BodyResumes(r) PROVE CopyInv'
        BY <2>3 DEF BodyStalls, BodyResumes, CopyInv, Uncopied, CopiedBy, Reach, HoldersOf
    <2>4. CASE UNCHANGED vars
        BY <2>4 DEF vars, CopyInv, Uncopied, CopiedBy, Reach, HoldersOf
    <2> QED  BY <2>1, <2>2, <2>3, <2>4 DEF Next
<1>3. TypeOK /\ CopyInv => CopiesAreBounded
    <2> SUFFICES ASSUME TypeOK, CopyInv PROVE CopiesAreBounded
        OBVIOUS
    <2>1. CASE Uncopied
        BY <2>1, FS_EmptySet, ForwardingAssumption DEF Uncopied, CopiesAreBounded
    <2>2. ASSUME NEW c \in Nodes, CopiedBy(c) PROVE CopiesAreBounded
        <3>1. IsFiniteSet(Reach(c)) /\ Cardinality(Reach(c)) <= ReplicaCount + 1
            BY ReachIsBounded
        <3>2. IsFiniteSet(stored) /\ Cardinality(stored) <= Cardinality(Reach(c))
            BY <2>2, <3>1, FS_Subset DEF CopiedBy
        <3>3. Cardinality(stored) \in Nat /\ Cardinality(Reach(c)) \in Nat
            BY <3>1, <3>2, FS_CardinalityType
        <3> QED  BY <3>1, <3>2, <3>3, ForwardingAssumption DEF CopiesAreBounded
    <2> QED  BY <2>1, <2>2 DEF CopyInv
<1> QED  BY <1>1, <1>2, <1>3, TypeCorrect, PTL DEF Spec
=============================================================================
