---------------------------- MODULE Configuration ----------------------------
(***************************************************************************)
(* How a node comes by its configuration (internal/config): Load puts      *)
(* flags, environment and defaults together, Validate accepts or refuses,  *)
(* and a node that starts builds its ring and its quota from the result    *)
(* (ring.go, evict.go).  Composed with Placement: every edit of the        *)
(* settings and restart is a step that may change the peer list.           *)
(*                                                                         *)
(* The quota is taken as Load has resolved it.  A fraction is a float64:   *)
(* here it is counted in parts of One.  What is particular to float64 is a *)
(* parameter: the numbers it has, and the one that a number is rounded to. *)
(***************************************************************************)
EXTENDS Placement, Integers

CONSTANTS
    Settings,   \* what an operator may start the node with
    Spellings,  \* names as they may be written, with blanks around them or not
    Trim,       \* strings.TrimSpace
    NotGiven,   \* a flag that is not on the command line, a variable not set
    Malformed,  \* a peer that is not name=url, whose url has no http host, or
                \* whose name is blank
    One,        \* the fraction 1.0
    Floats,     \* the float64 numbers from zero up
    Round,      \* float64 rounding
    NaN,        \* the float64 that is not a number
    MaxInt64, MinInt64

ASSUME NamesAssumption ==
    /\ Names \subseteq Spellings /\ Malformed \in Spellings \ Names
    /\ Trim \in [Spellings -> Names \cup {Malformed}]
    /\ Trim[Malformed] = Malformed
    /\ \A n \in Names : Trim[n] = n

Distance(a, b) == IF a <= b THEN b - a ELSE a - b

\* Rounding is to a nearest float64, of two to either; a whole number that is a
\* float64 is one in parts of One too, One being a power of two.
ASSUME FloatAssumption ==
    /\ One \in Nat \ {0} /\ MaxInt64 \in Nat /\ MinInt64 \in Int
    /\ NaN \notin Int
    /\ Floats \subseteq Nat
    /\ \A x \in DOMAIN Round :
        /\ x \in Nat /\ 0..x \subseteq DOMAIN Round
        /\ Round[x] \in Floats
        /\ \A y \in Floats : Distance(Round[x], x) <= Distance(y, x)
    /\ \A max \in 0..MaxInt64 :
        max \in DOMAIN Round /\ Round[max] * One \in Floats \cap DOMAIN Round

ASSUME SettingsAssumption ==
    \A s \in Settings :
        /\ s.self \in Spellings
        /\ s.flagPeers = NotGiven \/ s.flagPeers \in Seq(Spellings)
        /\ s.envPeers = NotGiven \/ s.envPeers \in Seq(Spellings)
        /\ s.flagCount = NotGiven \/ s.flagCount \in Int
        /\ s.envCount = NotGiven \/ s.envCount \in Int
        /\ s.quota.max \in Int /\ s.quota.max <= MaxInt64
        /\ s.quota.high \in Int \cup {NaN} /\ s.quota.low \in Int \cup {NaN}

VARIABLES
    running,       \* Load and New succeeded the last time
    replicaCount,  \* Config.ReplicaCount
    quota          \* Config.MaxBytes, HighWater and LowWater

config == <<running, replicaCount, quota>>

-----------------------------------------------------------------------------
(* Load *)

\* A setting of which Load asks set[name]: flag, environment, default.
Fallback(flag, env, default) ==
    IF flag # NotGiven THEN flag ELSE IF env # NotGiven THEN env ELSE default

\* Every name of a list without the blanks around it: ParsePeers does it, and
\* cluster.New.
Trimmed(list) == [i \in 1..Len(list) |-> Trim[list[i]]]

\* --peers, whose empty value counts as not given.
PeersRaw(s) ==
    IF s.flagPeers \notin {NotGiven, << >>} THEN s.flagPeers
    ELSE IF s.envPeers # NotGiven THEN s.envPeers ELSE << >>

DefaultReplicaCount == 2

\* ParsePeers keeps the order and the duplicates.  Without peers the node is a
\* cluster of its own, with one copy, under its name as it is written.
LoadedPeers(s) == IF PeersRaw(s) = << >> THEN <<s.self>> ELSE Trimmed(PeersRaw(s))
LoadedReplicaCount(s) ==
    LET count == Fallback(s.flagCount, s.envCount, DefaultReplicaCount)
    IN  IF PeersRaw(s) = << >> /\ count > 1 THEN 1 ELSE count

\* float64 comparisons: false whenever one side is not a number.
AtMost(a, b) == a # NaN /\ b # NaN /\ a <= b
Above(a, b) == a # NaN /\ b # NaN /\ a > b

\* Mutant of ValidQuota: the order of the marks is not looked at.
ValidQuotaUnordered(q) ==
    /\ q.max > 0
    /\ ~ AtMost(q.high, 0) /\ ~ Above(q.high, One)
    /\ ~ AtMost(q.low, 0) /\ ~ Above(q.low, One)

\* Config.Validate, and Quota.Valid once more: a fraction is refused when it is
\* found out of range, which NaN never is.
ValidQuota(q) ==
    /\ q.max > 0
    /\ ~ AtMost(q.high, 0) /\ ~ Above(q.high, One)
    /\ ~ AtMost(q.low, 0) /\ ~ AtMost(q.high, q.low)

\* Mutant of ValidPeers: a replica count above the size of the cluster is let
\* through.
ValidPeersAnyCount(list, self, count) ==
    /\ count >= 1
    /\ \A i, j \in 1..Len(list) :
        Trim[list[i]] # Malformed /\ (list[i] = list[j] => i = j)
    /\ \E i \in 1..Len(list) : list[i] = self

\* Names are compared as they are written.
ValidPeers(list, self, count) ==
    /\ count >= 1 /\ count <= Len(list)
    /\ \A i, j \in 1..Len(list) :
        Trim[list[i]] # Malformed /\ (list[i] = list[j] => i = j)
    /\ \E i \in 1..Len(list) : list[i] = self

Validate(s) ==
    /\ Trim[s.self] # Malformed
    /\ ValidQuota(s.quota)
    /\ ValidPeers(LoadedPeers(s), s.self, LoadedReplicaCount(s))

\* float64(max) * fraction, cut off to a whole number.
Product(q, fraction) == Round[Round[q.max] * fraction] \div One

\* HighBytes and LowBytes.  The conversion to int64 of NaN, and of what is too
\* large for it, is up to the processor.
MarkBytes(q, fraction) ==
    IF fraction = NaN THEN {MinInt64, 0}
    ELSE IF Product(q, fraction) > MaxInt64 THEN {MinInt64, MaxInt64}
    ELSE {Product(q, fraction)}

-----------------------------------------------------------------------------
(* The node *)

\* cluster.New compares the names of the list without their blanks, and looks
\* for its own name among them as it is written.
NewAccepts(list, self) ==
    /\ Accepted(Trimmed(list))
    /\ \A i \in 1..Len(list) : Trim[list[i]] # Malformed
    /\ self \in Members(Trimmed(list))

\* Mutant of Start: the error of cluster.New is not looked at.
StartIgnoresNew(s) ==
    IF Validate(s)
    THEN /\ running' = TRUE
         /\ peers' = IF NewAccepts(LoadedPeers(s), s.self) THEN Trimmed(LoadedPeers(s)) ELSE << >>
         /\ replicaCount' = LoadedReplicaCount(s)
         /\ quota' = s.quota
         /\ UNCHANGED weight
    ELSE /\ running' = FALSE
         /\ UNCHANGED <<weight, peers, replicaCount, quota>>

\* The node is started with new settings.  It runs with what Load returns and
\* New makes of it, or not at all.
Start(s) ==
    IF Validate(s) /\ NewAccepts(LoadedPeers(s), s.self)
    THEN /\ running' = TRUE
         /\ peers' = Trimmed(LoadedPeers(s))
         /\ replicaCount' = LoadedReplicaCount(s)
         /\ quota' = s.quota
         /\ UNCHANGED weight
    ELSE /\ running' = FALSE
         /\ UNCHANGED <<weight, peers, replicaCount, quota>>

ConfInit ==
    /\ RingInit
    /\ running = FALSE
    /\ replicaCount = 0 /\ quota = [max |-> 0, high |-> 0, low |-> 0]

ConfNext == \E s \in Settings : Start(s)

ConfSpec == ConfInit /\ [][ConfNext]_<<ring, config>>

-----------------------------------------------------------------------------
(* Properties *)

\* Whatever the operator writes, a node that runs has a membership that is
\* accepted and whose names are without blanks, and changes it as Placement says:
\* what Validate lets through and the ring cannot place, cluster.New refuses.
ImplementsPlacement == RingSpec

\* The members that hold a key for this node.
ReplicaHolders == {m \in Members(peers) : Rank(m, Members(peers)) < replicaCount}

\* A node that runs finds for every key exactly as many distinct holders as
\* copies it asks for before it acknowledges: neither too few members, which
\* would refuse every write for ever, nor colliding weights can change it.
HoldersAreReplicaCount == running => Cardinality(ReplicaHolders) = replicaCount

\* The marks never cross, and are no higher than the float64 that the quota is
\* rounded to, however the two products are rounded and cut off: for fractions that
\* are numbers and a high mark that int64 can hold.
MarksInOrder ==
    running /\ NaN \notin {quota.high, quota.low} /\ Product(quota, quota.high) <= MaxInt64 =>
        \A high \in MarkBytes(quota, quota.high), low \in MarkBytes(quota, quota.low) :
            0 <= low /\ low <= high /\ high <= Round[quota.max]

\* A quota that was validated up front is usable: eviction starts above zero and
\* drains to less than where it starts.
UsableMarks ==
    running =>
        \A high \in MarkBytes(quota, quota.high), low \in MarkBytes(quota, quota.low) :
            0 <= low /\ low < high

\* A flag that was given beats the environment.
FlagStep ==
    \A s \in Settings : Start(s) /\ running' /\ s.flagPeers # NotGiven =>
        peers' = Trimmed(IF s.flagPeers = << >> THEN <<s.self>> ELSE s.flagPeers)
ExplicitFlagWins == [][FlagStep]_<<ring, config>>

\* Validate checks what the rest of the system relies on: a node whose settings
\* it accepts runs.
ValidatedStep == \A s \in Settings : Start(s) /\ Validate(s) => running'
ValidatedRuns == [][ValidatedStep]_<<ring, config>>
=============================================================================
