--------------------------- MODULE MCConfiguration ---------------------------
(***************************************************************************)
(* Up to four members, weights that collide, and two names written with a  *)
(* blank.  One family of settings has every list, with and without         *)
(* duplicates, in the flag; one combines flag, environment, name and       *)
(* replica count; one varies the quota.  Floats have three bits and int64  *)
(* ends at 15, so that quotas lie on either side of what a float can tell  *)
(* apart and of what an integer can hold.                                  *)
(***************************************************************************)
EXTENDS Configuration

CONSTANTS m0, none, nan

MCNames == 1..4
MCSpellings == MCNames \cup {m0, 11, 13}
MCTrim == [n \in MCSpellings |-> IF n \in {11, 13} THEN n - 10 ELSE n]

MCOne == 8
MCMaxInt64 == 15
MCMinInt64 == -16
FloatsOf(bits) == {m * 2 ^ e : m \in 0..(2 ^ bits - 1), e \in 0..6}
MCFloats == {f \in FloatsOf(3) : f <= 128}

\* To the nearest, and of two to the one whose last bit is zero.
MCRound ==
    [x \in 0..128 |->
        IF x \in MCFloats THEN x
        ELSE LET below == CHOOSE f \in MCFloats : f < x /\ \A g \in MCFloats : g < x => g <= f
                 above == CHOOSE f \in MCFloats : f > x /\ \A g \in MCFloats : g > x => g >= f
             IN  IF x - below < above - x \/ (x - below = above - x /\ below \in FloatsOf(2))
                 THEN below ELSE above]

MCQuota == [max |-> 7, high |-> 7, low |-> 6]

MCSetting(self, flag, env, count, q) ==
    [self |-> self, flagPeers |-> flag, envPeers |-> env,
     flagCount |-> count, envCount |-> IF count = none THEN none ELSE 2, quota |-> q]

MCSettings ==
    {MCSetting(1, list, none, none, MCQuota) :
        list \in PeerLists \cup [1..2 -> MCNames] \cup {<<1, 2, 3, 1>>}}
    \cup {MCSetting(self, flag, env, count, MCQuota) :
            self \in {1, 3, 11, m0},
            flag \in {none, <<>>, <<1, m0>>, <<13, 2, 11>>},
            env \in {none, <<>>, <<2, 3>>, <<1, 2, 13, 4>>},
            count \in {none, 0, 1, 3}}
    \cup {MCSetting(1, none, none, none, [max |-> max, high |-> high, low |-> low]) :
            max \in {0, 1, 3, 7, 11, 15}, high \in {0, 1, 5, 8, 9, nan}, low \in {0, 1, 4, 7, nan}}
=============================================================================
