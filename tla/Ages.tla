--------------------------------- MODULE Ages ---------------------------------
(***************************************************************************)
(* Lists of time stamps, oldest first, as the sliding windows of           *)
(* internal/flowcontrol and internal/ratelimit keep them. A time stamp is  *)
(* its age in ticks, so that the clock needs no bound.                     *)
(***************************************************************************)
EXTENDS Integers, Sequences, FiniteSets

\* The place of i in the ordered set P of positions.
Rank(P, i) == Cardinality({j \in P : j <= i})

\* The entries of s at the positions P, in their order.
EntriesAt(s, P) == [k \in 1 .. Cardinality(P) |-> s[CHOOSE i \in P : Rank(P, i) = k]]

\* The loop that drops the entries before windowStart.
Under(ages, d) == {i \in DOMAIN ages : ages[i] < d}
Younger(ages, d) == EntriesAt(ages, Under(ages, d))

\* A tick passes; ages over a limit, which is above all that matters, are not told apart.
Older(ages, limit) == [i \in DOMAIN ages |-> IF ages[i] > limit THEN ages[i] ELSE ages[i] + 1]

\* How many entries are younger than e.
Count(ages, e) == Cardinality(Under(ages, e))

\* No entry is younger than the last.
YoungestLast(ages) == \A k \in 1 .. Len(ages) : ages[Len(ages)] <= ages[k]

\* The list knows the grants of the last d ticks and how old each is: as many entries as grants
\* are younger than e, for every e.
Remembers(ages, granted, d) ==
    /\ \A k \in 1 .. Len(granted) : granted[k] < d
    /\ \A e \in 0 .. d : Count(granted, e) = Count(ages, e)

=============================================================================
