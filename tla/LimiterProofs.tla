----------------------------- MODULE LimiterProofs -----------------------------
(***************************************************************************)
(* Proofs about FlowControl and RateLimiter, for any number of sessions,   *)
(* requesters, windows and users, and any limits and times. Three facts    *)
(* carry them: what an Acquire holds is still its session's window or      *)
(* nobody's (HeldWindows), so that its counter counts its requests; a list *)
(* that drops its old entries still remembers the grants that count        *)
(* (Remembers), across windows dropped and made again; and what a user was *)
(* granted is missing in its bucket but for what time gave (Accounted).    *)
(***************************************************************************)
EXTENDS FlowControl, RateLimiter, FiniteSetTheorems, SequenceTheorems, TLAPS

-----------------------------------------------------------------------------
(* Ages *)

\* Sets of positions are finite.
LEMMA PositionsFinite ==
    ASSUME NEW n \in Nat, NEW P \in SUBSET (1 .. n)
    PROVE  IsFiniteSet(P) /\ Cardinality(P) \in Nat
  <1>1. IsFiniteSet(1 .. n) BY FS_Interval
  <1>2. IsFiniteSet(P) BY <1>1, FS_Subset
  <1> QED BY <1>2, FS_CardinalityType

\* Ranks number the positions from 1 on, in their order; the last position has the highest rank.
LEMMA RankOrder ==
    ASSUME NEW n \in Nat, NEW P \in SUBSET (1 .. n)
    PROVE  /\ \A i \in P : Rank(P, i) \in 1 .. Cardinality(P)
           /\ \A i, j \in P : i < j => Rank(P, i) < Rank(P, j)
           /\ \A k \in 1 .. Cardinality(P) : \E i \in P : Rank(P, i) = k
           /\ n \in P => Rank(P, n) = Cardinality(P)
  <1>p. \A i \in P : i \in Int /\ i <= n BY SMT
  <1>c. Cardinality(P) \in Nat BY PositionsFinite
  <1>1. ASSUME NEW i \in P
        PROVE  /\ IsFiniteSet({j \in P : j <= i}) /\ Rank(P, i) \in 1 .. Cardinality(P)
    <2>1. {j \in P : j <= i} \in SUBSET P /\ i \in {j \in P : j <= i} OBVIOUS
    <2>2. IsFiniteSet({j \in P : j <= i}) /\ Cardinality({j \in P : j <= i}) <= Cardinality(P)
      BY <2>1, PositionsFinite, FS_Subset
    <2>3. Cardinality({j \in P : j <= i}) # 0 BY <2>1, <2>2, FS_EmptySet
    <2>4. Cardinality({j \in P : j <= i}) \in Nat BY <2>2, FS_CardinalityType
    <2> QED BY <2>2, <2>3, <2>4, PositionsFinite DEF Rank
  <1>r. \A i \in P : Rank(P, i) \in 1 .. Cardinality(P) BY <1>1, Zenon
  <1>i. \A i \in P : Rank(P, i) \in Int BY <1>r, <1>c
  <1>2. ASSUME NEW i \in P, NEW j \in P, i < j PROVE Rank(P, i) < Rank(P, j)
    <2>1. {k \in P : k <= i} \in SUBSET {k \in P : k <= j}
      <3>1. \A k \in P : k <= i => k <= j BY <1>p, <1>2
      <3> QED BY <3>1
    <2>2. j \in {k \in P : k <= j} /\ j \notin {k \in P : k <= i} BY <1>p, <1>2
    <2>3. /\ Cardinality({k \in P : k <= i}) <= Cardinality({k \in P : k <= j})
          /\ Cardinality({k \in P : k <= j}) # Cardinality({k \in P : k <= i})
      BY <1>1, <2>1, <2>2, FS_Subset
    <2>4. Rank(P, i) \in Int /\ Rank(P, j) \in Int BY <1>i
    <2> QED BY <2>3, <2>4 DEF Rank
  <1>3. \A k \in 1 .. Cardinality(P) : \E i \in P : Rank(P, i) = k
    <2> DEFINE C == 1 .. Cardinality(P)
               f == [i \in P |-> Rank(P, i)]
    <2>1. Cardinality(P) \in Nat BY PositionsFinite
    <2>2. IsFiniteSet(C) /\ Cardinality(C) = Cardinality(P) BY <2>1, FS_Interval
    <2>3. f \in [P -> C] BY <1>1
    <2>4. \A i, j \in P : i # j => f[i] # f[j]
      <3>1. ASSUME NEW i \in P, NEW j \in P, i # j PROVE Rank(P, i) # Rank(P, j)
        <4>1. i < j \/ j < i BY <1>p, <3>1
        <4>2. Rank(P, i) \in Int /\ Rank(P, j) \in Int BY <1>i
        <4> QED BY <1>2, <4>1, <4>2
      <3> QED BY <3>1
    <2>5. f \in Injection(P, C) BY <2>3, <2>4 DEF Injection, IsInjective
    <2>6. f \in Surjection(P, C)
      <3> HIDE DEF f, C
      <3> QED BY <2>2, <2>5, FS_Injection
    <2> QED BY <2>6 DEF Surjection
  <1>4. ASSUME n \in P PROVE Rank(P, n) = Cardinality(P)
    <2>1. {j \in P : j <= n} = P BY <1>p
    <2> QED BY <2>1 DEF Rank
  <1> QED BY <1>1, <1>2, <1>3, <1>4

\* The positions of the entries younger than e are counted.
LEMMA CountType ==
    ASSUME NEW a \in Seq(Nat), NEW e
    PROVE  /\ Under(a, e) \in SUBSET (1 .. Len(a)) /\ Len(a) \in Nat
           /\ IsFiniteSet(Under(a, e)) /\ Count(a, e) \in Nat
  <1>1. Len(a) \in Nat /\ DOMAIN a = 1 .. Len(a) BY LenProperties
  <1>2. Under(a, e) \in SUBSET (1 .. Len(a)) BY <1>1 DEF Under
  <1> QED BY <1>1, <1>2, PositionsFinite DEF Count

\* The entries that are kept stand at the old positions p[1], p[2], ...: each of them once.
LEMMA YoungerPositions ==
    ASSUME NEW a \in Seq(Nat), NEW d \in Nat
    PROVE  \E p \in Bijection(1 .. Count(a, d), Under(a, d)) :
             /\ Younger(a, d) = [k \in 1 .. Count(a, d) |-> a[p[k]]]
             /\ Len(a) \in Under(a, d) => p[Count(a, d)] = Len(a)
  <1> DEFINE P == Under(a, d)
             C == 1 .. Count(a, d)
             p == [k \in C |-> CHOOSE i \in P : Rank(P, i) = k]
  <1>1. Len(a) \in Nat /\ P \in SUBSET (1 .. Len(a)) /\ Count(a, d) \in Nat BY CountType
  <1> HIDE DEF P
  <1>2. /\ \A i \in P : Rank(P, i) \in C
        /\ \A i, j \in P : i < j => Rank(P, i) < Rank(P, j)
        /\ \A k \in C : \E i \in P : Rank(P, i) = k
        /\ Len(a) \in P => Rank(P, Len(a)) = Count(a, d)
    BY <1>1, RankOrder DEF Count, P
  <1>3. \A i, j \in P : Rank(P, i) = Rank(P, j) => i = j
    <2> SUFFICES ASSUME NEW i \in P, NEW j \in P, Rank(P, i) = Rank(P, j) PROVE i = j
      OBVIOUS
    <2>1. i \in Int /\ j \in Int BY <1>1
    <2>2. Rank(P, i) \in Int BY <1>1, <1>2
    <2> QED BY <1>2, <2>1, <2>2
  <1>4. ASSUME NEW k \in C PROVE p[k] \in P /\ Rank(P, p[k]) = k
    BY <1>2
  <1>5. p \in [C -> P] BY <1>4
  <1>6. \A k, l \in C : p[k] = p[l] => k = l
    <2> HIDE DEF p
    <2> QED BY <1>4, Zenon
  <1>7. \A i \in P : \E k \in C : p[k] = i
    <2> HIDE DEF p, C
    <2> QED BY <1>2, <1>3, <1>4, Zenon
  <1>8. p \in Bijection(C, P)
    <2> HIDE DEF p, C
    <2>1. p \in Injection(C, P) BY <1>5, <1>6 DEF Injection, IsInjective
    <2>2. p \in Surjection(C, P) BY <1>5, <1>7 DEF Surjection
    <2> QED BY <2>1, <2>2 DEF Bijection
  <1>9. Younger(a, d) = [k \in C |-> a[p[k]]]
    BY DEF Younger, EntriesAt, Count, P
  <1>10. ASSUME Len(a) \in P PROVE p[Count(a, d)] = Len(a)
    <2>1. Rank(P, Len(a)) = Count(a, d) /\ Count(a, d) \in C BY <1>2, <1>10
    <2>2. p[Count(a, d)] \in P /\ Rank(P, p[Count(a, d)]) = Count(a, d) BY <1>4, <2>1
    <2> QED BY <1>3, <1>10, <2>1, <2>2
  <1> HIDE DEF p, C
  <1>11. \E q \in Bijection(C, P) : Younger(a, d) = [k \in C |-> a[q[k]]]
                                   /\ (Len(a) \in P => q[Count(a, d)] = Len(a))
    BY <1>8, <1>9, <1>10
  <1> QED BY <1>11 DEF P, C

\* Dropping the entries that are not younger than d keeps a list of ages, and the number of those
\* younger than e for every e up to d.
LEMMA YoungerCounts ==
    ASSUME NEW a \in Seq(Nat), NEW d \in Nat
    PROVE  /\ Younger(a, d) \in Seq(Nat) /\ Len(Younger(a, d)) = Count(a, d)
           /\ \A e \in 0 .. d : Count(Younger(a, d), e) = Count(a, e)
           /\ \A k \in 1 .. Len(Younger(a, d)) : Younger(a, d)[k] < d
  <1> DEFINE n == Count(a, d)
             P == Under(a, d)
             y == Younger(a, d)
  <1>1. PICK p \in Bijection(1 .. n, P) : y = [k \in 1 .. n |-> a[p[k]]]
    BY YoungerPositions
  <1>2. /\ p \in [1 .. n -> P] /\ \A k, l \in 1 .. n : p[k] = p[l] => k = l
        /\ \A i \in P : \E k \in 1 .. n : p[k] = i
    BY <1>1 DEF Bijection, Injection, Surjection, IsInjective
  <1>3. n \in Nat /\ P \in SUBSET (1 .. Len(a)) BY CountType
  <1>4. \A i \in P : a[i] \in Nat /\ a[i] < d BY <1>3, ElementOfSeq DEF Under
  <1> HIDE DEF n, y
  <1>5. y \in [1 .. n -> Nat] /\ \A k \in 1 .. n : y[k] < d
    <2> HIDE DEF P
    <2> QED BY <1>1, <1>2, <1>4
  <1>6. y \in Seq(Nat) /\ Len(y) = n /\ DOMAIN y = 1 .. n BY <1>3, <1>5
  <1>7. ASSUME NEW e \in 0 .. d PROVE Count(y, e) = Count(a, e)
    <2> DEFINE Y == Under(y, e)  A == Under(a, e)
               q == [k \in Y |-> p[k]]
    <2>1. Y = {k \in 1 .. n : a[p[k]] < e} BY <1>1, <1>6 DEF Under
    <2>2. A \subseteq P /\ A = {i \in P : a[i] < e}
      <3>1. \A i \in DOMAIN a : a[i] \in Nat BY LenProperties
      <3>2. \A i \in DOMAIN a : a[i] < e => a[i] < d BY <3>1
      <3> QED BY <3>2 DEF Under
    <2> HIDE DEF Y, A, P
    <2>3. q \in [Y -> A] /\ (\A k, l \in Y : q[k] = q[l] => k = l) /\ (\A i \in A : \E k \in Y : q[k] = i)
      BY <1>2, <2>1, <2>2
    <2> HIDE DEF q
    <2>4. q \in Bijection(Y, A) BY <2>3 DEF Bijection, Injection, Surjection, IsInjective
    <2>5. ExistsBijection(Y, A) BY <2>4 DEF ExistsBijection
    <2>6. IsFiniteSet(Y) BY <1>6, CountType DEF Y
    <2>7. Cardinality(A) = Cardinality(Y) BY <2>5, <2>6, FS_Bijection
    <2> QED BY <2>7 DEF Y, A, Count
  <1> QED BY <1>5, <1>6, <1>7 DEF n, y

\* No age is below 0; all entries, or none, are younger than d.
LEMMA CountExtremes ==
    ASSUME NEW a \in Seq(Nat)
    PROVE  /\ Count(a, 0) = 0
           /\ \A d : (\A k \in 1 .. Len(a) : a[k] < d) => Count(a, d) = Len(a)
           /\ \A d : (\A k \in 1 .. Len(a) : ~(a[k] < d)) => Count(a, d) = 0
  <1>1. Len(a) \in Nat /\ DOMAIN a = 1 .. Len(a) /\ \A k \in 1 .. Len(a) : a[k] \in Nat
    BY LenProperties
  <1>2. ASSUME NEW d, \A k \in 1 .. Len(a) : a[k] < d PROVE Count(a, d) = Len(a)
    <2>1. Under(a, d) = 1 .. Len(a) BY <1>1, <1>2 DEF Under
    <2> QED BY <1>1, <2>1, FS_Interval DEF Count
  <1>3. ASSUME NEW d, \A k \in 1 .. Len(a) : ~(a[k] < d) PROVE Count(a, d) = 0
    <2>1. Under(a, d) = {} BY <1>1, <1>3 DEF Under
    <2> QED BY <2>1, FS_EmptySet DEF Count
  <1>4. \A k \in 1 .. Len(a) : ~(a[k] < 0) BY <1>1
  <1> QED BY <1>2, <1>3, <1>4

\* A new entry counts once, and is the youngest.
LEMMA AppendCounts ==
    ASSUME NEW a \in Seq(Nat)
    PROVE  /\ Append(a, 0) \in Seq(Nat) /\ Len(Append(a, 0)) = Len(a) + 1 /\ YoungestLast(Append(a, 0))
           /\ \A e \in Nat \ {0} : Count(Append(a, 0), e) = Count(a, e) + 1
  <1> DEFINE b == Append(a, 0)
  <1>1. /\ b \in Seq(Nat) /\ Len(b) = Len(a) + 1 /\ Len(a) \in Nat
        /\ \A i \in 1 .. Len(a) : b[i] = a[i]
        /\ b[Len(a) + 1] = 0
    BY AppendProperties, LenProperties
  <1>2. DOMAIN a = 1 .. Len(a) /\ DOMAIN b = 1 .. Len(a) + 1 BY <1>1, LenProperties
  <1> HIDE DEF b
  <1>3. YoungestLast(b)
    <2>1. \A k \in 1 .. Len(b) : b[k] \in Nat BY <1>1, ElementOfSeq
    <2> QED BY <1>1, <2>1 DEF YoungestLast
  <1>4. ASSUME NEW e \in Nat \ {0} PROVE Count(b, e) = Count(a, e) + 1
    <2>1. Under(b, e) = Under(a, e) \cup {Len(a) + 1} /\ Len(a) + 1 \notin Under(a, e)
      BY <1>1, <1>2 DEF Under
    <2>2. IsFiniteSet(Under(a, e)) BY CountType
    <2> QED BY <2>1, <2>2, FS_AddElement DEF Count
  <1> QED BY <1>1, <1>3, <1>4 DEF b

\* After a tick, those younger than e + 1 are those that were younger than e.
LEMMA OlderCounts ==
    ASSUME NEW a \in Seq(Nat), NEW limit \in Nat
    PROVE  /\ Older(a, limit) \in Seq(Nat) /\ Len(Older(a, limit)) = Len(a)
           /\ \A e \in 0 .. limit : Count(Older(a, limit), e + 1) = Count(a, e)
           /\ YoungestLast(a) => YoungestLast(Older(a, limit))
  <1> DEFINE b == Older(a, limit)
  <1>1. Len(a) \in Nat /\ DOMAIN a = 1 .. Len(a) /\ \A k \in 1 .. Len(a) : a[k] \in Nat
    BY LenProperties
  <1>2. b = [k \in 1 .. Len(a) |-> IF a[k] > limit THEN a[k] ELSE a[k] + 1] BY <1>1 DEF Older
  <1> HIDE DEF b
  <1>3. ASSUME NEW k \in 1 .. Len(a)
        PROVE  b[k] \in Nat /\ b[k] = IF a[k] > limit THEN a[k] ELSE a[k] + 1
    BY <1>1, <1>2
  <1>4. b \in [1 .. Len(a) -> Nat] BY <1>2, <1>3
  <1>5. b \in Seq(Nat) /\ Len(b) = Len(a) /\ DOMAIN b = 1 .. Len(a) BY <1>1, <1>4
  <1>6. ASSUME NEW e \in 0 .. limit PROVE Count(b, e + 1) = Count(a, e)
    <2>1. \A k \in 1 .. Len(a) : b[k] < e + 1 <=> a[k] < e BY <1>1, <1>3
    <2>2. Under(b, e + 1) = Under(a, e) BY <1>1, <1>5, <2>1 DEF Under
    <2> QED BY <2>2 DEF Count
  <1>7. ASSUME YoungestLast(a) PROVE YoungestLast(b)
    BY <1>1, <1>3, <1>5, <1>7 DEF YoungestLast
  <1> QED BY <1>5, <1>6, <1>7 DEF b

\* The last entry is kept if any is, and stays the last.
LEMMA YoungerLast ==
    ASSUME NEW a \in Seq(Nat), NEW d \in Nat, YoungestLast(a)
    PROVE  YoungestLast(Younger(a, d))
  <1> DEFINE n == Count(a, d)
             P == Under(a, d)
             y == Younger(a, d)
  <1>1. PICK p \in Bijection(1 .. n, P) :
          y = [k \in 1 .. n |-> a[p[k]]] /\ (Len(a) \in P => p[n] = Len(a))
    BY YoungerPositions
  <1>2. p \in [1 .. n -> P] BY <1>1 DEF Bijection, Injection
  <1>3. n \in Nat /\ P \in SUBSET (1 .. Len(a)) /\ Len(a) \in Nat /\ DOMAIN a = 1 .. Len(a)
        /\ \A k \in 1 .. Len(a) : a[k] \in Nat
    BY CountType, LenProperties
  <1>4. Len(y) = n BY YoungerCounts
  <1>5. ASSUME NEW k \in 1 .. n PROVE y[n] <= y[k]
    <2> HIDE DEF n
    <2>1. p[k] \in P BY <1>2
    <2>2. a[p[k]] < d /\ p[k] \in 1 .. Len(a) BY <1>3, <2>1 DEF Under
    <2>3. a[Len(a)] <= a[p[k]] BY <2>2 DEF YoungestLast
    <2>4. Len(a) \in 1 .. Len(a) BY <1>3, <2>2
    <2>5. a[Len(a)] < d BY <1>3, <2>2, <2>3, <2>4
    <2>6. Len(a) \in P BY <1>3, <2>4, <2>5 DEF Under
    <2>7. p[n] = Len(a) /\ n \in 1 .. n BY <1>1, <1>3, <2>6
    <2>8. y[n] = a[Len(a)] /\ y[k] = a[p[k]]
      <3> HIDE DEF y, P
      <3> QED BY <1>1, <2>7
    <2> QED BY <2>3, <2>8
  <1> QED BY <1>4, <1>5 DEF YoungestLast

\* The filter drops no entry that a grant corresponds to, and its length counts the grants.
LEMMA RemembersFiltered ==
    ASSUME NEW a \in Seq(Nat), NEW g \in Seq(Nat), NEW d \in Nat, Remembers(a, g, d)
    PROVE  Remembers(Younger(a, d), g, d) /\ Len(Younger(a, d)) = Len(g)
  <1>1. d \in 0 .. d OBVIOUS
  <1>2. /\ Len(Younger(a, d)) = Count(a, d)
        /\ \A e \in 0 .. d : Count(Younger(a, d), e) = Count(a, e)
    BY YoungerCounts
  <1>3. Count(g, d) = Len(g) BY CountExtremes DEF Remembers
  <1> QED BY <1>1, <1>2, <1>3 DEF Remembers

\* A grant: the filtered list and the grants get the same new entry.
LEMMA RemembersGrant ==
    ASSUME NEW a \in Seq(Nat), NEW g \in Seq(Nat), NEW d \in Nat \ {0}, Remembers(a, g, d)
    PROVE  Remembers(Append(Younger(a, d), 0), Append(g, 0), d)
  <1> DEFINE c == Younger(a, d)
  <1>1. c \in Seq(Nat) /\ Remembers(c, g, d) BY YoungerCounts, RemembersFiltered
  <1> HIDE DEF c
  <1>2. /\ Append(c, 0) \in Seq(Nat) /\ Append(g, 0) \in Seq(Nat)
        /\ \A e \in Nat \ {0} : Count(Append(c, 0), e) = Count(c, e) + 1
                                /\ Count(Append(g, 0), e) = Count(g, e) + 1
    BY <1>1, AppendCounts
  <1>3. ASSUME NEW e \in 0 .. d PROVE Count(Append(g, 0), e) = Count(Append(c, 0), e)
    <2>1. CASE e = 0
      <3>1. Count(Append(g, 0), 0) = 0 /\ Count(Append(c, 0), 0) = 0 BY <1>2, CountExtremes
      <3> QED BY <2>1, <3>1
    <2>2. CASE e # 0
      <3>1. e \in Nat \ {0} BY <2>2
      <3>2. Count(g, e) = Count(c, e) BY <1>1 DEF Remembers
      <3> QED BY <1>2, <3>1, <3>2
    <2> QED BY <2>1, <2>2
  <1>4. \A k \in 1 .. Len(Append(g, 0)) : Append(g, 0)[k] < d
    BY <1>1, LenProperties, AppendProperties DEF Remembers
  <1> QED BY <1>3, <1>4 DEF Remembers, c

\* A tick makes both lists older, and the grants that are d ticks old are forgotten.
LEMMA RemembersTick ==
    ASSUME NEW a \in Seq(Nat), NEW g \in Seq(Nat), NEW d \in Nat, Remembers(a, g, d),
           NEW limit \in Nat, d <= limit
    PROVE  /\ Remembers(Older(a, limit), Younger(Older(g, limit), d), d)
           /\ Younger(Older(g, limit), d) \in Seq(Nat) /\ Len(Younger(Older(g, limit), d)) <= Len(g)
  <1> DEFINE b == Older(a, limit)  h == Older(g, limit)  y == Younger(h, d)
  <1>1. /\ b \in Seq(Nat) /\ h \in Seq(Nat) /\ Len(h) = Len(g)
        /\ \A e \in 0 .. limit : Count(b, e + 1) = Count(a, e) /\ Count(h, e + 1) = Count(g, e)
    BY OlderCounts
  <1> HIDE DEF b, h
  <1>2. /\ y \in Seq(Nat) /\ Len(y) = Count(h, d)
        /\ \A e \in 0 .. d : Count(y, e) = Count(h, e)
        /\ \A k \in 1 .. Len(y) : y[k] < d
    BY <1>1, YoungerCounts
  <1> HIDE DEF y
  <1>3. ASSUME NEW e \in 0 .. d PROVE Count(y, e) = Count(b, e)
    <2>1. CASE e = 0
      <3>1. Count(y, 0) = 0 /\ Count(b, 0) = 0 BY <1>1, <1>2, CountExtremes
      <3> QED BY <2>1, <3>1
    <2>2. CASE e # 0
      <3>1. PICK f \in 0 .. limit : f \in 0 .. d /\ e = f + 1
        <4>1. e - 1 \in 0 .. limit /\ e - 1 \in 0 .. d /\ e = (e - 1) + 1 BY <2>2
        <4> QED BY <4>1
      <3>2. Count(g, f) = Count(a, f) BY <3>1 DEF Remembers
      <3>3. Count(h, e) = Count(b, e) BY <1>1, <3>1, <3>2
      <3> QED BY <1>2, <3>3
    <2> QED BY <2>1, <2>2
  <1>4. Len(y) <= Len(g)
    <2>1. PICK n \in Nat : n = Len(g) BY LenProperties
    <2>2. IsFiniteSet(1 .. n) /\ Cardinality(1 .. n) = n BY FS_Interval
    <2>3. Under(h, d) \in SUBSET (1 .. n) BY <1>1, <2>1, CountType
    <2>4. Count(h, d) <= n BY <2>2, <2>3, FS_Subset DEF Count
    <2> QED BY <1>2, <2>1, <2>4
  <1> QED BY <1>2, <1>3, <1>4 DEF Remembers, b, h, y

\* If the youngest entry is too old to count, there is no grant that does.
LEMMA RemembersNothing ==
    ASSUME NEW a \in Seq(Nat), YoungestLast(a), NEW g \in Seq(Nat), NEW d \in Nat, Remembers(a, g, d),
           a # <<>>, ~(Last(a) < d)
    PROVE  g = <<>>
  <1>1. Len(a) \in Nat /\ Len(g) \in Nat /\ \A k \in 1 .. Len(a) : a[k] \in Nat
    BY LenProperties, ElementOfSeq
  <1>2. Len(a) \in 1 .. Len(a) BY <1>1, EmptySeq
  <1>3. \A k \in 1 .. Len(a) : ~(a[k] < d) BY <1>1, <1>2 DEF YoungestLast, Last
  <1>4. Count(a, d) = 0 BY <1>3, CountExtremes
  <1>5. Count(g, d) = Len(g) BY CountExtremes DEF Remembers
  <1>6. d \in 0 .. d OBVIOUS
  <1>7. Len(g) = 0 BY <1>4, <1>5, <1>6 DEF Remembers
  <1> QED BY <1>7, EmptySeq

-----------------------------------------------------------------------------
(* FlowControl: windows *)

\* A function on 1 .. n is a sequence of its own values.
LEMMA OwnRange ==
    ASSUME NEW W, NEW n \in Nat, W \in [1 .. n -> Range(W)]
    PROVE  W \in Seq(Range(W)) /\ Len(W) = n
  OBVIOUS

\* What the invariant says of the sequence of windows.
LEMMA WindowShape ==
    ASSUME FlowTypeOK
    PROVE  /\ Len(window) \in Nat /\ DOMAIN window = 1 .. Len(window)
           /\ window = [w \in 1 .. Len(window) |-> window[w]]
           /\ \A w \in 1 .. Len(window) : window[w].outstanding \in Int
  <1>1. window \in Seq(Range(window)) BY DEF FlowTypeOK
  <1>2. Len(window) \in Nat /\ DOMAIN window = 1 .. Len(window)
        /\ window \in [1 .. Len(window) -> Range(window)]
    BY <1>1, LenProperties
  <1> QED BY <1>2 DEF FlowTypeOK

\* The windows of a step that gives each window some record.
LEMMA WindowsKept ==
    ASSUME NEW n \in Nat, DOMAIN window' = 1 .. n, window' = [w \in 1 .. n |-> window'[w]],
           \A w \in 1 .. n : window'[w] \in [ages : {window'[w].ages}, outstanding : Int]
    PROVE  /\ window' \in Seq(Range(window')) /\ Len(window') = n
           /\ \A w \in 1 .. Len(window') : window'[w] \in [ages : {window'[w].ages}, outstanding : Int]
  <1>1. window' \in [1 .. n -> Range(window')] BY DEF Range
  <1>2. window' \in Seq(Range(window')) /\ Len(window') = n BY <1>1, OwnRange
  <1> QED BY <1>2

\* One window is replaced by another record.
Replaced(w) ==
    /\ DOMAIN window' = DOMAIN window
    /\ window' = [v \in DOMAIN window |-> window'[v]]
    /\ window'[w] \in [ages : {window'[w].ages}, outstanding : Int]
    /\ \A v \in DOMAIN window : v # w => window'[v] = window[v]

LEMMA WindowReplaced ==
    ASSUME FlowTypeOK, NEW w \in 1 .. Len(window), Replaced(w)
    PROVE  /\ window' \in Seq(Range(window')) /\ Len(window') = Len(window)
           /\ \A v \in 1 .. Len(window') : window'[v] \in [ages : {window'[v].ages}, outstanding : Int]
  <1>1. Len(window) \in Nat /\ DOMAIN window = 1 .. Len(window) BY WindowShape
  <1>2. ASSUME NEW v \in 1 .. Len(window)
        PROVE  window'[v] \in [ages : {window'[v].ages}, outstanding : Int]
    BY <1>1 DEF Replaced, FlowTypeOK
  <1> QED BY <1>1, <1>2, WindowsKept DEF Replaced

-----------------------------------------------------------------------------
(* FlowControl: counting *)

\* Granted requests can be counted.
LEMMA GrantedFinite ==
    ASSUME NEW s PROVE IsFiniteSet(Granted(s)) /\ Cardinality(Granted(s)) \in Nat
  <1>1. IsFiniteSet(Granted(s)) BY FlowAssumption, FS_Subset DEF Granted
  <1> QED BY <1>1, FS_CardinalityType

\* What the counter of a session's window says, 0 without a window.
Counter(s) == IF windowOf[s] = 0 THEN 0 ELSE window[windowOf[s]].outstanding

\* OutstandingExact, session by session.
LEMMA ExactEach ==
    OutstandingExact <=> \A s \in FlowSessions \ orphaned : Counter(s) = Cardinality(Granted(s))
  BY DEF OutstandingExact, Counter

LEMMA ExactEachNext ==
    ASSUME \A s \in FlowSessions \ orphaned' : Counter(s)' = Cardinality(Granted(s)')
    PROVE  OutstandingExact'
  BY DEF OutstandingExact, Counter

LEMMA FlowInitOK == FlowInit => FlowInv
  <1> SUFFICES ASSUME FlowInit PROVE FlowInv
    OBVIOUS
  <1>1. window = <<>> /\ Len(window) = 0 /\ windowOf = [s \in FlowSessions |-> 0]
        /\ requester = [r \in Requesters |-> Away]
    BY DEF FlowInit
  <1>2. FlowTypeOK BY <1>1 DEF FlowTypeOK, Away
  <1>3. OwnWindows /\ HeldWindows BY <1>1 DEF OwnWindows, HeldWindows, Away
  <1>4. \A s : Granted(s) = {} BY <1>1 DEF Granted, Away
  <1>5. OutstandingExact BY <1>1, <1>4, FS_EmptySet DEF OutstandingExact
  <1> QED BY <1>2, <1>3, <1>5 DEF FlowInv

-----------------------------------------------------------------------------
(* FlowControl: steps *)

\* Acquire's lookup, which may create the window.
LEMMA LookUpStep ==
    ASSUME FlowInv, NEW r \in Requesters, NEW s \in FlowSessions, LookUp(r, s)
    PROVE  FlowInv'
  <1>t. /\ FlowTypeOK /\ OwnWindows /\ HeldWindows /\ OutstandingExact
        /\ Len(window) \in Nat /\ DOMAIN window = 1 .. Len(window)
        /\ windowOf \in [FlowSessions -> 0 .. Len(window)]
    BY WindowShape DEF FlowInv, FlowTypeOK
  <1>q. /\ requester \in [Requesters -> [at : {"away", "held", "granted"}, session : SUBSET FlowSessions,
                                         win : Nat, tries : Nat]]
        /\ requester[r].at = "away"
    BY <1>t DEF FlowTypeOK, LookUp
  <1>v. PICK v \in Nat : v = IF windowOf[s] # 0 THEN windowOf[s] ELSE Len(window) + 1
    BY <1>t
  <1>w. /\ requester' = [requester EXCEPT ![r] = [at |-> "held", session |-> {s}, win |-> v, tries |-> 0]]
        /\ v = windowOf'[s] /\ orphaned' = orphaned
        /\ \/ windowOf[s] # 0 /\ v = windowOf[s] /\ windowOf' = windowOf /\ window' = window
           \/ /\ windowOf[s] = 0 /\ v = Len(window) + 1
              /\ window' = Append(window, [ages |-> <<>>, outstanding |-> 0])
              /\ windowOf' = [windowOf EXCEPT ![s] = v]
    <2>1. Len(Append(window, [ages |-> <<>>, outstanding |-> 0])) = Len(window) + 1
      BY <1>t DEF FlowTypeOK
    <2>2. \/ windowOf[s] # 0 /\ v = windowOf[s] /\ windowOf' = windowOf /\ window' = window
          \/ /\ windowOf[s] = 0 /\ v = Len(window) + 1
             /\ window' = Append(window, [ages |-> <<>>, outstanding |-> 0])
             /\ windowOf' = [windowOf EXCEPT ![s] = v]
      BY <1>v, <2>1 DEF LookUp
    <2>3. v = windowOf'[s] BY <1>t, <2>2
    <2> QED BY <2>2, <2>3 DEF LookUp
  <1>1. /\ window' \in Seq(Range(window')) /\ Len(window') \in Nat
        /\ Len(window) <= Len(window') /\ v \in 1 .. Len(window')
        /\ \A w \in 1 .. Len(window') : window'[w] \in [ages : {window'[w].ages}, outstanding : Int]
        /\ \A w \in 1 .. Len(window) : window'[w].outstanding = window[w].outstanding
        /\ windowOf[s] = 0 => window'[v].outstanding = 0
    <2>1. CASE windowOf[s] # 0 BY <1>t, <1>w, <2>1 DEF FlowTypeOK
    <2>2. CASE windowOf[s] = 0
      <3>1. DOMAIN window' = 1 .. v /\ window' = [w \in 1 .. v |-> window'[w]]
            /\ (\A w \in 1 .. Len(window) : window'[w] = window[w])
            /\ window'[v] = [ages |-> <<>>, outstanding |-> 0]
        BY <1>t, <1>w, <2>2 DEF FlowTypeOK
      <3>2. \A w \in 1 .. v : w \in 1 .. Len(window) \/ w = v BY <1>t, <1>w, <2>2
      <3>3. \A w \in 1 .. v : window'[w] \in [ages : {window'[w].ages}, outstanding : Int]
        BY <3>1, <3>2, <1>t DEF FlowTypeOK
      <3>4. Len(window') = v /\ window' \in Seq(Range(window'))
        BY <3>1, <3>3, WindowsKept
      <3> QED BY <1>t, <1>w, <2>2, <3>1, <3>3, <3>4
    <2> QED BY <2>1, <2>2
  <1>2. windowOf' \in [FlowSessions -> 0 .. Len(window')] BY <1>t, <1>w, <1>1
  <1>3. FlowTypeOK' BY <1>q, <1>w, <1>1, <1>2 DEF FlowTypeOK
  <1>4. OwnWindows' BY <1>t, <1>w DEF OwnWindows
  <1>5. HeldWindow(r, s)' BY <1>q, <1>t, <1>w, <1>1, <1>4 DEF HeldWindow, OwnWindows
  <1>6. ASSUME NEW q \in Requesters, NEW t \in FlowSessions, q # r, HeldWindow(q, t)
        PROVE  HeldWindow(q, t)'
    <2>1. requester'[q] = requester[q] BY <1>6, <1>q, <1>w
    <2> QED BY <1>6, <1>t, <1>w, <1>1, <2>1 DEF HeldWindow
  <1>7. HeldWindows'
    <2> SUFFICES ASSUME NEW q \in Requesters, requester'[q].at # "away"
                 PROVE  \E t \in FlowSessions : /\ requester'[q].session = {t}
                                                /\ requester'[q].at = "held" => HeldWindow(q, t)'
      BY DEF HeldWindows
    <2>1. CASE q = r BY <1>q, <1>w, <1>5, <2>1
    <2>2. CASE q # r
      <3>1. requester'[q] = requester[q] BY <2>2, <1>q, <1>w
      <3>2. PICK t \in FlowSessions : /\ requester[q].session = {t}
                                      /\ requester[q].at = "held" => HeldWindow(q, t)
        BY <1>t, <3>1 DEF HeldWindows
      <3> QED BY <1>6, <2>2, <3>1, <3>2
    <2> QED BY <2>1, <2>2
  <1>8. \A t : Granted(t)' = Granted(t) BY <1>q, <1>w DEF Granted
  <1>9. OutstandingExact'
    <2> SUFFICES ASSUME NEW t \in FlowSessions \ orphaned' PROVE Counter(t)' = Cardinality(Granted(t)')
      BY ExactEachNext
    <2>1. Counter(t) = Cardinality(Granted(t)) BY <1>t, <1>w, ExactEach
    <2>2. Counter(t)' = Counter(t) BY <1>t, <1>w, <1>1 DEF Counter
    <2> QED BY <1>8, <2>1, <2>2
  <1> QED BY <1>3, <1>4, <1>7, <1>9 DEF FlowInv

\* Steps that leave the map of windows alone, and by which a requester keeps what it holds or
\* goes away.
Keeping ==
    /\ windowOf' = windowOf /\ orphaned' = orphaned /\ Len(window') = Len(window)
    /\ \A q \in Requesters :
          \/ requester'[q].at = "away"
          \/ /\ requester[q].at # "away"
             /\ requester'[q].session = requester[q].session /\ requester'[q].win = requester[q].win
             /\ requester'[q].at = "held" => requester[q].at = "held"

LEMMA KeepingWindows ==
    ASSUME Keeping, OwnWindows, HeldWindows
    PROVE  OwnWindows' /\ HeldWindows'
  <1>1. OwnWindows' BY DEF Keeping, OwnWindows
  <1>2. ASSUME NEW q \in Requesters, requester'[q].at # "away"
        PROVE  \E t \in FlowSessions : /\ requester'[q].session = {t}
                                       /\ requester'[q].at = "held" => HeldWindow(q, t)'
    <2>1. PICK t \in FlowSessions : /\ requester[q].session = {t}
                                    /\ requester[q].at = "held" => HeldWindow(q, t)
      BY <1>2 DEF Keeping, HeldWindows
    <2>2. HeldWindow(q, t) => HeldWindow(q, t)' BY <1>2 DEF Keeping, HeldWindow
    <2> QED BY <1>2, <2>1, <2>2 DEF Keeping
  <1>3. HeldWindows' BY <1>2 DEF HeldWindows
  <1> QED BY <1>1, <1>3

\* tryAcquire has room: the window the Acquire holds counts one more.
LEMMA TryGrantsStep ==
    ASSUME FlowInv, NEW r \in Requesters, TryGrants(r)
    PROVE  FlowInv'
  <1>t. /\ FlowTypeOK /\ OwnWindows /\ HeldWindows /\ OutstandingExact
        /\ Len(window) \in Nat /\ windowOf \in [FlowSessions -> 0 .. Len(window)]
        /\ requester \in [Requesters -> [at : {"away", "held", "granted"}, session : SUBSET FlowSessions,
                                         win : Nat, tries : Nat]]
    BY WindowShape DEF FlowInv, FlowTypeOK
  <1>1. /\ requester[r].at = "held" /\ requester' = [requester EXCEPT ![r].at = "granted"]
        /\ windowOf' = windowOf /\ orphaned' = orphaned
    BY DEF TryGrants
  <1>2. PICK s \in FlowSessions : requester[r].session = {s} /\ HeldWindow(r, s)
    BY <1>t, <1>1 DEF HeldWindows
  <1>3. PICK w \in 1 .. Len(window), k \in Int : w = requester[r].win /\ k = window[w].outstanding + 1
    BY <1>2, <1>t, WindowShape DEF HeldWindow
  <1>4. PICK a : window' = [window EXCEPT ![w] = [ages |-> a, outstanding |-> k]]
    BY <1>3 DEF TryGrants
  <1>5. /\ window' \in Seq(Range(window')) /\ Len(window') = Len(window)
        /\ \A v \in 1 .. Len(window') : window'[v] \in [ages : {window'[v].ages}, outstanding : Int]
        /\ \A v \in 1 .. Len(window) :
             window'[v].outstanding = IF v = w THEN k ELSE window[v].outstanding
    <2>1. DOMAIN window = 1 .. Len(window) BY <1>t, WindowShape
    <2>2. Replaced(w) BY <1>3, <1>4, <2>1 DEF Replaced
    <2>3. \A v \in 1 .. Len(window) :
            window'[v].outstanding = IF v = w THEN k ELSE window[v].outstanding
      BY <1>4, <2>1
    <2> QED BY <1>t, <1>3, <2>2, <2>3, WindowReplaced
  <1>6. FlowTypeOK'
    <2>1. requester' \in [Requesters -> [at : {"away", "held", "granted"}, session : SUBSET FlowSessions,
                                         win : Nat, tries : Nat]]
      BY <1>t, <1>1
    <2> QED BY <1>t, <1>1, <1>5, <2>1 DEF FlowTypeOK
  <1>7. Keeping BY <1>t, <1>1, <1>5 DEF Keeping
  <1>8. OutstandingExact'
    <2> SUFFICES ASSUME NEW t \in FlowSessions \ orphaned' PROVE Counter(t)' = Cardinality(Granted(t)')
      BY ExactEachNext
    <2>1. Counter(t) = Cardinality(Granted(t)) BY <1>t, <1>1, ExactEach
    <2>2. CASE t = s
      <3>1. Granted(t)' = Granted(t) \cup {r} /\ r \notin Granted(t)
        BY <1>t, <1>1, <1>2, <2>2 DEF Granted
      <3>2. Cardinality(Granted(t)') = Cardinality(Granted(t)) + 1
        BY <3>1, GrantedFinite, FS_AddElement
      <3>3. windowOf[t] = w BY <1>1, <1>2, <1>3, <2>2 DEF HeldWindow
      <3>4. Counter(t) = k - 1 /\ Counter(t)' = k
        BY <1>t, <1>1, <1>3, <1>5, <3>3, WindowShape DEF Counter
      <3> QED BY <2>1, <3>2, <3>4
    <2>3. CASE t # s
      <3>1. Granted(t)' = Granted(t) BY <1>t, <1>1, <1>2, <2>3 DEF Granted
      <3>2. windowOf[t] # w BY <1>2, <1>3, <2>3 DEF HeldWindow
      <3>3. Counter(t)' = Counter(t) BY <1>t, <1>1, <1>5, <3>2 DEF Counter
      <3> QED BY <2>1, <3>1, <3>3
    <2> QED BY <2>2, <2>3
  <1> QED BY <1>t, <1>6, <1>7, <1>8, KeepingWindows DEF FlowInv

\* Release takes one off the counter of the window the session has now: the window that counted
\* it, as it was not dropped while it counted.
LEMMA ReleaseSlotStep ==
    ASSUME FlowInv, NEW r \in Requesters, ReleaseSlot(r)
    PROVE  FlowInv'
  <1>t. /\ FlowTypeOK /\ OwnWindows /\ HeldWindows /\ OutstandingExact
        /\ Len(window) \in Nat /\ windowOf \in [FlowSessions -> 0 .. Len(window)]
        /\ requester \in [Requesters -> [at : {"away", "held", "granted"}, session : SUBSET FlowSessions,
                                         win : Nat, tries : Nat]]
    BY WindowShape DEF FlowInv, FlowTypeOK
  <1>1. /\ requester[r].at = "granted" /\ requester' = [requester EXCEPT ![r] = Away]
        /\ windowOf' = windowOf /\ orphaned' = orphaned
    BY DEF ReleaseSlot
  <1>2. PICK s \in FlowSessions : requester[r].session = {s} BY <1>t, <1>1 DEF HeldWindows
  <1>3. IF windowOf[s] = 0 THEN UNCHANGED window
        ELSE window' = [window EXCEPT ![windowOf[s]].outstanding = @ - 1]
    BY <1>2 DEF ReleaseSlot
  <1>4. /\ window' \in Seq(Range(window')) /\ Len(window') = Len(window)
        /\ \A v \in 1 .. Len(window') : window'[v] \in [ages : {window'[v].ages}, outstanding : Int]
        /\ \A v \in 1 .. Len(window) :
             window'[v].outstanding = IF v = windowOf[s] THEN window[v].outstanding - 1
                                      ELSE window[v].outstanding
    <2>1. CASE windowOf[s] = 0 BY <1>t, <1>3, <2>1 DEF FlowTypeOK
    <2>2. CASE windowOf[s] # 0
      <3>1. PICK w \in 1 .. Len(window), k \in Int : w = windowOf[s] /\ k = window[w].outstanding - 1
        BY <1>t, <2>2, WindowShape
      <3>2. window' = [window EXCEPT ![w] = [ages |-> window[w].ages, outstanding |-> k]]
        BY <1>t, <1>3, <2>2, <3>1 DEF FlowTypeOK
      <3>3. /\ window' \in Seq(Range(window')) /\ Len(window') = Len(window)
            /\ \A v \in 1 .. Len(window') : window'[v] \in [ages : {window'[v].ages}, outstanding : Int]
            /\ \A v \in 1 .. Len(window) :
                 window'[v].outstanding = IF v = w THEN k ELSE window[v].outstanding
        <4>1. DOMAIN window = 1 .. Len(window) BY <1>t, WindowShape
        <4>2. Replaced(w) BY <3>1, <3>2, <4>1 DEF Replaced
        <4>3. \A v \in 1 .. Len(window) :
                window'[v].outstanding = IF v = w THEN k ELSE window[v].outstanding
          BY <3>2, <4>1
        <4> QED BY <1>t, <3>1, <4>2, <4>3, WindowReplaced
      <3> QED BY <3>1, <3>3
    <2> QED BY <2>1, <2>2
  <1>5. FlowTypeOK' BY <1>t, <1>1, <1>4 DEF FlowTypeOK, Away
  <1>6. Keeping BY <1>t, <1>1, <1>4 DEF Keeping, Away
  <1>7. OutstandingExact'
    <2> SUFFICES ASSUME NEW t \in FlowSessions \ orphaned' PROVE Counter(t)' = Cardinality(Granted(t)')
      BY ExactEachNext
    <2>1. Counter(t) = Cardinality(Granted(t)) BY <1>t, <1>1, ExactEach
    <2>2. CASE t = s
      <3>1. Granted(t)' = Granted(t) \ {r} /\ r \in Granted(t)
        BY <1>t, <1>1, <1>2, <2>2 DEF Granted, Away
      <3>2. Cardinality(Granted(t)') = Cardinality(Granted(t)) - 1
        BY <3>1, GrantedFinite, FS_RemoveElement
      <3>3. Cardinality(Granted(t)) # 0 BY <3>1, GrantedFinite, FS_EmptySet
      <3>4. windowOf[t] # 0 BY <2>1, <3>3 DEF Counter
      <3>5. Counter(t)' = Counter(t) - 1 BY <1>t, <1>1, <1>4, <2>2, <3>4 DEF Counter
      <3> QED BY <2>1, <3>2, <3>5
    <2>3. CASE t # s
      <3>1. Granted(t)' = Granted(t) BY <1>t, <1>1, <1>2, <2>3 DEF Granted, Away
      <3>2. windowOf[t] = 0 \/ windowOf[t] # windowOf[s] BY <1>t, <2>3 DEF OwnWindows
      <3>3. Counter(t)' = Counter(t) BY <1>t, <1>1, <1>4, <3>2 DEF Counter
      <3> QED BY <2>1, <3>1, <3>3
    <2> QED BY <2>2, <2>3
  <1> QED BY <1>t, <1>5, <1>6, <1>7, KeepingWindows DEF FlowInv

\* tryAcquire has no room, Acquire gives up, time passes: no counter changes.
LEMMA UncountedStep ==
    ASSUME FlowInv,
           \/ \E r \in Requesters : TryRefuses(r) \/ GiveUp(r)
           \/ Tick
           \/ \E s \in FlowSessions : CleanupPanics(s)
           \/ UNCHANGED flowVars
    PROVE  FlowInv'
  <1>t. /\ FlowTypeOK /\ OwnWindows /\ HeldWindows /\ OutstandingExact
        /\ Len(window) \in Nat /\ windowOf \in [FlowSessions -> 0 .. Len(window)]
        /\ DOMAIN window = 1 .. Len(window)
        /\ requester \in [Requesters -> [at : {"away", "held", "granted"}, session : SUBSET FlowSessions,
                                         win : Nat, tries : Nat]]
    BY WindowShape DEF FlowInv, FlowTypeOK
  <1>1. windowOf' = windowOf /\ orphaned' = orphaned
    BY DEF TryRefuses, GiveUp, Tick, CleanupPanics, flowVars
  <1>2. /\ window' \in Seq(Range(window')) /\ Len(window') = Len(window)
        /\ \A v \in 1 .. Len(window') : window'[v] \in [ages : {window'[v].ages}, outstanding : Int]
        /\ \A v \in 1 .. Len(window) : window'[v].outstanding = window[v].outstanding
    <2>1. CASE UNCHANGED window BY <1>t, <2>1 DEF FlowTypeOK
    <2>2. ASSUME NEW r \in Requesters, TryRefuses(r)
          PROVE  /\ window' \in Seq(Range(window')) /\ Len(window') = Len(window)
                 /\ \A v \in 1 .. Len(window') :
                      window'[v] \in [ages : {window'[v].ages}, outstanding : Int]
                 /\ \A v \in 1 .. Len(window) : window'[v].outstanding = window[v].outstanding
      <3>1. PICK w \in 1 .. Len(window), k \in Int : w = requester[r].win /\ k = window[w].outstanding
        BY <1>t, <2>2, WindowShape DEF HeldWindows, HeldWindow, TryRefuses
      <3>2. PICK a : window' = [window EXCEPT ![w].ages = a] BY <2>2, <3>1 DEF TryRefuses
      <3>3. window' = [window EXCEPT ![w] = [ages |-> a, outstanding |-> k]]
        <4>1. window[w] \in [ages : {window[w].ages}, outstanding : Int] BY <1>t, <3>1 DEF FlowTypeOK
        <4>2. [window[w] EXCEPT !.ages = a] = [ages |-> a, outstanding |-> k] BY <3>1, <4>1
        <4> QED BY <3>2, <4>2
      <3>4. /\ window' \in Seq(Range(window')) /\ Len(window') = Len(window)
            /\ \A v \in 1 .. Len(window') : window'[v] \in [ages : {window'[v].ages}, outstanding : Int]
            /\ \A v \in 1 .. Len(window) :
                 window'[v].outstanding = IF v = w THEN k ELSE window[v].outstanding
        <4>1. DOMAIN window = 1 .. Len(window) BY <1>t, WindowShape
        <4>2. Replaced(w) BY <3>1, <3>3, <4>1 DEF Replaced
        <4>3. \A v \in 1 .. Len(window) :
                window'[v].outstanding = IF v = w THEN k ELSE window[v].outstanding
          BY <3>3, <4>1
        <4> QED BY <1>t, <3>1, <4>2, <4>3, WindowReplaced
      <3> QED BY <3>1, <3>4
    <2>3. CASE Tick
      <3>1. DOMAIN window' = 1 .. Len(window) /\ window' = [v \in 1 .. Len(window) |-> window'[v]]
        BY <1>t, <2>3 DEF Tick
      <3>2. ASSUME NEW v \in 1 .. Len(window)
            PROVE  /\ window'[v] \in [ages : {window'[v].ages}, outstanding : Int]
                   /\ window'[v].outstanding = window[v].outstanding
        BY <1>t, <2>3 DEF Tick, FlowTypeOK
      <3> QED BY <1>t, <3>1, <3>2, WindowsKept
    <2> QED BY <2>1, <2>2, <2>3 DEF GiveUp, CleanupPanics, flowVars
  <1> DEFINE RequesterKept ==
        /\ requester' \in [Requesters -> [at : {"away", "held", "granted"}, session : SUBSET FlowSessions,
                                          win : Nat, tries : Nat]]
        /\ \A q \in Requesters :
             \/ requester'[q].at = "away" /\ requester[q].at # "granted"
             \/ /\ requester'[q].session = requester[q].session /\ requester'[q].win = requester[q].win
                /\ requester'[q].at = requester[q].at
  <1>3. RequesterKept
    <2>1. CASE UNCHANGED requester BY <1>t, <2>1
    <2>2. ASSUME NEW r \in Requesters, requester' = [requester EXCEPT ![r].tries = @ + 1] PROVE RequesterKept
      <3>1. PICK n \in Nat : n = requester[r].tries + 1 BY <1>t
      <3>2. requester' = [requester EXCEPT ![r].tries = n] BY <2>2, <3>1
      <3> QED BY <1>t, <3>2
    <2>3. ASSUME NEW r \in Requesters, requester[r].at = "held", requester' = [requester EXCEPT ![r] = Away]
          PROVE RequesterKept
      BY <1>t, <2>3 DEF Away
    <2> QED BY <2>1, <2>2, <2>3 DEF TryRefuses, GiveUp, Tick, CleanupPanics, flowVars
  <1>4. FlowTypeOK' BY <1>t, <1>1, <1>2, <1>3 DEF FlowTypeOK
  <1>5. Keeping BY <1>1, <1>2, <1>3 DEF Keeping
  <1>6. OutstandingExact'
    <2> SUFFICES ASSUME NEW t \in FlowSessions \ orphaned' PROVE Counter(t)' = Cardinality(Granted(t)')
      BY ExactEachNext
    <2>1. Counter(t) = Cardinality(Granted(t)) BY <1>t, <1>1, ExactEach
    <2>2. Granted(t)' = Granted(t) BY <1>3 DEF Granted
    <2>3. Counter(t)' = Counter(t) BY <1>t, <1>1, <1>2 DEF Counter
    <2> QED BY <2>1, <2>2, <2>3
  <1> QED BY <1>t, <1>4, <1>5, <1>6, KeepingWindows DEF FlowInv

\* Cleanup drops only windows that count nothing; one that an Acquire still holds makes its
\* session an orphan.
LEMMA CleanupStep ==
    ASSUME FlowInv, Cleanup
    PROVE  FlowInv'
  <1>t. /\ FlowTypeOK /\ OwnWindows /\ HeldWindows /\ OutstandingExact
        /\ Len(window) \in Nat /\ windowOf \in [FlowSessions -> 0 .. Len(window)]
    BY WindowShape DEF FlowInv, FlowTypeOK
  <1> DEFINE Old == {s \in FlowSessions : Quiet(s) /\ Last(window[windowOf[s]].ages) > MaxAge}
  <1>o. PICK old \in SUBSET FlowSessions : old = Old OBVIOUS
  <1>1. /\ \A s \in old : Quiet(s)
        /\ windowOf' = [s \in FlowSessions |-> IF s \in old THEN 0 ELSE windowOf[s]]
        /\ orphaned' = orphaned \cup {s \in old : Holding(s) # {}}
        /\ UNCHANGED <<window, requester>>
    BY <1>o DEF Cleanup
  <1> HIDE DEF Old
  <1>2. FlowTypeOK' BY <1>t, <1>1 DEF FlowTypeOK
  <1>3. OwnWindows' BY <1>t, <1>1 DEF OwnWindows
  <1>4. ASSUME NEW q \in Requesters, NEW t \in FlowSessions, requester[q].at = "held", HeldWindow(q, t)
        PROVE  HeldWindow(q, t)'
    <2>1. \A u \in FlowSessions : windowOf'[u] = requester'[q].win => u = t
      BY <1>t, <1>1, <1>4 DEF HeldWindow
    <2>2. ASSUME t \notin orphaned' PROVE windowOf'[t] = requester'[q].win
      <3>1. t \notin orphaned /\ windowOf[t] = requester[q].win BY <1>1, <1>4, <2>2 DEF HeldWindow
      <3>2. q \in Holding(t) BY <1>4, <3>1 DEF Holding
      <3>3. t \notin old BY <1>1, <2>2, <3>2
      <3> QED BY <1>1, <3>1, <3>3
    <2> QED BY <1>1, <1>4, <2>1, <2>2 DEF HeldWindow
  <1>5. HeldWindows'
    <2> SUFFICES ASSUME NEW q \in Requesters, requester'[q].at # "away"
                 PROVE  \E t \in FlowSessions : /\ requester'[q].session = {t}
                                                /\ requester'[q].at = "held" => HeldWindow(q, t)'
      BY DEF HeldWindows
    <2>1. PICK t \in FlowSessions : /\ requester[q].session = {t}
                                    /\ requester[q].at = "held" => HeldWindow(q, t)
      BY <1>t, <1>1 DEF HeldWindows
    <2> QED BY <1>1, <1>4, <2>1
  <1>6. OutstandingExact'
    <2> SUFFICES ASSUME NEW t \in FlowSessions \ orphaned' PROVE Counter(t)' = Cardinality(Granted(t)')
      BY ExactEachNext
    <2>1. Counter(t) = Cardinality(Granted(t)) BY <1>t, <1>1, ExactEach
    <2>2. Granted(t)' = Granted(t) BY <1>1 DEF Granted
    <2>3. Counter(t)' = Counter(t) BY <1>t, <1>1 DEF Counter, Quiet
    <2> QED BY <2>1, <2>2, <2>3
  <1> QED BY <1>2, <1>3, <1>5, <1>6 DEF FlowInv

-----------------------------------------------------------------------------
(* FlowControl: the rate *)

\* A list of ages that remembers grants.
Recall(a, g) == a \in Seq(Nat) /\ YoungestLast(a) /\ g \in Seq(Nat) /\ Remembers(a, g, WindowSize)

\* tryAcquire's filter keeps a list of ages, the youngest last, and what it remembers.
LEMMA RecallRecent ==
    ASSUME NEW a \in Seq(Nat), YoungestLast(a)
    PROVE  /\ Recent(a) \in Seq(Nat) /\ YoungestLast(Recent(a))
           /\ \A g : Recall(a, g) => Recall(Recent(a), g) /\ Len(Recent(a)) = Len(g)
  <1>1. WindowSize \in Nat BY FlowAssumption
  <1>2. Recent(a) \in Seq(Nat) /\ YoungestLast(Recent(a)) BY <1>1, YoungerCounts, YoungerLast DEF Recent
  <1> QED BY <1>1, <1>2, RemembersFiltered DEF Recall, Recent

\* A grant leaves as many as the filtered list had, and one.
LEMMA RecallGrant ==
    ASSUME NEW a, NEW g, Recall(a, g), Len(Recent(a)) < MaxOutstanding
    PROVE  Recall(Append(Recent(a), 0), Append(g, 0)) /\ Len(Append(g, 0)) <= MaxOutstanding
  <1>1. /\ a \in Seq(Nat) /\ g \in Seq(Nat) /\ Len(g) \in Nat /\ Remembers(a, g, WindowSize)
        /\ WindowSize \in Nat \ {0} /\ MaxOutstanding \in Nat
    BY FlowAssumption, LenProperties DEF Recall
  <1>2. Remembers(Append(Recent(a), 0), Append(g, 0), WindowSize) BY <1>1, RemembersGrant DEF Recent
  <1>3. Recent(a) \in Seq(Nat) /\ Len(Recent(a)) = Len(g) BY RecallRecent DEF Recall
  <1>4. /\ Append(Recent(a), 0) \in Seq(Nat) /\ YoungestLast(Append(Recent(a), 0))
        /\ Append(g, 0) \in Seq(Nat) /\ Len(Append(g, 0)) = Len(g) + 1
    BY <1>1, <1>3, AppendCounts
  <1>5. Len(Append(g, 0)) <= MaxOutstanding BY <1>1, <1>3, <1>4
  <1> QED BY <1>2, <1>4, <1>5 DEF Recall

\* What the invariant says of one session.
RememberedOf(s) ==
    IF windowOf[s] = 0 THEN grants[s] = <<>> ELSE Recall(window[windowOf[s]].ages, grants[s])

\* So it says of every session.
LEMMA RememberedEach ==
    ASSUME FlowTypeOK, AgesTypeOK, GrantsRemembered, NEW s \in FlowSessions \ orphaned
    PROVE  RememberedOf(s)
  <1>1. windowOf[s] \in 0 .. Len(window) /\ Len(window) \in Nat BY WindowShape DEF FlowTypeOK
  <1> QED BY <1>1 DEF AgesTypeOK, GrantsRemembered, RememberedOf, Recall

\* And so it is shown after a step.
LEMMA RememberedNext ==
    ASSUME AgesTypeOK', \A s \in FlowSessions \ orphaned' : RememberedOf(s)'
    PROVE  GrantsRemembered'
  BY DEF GrantsRemembered, RememberedOf, Recall

\* Initially there is neither a window nor a grant.
LEMMA RateInitOK == FlowInit => RateInv
  <1> SUFFICES ASSUME FlowInit PROVE RateInv OBVIOUS
  <1>1. FlowInv BY FlowInitOK
  <1>2. \A s \in FlowSessions : grants[s] = <<>> /\ windowOf[s] = 0 BY DEF FlowInit
  <1>3. AgesTypeOK /\ RateBound
    <2>1. Len(<<>>) = 0 /\ <<>> \in Seq(Nat) BY EmptySeq
    <2> QED BY <1>2, <2>1, FlowAssumption DEF FlowInit, AgesTypeOK, RateBound
  <1>4. GrantsRemembered BY <1>2 DEF GrantsRemembered
  <1> QED BY <1>1, <1>3, <1>4 DEF RateInv

\* Steps that change no list of ages and drop no window.
LEMMA AgesKept ==
    ASSUME RateInv, FlowInv', UNCHANGED <<windowOf, grants, orphaned>>, Len(window') = Len(window),
           \A w \in 1 .. Len(window) : window'[w].ages = window[w].ages
    PROVE  RateInv'
  <1>t. FlowTypeOK /\ AgesTypeOK /\ GrantsRemembered /\ RateBound BY DEF RateInv, FlowInv
  <1>0. \A s \in FlowSessions : windowOf[s] \in 0 .. Len(window) BY <1>t DEF FlowTypeOK
  <1>n. Len(window) \in Nat BY <1>t, WindowShape
  <1>1. AgesTypeOK' BY <1>t DEF AgesTypeOK
  <1>2. GrantsRemembered' BY <1>t, <1>0, <1>n DEF GrantsRemembered
  <1>3. RateBound' BY <1>t DEF RateBound
  <1> QED BY <1>1, <1>2, <1>3 DEF RateInv

\* Steps that give the window an Acquire holds another list, and its session other grants.
LEMMA AgesReplaced ==
    ASSUME RateInv, FlowInv', NEW r \in Requesters, NEW s \in FlowSessions, HeldWindow(r, s),
           NEW w, w = requester[r].win, UNCHANGED <<windowOf, orphaned>>, Len(window') = Len(window),
           \A v \in 1 .. Len(window) : v # w => window'[v].ages = window[v].ages,
           NEW a \in Seq(Nat), YoungestLast(a), window'[w].ages = a,
           NEW g \in Seq(Nat), grants' = [grants EXCEPT ![s] = g],
           s \notin orphaned => Recall(a, g) /\ Len(g) <= MaxOutstanding
    PROVE  RateInv'
  <1>t. FlowTypeOK /\ AgesTypeOK /\ GrantsRemembered /\ RateBound BY DEF RateInv, FlowInv
  <1>0. \A t \in FlowSessions : windowOf[t] \in 0 .. Len(window) BY <1>t DEF FlowTypeOK
  <1>n. Len(window) \in Nat /\ w \in 1 .. Len(window) BY <1>t, WindowShape DEF HeldWindow
  <1>g. grants \in [FlowSessions -> Seq(Nat)] BY <1>t DEF AgesTypeOK
  <1>1. AgesTypeOK'
    <2>1. grants' \in [FlowSessions -> Seq(Nat)] BY <1>g
    <2>2. ASSUME NEW v \in 1 .. Len(window')
          PROVE  window'[v].ages \in Seq(Nat) /\ YoungestLast(window'[v].ages)
      BY <1>t DEF AgesTypeOK
    <2> QED BY <2>1, <2>2 DEF AgesTypeOK
  <1>2. ASSUME NEW t \in FlowSessions \ orphaned' PROVE RememberedOf(t)' /\ Len(grants'[t]) <= MaxOutstanding
    <2>1. RememberedOf(t) /\ Len(grants[t]) <= MaxOutstanding BY <1>t, RememberedEach DEF RateBound
    <2>2. CASE t = s
      <3>1. windowOf[t] = w /\ w # 0 BY <1>n, <2>2 DEF HeldWindow
      <3> QED BY <1>g, <2>2, <3>1 DEF RememberedOf
    <2>3. CASE t # s
      <3>1. windowOf[t] # w BY <2>3 DEF HeldWindow
      <3>2. grants'[t] = grants[t] BY <1>g, <2>3
      <3>3. windowOf[t] # 0 => windowOf[t] \in 1 .. Len(window) BY <1>0, <1>n
      <3> QED BY <2>1, <3>1, <3>2, <3>3 DEF RememberedOf
    <2> QED BY <2>2, <2>3
  <1>3. GrantsRemembered' BY <1>1, <1>2, RememberedNext
  <1>4. RateBound' BY <1>2 DEF RateBound
  <1> QED BY <1>1, <1>3, <1>4 DEF RateInv

\* tryAcquire has room or has not: its window's list is filtered, and remembers the same grants.
LEMMA TryRemembers ==
    ASSUME RateInv, FlowInv', NEW r \in Requesters, TryGrants(r) \/ TryRefuses(r)
    PROVE  RateInv'
  <1>t. /\ FlowTypeOK /\ HeldWindows /\ AgesTypeOK /\ GrantsRemembered /\ RateBound
        /\ grants \in [FlowSessions -> Seq(Nat)]
    BY DEF RateInv, FlowInv, AgesTypeOK
  <1>1. PICK s \in FlowSessions : requester[r].session = {s} /\ HeldWindow(r, s)
    BY <1>t DEF HeldWindows, TryGrants, TryRefuses
  <1>2. PICK w \in 1 .. Len(window) : w = requester[r].win BY <1>1 DEF HeldWindow
  <1>3. PICK a : a = window[w].ages OBVIOUS
  <1>4. a \in Seq(Nat) /\ YoungestLast(a) BY <1>t, <1>3 DEF AgesTypeOK
  <1>5. s \notin orphaned => Recall(a, grants[s]) /\ Len(grants[s]) <= MaxOutstanding
    <2> SUFFICES ASSUME s \notin orphaned PROVE Recall(a, grants[s]) /\ Len(grants[s]) <= MaxOutstanding
      OBVIOUS
    <2>1. RememberedOf(s) /\ windowOf[s] = w /\ w # 0
      BY <1>t, <1>1, <1>2, RememberedEach DEF HeldWindow
    <2> QED BY <1>t, <1>3, <2>1 DEF RememberedOf, RateBound
  <1>6. Recent(a) \in Seq(Nat) /\ YoungestLast(Recent(a)) BY <1>4, RecallRecent
  <1>7. DOMAIN window = 1 .. Len(window) /\ window[w] \in [ages : {window[w].ages}, outstanding : Int]
        /\ Len(window) \in Nat
    BY <1>t, <1>2, WindowShape DEF FlowTypeOK
  <1>8. CASE TryGrants(r)
    <2> DEFINE b == Append(Recent(a), 0)  g == Append(grants[s], 0)
    <2>1. PICK k : window' = [window EXCEPT ![w] = [ages |-> b, outstanding |-> k]]
      BY <1>2, <1>3, <1>8 DEF TryGrants
    <2>2. /\ window'[w].ages = b /\ Len(window') = Len(window)
          /\ \A v \in 1 .. Len(window) : v # w => window'[v].ages = window[v].ages
      <3> HIDE DEF b
      <3>1. DOMAIN window' = 1 .. Len(window) BY <1>7, <2>1
      <3>2. Len(window') = Len(window)
        <4>1. window' \in Seq(Range(window')) BY DEF FlowInv, FlowTypeOK
        <4>2. Len(window') \in Nat /\ DOMAIN window' = 1 .. Len(window') BY <4>1, LenProperties
        <4> QED BY <1>7, <3>1, <4>2
      <3> QED BY <1>2, <1>7, <2>1, <3>2
    <2>3. grants' = [grants EXCEPT ![s] = g]
      BY <1>t, <1>1, <1>8 DEF TryGrants
    <2>4. b \in Seq(Nat) /\ YoungestLast(b) BY <1>6, AppendCounts
    <2>5. g \in Seq(Nat) BY <1>t, AppendProperties
    <2>6. s \notin orphaned => Recall(b, g) /\ Len(g) <= MaxOutstanding
      <3>1. Len(Recent(a)) < MaxOutstanding BY <1>2, <1>3, <1>8 DEF TryGrants
      <3> QED BY <1>5, <3>1, RecallGrant
    <2>7. UNCHANGED <<windowOf, orphaned>> BY <1>8 DEF TryGrants
    <2> HIDE DEF b, g
    <2> QED BY <1>1, <1>2, <2>2, <2>3, <2>4, <2>5, <2>6, <2>7, AgesReplaced
  <1>9. CASE TryRefuses(r)
    <2>1. window' = [window EXCEPT ![w].ages = Recent(a)] BY <1>2, <1>3, <1>9 DEF TryRefuses
    <2>2. /\ window'[w].ages = Recent(a) /\ Len(window') = Len(window)
          /\ \A v \in 1 .. Len(window) : v # w => window'[v].ages = window[v].ages
      <3>1. DOMAIN window' = 1 .. Len(window) BY <1>7, <2>1
      <3>2. Len(window') = Len(window)
        <4>1. window' \in Seq(Range(window')) BY DEF FlowInv, FlowTypeOK
        <4>2. Len(window') \in Nat /\ DOMAIN window' = 1 .. Len(window') BY <4>1, LenProperties
        <4> QED BY <1>7, <3>1, <4>2
      <3> QED BY <1>2, <1>7, <2>1, <3>2
    <2>3. grants' = [grants EXCEPT ![s] = grants[s]] /\ grants[s] \in Seq(Nat)
      BY <1>t, <1>9 DEF TryRefuses
    <2>4. s \notin orphaned => Recall(Recent(a), grants[s]) /\ Len(grants[s]) <= MaxOutstanding
      BY <1>4, <1>5, RecallRecent
    <2>5. UNCHANGED <<windowOf, orphaned>> BY <1>9 DEF TryRefuses
    <2>6. PICK b, g : b = Recent(a) /\ g = grants[s] OBVIOUS
    <2>7. /\ b \in Seq(Nat) /\ YoungestLast(b) /\ window'[w].ages = b
          /\ g \in Seq(Nat) /\ grants' = [grants EXCEPT ![s] = g]
          /\ s \notin orphaned => Recall(b, g) /\ Len(g) <= MaxOutstanding
      BY ONLY <1>6, <2>2, <2>3, <2>4, <2>6
    <2> QED BY <1>1, <1>2, <2>2, <2>5, <2>7, AgesReplaced
  <1> QED BY <1>8, <1>9

\* A new window remembers nothing, and a session without one had no grant within WindowSize.
LEMMA LookUpRemembers ==
    ASSUME RateInv, FlowInv', NEW r \in Requesters, NEW s \in FlowSessions, LookUp(r, s)
    PROVE  RateInv'
  <1>t. /\ FlowTypeOK /\ AgesTypeOK /\ GrantsRemembered /\ RateBound
        /\ window \in Seq(Range(window)) /\ windowOf \in [FlowSessions -> 0 .. Len(window)]
        /\ grants' = grants /\ orphaned' = orphaned
    BY DEF RateInv, FlowInv, AgesTypeOK, FlowTypeOK, LookUp
  <1>n. Len(window) \in Nat BY <1>t, WindowShape
  <1>1. CASE windowOf[s] # 0
    BY <1>t, <1>1, AgesKept DEF LookUp
  <1>2. CASE windowOf[s] = 0
    <2> DEFINE n == Len(window) + 1
    <2>1. /\ Len(window') = n /\ window'[n].ages = <<>>
          /\ \A w \in 1 .. Len(window) : window'[w] = window[w]
      <3>1. PICK x : x = [ages |-> <<>>, outstanding |-> 0] OBVIOUS
      <3>2. window' = Append(window, x) BY <1>2, <3>1 DEF LookUp
      <3>3. PICK S : window \in Seq(S) /\ x \in S
        <4>1. PICK S : S = Range(window) \cup {x} OBVIOUS
        <4>2. \A i \in 1 .. Len(window) : window[i] \in S BY <1>t, <4>1, ElementOfSeq
        <4>3. window \in Seq(S) BY <1>t, <4>2, SeqDef, WindowShape
        <4> QED BY <4>1, <4>3
      <3>4. /\ Len(window') = n /\ window'[n] = x
            /\ \A w \in 1 .. Len(window) : window'[w] = window[w]
        BY ONLY <3>2, <3>3, AppendProperties
      <3> QED BY <3>1, <3>4
    <2>2. windowOf' = [windowOf EXCEPT ![s] = n] BY <1>2, <2>1 DEF LookUp
    <2>3. <<>> \in Seq(Nat) /\ YoungestLast(<<>>)
      <3>1. Len(<<>>) = 0 /\ <<>> \in Seq(Nat) BY EmptySeq
      <3> QED BY <3>1 DEF YoungestLast
    <2>4. AgesTypeOK'
      <3>1. \A w \in 1 .. n : w \in 1 .. Len(window) \/ w = n BY <1>n
      <3>2. ASSUME NEW w \in 1 .. Len(window') PROVE window'[w].ages \in Seq(Nat) /\ YoungestLast(window'[w].ages)
        BY <1>t, <2>1, <2>3, <3>1 DEF AgesTypeOK
      <3> QED BY <1>t, <3>2 DEF AgesTypeOK
    <2>5. ASSUME NEW t \in FlowSessions \ orphaned' PROVE RememberedOf(t)'
      <3>1. RememberedOf(t) BY <1>t, RememberedEach
      <3>2. CASE t = s
        <4>1. grants'[t] = <<>> BY <1>t, <1>2, <3>1, <3>2 DEF RememberedOf
        <4>2. windowOf'[t] = n /\ n # 0 BY <1>t, <1>n, <2>2, <3>2
        <4>3. Recall(<<>>, <<>>)
          <5>1. Len(<<>>) = 0 BY EmptySeq
          <5> QED BY <2>3, <5>1 DEF Recall, Remembers
        <4> QED BY <2>1, <4>1, <4>2, <4>3 DEF RememberedOf
      <3>3. CASE t # s
        <4>1. windowOf'[t] = windowOf[t] /\ windowOf[t] \in 0 .. Len(window) BY <1>t, <2>2, <3>3
        <4> QED BY <1>t, <1>n, <2>1, <3>1, <4>1 DEF RememberedOf
      <3> QED BY <3>2, <3>3
    <2>6. GrantsRemembered' BY <2>4, <2>5, RememberedNext
    <2>7. RateBound' BY <1>t DEF RateBound
    <2> QED BY <2>4, <2>6, <2>7 DEF RateInv
  <1> QED BY <1>1, <1>2

\* Cleanup drops a window only when no grant is within WindowSize: MaxAge is not below it.
LEMMA CleanupRemembers ==
    ASSUME RateInv, FlowInv', Cleanup
    PROVE  RateInv'
  <1>t. /\ FlowTypeOK /\ AgesTypeOK /\ GrantsRemembered /\ RateBound
        /\ windowOf \in [FlowSessions -> 0 .. Len(window)]
    BY DEF RateInv, FlowInv, FlowTypeOK
  <1>1. PICK old \in SUBSET FlowSessions :
          old = {s \in FlowSessions : Quiet(s) /\ Last(window[windowOf[s]].ages) > MaxAge}
    OBVIOUS
  <1>2. /\ windowOf' = [s \in FlowSessions |-> IF s \in old THEN 0 ELSE windowOf[s]]
        /\ orphaned \subseteq orphaned' /\ window' = window /\ grants' = grants
    BY <1>1 DEF Cleanup
  <1>3. AgesTypeOK' BY <1>t, <1>2 DEF AgesTypeOK
  <1>4. ASSUME NEW t \in FlowSessions \ orphaned' PROVE RememberedOf(t)'
    <2>1. RememberedOf(t) BY <1>t, <1>2, RememberedEach
    <2>2. CASE t \in old
      <3>1. PICK a : a = window[windowOf[t]].ages OBVIOUS
      <3>2. Recall(a, grants[t]) /\ a # <<>> /\ Last(a) > MaxAge
        BY <1>1, <2>1, <2>2, <3>1 DEF RememberedOf, Quiet
      <3>3. grants[t] = <<>>
        <4>1. Last(a) \in Nat
          <5>1. Len(a) \in 1 .. Len(a) BY <3>2, LenProperties, EmptySeq DEF Recall
          <5> QED BY <3>2, <5>1, ElementOfSeq DEF Recall, Last
        <4>2. WindowSize \in Nat /\ ~(Last(a) < WindowSize) BY <3>2, <4>1, FlowAssumption
        <4> QED BY <3>2, <4>2, RemembersNothing DEF Recall
      <3> QED BY <1>2, <2>2, <3>3 DEF RememberedOf
    <2>3. CASE t \notin old BY <1>2, <2>1, <2>3 DEF RememberedOf
    <2> QED BY <2>2, <2>3
  <1>5. GrantsRemembered' BY <1>3, <1>4, RememberedNext
  <1>6. RateBound' BY <1>t, <1>2 DEF RateBound
  <1> QED BY <1>3, <1>5, <1>6 DEF RateInv

\* A tick makes every list older alike.
LEMMA TickRemembers ==
    ASSUME RateInv, FlowInv', Tick
    PROVE  RateInv'
  <1>t. /\ FlowTypeOK /\ AgesTypeOK /\ GrantsRemembered /\ RateBound
        /\ windowOf \in [FlowSessions -> 0 .. Len(window)]
        /\ grants \in [FlowSessions -> Seq(Nat)]
    BY DEF RateInv, FlowInv, FlowTypeOK, AgesTypeOK
  <1>0. /\ Len(window) \in Nat /\ DOMAIN window = 1 .. Len(window) BY <1>t, WindowShape
  <1>a. WindowSize \in Nat /\ MaxAge \in Nat /\ WindowSize <= MaxAge BY FlowAssumption
  <1>1. /\ Len(window') = Len(window)
        /\ \A w \in 1 .. Len(window) : window'[w].ages = Older(window[w].ages, MaxAge)
    <2>1. window' = [w \in 1 .. Len(window) |-> [window[w] EXCEPT !.ages = Older(@, MaxAge)]]
      BY <1>0 DEF Tick
    <2>2. window' \in Seq(Range(window')) BY DEF FlowInv, FlowTypeOK
    <2>3. Len(window') \in Nat /\ DOMAIN window' = 1 .. Len(window') BY <2>2, LenProperties
    <2>4. Len(window') = Len(window) BY <1>0, <2>1, <2>3
    <2>5. ASSUME NEW w \in 1 .. Len(window) PROVE window'[w].ages = Older(window[w].ages, MaxAge)
      BY <1>t, <2>1 DEF FlowTypeOK
    <2> QED BY <2>4, <2>5
  <1>2. \A t \in FlowSessions : grants'[t] = Recent(Older(grants[t], MaxAge)) BY DEF Tick
  <1>3. AgesTypeOK'
    <2>1. ASSUME NEW t \in FlowSessions
          PROVE  grants'[t] \in Seq(Nat)
      <3>1. Older(grants[t], MaxAge) \in Seq(Nat) BY <1>t, <1>a, OlderCounts
      <3> QED BY <1>a, <1>2, <3>1, YoungerCounts DEF Recent
    <2>2. ASSUME NEW w \in 1 .. Len(window') PROVE window'[w].ages \in Seq(Nat) /\ YoungestLast(window'[w].ages)
      BY <1>t, <1>a, <1>1, OlderCounts DEF AgesTypeOK
    <2>3. grants' \in [FlowSessions -> Seq(Nat)]
      <3>1. grants' = [t \in FlowSessions |-> grants'[t]] BY DEF Tick
      <3> QED BY <2>1, <3>1
    <2> QED BY <2>1, <2>2, <2>3 DEF AgesTypeOK
  <1>4. ASSUME NEW t \in FlowSessions \ orphaned' PROVE RememberedOf(t)' /\ Len(grants'[t]) <= MaxOutstanding
    <2>0. windowOf' = windowOf /\ orphaned' = orphaned BY DEF Tick
    <2>1. RememberedOf(t) /\ Len(grants[t]) <= MaxOutstanding
      BY <1>t, <2>0, RememberedEach DEF RateBound
    <2>2. CASE windowOf[t] = 0
      <3>1. grants[t] = <<>> BY <2>1, <2>2 DEF RememberedOf
      <3>2. PICK o \in Seq(Nat) : o = Older(grants[t], MaxAge) /\ Len(o) = 0
        <4>1. grants[t] \in Seq(Nat) /\ Len(grants[t]) = 0 BY <1>t, <3>1, EmptySeq
        <4> QED BY <1>a, <4>1, OlderCounts
      <3>3. Recent(o) \in Seq(Nat) /\ Len(Recent(o)) = 0
        <4>1. Count(o, WindowSize) = 0 BY <3>2, CountExtremes
        <4> QED BY <1>a, <4>1, YoungerCounts DEF Recent
      <3>4. grants'[t] = <<>> BY <1>2, <3>2, <3>3, EmptySeq
      <3> QED BY <2>0, <2>1, <2>2, <3>1, <3>4 DEF RememberedOf
    <2>3. CASE windowOf[t] # 0
      <3>1. PICK w \in 1 .. Len(window) : w = windowOf[t] BY <1>t, <1>0, <2>3
      <3>2. PICK a, g : a = window[w].ages /\ g = grants[t] OBVIOUS
      <3>3. Recall(a, g) /\ Len(g) <= MaxOutstanding /\ Len(g) \in Nat
        BY <2>1, <2>3, <3>1, <3>2, <1>t, LenProperties DEF RememberedOf
      <3>4. Recall(Older(a, MaxAge), Recent(Older(g, MaxAge))) /\ Len(Recent(Older(g, MaxAge))) <= Len(g)
        <4>1. Older(a, MaxAge) \in Seq(Nat) /\ YoungestLast(Older(a, MaxAge))
          BY <1>a, <3>3, OlderCounts DEF Recall
        <4> QED BY <1>a, <3>3, <4>1, RemembersTick DEF Recall, Recent
      <3>5. Len(Recent(Older(g, MaxAge))) \in Nat BY <3>4, LenProperties DEF Recall
      <3>6. window'[w].ages = Older(a, MaxAge) /\ grants'[t] = Recent(Older(g, MaxAge))
        BY <1>1, <1>2, <3>1, <3>2
      <3>7. Len(grants'[t]) <= MaxOutstanding BY <3>3, <3>4, <3>5, <3>6, FlowAssumption
      <3> QED BY <2>0, <2>3, <3>1, <3>4, <3>6, <3>7 DEF RememberedOf
    <2> QED BY <2>2, <2>3
  <1>5. GrantsRemembered' BY <1>3, <1>4, RememberedNext
  <1>6. RateBound' BY <1>4 DEF RateBound
  <1> QED BY <1>3, <1>5, <1>6 DEF RateInv

\* The steps that leave the lists of ages alone.
LEMMA OtherwiseRemembers ==
    ASSUME RateInv, FlowInv',
           \/ \E r \in Requesters : GiveUp(r) \/ ReleaseSlot(r)
           \/ \E s \in FlowSessions : CleanupPanics(s)
           \/ UNCHANGED flowVars
    PROVE  RateInv'
  <1>t. /\ FlowTypeOK /\ HeldWindows /\ windowOf \in [FlowSessions -> 0 .. Len(window)]
    BY DEF RateInv, FlowInv, FlowTypeOK
  <1>0. Len(window) \in Nat /\ DOMAIN window = 1 .. Len(window) BY <1>t, WindowShape
  <1>1. UNCHANGED <<windowOf, grants, orphaned>> BY DEF GiveUp, ReleaseSlot, CleanupPanics, flowVars
  <1>2. CASE UNCHANGED window BY <1>1, <1>2, AgesKept
  <1>3. ASSUME NEW s \in FlowSessions, windowOf[s] # 0,
               window' = [window EXCEPT ![windowOf[s]].outstanding = @ - 1]
        PROVE  RateInv'
    <2>1. PICK w \in 1 .. Len(window), k \in Int : w = windowOf[s] /\ k = window[w].outstanding - 1
      BY <1>t, <1>0, <1>3, WindowShape
    <2>2. window' = [window EXCEPT ![w].outstanding = k] BY <1>3, <2>1
    <2>3. DOMAIN window' = 1 .. Len(window) BY <1>0, <2>2
    <2>4. \A v \in 1 .. Len(window) : window'[v].ages = window[v].ages
      BY <1>t, <1>0, <2>2 DEF FlowTypeOK
    <2>5. window' \in Seq(Range(window')) BY DEF FlowInv, FlowTypeOK
    <2>6. Len(window') \in Nat /\ DOMAIN window' = 1 .. Len(window') BY <2>5, LenProperties
    <2>7. Len(window') = Len(window) BY <1>0, <2>3, <2>6
    <2> QED BY <1>1, <2>4, <2>7, AgesKept
  <1>4. ASSUME NEW r \in Requesters, ReleaseSlot(r) PROVE RateInv'
    <2>1. PICK s \in FlowSessions : requester[r].session = {s} BY <1>t, <1>4 DEF HeldWindows, ReleaseSlot
    <2> QED BY <1>2, <1>3, <1>4, <2>1 DEF ReleaseSlot
  <1> QED BY <1>2, <1>4 DEF GiveUp, CleanupPanics, flowVars

-----------------------------------------------------------------------------
(* FlowControl: theorems *)

\* Every step keeps the invariant of OutstandingExact.
LEMMA FlowInvStep == FlowInv /\ [FlowNext]_flowVars => FlowInv'
  BY LookUpStep, TryGrantsStep, ReleaseSlotStep, UncountedStep, CleanupStep DEF FlowNext

\* Whatever requests, releases and cleanups interleave, for any number of sessions, requesters
\* and windows: GetOutstanding reports the requests granted and not released, unless a window
\* was dropped under a waiting Acquire (window.go, FlowController.Release and Cleanup).
THEOREM FlowOutstanding == FlowSpec => []OutstandingExact
  <1>1. FlowInv => OutstandingExact BY DEF FlowInv
  <1> QED BY <1>1, FlowInvStep, FlowInitOK, PTL DEF FlowSpec
\* For any number of sessions, requesters and windows: in no WindowSize has a session more grants
\* than MaxOutstanding, across windows that Cleanup drops and Acquire makes again, unless one was
\* dropped under a waiting Acquire (window.go, tryAcquire and Cleanup).
THEOREM FlowRate == FlowSpec => []RateBound
  <1>1. RateInv /\ [FlowNext]_flowVars => RateInv'
    <2> SUFFICES ASSUME RateInv, [FlowNext]_flowVars PROVE RateInv' OBVIOUS
    <2>1. FlowInv' BY FlowInvStep DEF RateInv
    <2> QED BY <2>1, LookUpRemembers, TryRemembers, CleanupRemembers, TickRemembers, OtherwiseRemembers
            DEF FlowNext
  <1>2. RateInv => RateBound BY DEF RateInv
  <1> QED BY <1>1, <1>2, RateInitOK, PTL DEF FlowSpec

-----------------------------------------------------------------------------
(* RateLimiter: buckets *)

\* What the whole tokens of an elapsed time are.
LEMMA Tokens ==
    ASSUME NEW x \in Nat, NEW m \in Nat \ {0}
    PROVE  /\ x \div m \in Nat
           /\ (x \div m) * m <= x /\ x < (x \div m) * m + m
           /\ x \div m = 0 <=> x < m
  OBVIOUS

\* Products of natural numbers, so that the provers need not find them.
LEMMA Products ==
    ASSUME NEW x \in Nat, NEW y \in Nat
    PROVE  x * y \in Nat /\ x * y = y * x /\ (x + 1) * y = x * y + y
  OBVIOUS

\* More of as much is not less.
LEMMA ProductOrder ==
    ASSUME NEW x \in Nat, NEW y \in Nat, NEW z \in Nat, x <= y
    PROVE  x * z <= y * z
  OBVIOUS

\* A sum times a number.
LEMMA PlusTimes ==
    ASSUME NEW x \in Int, NEW y \in Int, NEW z \in Int
    PROVE  (x + y) * z = x * z + y * z
  OBVIOUS

\* A difference times a number.
LEMMA MinusTimes ==
    ASSUME NEW x \in Int, NEW y \in Int, NEW z \in Int
    PROVE  (x - y) * z = x * z - y * z
  OBVIOUS

\* refill gives no more than the time on the clock earned, and leaves less than a token's time.
LEMMA RefillRoom ==
    ASSUME NEW b, BucketTypeOK(b)
    PROVE  /\ BucketTypeOK(Refill(b)) /\ Refill(b).limit = b.limit
           /\ Refill(b).elapsed * b.limit < Minute
           /\ Room(b) <= Room(Refill(b)) /\ Room(b) \in Int /\ Room(Refill(b)) \in Int
  <1> DEFINE q == (b.elapsed * b.limit) \div Minute
             t == IF b.tokens + q > b.limit THEN b.limit ELSE b.tokens + q
  <1>1. /\ b.limit \in Nat /\ b.tokens \in Nat /\ b.elapsed \in Nat /\ b.limit \in RateLimits
        /\ Minute \in Nat \ {0} /\ b.tokens <= b.limit
        /\ b = [limit |-> b.limit, tokens |-> b.tokens, elapsed |-> b.elapsed]
    BY RateAssumption DEF BucketTypeOK
  <1>2. b.elapsed * b.limit \in Nat /\ b.tokens * Minute \in Nat /\ b.limit * Minute \in Nat
        /\ b.tokens * Minute <= b.limit * Minute /\ (b.limit + 1) * Minute = b.limit * Minute + Minute
    BY <1>1, Products, ProductOrder
  <1>3. /\ q \in Nat /\ q * Minute \in Nat
        /\ q * Minute <= b.elapsed * b.limit /\ b.elapsed * b.limit < q * Minute + Minute
        /\ q = 0 <=> b.elapsed * b.limit < Minute
    BY <1>1, <1>2, Tokens, Products
  <1>4. b # NoBucket /\ Room(b) = b.limit * Minute + Minute - Credit(b) /\ Credit(b) \in Nat
    BY <1>1, <1>2 DEF NoBucket, Room, Credit
  <1>5. CASE q = 0
    <2>1. Refill(b) = b BY <1>5 DEF Refill
    <2> HIDE DEF q
    <2>2. b.elapsed * b.limit < Minute /\ Room(b) \in Int BY <1>1, <1>2, <1>3, <1>4, <1>5
    <2> QED BY <2>1, <2>2
  <1>6. CASE q # 0
    <2>1. Refill(b) = [limit |-> b.limit, tokens |-> t, elapsed |-> 0] BY <1>1, <1>6 DEF Refill
    <2>2. t \in Nat /\ t <= b.limit /\ (t = b.limit \/ t = b.tokens + q) BY <1>1, <1>3
    <2>t. t <= b.tokens + q BY <1>1, <1>3
    <2> HIDE DEF t, q
    <2>3. t * Minute \in Nat /\ t * Minute <= b.limit * Minute
          /\ (b.tokens + q) * Minute = b.tokens * Minute + q * Minute
      BY <1>1, <1>3, <2>2, Products, ProductOrder, PlusTimes
    <2>4. 0 * b.limit = 0 BY <1>1
    <2>5. t * Minute <= b.tokens * Minute + q * Minute
      <3>1. b.tokens + q \in Nat BY <1>1, <1>3
      <3> QED BY <1>1, <2>t, <2>2, <2>3, <3>1, ProductOrder
    <2>6. Credit(Refill(b)) = t * Minute
      BY <1>1, <2>1, <2>3, <2>4 DEF Credit
    <2>7. Credit(Refill(b)) <= Credit(b)
      BY <1>2, <1>3, <1>6, <2>3, <2>5, <2>6 DEF Credit
    <2>8. Refill(b) # NoBucket BY <1>1, <2>1 DEF NoBucket
    <2>9. Room(Refill(b)) = b.limit * Minute + Minute - t * Minute
      BY <1>1, <1>2, <2>1, <2>3, <2>6, <2>8 DEF Room
    <2>10. BucketTypeOK(Refill(b)) BY <1>1, <2>1, <2>2 DEF BucketTypeOK
    <2> QED BY <1>1, <1>2, <1>4, <2>1, <2>3, <2>4, <2>6, <2>7, <2>9, <2>10
  <1> QED BY <1>5, <1>6

\* There is always room.
LEMMA RoomPositive ==
    ASSUME NEW b, b = NoBucket \/ BucketTypeOK(b)
    PROVE  Room(b) \in Nat \ {0}
  <1>1. CASE b = NoBucket BY <1>1, RateAssumption DEF Room
  <1>2. CASE b # NoBucket
    <2>1. /\ b.limit \in Nat /\ b.tokens \in Nat /\ b.elapsed \in Nat
          /\ Minute \in Nat \ {0} /\ b.tokens <= b.limit
      BY <1>2, RateAssumption DEF BucketTypeOK
    <2>2. b.elapsed * b.limit \in Nat /\ b.tokens * Minute \in Nat /\ b.limit * Minute \in Nat
          /\ b.tokens * Minute <= b.limit * Minute /\ (b.limit + 1) * Minute = b.limit * Minute + Minute
      BY <2>1, Products, ProductOrder
    <2>3. Credit(b) \in Nat /\ Credit(b) < b.limit * Minute + Minute
      BY <2>1, <2>2 DEF Credit
    <2>4. Room(b) = b.limit * Minute + Minute - Credit(b) BY <1>2, <2>1, <2>2, <2>3 DEF Room
    <2> QED BY <2>1, <2>2, <2>3, <2>4
  <1> QED BY <1>1, <1>2

\* Tokens taken from a refilled bucket make room.
LEMMA TakeRoom ==
    ASSUME NEW b, BucketTypeOK(b), b.elapsed * b.limit < Minute, NEW n \in Nat, n <= b.tokens
    PROVE  /\ BucketTypeOK([b EXCEPT !.tokens = @ - n])
           /\ Room([b EXCEPT !.tokens = @ - n]) = Room(b) + n * Minute
  <1>1. /\ b.limit \in Nat /\ b.tokens \in Nat /\ b.elapsed \in Nat /\ b.limit \in RateLimits
        /\ Minute \in Nat \ {0} /\ b.tokens <= b.limit
        /\ b = [limit |-> b.limit, tokens |-> b.tokens, elapsed |-> b.elapsed]
    BY RateAssumption DEF BucketTypeOK
  <1>2. PICK k \in Nat : k = b.tokens - n /\ k <= b.limit BY <1>1
  <1>3. PICK c : c = [b EXCEPT !.tokens = @ - n] OBVIOUS
  <1>4. c = [limit |-> b.limit, tokens |-> k, elapsed |-> b.elapsed] BY <1>1, <1>2, <1>3
  <1>5. /\ b.elapsed * b.limit \in Nat /\ b.tokens * Minute \in Nat /\ b.limit * Minute \in Nat
        /\ k * Minute \in Nat /\ n * Minute \in Nat /\ k * Minute = b.tokens * Minute - n * Minute
        /\ (b.limit + 1) * Minute = b.limit * Minute + Minute
    BY <1>1, <1>2, Products, MinusTimes
  <1>6. b # NoBucket /\ c # NoBucket BY <1>1, <1>4 DEF NoBucket
  <1>7. Credit(b) = b.tokens * Minute + b.elapsed * b.limit BY <1>1, <1>5 DEF Credit
  <1>8. Credit(c) = k * Minute + b.elapsed * b.limit BY <1>1, <1>4, <1>5 DEF Credit
  <1>9. Room(b) = b.limit * Minute + Minute - (b.tokens * Minute + b.elapsed * b.limit)
    BY <1>1, <1>5, <1>6, <1>7 DEF Room
  <1>10. Room(c) = b.limit * Minute + Minute - (k * Minute + b.elapsed * b.limit)
    BY <1>1, <1>4, <1>5, <1>6, <1>8 DEF Room
  <1>11. Room(c) = Room(b) + n * Minute BY <1>1, <1>5, <1>9, <1>10
  <1>12. BucketTypeOK(c) BY <1>1, <1>2, <1>4 DEF BucketTypeOK
  <1> QED BY <1>3, <1>11, <1>12

\* A tick takes no more room than the limit.
LEMMA TickRoom ==
    ASSUME NEW b, BucketTypeOK(b)
    PROVE  /\ BucketTypeOK([b EXCEPT !.elapsed = @ + 1])
           /\ Room(b) <= Room([b EXCEPT !.elapsed = @ + 1]) + b.limit
  <1>1. /\ b.limit \in Nat /\ b.tokens \in Nat /\ b.elapsed \in Nat /\ b.limit \in RateLimits
        /\ Minute \in Nat \ {0} /\ b.tokens <= b.limit
        /\ b = [limit |-> b.limit, tokens |-> b.tokens, elapsed |-> b.elapsed]
    BY RateAssumption DEF BucketTypeOK
  <1>2. PICK k \in Nat : k = b.elapsed + 1 BY <1>1
  <1>3. PICK c : c = [b EXCEPT !.elapsed = @ + 1] OBVIOUS
  <1>4. c = [limit |-> b.limit, tokens |-> b.tokens, elapsed |-> k] BY <1>1, <1>2, <1>3
  <1>5. /\ b.elapsed * b.limit \in Nat /\ b.tokens * Minute \in Nat /\ b.limit * Minute \in Nat
        /\ k * b.limit \in Nat /\ k * b.limit = b.elapsed * b.limit + b.limit
        /\ b.tokens * Minute <= b.limit * Minute
        /\ (b.limit + 1) * Minute = b.limit * Minute + Minute
    BY <1>1, <1>2, Products, ProductOrder
  <1>6. b # NoBucket /\ c # NoBucket BY <1>1, <1>4 DEF NoBucket
  <1>7. Credit(c) \in Int /\ Credit(b) \in Int /\ Credit(c) <= Credit(b) + b.limit
    <2>1. Credit(b) = IF b.elapsed * b.limit >= Minute
                         /\ b.tokens * Minute + b.elapsed * b.limit > b.limit * Minute
                      THEN b.limit * Minute ELSE b.tokens * Minute + b.elapsed * b.limit
      BY DEF Credit
    <2>2. Credit(c) = IF k * b.limit >= Minute
                         /\ b.tokens * Minute + k * b.limit > b.limit * Minute
                      THEN b.limit * Minute ELSE b.tokens * Minute + k * b.limit
      BY <1>4 DEF Credit
    <2> QED BY <1>1, <1>5, <2>1, <2>2
  <1>8. Room(b) = b.limit * Minute + Minute - Credit(b) BY <1>1, <1>5, <1>6, <1>7 DEF Room
  <1>9. Room(c) = b.limit * Minute + Minute - Credit(c) BY <1>1, <1>4, <1>5, <1>6, <1>7 DEF Room
  <1>10. Room(b) <= Room(c) + b.limit BY <1>1, <1>5, <1>7, <1>8, <1>9
  <1>11. BucketTypeOK(c) BY <1>1, <1>2, <1>4 DEF BucketTypeOK
  <1> QED BY <1>3, <1>10, <1>11

\* A new bucket, and a full one that is dropped, leave a token's time of room.
LEMMA FullRoom ==
    ASSUME NEW b, BucketTypeOK(b), b.tokens = b.limit
    PROVE  Room(b) <= Minute /\ (b.elapsed = 0 => Room(b) = Minute)
  <1>1. /\ b.limit \in Nat /\ b.tokens \in Nat /\ b.elapsed \in Nat /\ Minute \in Nat \ {0}
    BY RateAssumption DEF BucketTypeOK
  <1>2. b.elapsed * b.limit \in Nat /\ b.limit * Minute \in Nat
        /\ (b.elapsed = 0 => b.elapsed * b.limit = 0)
        /\ (b.limit + 1) * Minute = b.limit * Minute + Minute
    BY <1>1, Products
  <1>3. b # NoBucket BY <1>1 DEF NoBucket
  <1> QED BY <1>1, <1>2, <1>3 DEF Room, Credit

\* NoBucket is no bucket.
LEMMA RealBucket ==
    ASSUME NEW b, BucketTypeOK(b)
    PROVE  b # NoBucket /\ b.limit \in Nat /\ b \in [limit : Int, tokens : Int, elapsed : Int]
  <1>1. b \in [limit : RateLimits, tokens : Nat, elapsed : Nat] BY DEF BucketTypeOK
  <1>2. RateLimits \subseteq Nat BY RateAssumption
  <1>3. b.limit \in Nat /\ b.tokens \in Nat /\ b.elapsed \in Nat
        /\ b = [limit |-> b.limit, tokens |-> b.tokens, elapsed |-> b.elapsed]
    BY <1>1, <1>2
  <1>4. b \in [limit : Int, tokens : Int, elapsed : Int] BY <1>3
  <1>5. b # NoBucket BY <1>3 DEF NoBucket
  <1> QED BY <1>3, <1>4, <1>5

\* A user, or a user without a bucket, as the invariant has them: n tokens granted in d ticks.
Account(b, n, d) ==
    /\ b = NoBucket \/ BucketTypeOK(b)
    /\ n \in Nat /\ d \in Nat \cup {-1} /\ (d = -1 => n = 0)
    /\ Accounted(b, n, d)

\* A bucket that is made is full.
LEMMA AccountBucket ==
    ASSUME NEW n, NEW d, Account(NoBucket, n, d), NEW limit \in RateLimits
    PROVE  Account([limit |-> limit, tokens |-> limit, elapsed |-> 0], n, d)
  <1>1. PICK c : c = [limit |-> limit, tokens |-> limit, elapsed |-> 0] OBVIOUS
  <1>2. limit \in Nat /\ Minute \in Nat \ {0} /\ RateLimits \subseteq Nat BY RateAssumption
  <1>3. BucketTypeOK(c) /\ c # NoBucket /\ c.limit = limit BY <1>1, <1>2 DEF BucketTypeOK, NoBucket
  <1>4. Room(c) = Minute /\ Room(NoBucket) = Minute BY <1>1, <1>3, FullRoom DEF Room
  <1>5. n \in Nat /\ d \in Nat \cup {-1} /\ (d = -1 => n = 0) BY DEF Account
  <1>6. \E l \in RateLimits : Within(c, n, d, l)
    <2>1. CASE n = 0
      <3>1. d # -1 => limit * d \in Nat /\ n * Minute = 0 BY <1>2, <1>5, <2>1, Products
      <3>2. Within(c, n, d, limit) BY <1>2, <1>3, <1>4, <1>5, <3>1 DEF Within
      <3> QED BY <3>2
    <2>2. CASE n # 0
      <3>1. PICK l \in RateLimits : d # -1 => n * Minute < Minute + l * d
        BY <1>4, <2>2 DEF Account, Accounted, Within
      <3>2. CASE limit <= l
        <4>1. Within(c, n, d, l) BY <1>3, <1>4, <3>1, <3>2 DEF Within
        <4> QED BY <4>1
      <3>3. CASE ~(limit <= l)
        <4>1. d # -1 => l * d <= limit * d /\ l * d \in Nat /\ limit * d \in Nat /\ n * Minute \in Nat
          BY <1>2, <1>5, <3>1, <3>3, Products, ProductOrder
        <4>2. Within(c, n, d, limit) BY <1>2, <1>3, <1>4, <1>5, <3>1, <4>1 DEF Within
        <4> QED BY <4>2
      <3> QED BY <3>2, <3>3
    <2> QED BY <2>1, <2>2
  <1> QED BY <1>1, <1>3, <1>5, <1>6 DEF Account, Accounted

\* The bucket is replaced by one that has no less room and no higher limit.
LEMMA AccountMoreRoom ==
    ASSUME NEW b, NEW c, NEW n, NEW d, Account(b, n, d), BucketTypeOK(b),
           c = NoBucket \/ (BucketTypeOK(c) /\ c.limit = b.limit), Room(b) <= Room(c)
    PROVE  Account(c, n, d)
  <1>1. n \in Nat /\ d \in Nat \cup {-1} /\ (d = -1 => n = 0) /\ b # NoBucket
    BY RealBucket DEF Account
  <1>2. PICK l \in RateLimits : Within(b, n, d, l) BY <1>1 DEF Account, Accounted
  <1>3. Room(b) \in Nat /\ Room(c) \in Nat /\ Minute \in Nat /\ l \in Nat
    BY RoomPositive, RateAssumption
  <1>4. d # -1 => l * d \in Nat /\ n * Minute \in Nat BY <1>1, <1>3, Products
  <1>5. Within(c, n, d, l) BY <1>1, <1>2, <1>3, <1>4 DEF Within
  <1> QED BY <1>1, <1>5 DEF Account, Accounted

\* refill.
LEMMA AccountRefill ==
    ASSUME NEW b, NEW n, NEW d, Account(b, n, d), BucketTypeOK(b)
    PROVE  /\ Account(Refill(b), n, d) /\ BucketTypeOK(Refill(b))
           /\ Refill(b).elapsed * Refill(b).limit < Minute
  BY RefillRoom, AccountMoreRoom

\* AllowN takes k tokens of a refilled bucket: in the span, they count as granted.
LEMMA AccountTake ==
    ASSUME NEW b, NEW n, NEW d, Account(b, n, d), BucketTypeOK(b), b.elapsed * b.limit < Minute,
           NEW k \in Nat, k <= b.tokens
    PROVE  Account([b EXCEPT !.tokens = @ - k], IF d = -1 THEN n ELSE n + k, d)
  <1>1. n \in Nat /\ d \in Nat \cup {-1} /\ (d = -1 => n = 0) /\ b # NoBucket
    BY RealBucket DEF Account
  <1>2. PICK l \in RateLimits : Within(b, n, d, l) BY <1>1 DEF Account, Accounted
  <1>3. PICK c : c = [b EXCEPT !.tokens = @ - k] OBVIOUS
  <1>4. BucketTypeOK(c) /\ Room(c) = Room(b) + k * Minute /\ c.limit = b.limit
    BY <1>3, TakeRoom DEF BucketTypeOK
  <1>5. Room(b) \in Nat /\ Minute \in Nat /\ l \in Nat
    BY RoomPositive, RateAssumption
  <1>6. /\ d # -1 => l * d \in Nat
        /\ n * Minute \in Nat /\ k * Minute \in Nat /\ (n + k) * Minute = n * Minute + k * Minute
    BY <1>1, <1>5, Products, PlusTimes
  <1>7. Within(c, IF d = -1 THEN n ELSE n + k, d, l) BY <1>1, <1>2, <1>4, <1>5, <1>6 DEF Within
  <1> QED BY <1>1, <1>3, <1>4, <1>7 DEF Account, Accounted

\* Time passes, with or without the bucket's clock.
LEMMA AccountTick ==
    ASSUME NEW b, NEW n, NEW d, Account(b, n, d),
           NEW c, c = b \/ (BucketTypeOK(b) /\ c = [b EXCEPT !.elapsed = @ + 1])
    PROVE  Account(c, n, IF d = -1 THEN -1 ELSE d + 1)
  <1>1. n \in Nat /\ d \in Nat \cup {-1} /\ (d = -1 => n = 0) /\ (b = NoBucket \/ BucketTypeOK(b))
    BY DEF Account
  <1>2. CASE c = NoBucket /\ n = 0
    BY <1>1, <1>2 DEF Account, Accounted
  <1>3. CASE ~(c = NoBucket /\ n = 0)
    <2>0. b = NoBucket => c = NoBucket BY RealBucket
    <2>1. PICK l \in RateLimits : Within(b, n, d, l) BY <1>3, <2>0 DEF Account, Accounted
    <2>2. Room(b) \in Nat /\ Minute \in Nat /\ l \in Nat BY <1>1, RoomPositive, RateAssumption
    <2>3. /\ c = NoBucket \/ (BucketTypeOK(c) /\ c.limit <= l)
          /\ Room(c) \in Nat /\ Room(b) <= Room(c) + l
      <3>1. CASE c = b
        <4>1. b = NoBucket \/ (BucketTypeOK(b) /\ b.limit <= l) BY <1>1, <2>1 DEF Within
        <4> QED BY <2>2, <3>1, <4>1
      <3>2. CASE c # b
        <4>1. BucketTypeOK(b) /\ b # NoBucket /\ b.limit \in Nat
          BY <3>2, RealBucket
        <4>2. BucketTypeOK(c) /\ Room(b) <= Room(c) + b.limit BY <3>2, TickRoom
        <4>3. c.limit = b.limit /\ b.limit <= l BY <2>1, <3>2, <4>1 DEF BucketTypeOK, Within
        <4>4. Room(c) \in Nat BY <4>2, RoomPositive
        <4> QED BY <2>2, <4>1, <4>2, <4>3, <4>4
      <3> QED BY <3>1, <3>2
    <2>4. d # -1 => l * d \in Nat /\ l * (d + 1) = l * d + l /\ n * Minute \in Nat
      BY <1>1, <2>2, Products
    <2>5. Within(c, n, IF d = -1 THEN -1 ELSE d + 1, l) BY <1>1, <2>1, <2>2, <2>3, <2>4 DEF Within
    <2> QED BY <1>1, <2>3, <2>5 DEF Account, Accounted
  <1> QED BY <1>2, <1>3

\* The observation begins: nothing was granted in it, and there is always room.
LEMMA AccountObserve ==
    ASSUME NEW b, NEW n, Account(b, n, -1)
    PROVE  Account(b, n, 0)
  <1>1. n = 0 /\ (b = NoBucket \/ BucketTypeOK(b)) BY DEF Account
  <1>2. CASE b = NoBucket BY <1>1, <1>2 DEF Account, Accounted
  <1>3. CASE b # NoBucket
    <2>1. PICK l \in RateLimits : Within(b, n, -1, l) BY <1>3 DEF Account, Accounted
    <2>2. Room(b) \in Nat \ {0} /\ Minute \in Nat /\ l \in Nat BY <1>1, RoomPositive, RateAssumption
    <2>3. Within(b, 0, 0, l) BY <2>1, <2>2 DEF Within
    <2> QED BY <1>1, <2>3 DEF Account, Accounted
  <1> QED BY <1>2, <1>3

\* The invariant speaks of each user's account.
LEMMA EachAccount ==
    ASSUME RateTypeOK, SpentIsMissing, NEW u \in RatedUsers
    PROVE  Account(buckets[u], spent[u], span)
  BY DEF RateTypeOK, SpentIsMissing, Account

\* With or without a bucket, the map holds a record.
LEMMA BucketRecord ==
    ASSUME NEW b, b = NoBucket \/ BucketTypeOK(b)
    PROVE  b \in [limit : Int, tokens : Int, elapsed : Int]
  BY RealBucket DEF NoBucket

\* And it is shown account by account.
LEMMA EachAccountNext ==
    ASSUME NEW B, buckets' = [u \in RatedUsers |-> B[u]],
           NEW N, spent' = [u \in RatedUsers |-> N[u]],
           times' \in [RatedUsers -> Seq(Nat)], slid' \in [RatedUsers -> Seq(Nat)],
           span' \in Nat \cup {-1}, \A u \in RatedUsers : Account(B[u], N[u], span')
    PROVE  RateTypeOK' /\ SpentIsMissing'
  <1>1. \A u \in RatedUsers : B[u] \in [limit : Int, tokens : Int, elapsed : Int]
    BY BucketRecord DEF Account
  <1>2. \A u \in RatedUsers : N[u] \in Nat /\ (span' = -1 => N[u] = 0) BY DEF Account
  <1>3. RateTypeOK'
    BY <1>1, <1>2 DEF RateTypeOK, Account
  <1>4. SpentIsMissing' BY DEF SpentIsMissing, Account
  <1> QED BY <1>3, <1>4

\* AllowN, granted or not: a bucket is found or made, refilled, and perhaps taken from.
LEMMA AllowNStep ==
    ASSUME RateTypeOK, SpentIsMissing, NEW u \in RatedUsers, NEW limit \in RateLimits, NEW n \in Nat,
           AllowN(u, n, limit) \/ DenyN(u, n, limit)
    PROVE  RateTypeOK' /\ SpentIsMissing'
  <1>t. /\ times \in [RatedUsers -> Seq(Nat)] /\ slid \in [RatedUsers -> Seq(Nat)]
        /\ span \in Nat \cup {-1} /\ spent \in [RatedUsers -> Nat]
        /\ buckets = [v \in RatedUsers |-> buckets[v]]
    BY DEF RateTypeOK
  <1>1. PICK a : a = BucketFor(u, limit) OBVIOUS
  <1>2. Account(a, spent[u], span) /\ BucketTypeOK(a)
    <2>1. Account(buckets[u], spent[u], span) BY EachAccount
    <2>2. CASE buckets[u] # NoBucket
      BY <1>1, <2>1, <2>2 DEF BucketFor, Account
    <2>3. CASE buckets[u] = NoBucket
      <3>1. a = [limit |-> limit, tokens |-> limit, elapsed |-> 0] BY <1>1, <2>3 DEF BucketFor
      <3>2. Account(a, spent[u], span) BY <2>1, <2>3, <3>1, AccountBucket
      <3>3. BucketTypeOK(a) BY <3>1, RateAssumption DEF BucketTypeOK
      <3> QED BY <3>2, <3>3
    <2> QED BY <2>2, <2>3
  <1>3. PICK b : b = Refill(a) OBVIOUS
  <1>4. Account(b, spent[u], span) /\ BucketTypeOK(b) /\ b.elapsed * b.limit < Minute
    BY <1>2, <1>3, AccountRefill
  <1>s. times' = times /\ slid' = slid /\ span' = span BY DEF AllowN, DenyN
  <1>5. PICK c, k : /\ buckets' = [buckets EXCEPT ![u] = c] /\ spent' = [spent EXCEPT ![u] = k]
                    /\ Account(c, k, span)
    <2>1. CASE AllowN(u, n, limit)
      <3>1. PICK c : c = [b EXCEPT !.tokens = @ - n] OBVIOUS
      <3>2. n <= b.tokens /\ buckets' = [buckets EXCEPT ![u] = c]
        BY <1>1, <1>3, <1>4, <2>1, <3>1 DEF AllowN, BucketTypeOK
      <3>3. PICK k : k = IF span = -1 THEN spent[u] ELSE spent[u] + n OBVIOUS
      <3>4. spent' = [spent EXCEPT ![u] = k] BY <2>1, <3>3 DEF AllowN, Spend
      <3>5. Account(c, k, span) BY <1>4, <3>1, <3>2, <3>3, AccountTake
      <3> QED BY <3>2, <3>4, <3>5
    <2>2. CASE DenyN(u, n, limit)
      <3>1. buckets' = [buckets EXCEPT ![u] = b] /\ spent' = spent BY <1>1, <1>3, <2>2 DEF DenyN
      <3>2. spent' = [spent EXCEPT ![u] = spent[u]] BY <1>t, <3>1
      <3> QED BY <1>4, <3>1, <3>2
    <2> QED BY <2>1, <2>2
  <1>6. PICK B, N : /\ B = [v \in RatedUsers |-> IF v = u THEN c ELSE buckets[v]]
                    /\ N = [v \in RatedUsers |-> IF v = u THEN k ELSE spent[v]]
    OBVIOUS
  <1>7. buckets' = [v \in RatedUsers |-> B[v]] /\ spent' = [v \in RatedUsers |-> N[v]]
    BY <1>t, <1>5, <1>6
  <1>8. \A v \in RatedUsers : Account(B[v], N[v], span) BY <1>5, <1>6, EachAccount
  <1> QED BY <1>t, <1>s, <1>7, <1>8, EachAccountNext

\* GetRemainingTokens refills.
LEMMA GetRemainingTokensStep ==
    ASSUME RateTypeOK, SpentIsMissing, NEW u \in RatedUsers, GetRemainingTokens(u)
    PROVE  RateTypeOK' /\ SpentIsMissing'
  <1>t. /\ times' \in [RatedUsers -> Seq(Nat)] /\ slid' \in [RatedUsers -> Seq(Nat)]
        /\ span' = span /\ span \in Nat \cup {-1} /\ spent \in [RatedUsers -> Nat]
        /\ buckets = [v \in RatedUsers |-> buckets[v]]
        /\ spent' = [v \in RatedUsers |-> spent[v]]
    BY DEF RateTypeOK, GetRemainingTokens
  <1>1. PICK B : B = [v \in RatedUsers |-> IF v = u THEN Refill(buckets[v]) ELSE buckets[v]]
    OBVIOUS
  <1>2. buckets' = [v \in RatedUsers |-> B[v]] BY <1>t, <1>1 DEF GetRemainingTokens
  <1>3. Account(Refill(buckets[u]), spent[u], span)
    BY EachAccount, AccountRefill DEF GetRemainingTokens, Account
  <1>4. \A v \in RatedUsers : Account(B[v], spent[v], span) BY <1>1, <1>3, EachAccount
  <1> QED BY <1>t, <1>2, <1>4, EachAccountNext

\* Cleanup drops only full buckets, whose users had room for less than a token.
LEMMA CleanupBucketsStep ==
    ASSUME RateTypeOK, SpentIsMissing, CleanupBuckets
    PROVE  RateTypeOK' /\ SpentIsMissing'
  <1>t. /\ times' \in [RatedUsers -> Seq(Nat)] /\ slid' \in [RatedUsers -> Seq(Nat)]
        /\ span' = span /\ span \in Nat \cup {-1} /\ spent \in [RatedUsers -> Nat]
        /\ spent' = [v \in RatedUsers |-> spent[v]]
    BY DEF RateTypeOK, CleanupBuckets
  <1>1. PICK B : B = buckets' OBVIOUS
  <1>2. buckets' = [v \in RatedUsers |-> B[v]] BY <1>1 DEF CleanupBuckets
  <1>3. ASSUME NEW v \in RatedUsers PROVE Account(B[v], spent[v], span)
    <2>1. PICK a, b : a = buckets[v] /\ b = Refill(a) OBVIOUS
    <2>2. Account(a, spent[v], span) BY <2>1, EachAccount
    <2>3. B[v] = IF b.tokens = b.limit /\ b.elapsed > BucketAge THEN NoBucket ELSE b
      BY <1>1, <2>1 DEF CleanupBuckets
    <2>4. CASE a = NoBucket
      <3>1. Refill(NoBucket) = NoBucket
        <4>1. NoBucket.elapsed * NoBucket.limit = 0 BY DEF NoBucket
        <4>2. 0 \div Minute = 0 BY RateAssumption
        <4>3. (NoBucket.elapsed * NoBucket.limit) \div Minute = 0 BY <4>1, <4>2
        <4> QED BY <4>3 DEF Refill
      <3>2. B[v] = NoBucket BY <2>1, <2>3, <2>4, <3>1
      <3> QED BY <2>2, <2>4, <3>2
    <2>5. CASE a # NoBucket
      <3>1. Account(b, spent[v], span) /\ BucketTypeOK(b) BY <2>1, <2>2, <2>5, AccountRefill DEF Account
      <3>2. CASE B[v] = b BY <3>1, <3>2
      <3>3. CASE B[v] # b
        <4>1. B[v] = NoBucket /\ b.tokens = b.limit BY <2>3, <3>3
        <4>2. Room(b) <= Minute /\ Room(NoBucket) = Minute BY <3>1, <4>1, FullRoom DEF Room
        <4> QED BY <3>1, <4>1, <4>2, AccountMoreRoom
      <3> QED BY <3>2, <3>3
    <2> QED BY <2>4, <2>5
  <1> QED BY <1>t, <1>2, <1>3, EachAccountNext

\* A tick, and the start of the observation, keep every account.
LEMMA ClockStep ==
    ASSUME RateTypeOK, SpentIsMissing, RateTick \/ Observe
    PROVE  RateTypeOK' /\ SpentIsMissing'
  <1>t. /\ times \in [RatedUsers -> Seq(Nat)] /\ slid \in [RatedUsers -> Seq(Nat)]
        /\ span \in Nat \cup {-1} /\ spent \in [RatedUsers -> Nat]
        /\ buckets = [v \in RatedUsers |-> buckets[v]]
        /\ spent' = [v \in RatedUsers |-> spent[v]]
    BY DEF RateTypeOK, RateTick, Observe
  <1>a. SlidingSize \in Nat BY RateAssumption
  <1>1. times' \in [RatedUsers -> Seq(Nat)] /\ slid' \in [RatedUsers -> Seq(Nat)]
    <2>1. CASE Observe BY <1>t, <2>1 DEF Observe
    <2>2. CASE RateTick
      <3>1. ASSUME NEW v \in RatedUsers
            PROVE  Older(times[v], SlidingSize) \in Seq(Nat) /\ InWindow(Older(slid[v], SlidingSize)) \in Seq(Nat)
        <4>1. Older(times[v], SlidingSize) \in Seq(Nat) /\ Older(slid[v], SlidingSize) \in Seq(Nat)
          BY <1>t, <1>a, OlderCounts
        <4> QED BY <1>a, <4>1, YoungerCounts DEF InWindow
      <3> QED BY <2>2, <3>1 DEF RateTick
    <2> QED BY <2>1, <2>2
  <1>2. CASE RateTick
    <2>1. PICK B : B = buckets' OBVIOUS
    <2>2. buckets' = [v \in RatedUsers |-> B[v]] BY <1>2, <2>1 DEF RateTick
    <2>3. PICK d : d = IF span = -1 THEN -1 ELSE span + 1 OBVIOUS
    <2>4. d \in Nat \cup {-1} /\ span' = d BY <1>t, <1>2, <2>3 DEF RateTick
    <2>5. ASSUME NEW v \in RatedUsers PROVE Account(B[v], spent[v], d)
      <3>1. PICK b, c : b = buckets[v] /\ c = B[v] OBVIOUS
      <3>2. Account(b, spent[v], span) BY <3>1, EachAccount
      <3>3. c = b \/ (BucketTypeOK(b) /\ c = [b EXCEPT !.elapsed = @ + 1])
        BY <1>2, <2>1, <3>1, <3>2 DEF RateTick, Account
      <3>4. Account(c, spent[v], d) BY <2>3, <3>2, <3>3, AccountTick
      <3> QED BY <3>1, <3>4
    <2> QED BY <1>t, <1>1, <2>2, <2>4, <2>5, EachAccountNext
  <1>3. CASE Observe
    <2>1. span = -1 /\ span' = 0 /\ buckets' = buckets BY <1>3 DEF Observe
    <2>2. \A v \in RatedUsers : Account(buckets[v], spent[v], 0) BY <2>1, EachAccount, AccountObserve
    <2> QED BY <1>t, <1>1, <2>1, <2>2, EachAccountNext
  <1> QED BY <1>2, <1>3

\* The other limiter's steps leave the accounts alone.
LEMMA SlidingAccounts ==
    ASSUME RateTypeOK, SpentIsMissing,
           (\E u \in RatedUsers : SlidingAllow(u) \/ SlidingDeny(u)) \/ UNCHANGED rateVars
    PROVE  RateTypeOK' /\ SpentIsMissing'
  <1>t. times \in [RatedUsers -> Seq(Nat)] /\ slid \in [RatedUsers -> Seq(Nat)] BY DEF RateTypeOK
  <1>a. SlidingSize \in Nat BY RateAssumption
  <1>1. buckets' = buckets /\ spent' = spent /\ span' = span
    BY DEF SlidingAllow, SlidingDeny, rateVars
  <1>2. ASSUME NEW u \in RatedUsers
        PROVE  InWindow(times[u]) \in Seq(Nat) /\ Append(InWindow(times[u]), 0) \in Seq(Nat)
               /\ Append(slid[u], 0) \in Seq(Nat)
    <2>1. InWindow(times[u]) \in Seq(Nat) BY <1>t, <1>a, YoungerCounts DEF InWindow
    <2> QED BY <1>t, <2>1, AppendCounts
  <1>3. times' \in [RatedUsers -> Seq(Nat)] /\ slid' \in [RatedUsers -> Seq(Nat)]
    BY <1>t, <1>2 DEF SlidingAllow, SlidingDeny, rateVars
  <1>4. RateTypeOK' BY <1>1, <1>3 DEF RateTypeOK
  <1>5. SpentIsMissing' BY <1>1 DEF SpentIsMissing
  <1> QED BY <1>4, <1>5

-----------------------------------------------------------------------------
(* RateLimiter: the sliding window *)

\* The list of a user that remembers its grants.
Slides(a, g) ==
    a \in Seq(Nat) /\ g \in Seq(Nat) /\ Remembers(a, g, SlidingSize) /\ Len(g) <= SlidingLimit

\* Allow filters the list, and grants if it is shorter than the limit: so are the grants then.
LEMMA SlidesAllow ==
    ASSUME NEW a, NEW g, Slides(a, g)
    PROVE  /\ Slides(InWindow(a), g)
           /\ Len(InWindow(a)) < SlidingLimit => Slides(Append(InWindow(a), 0), Append(g, 0))
  <1>1. /\ a \in Seq(Nat) /\ g \in Seq(Nat) /\ Len(g) \in Nat /\ SlidingSize \in Nat \ {0}
        /\ SlidingLimit \in Nat /\ Remembers(a, g, SlidingSize)
    BY RateAssumption, LenProperties DEF Slides
  <1>2. InWindow(a) \in Seq(Nat) /\ Remembers(InWindow(a), g, SlidingSize) /\ Len(InWindow(a)) = Len(g)
    BY <1>1, YoungerCounts, RemembersFiltered DEF InWindow
  <1>3. Remembers(Append(InWindow(a), 0), Append(g, 0), SlidingSize) BY <1>1, RemembersGrant DEF InWindow
  <1>4. /\ Append(InWindow(a), 0) \in Seq(Nat)
        /\ Append(g, 0) \in Seq(Nat) /\ Len(Append(g, 0)) = Len(g) + 1
    BY <1>1, <1>2, AppendCounts
  <1>5. Len(InWindow(a)) < SlidingLimit => Len(Append(g, 0)) <= SlidingLimit BY <1>1, <1>2, <1>4
  <1> QED BY <1>2, <1>3, <1>4, <1>5 DEF Slides

\* A tick.
LEMMA SlidesTick ==
    ASSUME NEW a, NEW g, Slides(a, g)
    PROVE  Slides(Older(a, SlidingSize), InWindow(Older(g, SlidingSize)))
  <1>1. /\ a \in Seq(Nat) /\ g \in Seq(Nat) /\ Len(g) \in Nat /\ SlidingSize \in Nat
        /\ SlidingLimit \in Nat /\ Remembers(a, g, SlidingSize) /\ Len(g) <= SlidingLimit
    BY RateAssumption, LenProperties DEF Slides
  <1>2. Older(a, SlidingSize) \in Seq(Nat) BY <1>1, OlderCounts
  <1> DEFINE h == InWindow(Older(g, SlidingSize))
  <1>3. Remembers(Older(a, SlidingSize), h, SlidingSize) /\ h \in Seq(Nat) /\ Len(h) <= Len(g)
    BY <1>1, RemembersTick DEF InWindow
  <1> HIDE DEF h
  <1>4. Len(h) \in Nat BY <1>3, LenProperties
  <1>5. Len(h) <= SlidingLimit BY <1>1, <1>3, <1>4
  <1>6. Slides(Older(a, SlidingSize), h) BY <1>2, <1>3, <1>5 DEF Slides
  <1> QED BY <1>6 DEF h

\* What every step does to the lists of a user.
LEMMA SlidingStep ==
    ASSUME LimitsInv, [RateNext]_rateVars
    PROVE  SlidRemembered'
  <1>t. times \in [RatedUsers -> Seq(Nat)] /\ slid \in [RatedUsers -> Seq(Nat)]
    BY DEF LimitsInv, RateTypeOK
  <1>1. \A u \in RatedUsers : Slides(times[u], slid[u])
    BY <1>t DEF LimitsInv, SlidRemembered, Slides
  <1>2. SUFFICES \A u \in RatedUsers : Slides(times'[u], slid'[u])
    BY DEF SlidRemembered, Slides
  <1>3. CASE UNCHANGED <<times, slid>> BY <1>1, <1>3
  <1>4. ASSUME NEW u \in RatedUsers, SlidingAllow(u)
        PROVE  \A v \in RatedUsers : Slides(times'[v], slid'[v])
    <2>1. Slides(Append(InWindow(times[u]), 0), Append(slid[u], 0))
      BY <1>1, <1>4, SlidesAllow DEF SlidingAllow
    <2>2. ASSUME NEW v \in RatedUsers
          PROVE  IF v = u THEN times'[v] = Append(InWindow(times[u]), 0) /\ slid'[v] = Append(slid[u], 0)
                 ELSE times'[v] = times[v] /\ slid'[v] = slid[v]
      BY <1>t, <1>4 DEF SlidingAllow
    <2> QED BY <1>1, <2>1, <2>2
  <1>5. ASSUME NEW u \in RatedUsers, SlidingDeny(u)
        PROVE  \A v \in RatedUsers : Slides(times'[v], slid'[v])
    <2>1. Slides(InWindow(times[u]), slid[u]) BY <1>1, SlidesAllow
    <2>2. ASSUME NEW v \in RatedUsers
          PROVE  slid'[v] = slid[v] /\ times'[v] = IF v = u THEN InWindow(times[u]) ELSE times[v]
      BY <1>t, <1>5 DEF SlidingDeny
    <2> QED BY <1>1, <2>1, <2>2
  <1>6. CASE RateTick
    <2>1. ASSUME NEW v \in RatedUsers
          PROVE  /\ times'[v] = Older(times[v], SlidingSize)
                 /\ slid'[v] = InWindow(Older(slid[v], SlidingSize))
      BY <1>6 DEF RateTick
    <2> QED BY <1>1, <2>1, SlidesTick
  <1> QED BY <1>3, <1>4, <1>5, <1>6
          DEF RateNext, AllowN, DenyN, GetRemainingTokens, CleanupBuckets, Observe, rateVars

-----------------------------------------------------------------------------
(* RateLimiter: theorem *)

\* Initially there is no bucket, no list and no grant.
LEMMA LimitsInitOK == RateInit => LimitsInv
  <1> SUFFICES ASSUME RateInit PROVE LimitsInv OBVIOUS
  <1>1. <<>> \in Seq(Nat) /\ Len(<<>>) = 0 BY EmptySeq
  <1>2. \A u \in RatedUsers : buckets[u] = NoBucket /\ spent[u] = 0 /\ times[u] = <<>> /\ slid[u] = <<>>
    BY DEF RateInit
  <1>3. RateTypeOK
    <2>1. NoBucket \in [limit : Int, tokens : Int, elapsed : Int] BY BucketRecord
    <2> QED BY <1>1, <1>2, <2>1 DEF RateInit, RateTypeOK
  <1>4. SpentIsMissing BY <1>2 DEF SpentIsMissing, Accounted
  <1>5. SlidRemembered BY <1>1, <1>2, RateAssumption DEF SlidRemembered, Remembers
  <1> QED BY <1>3, <1>4, <1>5 DEF LimitsInv

\* Every step keeps the invariant.
LEMMA LimitsInvStep ==
    ASSUME LimitsInv, [RateNext]_rateVars
    PROVE  LimitsInv'
  <1>1. RateTypeOK /\ SpentIsMissing BY DEF LimitsInv
  <1>2. SlidRemembered' BY SlidingStep
  <1>3. RateTypeOK' /\ SpentIsMissing'
    <2>1. ASSUME NEW u \in RatedUsers, NEW limit \in RateLimits, NEW n \in 1 .. limit + 1,
                 AllowN(u, n, limit) \/ DenyN(u, n, limit)
          PROVE  RateTypeOK' /\ SpentIsMissing'
      <3>1. n \in Nat BY RateAssumption
      <3> QED BY <1>1, <2>1, <3>1, AllowNStep
    <2> QED BY <1>1, <2>1, GetRemainingTokensStep, CleanupBucketsStep, ClockStep, SlidingAccounts
            DEF RateNext
  <1> QED BY <1>2, <1>3 DEF LimitsInv

\* What is missing in a bucket is at most the bucket, with less than a token on its clock.
LEMMA LimitsFollow == LimitsInv => LimitsKept
  <1> SUFFICES ASSUME LimitsInv, NEW u \in RatedUsers
               PROVE  /\ spent[u] > 0 =>
                           \E limit \in RateLimits : spent[u] * Minute < (limit + 1) * Minute + limit * span
                      /\ Len(slid[u]) <= SlidingLimit
    BY DEF LimitsKept
  <1>1. Len(slid[u]) <= SlidingLimit BY DEF LimitsInv, SlidRemembered
  <1>2. ASSUME spent[u] > 0
        PROVE  \E limit \in RateLimits : spent[u] * Minute < (limit + 1) * Minute + limit * span
    <2>1. PICK b, n : b = buckets[u] /\ n = spent[u] OBVIOUS
    <2>2. /\ b = NoBucket \/ BucketTypeOK(b)
          /\ n \in Nat /\ n # 0 /\ span \in Nat /\ Accounted(b, n, span)
      <3>1. Account(b, n, span) BY <2>1, EachAccount DEF LimitsInv
      <3>2. n > 0 BY <1>2, <2>1
      <3> QED BY <3>1, <3>2 DEF Account
    <2>3. PICK l \in RateLimits : Within(b, n, span, l) BY <2>2 DEF Accounted
    <2>4. /\ l \in Nat /\ Minute \in Nat \ {0} /\ Room(b) \in Nat
      BY <2>2, RateAssumption, RoomPositive
    <2>5. /\ n * Minute \in Nat /\ l * span \in Nat /\ l * Minute \in Nat
          /\ (l + 1) * Minute = l * Minute + Minute
      BY <2>2, <2>4, Products
    <2>6. Room(b) <= (l + 1) * Minute
      <3>1. CASE b = NoBucket BY <2>4, <2>5, <3>1 DEF Room
      <3>2. CASE b # NoBucket
        <4>1. b.limit \in Nat /\ b.tokens \in Nat /\ b.elapsed \in Nat /\ b.limit <= l
          BY <2>2, <2>3, <3>2, RealBucket DEF BucketTypeOK, Within
        <4>2. /\ b.tokens * Minute \in Nat /\ b.elapsed * b.limit \in Nat /\ b.limit * Minute \in Nat
              /\ b.limit * Minute <= l * Minute /\ (b.limit + 1) * Minute = b.limit * Minute + Minute
          BY <2>4, <4>1, Products, ProductOrder
        <4>3. Credit(b) \in Nat BY <4>1, <4>2 DEF Credit
        <4>4. Room(b) = b.limit * Minute + Minute - Credit(b) BY <2>4, <3>2, <4>1, <4>2, <4>3 DEF Room
        <4> QED BY <2>4, <2>5, <4>2, <4>3, <4>4
      <3> QED BY <3>1, <3>2
    <2>7. n * Minute < Room(b) + l * span BY <2>2, <2>3 DEF Within
    <2>8. n * Minute < (l + 1) * Minute + l * span BY <2>4, <2>5, <2>6, <2>7
    <2> QED BY <2>1, <2>8
  <1> QED BY <1>1, <1>2

\* For any number of users, any limits and any length of a minute: from any moment on a user is
\* granted less than a token more than its limit and what the time since gives, whatever Cleanup
\* drops and whatever fractions get lost; and no window of the other limiter holds more grants
\* than its limit (tokenbucket.go, RateLimiter and SlidingWindowLimiter).
THEOREM RateLimitsKept == RateSpec => []LimitsKept
  <1>1. LimitsInv /\ [RateNext]_rateVars => LimitsInv' BY LimitsInvStep
  <1> QED BY <1>1, LimitsInitOK, LimitsFollow, PTL DEF RateSpec

=============================================================================
