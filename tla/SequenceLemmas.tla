--------------------------- MODULE SequenceLemmas ---------------------------
(***************************************************************************)
(* Lemmas that the proofs about encodings and sorting share: induction     *)
(* over numbers, which the prover has not of its own and which is derived  *)
(* here from the least counterexample, what a loop computes, and what      *)
(* FlattenSeq returns, whose recursive function is shown to exist by       *)
(* extending it piece by piece.                                            *)
(***************************************************************************)
EXTENDS Integers, Sequences, SequencesExt, SequenceTheorems, WellFoundedInduction, TLAPS

-----------------------------------------------------------------------------
(* Induction, by the least counterexample *)

\* A set of natural numbers has a least element.
LEMMA LeastElement ==
    ASSUME NEW T \in SUBSET Nat, T # {}
    PROVE  \E x \in T : \A y \in T : ~(y < x)
  <1>1. \E x \in T : \A y \in T : ~(<<y, x>> \in OpToRel(<, Nat))
    BY NatLessThanWellFounded, WFMin, Zenon
  <1> QED BY <1>1, Zenon DEF OpToRel

\* A set with a, and with n + 1 whenever with n, has all numbers from a to b.
LEMMA UpFrom ==
    ASSUME NEW a \in Nat, NEW b \in Nat, NEW S, a \in S, \A n \in a..b : n \in S /\ n < b => n + 1 \in S
    PROVE  \A n \in a..b : n \in S
  <1> DEFINE T == (a..b) \ S
  <1> SUFFICES ASSUME T # {} PROVE FALSE OBVIOUS
  <1>1. T \in SUBSET Nat OBVIOUS
  <1>2. PICK x \in T : \A y \in T : ~(y < x)
    <2> HIDE DEF T
    <2> QED BY <1>1, LeastElement
  <1>3. x # a /\ x - 1 \in a..b /\ x - 1 < b /\ x - 1 < x /\ (x - 1) + 1 = x BY <1>2
  <1>4. x - 1 \in S BY <1>2, <1>3
  <1> QED BY <1>2, <1>3, <1>4

\* A set with b, and with n - 1 whenever with n, has all numbers down to 0.
LEMMA DownFrom ==
    ASSUME NEW b \in Nat, NEW S, b \in S, \A n \in 1..b : n \in S => n - 1 \in S
    PROVE  \A n \in 0..b : n \in S
  <1> DEFINE R == {n \in 0..b : b - n \in S}
  <1>1. 0 \in R BY SMT
  <1>2. ASSUME NEW n \in 0..b, n \in R /\ n < b PROVE n + 1 \in R
    <2>1. b - n \in 1..b /\ b - n \in S /\ (b - n) - 1 = b - (n + 1) BY <1>2
    <2> QED BY <1>2, <2>1
  <1>3. \A n \in 0..b : n \in R
    <2> HIDE DEF R
    <2> QED BY <1>1, <1>2, UpFrom
  <1>4. ASSUME NEW n \in 0..b PROVE n \in S
    <2>1. b - n \in 0..b /\ b - (b - n) = n OBVIOUS
    <2> QED BY <1>3, <2>1
  <1> QED BY <1>4

-----------------------------------------------------------------------------
(* Loops *)

\* g is what a loop computes that begins with base and does F[k] in round k.
Rounds(g, base, F, a, b) == g[a] = base /\ \A k \in (a + 1)..b : g[k] = F[k][g[k - 1]]

\* A loop computes something in each round.
LEMMA RoundsExist ==
    ASSUME NEW T, NEW base \in T, NEW a \in Nat, NEW b \in Nat, a <= b, NEW F \in [(a + 1)..b -> [T -> T]]
    PROVE  \E g \in [a..b -> T] : Rounds(g, base, F, a, b)
  <1> DEFINE N == {n \in a..b : \E g \in [a..n -> T] : Rounds(g, base, F, a, n)}
  <1>1. a \in N
    <2>1. PICK g : g = [k \in a..a |-> base] OBVIOUS
    <2>2. g \in [a..a -> T] /\ Rounds(g, base, F, a, a) BY <2>1 DEF Rounds
    <2>3. a \in a..b OBVIOUS
    <2> QED BY <2>2, <2>3, Zenon
  <1>2. ASSUME NEW n \in a..b, n \in N /\ n < b PROVE n + 1 \in N
    <2>1. PICK g \in [a..n -> T] : Rounds(g, base, F, a, n) BY <1>2
    <2>2. n + 1 \in (a + 1)..b /\ n \in a..n /\ n + 1 \in a..b BY <1>2
    <2>3. PICK x \in T : x = F[n + 1][g[n]] BY <2>2
    <2>4. PICK h : h = [k \in a..(n + 1) |-> IF k = n + 1 THEN x ELSE g[k]] OBVIOUS
    <2>5. \A k \in a..(n + 1) : k = n + 1 \/ k \in a..n OBVIOUS
    <2>6. h \in [a..(n + 1) -> T] BY <2>4, <2>5
    <2>7. h[n + 1] = x /\ \A k \in a..n : h[k] = g[k] BY <2>2, <2>4
    <2>8. ASSUME NEW k \in (a + 1)..(n + 1) PROVE h[k] = F[k][h[k - 1]]
      <3>1. CASE k = n + 1
        <4>1. k - 1 = n BY <3>1
        <4> QED BY <2>2, <2>3, <2>7, <3>1, <4>1
      <3>2. CASE k # n + 1
        <4>1. k \in (a + 1)..n /\ k \in a..n /\ k - 1 \in a..n BY <3>2
        <4> QED BY <2>1, <2>7, <4>1 DEF Rounds
      <3> QED BY <3>1, <3>2
    <2>9. h[a] = base BY <2>1, <2>7 DEF Rounds
    <2>10. Rounds(h, base, F, a, n + 1) BY <2>8, <2>9 DEF Rounds
    <2> QED BY <2>2, <2>6, <2>10
  <1>3. \A n \in a..b : n \in N
    <2> HIDE DEF N
    <2> QED BY <1>1, <1>2, UpFrom
  <1>4. b \in N
    <2> HIDE DEF N
    <2> QED BY <1>3
  <1> QED BY <1>4

-----------------------------------------------------------------------------
(* FlattenSeq *)

\* A function on 1..n is a sequence.
LEMMA FunIsSeq ==
    ASSUME NEW S, NEW n \in Nat, NEW f \in [1..n -> S]
    PROVE  f \in Seq(S) /\ Len(f) = n
  BY SeqDef

\* g has the concatenations of the first 1, 2, ... n sequences.
Joins(g, seqs, n) ==
    /\ g[1] = seqs[1]
    /\ \A i \in 2..n : g[i] = g[i - 1] \o seqs[i]

\* There are such concatenations.
LEMMA JoinsExist ==
    ASSUME NEW S, NEW seqs \in Seq(Seq(S)), Len(seqs) # 0
    PROVE  \E g \in [1..Len(seqs) -> Seq(S)] : Joins(g, seqs, Len(seqs))
  <1> DEFINE Has(n) == \E g \in [1..n -> Seq(S)] : Joins(g, seqs, n)
             N == {n \in 1..Len(seqs) : Has(n)}
  <1>0. Len(seqs) \in Nat /\ Len(seqs) >= 1 /\ \A i \in 1..Len(seqs) : seqs[i] \in Seq(S)
    BY LenProperties, ElementOfSeq
  <1>1. 1 \in N
    <2>1. [i \in 1..1 |-> seqs[1]] \in [1..1 -> Seq(S)] BY <1>0
    <2>2. Joins([i \in 1..1 |-> seqs[1]], seqs, 1) BY DEF Joins
    <2> QED BY <1>0, <2>1, <2>2
  <1>2. ASSUME NEW n \in 1..Len(seqs), n \in N /\ n < Len(seqs) PROVE n + 1 \in N
    <2>1. PICK g \in [1..n -> Seq(S)] : Joins(g, seqs, n) BY <1>2
    <2> HIDE DEF N, Has
    <2> DEFINE h == [i \in 1..n + 1 |-> IF i = n + 1 THEN g[n] \o seqs[n + 1] ELSE g[i]]
    <2>2. n + 1 \in 1..Len(seqs) /\ n \in 1..n /\ n \in Nat /\ n >= 1 BY <1>0, <1>2
    <2>3. g[n] \o seqs[n + 1] \in Seq(S) BY <1>0, <2>1, <2>2, ConcatProperties
    <2>4. h \in [1..n + 1 -> Seq(S)] BY <2>1, <2>2, <2>3
    <2>5. /\ h[n + 1] = g[n] \o seqs[n + 1]
          /\ \A i \in 1..n : h[i] = g[i]
      <3>1. n + 1 \in 1..n + 1 /\ \A i \in 1..n : i # n + 1 /\ i \in 1..n + 1 BY <2>2
      <3> QED BY <3>1, Zenon
    <2> HIDE DEF h
    <2>6. Joins(h, seqs, n + 1)
      <3>1. h[1] = seqs[1] BY <2>1, <2>2, <2>5 DEF Joins
      <3>2. ASSUME NEW i \in 2..n + 1 PROVE h[i] = h[i - 1] \o seqs[i]
        <4>1. CASE i = n + 1
          <5>1. i - 1 = n BY <2>2, <4>1
          <5> QED BY <2>2, <2>5, <4>1, <5>1
        <4>2. CASE i # n + 1
          <5>1. i \in 2..n /\ i \in 1..n /\ i - 1 \in 1..n BY <2>2, <4>2
          <5> QED BY <2>1, <2>5, <5>1 DEF Joins
        <4> QED BY <4>1, <4>2
      <3> QED BY <3>1, <3>2 DEF Joins
    <2> QED BY <2>2, <2>4, <2>6 DEF Has, N
  <1>3. \A n \in 1..Len(seqs) : n \in N
    <2> HIDE DEF N
    <2> QED BY <1>0, <1>1, <1>2, UpFrom
  <1>4. Len(seqs) \in N
    <2> HIDE DEF N
    <2> QED BY <1>0, <1>3
  <1> QED BY <1>4

\* The recursive function in FlattenSeq is defined, and computes them.
LEMMA FlattenIsJoin ==
    ASSUME NEW S, NEW seqs \in Seq(Seq(S)), Len(seqs) # 0
    PROVE  \E g \in [1..Len(seqs) -> Seq(S)] :
             Joins(g, seqs, Len(seqs)) /\ FlattenSeq(seqs) = g[Len(seqs)]
  <1> DEFINE c == CHOOSE f : f = [i \in 1..Len(seqs) |-> IF i = 1 THEN seqs[i] ELSE f[i-1] \o seqs[i]]
  <1>0. Len(seqs) \in Nat /\ Len(seqs) >= 1 BY LenProperties
  <1>1. FlattenSeq(seqs) = c[Len(seqs)] BY DEF FlattenSeq
  <1>2. PICK g \in [1..Len(seqs) -> Seq(S)] : Joins(g, seqs, Len(seqs)) BY JoinsExist
  <1>3. g = [i \in 1..Len(seqs) |-> IF i = 1 THEN seqs[i] ELSE g[i-1] \o seqs[i]]
    <2>1. ASSUME NEW i \in 1..Len(seqs) PROVE g[i] = IF i = 1 THEN seqs[i] ELSE g[i-1] \o seqs[i]
      <3>1. CASE i = 1 BY <1>2, <3>1, Zenon DEF Joins
      <3>2. CASE i # 1
        <4>1. i \in 2..Len(seqs) BY <1>0, <3>2
        <4> QED BY <1>2, <3>2, <4>1, Zenon DEF Joins
      <3> QED BY <3>1, <3>2
    <2>2. g = [i \in 1..Len(seqs) |-> g[i]] BY <1>2
    <2> QED BY <2>1, <2>2, Zenon
  <1>4. c = [i \in 1..Len(seqs) |-> IF i = 1 THEN seqs[i] ELSE c[i-1] \o seqs[i]]
    BY <1>3, Zenon
  <1> HIDE DEF c
  <1>5. Joins(c, seqs, Len(seqs))
    <2>1. \A i \in 1..Len(seqs) : c[i] = IF i = 1 THEN seqs[i] ELSE c[i-1] \o seqs[i] BY <1>4, Zenon
    <2>2. 1 \in 1..Len(seqs) /\ \A i \in 2..Len(seqs) : i \in 1..Len(seqs) /\ i # 1 BY <1>0
    <2> QED BY <2>1, <2>2, Zenon DEF Joins
  <1> DEFINE N == {n \in 1..Len(seqs) : c[n] = g[n]}
  <1>6. 1 \in N BY <1>0, <1>2, <1>5 DEF Joins
  <1>7. ASSUME NEW n \in 1..Len(seqs), n \in N /\ n < Len(seqs) PROVE n + 1 \in N
    <2>1. n + 1 \in 2..Len(seqs) /\ n + 1 \in 1..Len(seqs) /\ (n + 1) - 1 = n BY <1>0, <1>7
    <2>2. c[n + 1] = c[n] \o seqs[n + 1] /\ g[n + 1] = g[n] \o seqs[n + 1]
      BY <1>2, <1>5, <2>1 DEF Joins
    <2> QED BY <1>7, <2>1, <2>2
  <1>8. Len(seqs) \in N
    <2>1. \A n \in 1..Len(seqs) : n \in N
      <3> HIDE DEF N
      <3> QED BY <1>0, <1>6, <1>7, UpFrom
    <2> HIDE DEF N
    <2> QED BY <1>0, <2>1
  <1> QED BY <1>1, <1>2, <1>8

\* flat begins with the first n sequences: each begins where the one before it ends.
LaidOut(off, seqs, flat, n) ==
    /\ Len(flat) = off[n]
    /\ \A k \in 1..n : off[k] <= off[n]
    /\ \A k \in 1..n : \A j \in 1..Len(seqs[k]) : flat[off[k - 1] + j] = seqs[k][j]
    /\ \A i \in 1..off[n] : \E k \in 1..n : off[k - 1] < i /\ i <= off[k]

\* The ends of the sequences when they are laid one after the other.
Ends(off, seqs) ==
    /\ off \in [0..Len(seqs) -> Nat] /\ off[0] = 0
    /\ \A k \in 1..Len(seqs) : off[k] = off[k - 1] + Len(seqs[k])

\* One more sequence is laid at the end.
LEMMA LayoutStep ==
    ASSUME NEW S, NEW seqs \in Seq(Seq(S)), NEW off, Ends(off, seqs), NEW n \in 1..Len(seqs),
           n < Len(seqs), NEW flat \in Seq(S), LaidOut(off, seqs, flat, n)
    PROVE  LaidOut(off, seqs, flat \o seqs[n + 1], n + 1)
  <1> DEFINE t == seqs[n + 1]  long == flat \o t
  <1>1. /\ Len(seqs) \in Nat /\ n + 1 \in 1..Len(seqs) /\ n \in Nat /\ n >= 1
        /\ \A k \in 1..Len(seqs) : seqs[k] \in Seq(S) /\ Len(seqs[k]) \in Nat
    BY LenProperties, ElementOfSeq
  <1>2. t \in Seq(S) /\ Len(t) \in Nat /\ Len(flat) \in Nat /\ Len(flat) = off[n]
    BY <1>1, LenProperties DEF LaidOut
  <1>3. /\ Len(long) = Len(flat) + Len(t)
        /\ \A i \in 1..Len(flat) + Len(t) : long[i] = IF i <= Len(flat) THEN flat[i] ELSE t[i - Len(flat)]
    <2> HIDE DEF t
    <2> QED BY <1>2, ConcatProperties
  <1>4. off[n + 1] = off[n] + Len(t) /\ \A k \in 0..n + 1 : off[k] \in Nat
    <2>1. (n + 1) - 1 = n /\ \A k \in 0..n + 1 : k \in 0..Len(seqs) BY <1>1
    <2> QED BY <1>1, <2>1 DEF Ends
  <1> HIDE DEF t, long
  <1>5. Len(long) = off[n + 1] BY <1>2, <1>3, <1>4
  <1>6. \A k \in 1..n + 1 : off[k] <= off[n + 1]
    <2>1. n \in 0..n + 1 BY <1>1
    <2>2. ASSUME NEW k \in 1..n + 1 PROVE off[k] <= off[n + 1]
      <3>1. CASE k = n + 1 BY <1>1, <1>4, <3>1
      <3>2. CASE k # n + 1
        <4>1. k \in 1..n /\ k \in 0..n + 1 BY <1>1, <3>2
        <4>2. off[k] <= off[n] BY <4>1 DEF LaidOut
        <4> QED BY <1>2, <1>4, <2>1, <4>1, <4>2
      <3> QED BY <3>1, <3>2
    <2> QED BY <2>2
  <1>7. ASSUME NEW k \in 1..n + 1, NEW j \in 1..Len(seqs[k]) PROVE long[off[k - 1] + j] = seqs[k][j]
    <2>1. CASE k = n + 1
      <3>1. k - 1 = n /\ j \in 1..Len(t) /\ seqs[k] = t BY <1>1, <2>1 DEF t
      <3>2. /\ Len(flat) + j \in 1..Len(flat) + Len(t) /\ ~(Len(flat) + j <= Len(flat))
            /\ (Len(flat) + j) - Len(flat) = j
        BY <1>2, <3>1
      <3>3. long[Len(flat) + j] = t[j] BY <1>3, <3>2
      <3> QED BY <1>2, <3>1, <3>3
    <2>2. CASE k # n + 1
      <3>1. k \in 1..n /\ k \in 1..Len(seqs) /\ k - 1 \in 0..n + 1 /\ k \in 0..n + 1 BY <1>1, <2>2
      <3>2. off[k] = off[k - 1] + Len(seqs[k]) BY <3>1 DEF Ends
      <3>3. off[k] <= off[n] /\ flat[off[k - 1] + j] = seqs[k][j] BY <3>1 DEF LaidOut
      <3>4. off[k - 1] \in Nat /\ off[k] \in Nat /\ Len(seqs[k]) \in Nat BY <1>1, <1>4, <3>1
      <3>5. off[k - 1] + j \in 1..Len(flat) + Len(t) /\ off[k - 1] + j <= Len(flat)
        <4>1. \A x, y, z, l, m, i \in Nat : (y = x + z /\ y <= l /\ 1 <= i /\ i <= z) =>
                x + i \in 1..l + m /\ x + i <= l
          OBVIOUS
        <4>2. j \in Nat /\ 1 <= j /\ j <= Len(seqs[k]) BY <3>4
        <4>3. off[k] <= Len(flat) /\ Len(flat) \in Nat /\ Len(t) \in Nat BY <1>2, <3>3
        <4> QED BY <3>2, <3>4, <4>1, <4>2, <4>3, Zenon
      <3> QED BY <1>3, <3>3, <3>5
    <2> QED BY <2>1, <2>2
  <1>8. ASSUME NEW i \in 1..off[n + 1] PROVE \E k \in 1..n + 1 : off[k - 1] < i /\ i <= off[k]
    <2>1. CASE i <= off[n]
      <3>1. i \in 1..off[n] BY <1>2, <1>4, <2>1
      <3>2. PICK k \in 1..n : off[k - 1] < i /\ i <= off[k] BY <3>1 DEF LaidOut
      <3>3. k \in 1..n + 1 BY <1>1
      <3> QED BY <3>2, <3>3
    <2>2. CASE ~(i <= off[n])
      <3>1. n + 1 \in 1..n + 1 /\ (n + 1) - 1 = n /\ off[n] < i /\ i <= off[n + 1]
        BY <1>1, <1>2, <1>4, <2>2
      <3> QED BY <3>1
    <2> QED BY <2>1, <2>2
  <1>9. LaidOut(off, seqs, long, n + 1) BY <1>5, <1>6, <1>7, <1>8 DEF LaidOut
  <1> QED BY <1>9 DEF long, t

\* What FlattenSeq returns.
LEMMA FlattenLayout ==
    ASSUME NEW S, NEW seqs \in Seq(Seq(S))
    PROVE  /\ FlattenSeq(seqs) \in Seq(S)
           /\ \E off : Ends(off, seqs) /\ LaidOut(off, seqs, FlattenSeq(seqs), Len(seqs))
  <1>0. CASE Len(seqs) = 0
    <2>1. FlattenSeq(seqs) = seqs BY <1>0 DEF FlattenSeq
    <2>2. seqs \in Seq(S) BY <1>0, FunIsSeq, LenProperties
    <2>3. Ends([k \in 0..0 |-> 0], seqs) /\ LaidOut([k \in 0..0 |-> 0], seqs, seqs, 0)
      BY <1>0 DEF Ends, LaidOut
    <2> QED BY <1>0, <2>1, <2>2, <2>3
  <1> SUFFICES ASSUME Len(seqs) # 0
               PROVE  /\ FlattenSeq(seqs) \in Seq(S)
                      /\ \E off : Ends(off, seqs) /\ LaidOut(off, seqs, FlattenSeq(seqs), Len(seqs))
    BY <1>0
  <1>1. PICK g \in [1..Len(seqs) -> Seq(S)] : Joins(g, seqs, Len(seqs)) /\ FlattenSeq(seqs) = g[Len(seqs)]
    BY FlattenIsJoin
  <1>2. /\ Len(seqs) \in Nat /\ Len(seqs) >= 1
        /\ \A k \in 1..Len(seqs) : seqs[k] \in Seq(S) /\ Len(seqs[k]) \in Nat
    BY LenProperties, ElementOfSeq
  <1>3. \A k \in 1..Len(seqs) : g[k] \in Seq(S) /\ Len(g[k]) \in Nat BY <1>1, LenProperties
  <1> DEFINE off == [k \in 0..Len(seqs) |-> IF k = 0 THEN 0 ELSE Len(g[k])]
  <1>4. off[0] = 0 /\ \A k \in 1..Len(seqs) : off[k] = Len(g[k])
    <2>1. 0 \in 0..Len(seqs) /\ \A k \in 1..Len(seqs) : k \in 0..Len(seqs) /\ k # 0 BY <1>2
    <2> QED BY <2>1, Zenon
  <1>5. off \in [0..Len(seqs) -> Nat] BY <1>2, <1>3
  <1> HIDE DEF off
  <1>6. Ends(off, seqs)
    <2>1. ASSUME NEW k \in 1..Len(seqs) PROVE off[k] = off[k - 1] + Len(seqs[k])
      <3>1. CASE k = 1
        <4>1. g[1] = seqs[1] /\ 1 - 1 = 0 BY <1>1 DEF Joins
        <4> QED BY <1>2, <1>4, <3>1, <4>1
      <3>2. CASE k # 1
        <4>1. k \in 2..Len(seqs) /\ k - 1 \in 1..Len(seqs) BY <1>2, <3>2
        <4>2. g[k] = g[k - 1] \o seqs[k] BY <1>1, <4>1 DEF Joins
        <4>3. Len(g[k]) = Len(g[k - 1]) + Len(seqs[k]) BY <1>2, <1>3, <4>1, <4>2, ConcatProperties
        <4> QED BY <1>4, <4>1, <4>3
      <3> QED BY <3>1, <3>2
    <2> QED BY <1>4, <1>5, <2>1 DEF Ends
  <1> DEFINE N == {n \in 1..Len(seqs) : LaidOut(off, seqs, g[n], n)}
  <1>7. 1 \in N
    <2>1. g[1] = seqs[1] /\ off[1] = Len(seqs[1]) /\ 1 \in 1..Len(seqs) /\ 1 - 1 = 0
      BY <1>1, <1>2, <1>4 DEF Joins
    <2>2. \A k \in 1..1 : k = 1 OBVIOUS
    <2>3. \A i \in 1..off[1] : off[0] < i /\ i <= off[1] BY <1>2, <1>4, <2>1
    <2>4. off[1] \in Nat /\ off[1] <= off[1] /\ 1 \in 1..1 BY <1>2, <2>1
    <2>5. \A j \in 1..Len(seqs[1]) : off[0] + j = j BY <1>2, <1>4
    <2>6. LaidOut(off, seqs, g[1], 1) BY <2>1, <2>2, <2>3, <2>4, <2>5 DEF LaidOut
    <2> QED BY <2>1, <2>6
  <1>8. ASSUME NEW n \in 1..Len(seqs), n \in N /\ n < Len(seqs) PROVE n + 1 \in N
    <2>1. n + 1 \in 2..Len(seqs) /\ n + 1 \in 1..Len(seqs) /\ (n + 1) - 1 = n BY <1>2, <1>8
    <2>2. g[n + 1] = g[n] \o seqs[n + 1] BY <1>1, <2>1 DEF Joins
    <2>3. LaidOut(off, seqs, g[n], n) BY <1>8
    <2>4. LaidOut(off, seqs, g[n] \o seqs[n + 1], n + 1) BY <1>3, <1>6, <1>8, <2>3, LayoutStep
    <2> QED BY <2>1, <2>2, <2>4
  <1>9. Len(seqs) \in N
    <2>1. \A n \in 1..Len(seqs) : n \in N
      <3> HIDE DEF N
      <3> QED BY <1>2, <1>7, <1>8, UpFrom
    <2> HIDE DEF N
    <2> QED BY <1>2, <2>1
  <1>10. LaidOut(off, seqs, FlattenSeq(seqs), Len(seqs)) BY <1>1, <1>9
  <1>11. FlattenSeq(seqs) \in Seq(S) BY <1>1, <1>2, <1>3
  <1> QED BY <1>6, <1>10, <1>11

-----------------------------------------------------------------------------
(* Concatenation and SubSeq *)

\* Both sequences are found in their concatenation.
LEMMA Joined ==
    ASSUME NEW S, NEW s \in Seq(S), NEW t \in Seq(S)
    PROVE  /\ s \o t \in Seq(S) /\ Len(s \o t) = Len(s) + Len(t)
           /\ \A j \in 1..Len(s) : (s \o t)[j] = s[j]
           /\ \A j \in 1..Len(t) : (s \o t)[Len(s) + j] = t[j]
  <1> DEFINE u == s \o t
  <1>1. Len(s) \in Nat /\ Len(t) \in Nat BY LenProperties
  <1>2. /\ u \in Seq(S) /\ Len(u) = Len(s) + Len(t)
        /\ \A j \in 1..Len(s) + Len(t) : u[j] = IF j <= Len(s) THEN s[j] ELSE t[j - Len(s)]
    BY ConcatProperties
  <1> HIDE DEF u
  <1>3. \A j \in 1..Len(s) : j \in 1..Len(s) + Len(t) /\ j <= Len(s) BY <1>1
  <1>4. \A j \in 1..Len(t) : /\ Len(s) + j \in 1..Len(s) + Len(t) /\ ~(Len(s) + j <= Len(s))
                               /\ (Len(s) + j) - Len(s) = j
    BY <1>1
  <1>5. \A j \in 1..Len(s) : u[j] = s[j] BY <1>2, <1>3
  <1>6. \A j \in 1..Len(t) : u[Len(s) + j] = t[j] BY <1>2, <1>4
  <1> QED BY <1>2, <1>5, <1>6 DEF u

\* The elements after position a up to position b.
LEMMA CutOut ==
    ASSUME NEW S, NEW s \in Seq(S), NEW a \in Nat, NEW b \in Nat, a <= b, b <= Len(s)
    PROVE  /\ SubSeq(s, a + 1, b) \in Seq(S) /\ Len(SubSeq(s, a + 1, b)) = b - a
           /\ \A j \in 1..b - a : SubSeq(s, a + 1, b)[j] = s[a + j]
  <1> DEFINE t == SubSeq(s, a + 1, b)
  <1>1. Len(s) \in Nat /\ \A i \in 1..Len(s) : s[i] \in S BY LenProperties, ElementOfSeq
  <1>2. \A i \in (a + 1)..b : s[i] \in S BY <1>1
  <1>3. a + 1 \in Int /\ b \in Int OBVIOUS
  <1>4. /\ t \in Seq(S) /\ Len(t) = IF a + 1 <= b THEN b - (a + 1) + 1 ELSE 0
        /\ \A i \in 1..b - (a + 1) + 1 : t[i] = s[(a + 1) + i - 1]
    BY <1>2, <1>3, SubSeqProperties
  <1> HIDE DEF t
  <1>5. Len(t) = b - a BY <1>4
  <1>6. \A j \in 1..b - a : j \in 1..b - (a + 1) + 1 /\ (a + 1) + j - 1 = a + j OBVIOUS
  <1>7. \A j \in 1..b - a : t[j] = s[a + j] BY <1>4, <1>6
  <1> QED BY <1>4, <1>5, <1>7 DEF t

\* A sequence that is found in another one is cut out of it.
LEMMA CutOutIs ==
    ASSUME NEW S, NEW s \in Seq(S), NEW t \in Seq(S), NEW a \in Nat, a + Len(t) <= Len(s),
           \A j \in 1..Len(t) : s[a + j] = t[j]
    PROVE  SubSeq(s, a + 1, a + Len(t)) = t
  <1> DEFINE u == SubSeq(s, a + 1, a + Len(t))
  <1>1. Len(t) \in Nat /\ a + Len(t) \in Nat /\ a <= a + Len(t) /\ (a + Len(t)) - a = Len(t)
    BY LenProperties
  <1>2. /\ u \in Seq(S) /\ Len(u) = (a + Len(t)) - a
        /\ \A j \in 1..(a + Len(t)) - a : u[j] = s[a + j]
    BY <1>1, CutOut
  <1> HIDE DEF u
  <1>3. Len(u) = Len(t) /\ \A j \in 1..Len(u) : u[j] = t[j] BY <1>1, <1>2
  <1>4. u = t BY <1>2, <1>3, SeqEqual
  <1> QED BY <1>4 DEF u

=============================================================================
