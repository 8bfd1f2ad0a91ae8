---------------------------- MODULE MessageProofs ----------------------------
(***************************************************************************)
(* Proofs about LongMessage, for texts of any length, any part size and    *)
(* limit, and any messages, references and orders of arrival, and about    *)
(* MessageSearch, for any messages stored and any page.                    *)
(*                                                                         *)
(* What the encoders and decoders compute is shown by induction on the     *)
(* text. The prover has no induction of its own, so the first lemmas       *)
(* derive it from the least counterexample; the recursive functions behind *)
(* FlattenSeq and the decoders are shown to exist by extending them unit   *)
(* by unit. A decoder is a walk over the units in steps of one or two: if  *)
(* it makes the right character of every piece the encoder wrote and goes  *)
(* on after it, it makes the text of all pieces (PiecesDecode). The parts  *)
(* of SplitMessage are laid out in the same way (PartsJoin). The headers   *)
(* need only that the inbox holds parts of messages that were sent         *)
(* (InboxSent).                                                            *)
(*                                                                         *)
(* The two loops of SearchSMS sort (LoopsSort): each position is settled   *)
(* by its inner loop and stays settled (PlacedStep). Without ties there is *)
(* one sorted order (OneSortedOrder), so that it does not matter in which  *)
(* order the map was met, and pages are adjacent cuts of it (SearchTiles). *)
(***************************************************************************)
EXTENDS LongMessage, MessageSearch, SequenceLemmas, FiniteSetTheorems, FunctionTheorems

-----------------------------------------------------------------------------
(* Decoders: recursive functions that go through their input by one or two units *)

\* f decodes the L units from each on: head says what the unit i gives, skip where it goes on.
Walk(f, L, head, skip) ==
    \A i \in 1..L + 2 : f[i] = IF i > L THEN <<>> ELSE <<head[i]>> \o f[i + skip[i]]

\* The recursion of a decoder is well defined.
LEMMA WalkExists ==
    ASSUME NEW S, NEW L \in Nat, NEW head \in [1..L -> S], NEW skip \in [1..L -> {1, 2}]
    PROVE  \E f \in [1..L + 2 -> Seq(S)] : Walk(f, L, head, skip)
  <1> DEFINE D == 1..L + 2
             At(f, i) == f[i] = IF i > L THEN <<>> ELSE <<head[i]>> \o f[i + skip[i]]
             From(m) == \E f \in [D -> Seq(S)] : \A i \in D : i > m => At(f, i)
             N == {m \in 0..L : From(m)}
  <1>1. L \in N
    <2>1. [i \in D |-> <<>>] \in [D -> Seq(S)] BY EmptySeq
    <2>2. \A i \in D : i > L => At([j \in D |-> <<>>], i) OBVIOUS
    <2>3. From(L)
      <3> HIDE DEF At, D
      <3> QED BY <2>1, <2>2, Zenon
    <2> HIDE DEF From
    <2> QED BY <2>3
  <1>2. ASSUME NEW m \in 1..L, m \in N PROVE m - 1 \in N
    <2>1. PICK f \in [D -> Seq(S)] : \A i \in D : i > m => At(f, i) BY <1>2
    <2>2. /\ m \in D /\ m <= L /\ ~(m > L) /\ m + skip[m] \in D /\ m + skip[m] # m
          /\ head[m] \in S /\ skip[m] \in {1, 2}
      OBVIOUS
    <2>3. f[m + skip[m]] \in Seq(S) BY <2>1, <2>2
    <2>4. <<head[m]>> \o f[m + skip[m]] \in Seq(S)
      <3>1. <<head[m]>> \in Seq(S) BY <2>2
      <3> QED BY <2>3, <3>1, ConcatProperties
    <2> DEFINE new == <<head[m]>> \o f[m + skip[m]]
               h == [f EXCEPT ![m] = new]
    <2>5. h \in [D -> Seq(S)] BY <2>1, <2>4
    <2>6. h[m] = new /\ \A i \in D : i # m => h[i] = f[i] BY <2>1, <2>2
    <2> HIDE DEF h, N, From
    <2>7. ASSUME NEW i \in D, i > m - 1 PROVE At(h, i)
      <3>1. CASE i = m BY <2>2, <2>6, <3>1
      <3>2. CASE i # m /\ i > L
        <4>1. i > m BY <2>2, <2>7, <3>2
        <4> QED BY <2>1, <2>6, <3>2, <4>1
      <3>3. CASE i # m /\ ~(i > L)
        <4>1. i > m /\ i + skip[i] \in D /\ i + skip[i] # m
          <5>1. i \in 1..L BY <3>3
          <5>2. skip[i] \in {1, 2} BY <5>1
          <5> QED BY <2>2, <2>7, <3>3, <5>1, <5>2
        <4> QED BY <2>1, <2>6, <3>3, <4>1
      <3> QED BY <3>1, <3>2, <3>3
    <2>8. From(m - 1)
      <3> HIDE DEF At
      <3> QED BY <2>5, <2>7 DEF From
    <2> QED BY <2>8 DEF N
  <1>3. 0 \in N
    <2>1. \A m \in 0..L : m \in N
      <3> HIDE DEF N
      <3> QED BY <1>1, <1>2, DownFrom
    <2> HIDE DEF N
    <2> QED BY <2>1
  <1>4. PICK f \in [D -> Seq(S)] : \A i \in D : i > 0 => At(f, i) BY <1>3
  <1>5. \A i \in D : i > 0 OBVIOUS
  <1>6. Walk(f, L, head, skip) BY <1>4, <1>5, Zenon DEF Walk
  <1> QED BY <1>4, <1>6

\* The pieces that begin after off[0], off[1], ... give want[1], want[2], ...
Gives(off, n, L, head, skip, want) ==
    /\ off \in [0..n -> Nat] /\ off[0] = 0 /\ off[n] = L
    /\ \A k \in 1..n : /\ off[k - 1] + 1 \in 1..L
                        /\ skip[off[k - 1] + 1] = off[k] - off[k - 1]
                        /\ head[off[k - 1] + 1] = want[k]

\* A walk over pieces that give want[1], want[2], ... gives want.
LEMMA Walked ==
    ASSUME NEW S, NEW L \in Nat, NEW head, NEW skip, NEW f, Walk(f, L, head, skip),
           NEW want \in Seq(S), NEW n \in Nat, n = Len(want),
           NEW off, Gives(off, n, L, head, skip, want)
    PROVE  f[1] = want
  <1>0. /\ off \in [0..n -> Nat] /\ off[0] = 0 /\ off[n] = L
        /\ \A k \in 1..n : /\ off[k - 1] + 1 \in 1..L
                            /\ skip[off[k - 1] + 1] = off[k] - off[k - 1]
                            /\ head[off[k - 1] + 1] = want[k]
    BY DEF Gives
  <1> DEFINE Rest(k, s) == s \in Seq(S) /\ Len(s) = n - k /\ \A j \in 1..n - k : s[j] = want[k + j]
             N == {k \in 0..n : Rest(k, f[off[k] + 1])}
  <1>1. n \in N
    <2>1. f[L + 1] = <<>>
      <3>1. L + 1 \in 1..L + 2 /\ L + 1 > L OBVIOUS
      <3> QED BY <3>1, Zenon DEF Walk
    <2>2. Rest(n, <<>>) BY EmptySeq
    <2> HIDE DEF Rest
    <2> QED BY <1>0, <2>1, <2>2
  <1>2. ASSUME NEW k \in 1..n, k \in N PROVE k - 1 \in N
    <2> DEFINE i == off[k - 1] + 1  s == f[off[k] + 1]
    <2>1. /\ off[k] \in Nat /\ off[k - 1] \in Nat /\ i \in 1..L
          /\ skip[i] = off[k] - off[k - 1] /\ head[i] = want[k] /\ want[k] \in S
      <3>1. k - 1 \in 0..n /\ k \in 0..n OBVIOUS
      <3>2. off[k] \in Nat /\ off[k - 1] \in Nat BY <1>0, <3>1
      <3>3. want[k] \in S BY ElementOfSeq
      <3> HIDE DEF N
      <3> QED BY <1>0, <3>2, <3>3
    <2>2. i \in 1..L + 2 /\ ~(i > L) /\ i + skip[i] = off[k] + 1 BY <2>1
    <2>3. f[i] = <<want[k]>> \o s
      <3>1. f[i] = <<head[i]>> \o f[i + skip[i]] BY <2>2 DEF Walk
      <3> HIDE DEF i
      <3> QED BY <2>1, <2>2, <3>1
    <2>4. Rest(k, s) BY <1>2
    <2> HIDE DEF i, s, N
    <2>5. <<want[k]>> \in Seq(S) /\ Len(<<want[k]>>) = 1 /\ <<want[k]>>[1] = want[k] BY <2>1
    <2>6. /\ f[i] \in Seq(S) /\ Len(f[i]) = 1 + Len(s)
          /\ \A j \in 1..1 + Len(s) : f[i][j] = IF j <= 1 THEN <<want[k]>>[j] ELSE s[j - 1]
      <3> DEFINE r == <<want[k]>>
      <3>1. r \in Seq(S) /\ s \in Seq(S) /\ Len(r) = 1 BY <2>4, <2>5
      <3>2. f[i] = r \o s BY <2>3
      <3> HIDE DEF r, Rest
      <3>3. /\ r \o s \in Seq(S) /\ Len(r \o s) = Len(r) + Len(s)
            /\ \A j \in 1..Len(r) + Len(s) : (r \o s)[j] = IF j <= Len(r) THEN r[j] ELSE s[j - Len(r)]
        BY <3>1, ConcatProperties
      <3> QED BY <3>1, <3>2, <3>3 DEF r
    <2>7. Len(f[i]) = n - (k - 1) /\ 1 + Len(s) = n - (k - 1) BY <2>4, <2>6
    <2>8. ASSUME NEW j \in 1..n - (k - 1) PROVE f[i][j] = want[(k - 1) + j]
      <3>1. CASE j = 1
        <4>1. (k - 1) + j = k BY <3>1
        <4> QED BY <2>5, <2>6, <2>7, <3>1, <4>1
      <3>2. CASE j # 1
        <4>1. ~(j <= 1) /\ j - 1 \in 1..n - k /\ k + (j - 1) = (k - 1) + j BY <3>2
        <4> QED BY <2>4, <2>6, <2>7, <4>1
      <3> QED BY <3>1, <3>2
    <2>9. Rest(k - 1, f[off[k - 1] + 1]) BY <2>6, <2>7, <2>8 DEF i
    <2> HIDE DEF Rest
    <2> QED BY <2>9 DEF N
  <1>3. 0 \in N
    <2>1. \A k \in 0..n : k \in N
      <3> HIDE DEF N
      <3> QED BY <1>1, <1>2, DownFrom
    <2> HIDE DEF N
    <2> QED BY <2>1
  <1>4. Rest(0, f[1])
    <2>1. Rest(0, f[off[0] + 1]) BY <1>3
    <2>2. off[0] + 1 = 1 BY <1>0
    <2> HIDE DEF Rest
    <2> QED BY <2>1, <2>2
  <1>5. Len(f[1]) = Len(want) /\ \A j \in 1..Len(f[1]) : f[1][j] = want[j] BY <1>4
  <1> QED BY <1>4, <1>5, SeqEqual

\* At p the units have the piece t.
PieceAt(units, p, t) ==
    /\ p \in 1..Len(units) /\ p + Len(t) - 1 <= Len(units)
    /\ \A j \in 1..Len(t) : units[p + (j - 1)] = t[j]

\* A decoder makes want[k] of the piece seqs[k], wherever it finds it, and goes on after it.
Reads(head, skip, units, seqs, want) ==
    \A k \in 1..Len(seqs) :
        /\ Len(seqs[k]) >= 1
        /\ \A p \in 1..Len(units) : PieceAt(units, p, seqs[k]) =>
              skip[p] = Len(seqs[k]) /\ head[p] = want[k]

\* Such a decoder makes want of all pieces.
LEMMA PiecesDecode ==
    ASSUME NEW S, NEW U, NEW seqs \in Seq(Seq(U)), NEW want \in Seq(S), Len(want) = Len(seqs),
           NEW units, units = FlattenSeq(seqs),
           NEW head, NEW skip, NEW f, Walk(f, Len(units), head, skip),
           Reads(head, skip, units, seqs, want)
    PROVE  f[1] = want
  <1> DEFINE n == Len(seqs)
  <1>1. units \in Seq(U) /\ Len(units) \in Nat /\ n \in Nat
        /\ \A k \in 1..n : seqs[k] \in Seq(U) /\ Len(seqs[k]) \in Nat
    BY FlattenLayout, LenProperties, ElementOfSeq
  <1>2. PICK off : Ends(off, seqs) /\ LaidOut(off, seqs, units, n) BY FlattenLayout
  <1>3. off \in [0..n -> Nat] /\ off[0] = 0 /\ off[n] = Len(units) BY <1>2 DEF Ends, LaidOut
  <1>4. ASSUME NEW k \in 1..n
        PROVE  /\ off[k - 1] + 1 \in 1..Len(units)
               /\ skip[off[k - 1] + 1] = off[k] - off[k - 1]
               /\ head[off[k - 1] + 1] = want[k]
    <2> DEFINE p == off[k - 1] + 1  t == seqs[k]
    <2>1. off[k - 1] \in Nat /\ off[k] \in Nat
      <3>1. k - 1 \in 0..n /\ k \in 0..n BY <1>1
      <3> QED BY <1>3, <3>1
    <2>2. off[k] = off[k - 1] + Len(t) /\ off[k] <= Len(units) /\ Len(t) \in Nat /\ Len(t) >= 1
      BY <1>1, <1>2, <1>3 DEF Ends, LaidOut, Reads
    <2>3. p \in 1..Len(units) /\ p + Len(t) - 1 <= Len(units) BY <1>1, <2>1, <2>2
    <2>4. ASSUME NEW j \in 1..Len(t) PROVE units[p + (j - 1)] = t[j]
      <3>1. units[off[k - 1] + j] = t[j] BY <1>2 DEF LaidOut
      <3>2. p + (j - 1) = off[k - 1] + j BY <2>1, <2>2
      <3> QED BY <3>1, <3>2
    <2>5. PieceAt(units, p, t) BY <2>3, <2>4 DEF PieceAt
    <2>6. skip[p] = Len(t) /\ head[p] = want[k] BY <2>3, <2>5 DEF Reads
    <2>7. Len(t) = off[k] - off[k - 1] BY <2>1, <2>2
    <2> QED BY <2>3, <2>6, <2>7
  <1> HIDE DEF n
  <1>5. n \in Nat /\ n = Len(want) BY <1>1 DEF n
  <1>6. Gives(off, n, Len(units), head, skip, want) BY <1>3, <1>4 DEF Gives
  <1> QED BY <1>1, <1>5, <1>6, Walked

-----------------------------------------------------------------------------
(* UCS2 *)

\* What DecodeUCS2 makes of unit i, and how far it goes on.
IsPair(units, i) == units[i] = "high" /\ i < Len(units) /\ units[i + 1] = "low"

Ucs2Head(units) ==
    [i \in 1..Len(units) |-> IF IsPair(units, i) THEN "emoji"
                             ELSE IF units[i] \in {"high", "low"} THEN "replaced" ELSE units[i]]

Ucs2Skip(units) == [i \in 1..Len(units) |-> IF IsPair(units, i) THEN 2 ELSE 1]

\* DecodeUCS2 is such a walk.
LEMMA Ucs2Walks ==
    ASSUME NEW S, NEW units \in Seq(S)
    PROVE  \E f : Walk(f, Len(units), Ucs2Head(units), Ucs2Skip(units)) /\ DecodeUCS2(units) = f[1]
  <1> DEFINE L == Len(units)  head == Ucs2Head(units)  skip == Ucs2Skip(units)
             Eq(f) == f = [i \in 1..L + 2 |->
                      IF i > L THEN <<>>
                      ELSE IF units[i] = "high" /\ i < L /\ units[i + 1] = "low"
                      THEN <<"emoji">> \o f[i + 2]
                      ELSE <<IF units[i] \in {"high", "low"} THEN "replaced" ELSE units[i]>> \o f[i + 1]]
             c == CHOOSE f : Eq(f)
  <1>1. DecodeUCS2(units) = c[1] BY DEF DecodeUCS2
  <1>2. L \in Nat BY LenProperties
  <1> DEFINE T == S \cup {"emoji", "replaced"}
  <1>3. head \in [1..L -> T] /\ skip \in [1..L -> {1, 2}]
    BY <1>2, ElementOfSeq DEF Ucs2Head, Ucs2Skip
  <1>4. PICK g \in [1..L + 2 -> Seq(T)] : Walk(g, L, head, skip)
    <2> HIDE DEF T, L, head, skip
    <2> QED BY <1>2, <1>3, WalkExists
  <1>5. \A f, i : i \in 1..L + 2 =>
           (IF i > L THEN <<>> ELSE <<head[i]>> \o f[i + skip[i]])
           = (IF i > L THEN <<>>
              ELSE IF units[i] = "high" /\ i < L /\ units[i + 1] = "low"
              THEN <<"emoji">> \o f[i + 2]
              ELSE <<IF units[i] \in {"high", "low"} THEN "replaced" ELSE units[i]>> \o f[i + 1])
    <2> SUFFICES ASSUME NEW f, NEW i \in 1..L + 2, ~(i > L)
                 PROVE  <<head[i]>> \o f[i + skip[i]]
                        = IF units[i] = "high" /\ i < L /\ units[i + 1] = "low"
                          THEN <<"emoji">> \o f[i + 2]
                          ELSE <<IF units[i] \in {"high", "low"} THEN "replaced" ELSE units[i]>> \o f[i + 1]
      BY Zenon
    <2>1. i \in 1..L
      <3> HIDE DEF L
      <3> QED BY <1>2
    <2>2. CASE IsPair(units, i)
      <3>1. head[i] = "emoji" /\ skip[i] = 2 BY <2>1, <2>2, Zenon DEF Ucs2Head, Ucs2Skip
      <3> QED BY <2>2, <3>1, Zenon DEF IsPair
    <2>3. CASE ~IsPair(units, i)
      <3>1. head[i] = IF units[i] \in {"high", "low"} THEN "replaced" ELSE units[i]
        BY <2>1, <2>3, Zenon DEF Ucs2Head
      <3>2. skip[i] = 1 BY <2>1, <2>3, Zenon DEF Ucs2Skip
      <3> QED BY <2>3, <3>1, <3>2, Zenon DEF IsPair
    <2> QED BY <2>2, <2>3
  <1>6. Eq(g)
    <2>1. g = [i \in 1..L + 2 |-> g[i]] BY <1>4
    <2>2. \A i \in 1..L + 2 : g[i] = IF i > L THEN <<>> ELSE <<head[i]>> \o g[i + skip[i]]
      BY <1>4, Zenon DEF Walk
    <2> HIDE DEF head, skip
    <2> QED BY <1>5, <2>1, <2>2, Zenon
  <1>7. Eq(c)
    <2> HIDE DEF Eq
    <2> QED BY <1>6, Zenon
  <1>8. Walk(c, L, head, skip)
    <2> HIDE DEF c, head, skip
    <2> QED BY <1>5, <1>7, Zenon DEF Walk
  <1> QED BY <1>1, <1>8, Zenon

\* The pieces of a text as EncodeText makes them.
LEMMA PiecesOf ==
    ASSUME NEW text \in Seq(Characters), NEW U, NEW seqs, seqs = [i \in DOMAIN text |-> seqs[i]],
           \A i \in 1..Len(text) : seqs[i] \in Seq(U)
    PROVE  seqs \in Seq(Seq(U)) /\ Len(seqs) = Len(text) /\ Len(text) \in Nat
  <1>1. DOMAIN text = 1..Len(text) /\ Len(text) \in Nat BY LenProperties
  <1>2. seqs \in [1..Len(text) -> Seq(U)] BY <1>1
  <1> QED BY <1>1, <1>2, FunIsSeq

\* DecodeUCS2 after EncodeUCS2 is the identity.
LEMMA Ucs2RoundTrip ==
    ASSUME NEW text \in Seq(Characters)
    PROVE  DecodeText(EncodeText(text, "ucs2"), "ucs2") = text
  <1> DEFINE U == Characters \cup {"high", "low"}
             seqs == [i \in DOMAIN text |-> Ucs2Units(text[i])]
             units == FlattenSeq(seqs)
  <1>1. EncodeText(text, "ucs2") = units BY DEF EncodeText
  <1>2. DecodeText(units, "ucs2") = DecodeUCS2(units) BY DEF DecodeText
  <1>3. DOMAIN text = 1..Len(text) /\ \A i \in 1..Len(text) : text[i] \in Characters
    BY LenProperties, ElementOfSeq
  <1>4. \A i \in 1..Len(text) : seqs[i] = IF text[i] = "emoji" THEN <<"high", "low">> ELSE <<text[i]>>
    BY <1>3 DEF Ucs2Units
  <1>5. ASSUME NEW i \in 1..Len(text) PROVE seqs[i] \in Seq(U)
    <2>1. text[i] \in U /\ "high" \in U /\ "low" \in U BY <1>3
    <2> HIDE DEF seqs, U
    <2>2. <<text[i]>> \in Seq(U) /\ <<"high", "low">> \in Seq(U) BY <2>1
    <2> QED BY <1>4, <2>2
  <1>6. seqs \in Seq(Seq(U)) /\ Len(seqs) = Len(text)
    <2>1. seqs = [i \in DOMAIN text |-> seqs[i]] OBVIOUS
    <2> HIDE DEF seqs, U
    <2> QED BY <1>5, <2>1, PiecesOf
  <1> HIDE DEF seqs
  <1>7. units \in Seq(U)
    <2> HIDE DEF U
    <2> QED BY <1>6, FlattenLayout
  <1> HIDE DEF units
  <1>8. PICK f : Walk(f, Len(units), Ucs2Head(units), Ucs2Skip(units)) /\ DecodeUCS2(units) = f[1]
    <2> HIDE DEF U
    <2> QED BY <1>7, Ucs2Walks
  <1>9. ASSUME NEW k \in 1..Len(text)
        PROVE  /\ Len(seqs[k]) >= 1
               /\ \A p \in 1..Len(units) : PieceAt(units, p, seqs[k]) =>
                     Ucs2Skip(units)[p] = Len(seqs[k]) /\ Ucs2Head(units)[p] = text[k]
    <2> SUFFICES ASSUME NEW p \in 1..Len(units), PieceAt(units, p, seqs[k])
                 PROVE  Ucs2Skip(units)[p] = Len(seqs[k]) /\ Ucs2Head(units)[p] = text[k]
      <3>1. seqs[k] = <<"high", "low">> \/ seqs[k] = <<text[k]>> BY <1>4
      <3>2. Len(<<"high", "low">>) = 2 /\ Len(<<text[k]>>) = 1 OBVIOUS
      <3>3. Len(seqs[k]) >= 1
        <4>1. Len(seqs[k]) = 2 \/ Len(seqs[k]) = 1 BY <3>1, <3>2, Zenon
        <4>2. 2 >= 1 /\ 1 >= 1 OBVIOUS
        <4> QED BY <4>1, <4>2, Zenon
      <3> QED BY <3>3
    <2>0. Len(units) \in Nat BY <1>7, LenProperties
    <2>1. CASE text[k] = "emoji"
      <3>1. seqs[k] = <<"high", "low">> BY <1>4, <2>1
      <3>2. units[p] = "high" /\ units[p + 1] = "low" /\ p < Len(units)
        <4>1. Len(seqs[k]) = 2 /\ seqs[k][1] = "high" /\ seqs[k][2] = "low" BY <3>1
        <4>2. p + 2 - 1 <= Len(units) /\ units[p + (1 - 1)] = "high" /\ units[p + (2 - 1)] = "low"
          BY <4>1 DEF PieceAt
        <4> QED BY <2>0, <4>2
      <3>3. IsPair(units, p) BY <3>2 DEF IsPair
      <3>4. Ucs2Skip(units)[p] = 2 /\ Ucs2Head(units)[p] = "emoji" BY <3>3 DEF Ucs2Skip, Ucs2Head
      <3> QED BY <2>1, <3>1, <3>4
    <2>2. CASE text[k] # "emoji"
      <3>1. seqs[k] = <<text[k]>> BY <1>4, <2>2
      <3>2. units[p] = text[k]
        <4>1. Len(seqs[k]) = 1 /\ seqs[k][1] = text[k] BY <3>1
        <4>2. units[p + (1 - 1)] = text[k] BY <4>1 DEF PieceAt
        <4> QED BY <2>0, <4>2
      <3>3. text[k] # "high" /\ text[k] # "low" BY <1>3 DEF Characters
      <3>4. Ucs2Skip(units)[p] = 1 /\ Ucs2Head(units)[p] = text[k]
        BY <3>2, <3>3 DEF Ucs2Skip, Ucs2Head, IsPair
      <3> QED BY <3>1, <3>4
    <2> QED BY <2>1, <2>2
  <1>10. f[1] = text
    <2> HIDE DEF U
    <2>1. units = FlattenSeq(seqs) BY DEF units
    <2>2. Reads(Ucs2Head(units), Ucs2Skip(units), units, seqs, text) BY <1>6, <1>9 DEF Reads
    <2> QED BY <1>6, <1>8, <2>1, <2>2, PiecesDecode
  <1> QED BY <1>1, <1>2, <1>8, <1>10

-----------------------------------------------------------------------------
(* GSM *)

\* What DecodeGSM makes of unit i, and how far it goes on.
IsEscape(units, i) == units[i] = "esc" /\ i < Len(units)

GsmHead(units) ==
    [i \in 1..Len(units) |-> IF IsEscape(units, i) THEN IF units[i + 1] = "e" THEN "euro" ELSE "space"
                             ELSE units[i]]

GsmSkip(units) == [i \in 1..Len(units) |-> IF IsEscape(units, i) THEN 2 ELSE 1]

\* DecodeGSM is such a walk.
LEMMA GsmWalks ==
    ASSUME NEW S, NEW units \in Seq(S)
    PROVE  \E f : Walk(f, Len(units), GsmHead(units), GsmSkip(units)) /\ DecodeGSM(units) = f[1]
  <1> DEFINE L == Len(units)  head == GsmHead(units)  skip == GsmSkip(units)
             Eq(f) == f = [i \in 1..L + 2 |->
                      IF i > L THEN <<>>
                      ELSE IF units[i] = "esc" /\ i < L
                      THEN <<IF units[i + 1] = "e" THEN "euro" ELSE "space">> \o f[i + 2]
                      ELSE <<units[i]>> \o f[i + 1]]
             c == CHOOSE f : Eq(f)
  <1>1. DecodeGSM(units) = c[1] BY DEF DecodeGSM
  <1>2. L \in Nat BY LenProperties
  <1> DEFINE T == S \cup {"euro", "space"}
  <1>3. head \in [1..L -> T] /\ skip \in [1..L -> {1, 2}]
    BY <1>2, ElementOfSeq DEF GsmHead, GsmSkip
  <1>4. PICK g \in [1..L + 2 -> Seq(T)] : Walk(g, L, head, skip)
    <2> HIDE DEF T, L, head, skip
    <2> QED BY <1>2, <1>3, WalkExists
  <1>5. \A f, i : i \in 1..L + 2 =>
           (IF i > L THEN <<>> ELSE <<head[i]>> \o f[i + skip[i]])
           = (IF i > L THEN <<>>
              ELSE IF units[i] = "esc" /\ i < L
              THEN <<IF units[i + 1] = "e" THEN "euro" ELSE "space">> \o f[i + 2]
              ELSE <<units[i]>> \o f[i + 1])
    <2> SUFFICES ASSUME NEW f, NEW i \in 1..L + 2, ~(i > L)
                 PROVE  <<head[i]>> \o f[i + skip[i]]
                        = IF units[i] = "esc" /\ i < L
                          THEN <<IF units[i + 1] = "e" THEN "euro" ELSE "space">> \o f[i + 2]
                          ELSE <<units[i]>> \o f[i + 1]
      BY Zenon
    <2>1. i \in 1..L
      <3> HIDE DEF L
      <3> QED BY <1>2
    <2>2. CASE IsEscape(units, i)
      <3>1. head[i] = (IF units[i + 1] = "e" THEN "euro" ELSE "space") /\ skip[i] = 2
        BY <2>1, <2>2, Zenon DEF GsmHead, GsmSkip
      <3> QED BY <2>2, <3>1, Zenon DEF IsEscape
    <2>3. CASE ~IsEscape(units, i)
      <3>1. head[i] = units[i]
        BY <2>1, <2>3, Zenon DEF GsmHead
      <3>2. skip[i] = 1 BY <2>1, <2>3, Zenon DEF GsmSkip
      <3> QED BY <2>3, <3>1, <3>2, Zenon DEF IsEscape
    <2> QED BY <2>2, <2>3
  <1>6. Eq(g)
    <2>1. g = [i \in 1..L + 2 |-> g[i]] BY <1>4
    <2>2. \A i \in 1..L + 2 : g[i] = IF i > L THEN <<>> ELSE <<head[i]>> \o g[i + skip[i]]
      BY <1>4, Zenon DEF Walk
    <2> HIDE DEF head, skip
    <2> QED BY <1>5, <2>1, <2>2, Zenon
  <1>7. Eq(c)
    <2> HIDE DEF Eq
    <2> QED BY <1>6, Zenon
  <1>8. Walk(c, L, head, skip)
    <2> HIDE DEF c, head, skip
    <2> QED BY <1>5, <1>7, Zenon DEF Walk
  <1> QED BY <1>1, <1>8, Zenon


\* The legible text has the length of the text and its characters, or '?'.
LEMMA LegibleText ==
    ASSUME NEW text \in Seq(Characters), NEW coding
    PROVE  /\ Legible(text, coding) \in Seq(Characters) /\ Len(Legible(text, coding)) = Len(text)
           /\ Len(text) \in Nat /\ DOMAIN text = 1..Len(text)
           /\ \A i \in 1..Len(text) :
                /\ text[i] \in Characters
                /\ Legible(text, coding)[i] =
                      IF coding = "gsm" /\ text[i] \notin Gsm \cup {"euro"} THEN "?" ELSE text[i]
  <1>1. /\ Len(text) \in Nat /\ DOMAIN text = 1..Len(text)
        /\ \A i \in 1..Len(text) : text[i] \in Characters
    BY LenProperties, ElementOfSeq
  <1>2. CASE coding # "gsm" BY <1>1, <1>2 DEF Legible
  <1>3. CASE coding = "gsm"
    <2> DEFINE s == [i \in DOMAIN text |-> IF text[i] \in Gsm \cup {"euro"} THEN text[i] ELSE "?"]
    <2>1. Legible(text, coding) = s BY <1>3 DEF Legible
    <2>2. "?" \in Characters BY DEF Characters
    <2>3. s \in [1..Len(text) -> Characters] BY <1>1, <2>2
    <2>4. \A i \in 1..Len(text) : s[i] = IF text[i] \in Gsm \cup {"euro"} THEN text[i] ELSE "?" BY <1>1
    <2> HIDE DEF s
    <2> QED BY <1>1, <1>3, <2>1, <2>3, <2>4, FunIsSeq
  <1> QED BY <1>2, <1>3

\* Without escapes in the text, DecodeGSM after EncodeGSM7Bit gives what is legible.
LEMMA GsmRoundTrip ==
    ASSUME NEW text \in Seq(Characters), ~Contains(text, "esc")
    PROVE  DecodeText(EncodeText(text, "gsm"), "gsm") = Legible(text, "gsm")
  <1> DEFINE seqs == [i \in DOMAIN text |-> GsmUnits(text[i])]
             units == FlattenSeq(seqs)
             want == Legible(text, "gsm")
  <1>1. EncodeText(text, "gsm") = units BY DEF EncodeText
  <1>2. DecodeText(units, "gsm") = DecodeGSM(units) BY DEF DecodeText
  <1>3. /\ DOMAIN text = 1..Len(text) /\ want \in Seq(Characters) /\ Len(want) = Len(text)
        /\ \A i \in 1..Len(text) :
              /\ text[i] \in Characters /\ text[i] # "esc"
              /\ want[i] = IF text[i] \notin Gsm \cup {"euro"} THEN "?" ELSE text[i]
    <2>1. \A i \in 1..Len(text) : text[i] # "esc" BY DEF Contains
    <2> QED BY <2>1, LegibleText
  <1> HIDE DEF want
  <1>4. \A i \in 1..Len(text) : seqs[i] = IF text[i] = "euro" THEN <<"esc", "e">> ELSE <<want[i]>>
    BY <1>3 DEF GsmUnits, Gsm
  <1>5. ASSUME NEW i \in 1..Len(text) PROVE seqs[i] \in Seq(Characters)
    <2>1. want[i] \in Characters /\ "esc" \in Characters /\ "e" \in Characters
      BY <1>3, ElementOfSeq DEF Characters
    <2> HIDE DEF seqs
    <2>2. <<want[i]>> \in Seq(Characters) /\ <<"esc", "e">> \in Seq(Characters) BY <2>1
    <2> QED BY <1>4, <2>2
  <1>6. seqs \in Seq(Seq(Characters)) /\ Len(seqs) = Len(text)
    <2>1. seqs = [i \in DOMAIN text |-> seqs[i]] OBVIOUS
    <2> HIDE DEF seqs
    <2> QED BY <1>5, <2>1, PiecesOf
  <1> HIDE DEF seqs
  <1>7. units \in Seq(Characters) BY <1>6, FlattenLayout
  <1> HIDE DEF units
  <1>8. PICK f : Walk(f, Len(units), GsmHead(units), GsmSkip(units)) /\ DecodeGSM(units) = f[1]
    BY <1>7, GsmWalks
  <1>9. ASSUME NEW k \in 1..Len(text)
        PROVE  /\ Len(seqs[k]) >= 1
               /\ \A p \in 1..Len(units) : PieceAt(units, p, seqs[k]) =>
                     GsmSkip(units)[p] = Len(seqs[k]) /\ GsmHead(units)[p] = want[k]
    <2> SUFFICES ASSUME NEW p \in 1..Len(units), PieceAt(units, p, seqs[k])
                 PROVE  GsmSkip(units)[p] = Len(seqs[k]) /\ GsmHead(units)[p] = want[k]
      <3>1. seqs[k] = <<"esc", "e">> \/ seqs[k] = <<want[k]>> BY <1>4
      <3>2. Len(<<"esc", "e">>) = 2 /\ Len(<<want[k]>>) = 1 OBVIOUS
      <3>3. Len(seqs[k]) >= 1
        <4>1. Len(seqs[k]) = 2 \/ Len(seqs[k]) = 1 BY <3>1, <3>2, Zenon
        <4>2. 2 >= 1 /\ 1 >= 1 OBVIOUS
        <4> QED BY <4>1, <4>2, Zenon
      <3> QED BY <3>3
    <2>0. Len(units) \in Nat BY <1>7, LenProperties
    <2>1. CASE text[k] = "euro"
      <3>1. seqs[k] = <<"esc", "e">> BY <1>4, <2>1
      <3>2. units[p] = "esc" /\ units[p + 1] = "e" /\ p < Len(units)
        <4>1. Len(seqs[k]) = 2 /\ seqs[k][1] = "esc" /\ seqs[k][2] = "e" BY <3>1
        <4>2. p + 2 - 1 <= Len(units) /\ units[p + (1 - 1)] = "esc" /\ units[p + (2 - 1)] = "e"
          BY <4>1 DEF PieceAt
        <4> QED BY <2>0, <4>2
      <3>3. IsEscape(units, p) BY <3>2 DEF IsEscape
      <3>4. GsmSkip(units)[p] = 2 /\ GsmHead(units)[p] = "euro" BY <3>2, <3>3 DEF GsmSkip, GsmHead
      <3>5. want[k] = "euro" BY <1>3, <2>1
      <3> QED BY <3>1, <3>4, <3>5
    <2>2. CASE text[k] # "euro"
      <3>1. seqs[k] = <<want[k]>> BY <1>4, <2>2
      <3>2. units[p] = want[k]
        <4>1. Len(seqs[k]) = 1 /\ seqs[k][1] = want[k] BY <3>1
        <4>2. units[p + (1 - 1)] = want[k] BY <4>1 DEF PieceAt
        <4> QED BY <2>0, <4>2
      <3>3. want[k] # "esc" BY <1>3
      <3>4. GsmSkip(units)[p] = 1 /\ GsmHead(units)[p] = want[k]
        BY <3>2, <3>3 DEF GsmSkip, GsmHead, IsEscape
      <3> QED BY <3>1, <3>4
    <2> QED BY <2>1, <2>2
  <1>10. f[1] = want
    <2>1. units = FlattenSeq(seqs) BY DEF units
    <2>2. Reads(GsmHead(units), GsmSkip(units), units, seqs, want) BY <1>6, <1>9 DEF Reads
    <2> QED BY <1>3, <1>6, <1>8, <2>1, <2>2, PiecesDecode
  <1> QED BY <1>1, <1>2, <1>8, <1>10 DEF want

-----------------------------------------------------------------------------
(* Binary *)

\* Binary text is its own encoding.
LEMMA BinaryRoundTrip ==
    ASSUME NEW text \in Seq(Characters)
    PROVE  DecodeText(EncodeText(text, "binary"), "binary") = text
  <1> DEFINE seqs == [i \in DOMAIN text |-> <<text[i]>>]
             units == FlattenSeq(seqs)
  <1>1. EncodeText(text, "binary") = units BY DEF EncodeText
  <1>2. DecodeText(units, "binary") = units BY DEF DecodeText
  <1>3. /\ DOMAIN text = 1..Len(text) /\ Len(text) \in Nat
        /\ \A i \in 1..Len(text) : text[i] \in Characters
    BY LenProperties, ElementOfSeq
  <1>4. \A i \in 1..Len(text) : seqs[i] = <<text[i]>> BY <1>3
  <1>5. seqs \in Seq(Seq(Characters)) /\ Len(seqs) = Len(text)
    <2>1. seqs = [i \in DOMAIN text |-> seqs[i]] OBVIOUS
    <2> HIDE DEF seqs
    <2>2. ASSUME NEW i \in 1..Len(text) PROVE seqs[i] \in Seq(Characters)
      <3>1. text[i] \in Characters /\ seqs[i] = <<text[i]>> BY <1>3, <1>4
      <3>2. <<text[i]>> \in Seq(Characters) BY <3>1
      <3> QED BY <3>1, <3>2
    <2> QED BY <2>1, <2>2, PiecesOf
  <1> HIDE DEF seqs
  <1>6. units \in Seq(Characters) BY <1>5, FlattenLayout
  <1>7. PICK off : Ends(off, seqs) /\ LaidOut(off, seqs, units, Len(seqs)) BY <1>5, FlattenLayout
  <1> HIDE DEF units
  <1>8. \A k \in 1..Len(text) : Len(seqs[k]) = 1 /\ seqs[k][1] = text[k]
    <2>1. \A x : Len(<<x>>) = 1 /\ <<x>>[1] = x OBVIOUS
    <2> QED BY <1>4, <2>1, Zenon
  <1> DEFINE N == {k \in 0..Len(text) : off[k] = k}
  <1>9. \A k \in 0..Len(text) : k \in N
    <2>1. 0 \in N BY <1>3, <1>7 DEF Ends
    <2>2. ASSUME NEW k \in 0..Len(text), k \in N /\ k < Len(text) PROVE k + 1 \in N
      <3>1. k + 1 \in 1..Len(text) /\ (k + 1) - 1 = k BY <1>3, <2>2
      <3>2. off[k + 1] = off[k] + Len(seqs[k + 1]) /\ Len(seqs[k + 1]) = 1
        BY <1>5, <1>7, <1>8, <3>1 DEF Ends
      <3> QED BY <1>3, <2>2, <3>1, <3>2
    <2> HIDE DEF N
    <2> QED BY <1>3, <2>1, <2>2, UpFrom
  <1>10. \A k \in 0..Len(text) : off[k] = k BY <1>9
  <1>11. Len(units) = Len(text) BY <1>3, <1>5, <1>7, <1>10 DEF LaidOut
  <1>12. ASSUME NEW i \in 1..Len(text) PROVE units[i] = text[i]
    <2>1. i - 1 \in 0..Len(text) /\ (i - 1) + 1 = i /\ 1 \in 1..1 BY <1>3
    <2>2. units[off[i - 1] + 1] = seqs[i][1] BY <1>5, <1>7, <1>8, <2>1 DEF LaidOut
    <2> QED BY <1>8, <1>10, <2>1, <2>2
  <1>13. units = text BY <1>6, <1>11, <1>12, SeqEqual
  <1> QED BY <1>1, <1>2, <1>13

\* Decoding what was encoded gives what of the text is legible in the coding.
LEMMA TextRoundTrip ==
    ASSUME NEW text \in Seq(Characters), NEW coding \in Codings, ~Escaped(text, coding)
    PROVE  DecodeText(EncodeText(text, coding), coding) = Legible(text, coding)
  <1>1. CASE coding = "gsm" BY <1>1, GsmRoundTrip DEF Escaped
  <1>2. CASE coding = "ucs2" BY <1>2, Ucs2RoundTrip DEF Legible
  <1>3. CASE coding = "binary" BY <1>3, BinaryRoundTrip DEF Legible
  <1> QED BY <1>1, <1>2, <1>3 DEF Codings

\* The detected coding has every character of the text.
LEMMA DetectedLegible ==
    ASSUME NEW text \in Seq(Characters)
    PROVE  Legible(text, DetectOptimalEncoding(text)) = text
  <1>1. CASE DetectOptimalEncoding(text) # "gsm" BY <1>1 DEF Legible
  <1>2. CASE DetectOptimalEncoding(text) = "gsm"
    <2>1. ToSet(text) \subseteq Gsm \cup {"euro"} BY <1>2 DEF DetectOptimalEncoding
    <2>2. \A i \in DOMAIN text : text[i] \in Gsm \cup {"euro"} BY <2>1 DEF ToSet
    <2>3. \A i \in 1..Len(text) : Legible(text, "gsm")[i] = text[i] BY <2>2, LegibleText
    <2>4. Legible(text, "gsm") \in Seq(Characters) /\ Len(Legible(text, "gsm")) = Len(text) BY LegibleText
    <2> QED BY <1>2, <2>3, <2>4, SeqEqual
  <1> QED BY <1>1, <1>2

-----------------------------------------------------------------------------
(* SplitMessage *)

\* Products, so that the provers need not find them.
LEMMA Multiples ==
    ASSUME NEW m \in Nat \ {0}, NEW k \in Nat
    PROVE  /\ k * m \in Nat /\ (k + 1) * m = k * m + m /\ 0 * m = 0
           /\ \A l \in Nat : k <= l => k * m <= l * m
  OBVIOUS

\* The quotient rounded up.
LEMMA RoundedUp ==
    ASSUME NEW m \in Nat \ {0}, NEW x \in Nat, NEW q, q = (x + m - 1) \div m
    PROVE  q \in Nat /\ x <= q * m /\ q * m < x + m /\ (x > 0 => q >= 1)
  <1>1. x + m - 1 \in Nat OBVIOUS
  <1>2. q \in Nat /\ q * m <= x + m - 1 /\ x + m - 1 < q * m + m
    <2>1. \A y \in Nat : y \div m \in Nat /\ (y \div m) * m <= y /\ y < (y \div m) * m + m OBVIOUS
    <2> QED BY <1>1, <2>1
  <1>3. q * m \in Nat BY <1>2, Multiples
  <1>4. x <= q * m /\ q * m < x + m BY <1>2, <1>3
  <1>5. x > 0 => q # 0 BY <1>4, Multiples
  <1> QED BY <1>2, <1>4, <1>5

\* Part k begins before the end of the text.
Cut(text, k) ==
    /\ (k - 1) * MaxMulti \in Nat /\ k * MaxMulti = (k - 1) * MaxMulti + MaxMulti
    /\ (k - 1) * MaxMulti < Len(text)

\* The parts of a text: how many, where each begins, how long it is and what it has.
LEMMA SplitParts ==
    ASSUME NEW text \in Seq(Characters), NEW cut, cut = SplitMessage(text)
    PROVE  /\ cut \in Seq(Seq(Characters)) /\ Len(cut) = (Len(text) + MaxMulti - 1) \div MaxMulti
           /\ Len(cut) \in Nat /\ Len(text) \in Nat /\ Len(text) <= Len(cut) * MaxMulti
           /\ \A k \in 1..Len(cut) :
                /\ Cut(text, k)
                /\ Len(cut[k]) = IF k * MaxMulti < Len(text) THEN MaxMulti
                                 ELSE Len(text) - (k - 1) * MaxMulti
                /\ k < Len(cut) => Len(cut[k]) = MaxMulti
                /\ \A j \in 1..Len(cut[k]) :
                     /\ (k - 1) * MaxMulti + j \in 1..Len(text)
                     /\ cut[k][j] = text[(k - 1) * MaxMulti + j]
  <1> DEFINE L == Len(text)  M == MaxMulti  K == (L + M - 1) \div M
             End(i) == IF i * M < L THEN i * M ELSE L
             piece(i) == SubSeq(text, (i - 1) * M + 1, End(i))
  <1>1. L \in Nat /\ M \in Nat \ {0} /\ \A i \in 1..L : text[i] \in Characters
    BY LongAssumption, LenProperties, ElementOfSeq
  <1>2. cut = [i \in 1..K |-> piece(i)] BY DEF SplitMessage
  <1> HIDE DEF L, M
  <1>3. K \in Nat /\ L <= K * M /\ K * M < L + M /\ K * M \in Nat
    <2>1. K \in Nat /\ L <= K * M /\ K * M < L + M
      <3> DEFINE q == K
      <3>1. q = (L + M - 1) \div M OBVIOUS
      <3> HIDE DEF q
      <3>2. q \in Nat /\ L <= q * M /\ q * M < L + M BY <1>1, <3>1, RoundedUp
      <3> QED BY <3>1, <3>2
    <2> HIDE DEF K
    <2> QED BY <1>1, <2>1, Multiples
  <1> HIDE DEF K
  <1>4. ASSUME NEW k \in 1..K
        PROVE  /\ (k - 1) * M \in Nat /\ k * M = (k - 1) * M + M /\ (k - 1) * M < L
               /\ k < K => k * M < L
    <2>1. k - 1 \in Nat /\ (k - 1) + 1 = k /\ k \in Nat /\ k <= K /\ K - 1 \in Nat /\ (K - 1) + 1 = K
      BY <1>3
    <2>2. (k - 1) * M \in Nat /\ k * M = (k - 1) * M + M
      BY <1>1, <2>1, Multiples
    <2>3. k * M <= K * M /\ k * M \in Nat BY <1>1, <1>3, <2>1, Multiples
    <2>4. (k - 1) * M < L BY <1>1, <1>3, <2>2, <2>3
    <2>5. k < K => k * M < L
      <3> SUFFICES ASSUME k < K PROVE k * M < L OBVIOUS
      <3>1. k + 1 <= K /\ k + 1 \in Nat BY <1>3, <2>1
      <3>2. (k + 1) * M = k * M + M /\ (k + 1) * M <= K * M BY <1>1, <1>3, <2>1, <3>1, Multiples
      <3> QED BY <1>1, <1>3, <2>3, <3>2
    <2> QED BY <2>2, <2>4, <2>5
  <1>5. ASSUME NEW k \in 1..K
        PROVE  /\ piece(k) \in Seq(Characters)
               /\ Len(piece(k)) = IF k * M < L THEN M ELSE L - (k - 1) * M
               /\ \A j \in 1..Len(piece(k)) : /\ (k - 1) * M + j \in 1..L
                                              /\ piece(k)[j] = text[(k - 1) * M + j]
    <2>0. /\ (k - 1) * M \in Nat /\ k * M = (k - 1) * M + M /\ (k - 1) * M < L BY <1>4
    <2> DEFINE a == (k - 1) * M  e == End(k)
    <2>1. /\ a + 1 \in Int /\ e \in Int /\ a + 1 <= e /\ e <= L
          /\ e - a = IF k * M < L THEN M ELSE L - a
      <3> HIDE DEF a
      <3> QED BY <1>1, <2>0 DEF a
    <2> HIDE DEF a, e
    <2>2. a \in Nat BY <2>0 DEF a
    <2>3. \A i \in a + 1..e : text[i] \in Characters BY <1>1, <2>1, <2>2
    <2> DEFINE p == SubSeq(text, a + 1, e)
    <2>4. /\ p \in Seq(Characters) /\ Len(p) = e - (a + 1) + 1
          /\ \A i \in 1..e - (a + 1) + 1 : p[i] = text[(a + 1) + i - 1]
      BY <2>1, <2>3, SubSeqProperties
    <2> HIDE DEF p
    <2>5. Len(p) = e - a /\ \A j \in 1..e - a : p[j] = text[a + j] /\ a + j \in 1..L
      <3>1. e - (a + 1) + 1 = e - a BY <2>1, <2>2
      <3>2. ASSUME NEW j \in 1..e - a PROVE p[j] = text[a + j] /\ a + j \in 1..L
        <4>1. (a + 1) + j - 1 = a + j /\ a + j \in 1..L BY <1>1, <2>1, <2>2
        <4> QED BY <2>4, <3>1, <4>1
      <3> QED BY <2>4, <3>1, <3>2
    <2>6. p = piece(k) BY DEF p, a, e
    <2>7. /\ p \in Seq(Characters) /\ Len(p) = (IF k * M < L THEN M ELSE L - a)
          /\ \A j \in 1..Len(p) : a + j \in 1..L /\ p[j] = text[a + j]
      BY <2>1, <2>4, <2>5
    <2> QED BY <2>6, <2>7 DEF a
  <1>6. cut \in Seq(Seq(Characters)) /\ Len(cut) = K
    <2> HIDE DEF piece
    <2>1. cut \in [1..K -> Seq(Characters)] BY <1>2, <1>5
    <2> QED BY <1>3, <2>1, FunIsSeq
  <1>7. \A k \in 1..K : cut[k] = piece(k)
    <2> HIDE DEF piece
    <2> QED BY <1>2
  <1> HIDE DEF piece
  <1>8. ASSUME NEW k \in 1..K
        PROVE  /\ Cut(text, k)
               /\ Len(cut[k]) = IF k * M < L THEN M ELSE L - (k - 1) * M
               /\ k < K => Len(cut[k]) = M
               /\ \A j \in 1..Len(cut[k]) :
                     /\ (k - 1) * M + j \in 1..L
                     /\ cut[k][j] = text[(k - 1) * M + j]
    <2>1. Cut(text, k) BY <1>4 DEF Cut, L, M
    <2> QED BY <1>4, <1>5, <1>7, <2>1
  <1>9. Len(cut) = K /\ K \in Nat /\ L \in Nat /\ L <= K * M BY <1>1, <1>3, <1>6
  <1> QED BY <1>6, <1>8, <1>9 DEF L, M, K

\* The pieces are as long as the parts and have what want has in their places.
Fit(seqs, cut, want) ==
    \A k \in 1..Len(cut) :
        /\ Len(seqs[k]) = Len(cut[k])
        /\ \A j \in 1..Len(cut[k]) : seqs[k][j] = want[(k - 1) * MaxMulti + j]

\* Such pieces make up want.
LEMMA PartsJoin ==
    ASSUME NEW text \in Seq(Characters), NEW cut \in Seq(Seq(Characters)), cut = SplitMessage(text),
           NEW want \in Seq(Characters), Len(want) = Len(text),
           NEW seqs \in Seq(Seq(Characters)), Len(seqs) = Len(cut), Fit(seqs, cut, want)
    PROVE  FlattenSeq(seqs) = want
  <1> DEFINE L == Len(text)  M == MaxMulti  K == Len(cut)  flat == FlattenSeq(seqs)
             size == [k \in 1..K |-> Len(cut[k])]
  <1>1. K \in Nat /\ L \in Nat /\ M \in Nat \ {0} BY LongAssumption, SplitParts
  <1>2. L <= K * M BY SplitParts
  <1>3. \A k \in 1..K : size[k] = IF k * M < L THEN M ELSE L - (k - 1) * M BY SplitParts
  <1>4. \A k \in 1..K : (k - 1) * M < L BY SplitParts DEF Cut
  <1>5. PICK off : Ends(off, seqs) /\ LaidOut(off, seqs, flat, K) BY FlattenLayout
  <1>6. flat \in Seq(Characters) BY FlattenLayout
  <1>7. \A k \in 1..K : off[k] = off[k - 1] + size[k] BY <1>5 DEF Ends, Fit
  <1>8. \A k \in 1..K : \A j \in 1..size[k] : flat[off[k - 1] + j] = want[(k - 1) * M + j]
    <2> SUFFICES ASSUME NEW k \in 1..K, NEW j \in 1..size[k]
                 PROVE  flat[off[k - 1] + j] = want[(k - 1) * M + j]
      OBVIOUS
    <2>1. size[k] = Len(cut[k]) /\ Len(seqs[k]) = Len(cut[k]) BY DEF Fit
    <2>2. j \in 1..Len(seqs[k]) /\ j \in 1..Len(cut[k]) BY <2>1
    <2>3. seqs[k][j] = want[(k - 1) * M + j] BY <2>2, Zenon DEF Fit
    <2>4. flat[off[k - 1] + j] = seqs[k][j] BY <1>5, <2>2, Zenon DEF LaidOut
    <2> QED BY <2>3, <2>4
  <1>9. /\ off[0] = 0 /\ Len(flat) = off[K]
        /\ \A i \in 1..off[K] : \E k \in 1..K : off[k - 1] < i /\ i <= off[k]
    BY <1>5 DEF Ends, LaidOut
  <1> HIDE DEF L, M, K, flat, size
  <1>10. ASSUME NEW k \in 1..K
         PROVE  k - 1 \in 0..K /\ (k - 1) * M \in Nat /\ k * M = (k - 1) * M + M
    <2>1. k - 1 \in Nat /\ (k - 1) + 1 = k /\ k - 1 \in 0..K BY <1>1
    <2> QED BY <1>1, <2>1, Multiples
  <1>11. ~(K * M < L) /\ K \in 0..K
    <2>1. K * M \in Nat BY <1>1, Multiples
    <2> QED BY <1>1, <1>2, <2>1
  <1> DEFINE N == {k \in 0..K : off[k] = IF k * M < L THEN k * M ELSE L}
  <1>12. \A k \in 0..K : k \in N
    <2>1. 0 \in N
      <3>1. 0 * M = 0 /\ 0 \in 0..K BY <1>1
      <3>2. 0 = IF 0 < L THEN 0 ELSE L BY <1>1
      <3> QED BY <1>9, <3>1, <3>2
    <2>2. ASSUME NEW k \in 0..K, k \in N /\ k < K PROVE k + 1 \in N
      <3>1. k + 1 \in 1..K /\ (k + 1) - 1 = k /\ k + 1 \in 0..K BY <1>1, <2>2
      <3>2. k * M \in Nat /\ (k + 1) * M = k * M + M BY <1>10, <3>1
      <3>3. k * M < L BY <1>4, <3>1
      <3>4. size[k + 1] = IF (k + 1) * M < L THEN M ELSE L - k * M BY <1>3, <3>1
      <3>5. off[k + 1] = off[k] + size[k + 1] BY <1>7, <3>1
      <3>6. off[k] = k * M BY <2>2, <3>3
      <3>7. off[k + 1] = IF (k + 1) * M < L THEN (k + 1) * M ELSE L
        <4> HIDE DEF N
        <4>1. CASE (k + 1) * M < L BY <1>1, <3>2, <3>4, <3>5, <3>6, <4>1
        <4>2. CASE ~((k + 1) * M < L)
          <5>1. \A a \in Nat : a + (L - a) = L BY <1>1
          <5> QED BY <3>2, <3>4, <3>5, <3>6, <4>2, <5>1
        <4> QED BY <4>1, <4>2
      <3> QED BY <3>1, <3>7
    <2> HIDE DEF N
    <2> QED BY <1>1, <2>1, <2>2, UpFrom
  <1>13. \A k \in 0..K : off[k] = IF k * M < L THEN k * M ELSE L BY <1>12
  <1> HIDE DEF N
  <1>14. Len(flat) = L BY <1>9, <1>11, <1>13
  <1>15. ASSUME NEW i \in 1..L PROVE flat[i] = want[i]
    <2>1. PICK k \in 1..K : off[k - 1] < i /\ i <= off[k] BY <1>9, <1>14
    <2>2. k - 1 \in 0..K /\ (k - 1) * M \in Nat /\ k * M = (k - 1) * M + M BY <1>10
    <2>3. off[k - 1] = (k - 1) * M BY <1>4, <1>13, <2>2
    <2>4. off[k] = (k - 1) * M + size[k] BY <1>7, <2>3
    <2>5. size[k] \in Nat
      <3>1. size[k] = IF k * M < L THEN M ELSE L - (k - 1) * M BY <1>3
      <3>2. (k - 1) * M < L BY <1>4
      <3>3. \A a \in Nat : a < L => L - a \in Nat BY <1>1
      <3> QED BY <1>1, <2>2, <3>1, <3>2, <3>3
    <2>6. i - (k - 1) * M \in 1..size[k] /\ (k - 1) * M + (i - (k - 1) * M) = i
      <3>1. \A x, a, l \in Nat : a < x /\ x <= a + l => x - a \in 1..l /\ a + (x - a) = x OBVIOUS
      <3>2. i \in Nat /\ (k - 1) * M < i /\ i <= (k - 1) * M + size[k] BY <1>1, <2>1, <2>3, <2>4
      <3> QED BY <2>2, <2>5, <3>1, <3>2
    <2>7. flat[(k - 1) * M + (i - (k - 1) * M)] = want[(k - 1) * M + (i - (k - 1) * M)]
      BY <1>8, <2>3, <2>6
    <2> QED BY <2>6, <2>7
  <1>16. Len(flat) = Len(want) BY <1>14 DEF L
  <1>17. \A i \in 1..Len(flat) : flat[i] = want[i] BY <1>14, <1>15
  <1>18. flat = want BY <1>6, <1>16, <1>17, SeqEqual
  <1> QED BY <1>18 DEF flat

-----------------------------------------------------------------------------
(* ProcessLongSMS and ConcatenateSMSParts *)

\* The part number i of a text that is split.
NumberedPart(text, coding, ref, i) ==
    [ref |-> ref, total |-> Len(SplitMessage(text)), num |-> i, coding |-> coding,
     units |-> EncodeText(SplitMessage(text)[i], coding)]

\* Neither short enough for one part nor too long for all.
IsSplit(text) == ~(Len(text) <= MaxSingle) /\ ~(Len(SplitMessage(text)) > MaxParts)

\* The three outcomes of ProcessLongSMS.
LEMMA PartsMade ==
    ASSUME NEW text \in Seq(Characters), NEW coding, NEW ref
    PROVE  /\ Len(text) <= MaxSingle => ProcessLongSMS(text, coding, ref) = {WholePart(text, coding)}
           /\ (~(Len(text) <= MaxSingle) /\ Len(SplitMessage(text)) > MaxParts) =>
                 ProcessLongSMS(text, coding, ref) = {}
           /\ IsSplit(text) =>
                 ProcessLongSMS(text, coding, ref)
                 = {NumberedPart(text, coding, ref, i) : i \in 1..Len(SplitMessage(text))}
  <1> DEFINE cut == SplitMessage(text)
  <1>1. DOMAIN cut = 1..Len(cut)
    <2>1. cut \in Seq(Seq(Characters)) BY SplitParts
    <2> HIDE DEF cut
    <2> QED BY <2>1, LenProperties
  <1>2. ProcessLongSMS(text, coding, ref) =
           IF Len(text) <= MaxSingle THEN {WholePart(text, coding)}
           ELSE IF Len(cut) > MaxParts THEN {}
           ELSE {NumberedPart(text, coding, ref, i) : i \in DOMAIN cut}
    BY Zenon DEF ProcessLongSMS, NumberedPart
  <1> QED BY <1>1, <1>2, Zenon DEF IsSplit

\* As many parts as pieces.
LEMMA PartCount ==
    ASSUME NEW text \in Seq(Characters), NEW coding, NEW ref, IsSplit(text)
    PROVE  /\ Cardinality(ProcessLongSMS(text, coding, ref)) = Len(SplitMessage(text))
           /\ IsFiniteSet(ProcessLongSMS(text, coding, ref))
           /\ Len(SplitMessage(text)) \in Nat
  <1> DEFINE K == Len(SplitMessage(text))
             part(i) == NumberedPart(text, coding, ref, i)
             P == {part(i) : i \in 1..K}
             b == [i \in 1..K |-> part(i)]
  <1>1. K \in Nat BY SplitParts
  <1>2. \A i : part(i).num = i BY DEF NumberedPart
  <1> HIDE DEF part, K
  <1>3. b \in Bijection(1..K, P)
    <2>1. b \in [1..K -> P] OBVIOUS
    <2>2. \A i, j \in 1..K : b[i] = b[j] => i = j BY <1>2
    <2>3. \A p \in P : \E i \in 1..K : b[i] = p OBVIOUS
    <2> HIDE DEF b, P
    <2> QED BY <2>1, <2>2, <2>3 DEF Bijection, Injection, Surjection, IsInjective
  <1>4. IsFiniteSet(1..K) /\ Cardinality(1..K) = K BY <1>1, FS_Interval
  <1>5. IsFiniteSet(P) /\ Cardinality(P) = K
    <2> HIDE DEF b, P
    <2>1. ExistsBijection(1..K, P) BY <1>3, Zenon DEF ExistsBijection
    <2> QED BY <1>4, <2>1, FS_Bijection, Zenon
  <1>6. ProcessLongSMS(text, coding, ref) = P BY PartsMade, Zenon DEF K, part
  <1> HIDE DEF P
  <1> QED BY <1>1, <1>5, <1>6 DEF K

\* What EstimatePartCount says of the parts.
LEMMA Estimated ==
    ASSUME NEW text \in Seq(Characters),
           NEW parts, parts = ProcessLongSMS(text, "ucs2", 1),
           NEW count, count = EstimatePartCount(text)
    PROVE  /\ Cardinality(parts) = IF count > MaxParts THEN 0 ELSE count
           /\ \A p \in parts : Len(DecodeText(p.units, "ucs2")) = MaxMulti \/ p.num = p.total
  <1> DEFINE cut == SplitMessage(text)
  <1>0. /\ MaxParts \in Nat \ {0} /\ Len(text) \in Nat /\ MaxSingle \in Nat
        /\ Len(cut) \in Nat /\ Len(cut) = (Len(text) + MaxMulti - 1) \div MaxMulti
    BY LongAssumption, SplitParts
  <1>1. CASE Len(text) <= MaxSingle
    <2>1. parts = {WholePart(text, "ucs2")} BY <1>1, PartsMade
    <2>2. Cardinality(parts) = 1 BY <2>1, FS_Singleton
    <2>3. count = 1 BY <1>1 DEF EstimatePartCount
    <2>4. \A p \in parts : p.num = p.total BY <2>1 DEF WholePart
    <2>5. ~(count > MaxParts) BY <1>0, <2>3
    <2> QED BY <2>2, <2>3, <2>4, <2>5
  <1>2. CASE ~(Len(text) <= MaxSingle) /\ Len(cut) > MaxParts
    <2>1. parts = {} BY <1>2, PartsMade
    <2>2. count = Len(cut) BY <1>0, <1>2 DEF EstimatePartCount
    <2>3. Cardinality(parts) = 0 BY <2>1, FS_EmptySet
    <2> QED BY <1>2, <2>1, <2>2, <2>3
  <1>3. CASE IsSplit(text)
    <2>1. parts = {NumberedPart(text, "ucs2", 1, i) : i \in 1..Len(cut)} BY <1>3, PartsMade
    <2>2. Cardinality(parts) = Len(cut) BY <1>3, PartCount
    <2>3. count = Len(cut) /\ ~(count > MaxParts) BY <1>0, <1>3 DEF EstimatePartCount, IsSplit
    <2>4. ASSUME NEW p \in parts PROVE Len(DecodeText(p.units, "ucs2")) = MaxMulti \/ p.num = p.total
      <3>1. PICK i \in 1..Len(cut) : p = NumberedPart(text, "ucs2", 1, i) BY <2>1
      <3>2. p.num = i /\ p.total = Len(cut) /\ p.units = EncodeText(cut[i], "ucs2")
        BY <3>1 DEF NumberedPart
      <3>3. CASE i = Len(cut) BY <3>2, <3>3
      <3>4. CASE i # Len(cut)
        <4>1. i < Len(cut) BY <1>0, <3>4
        <4>2. cut \in Seq(Seq(Characters)) /\ Len(cut[i]) = MaxMulti BY <4>1, SplitParts
        <4> HIDE DEF cut
        <4>3. cut[i] \in Seq(Characters) BY <4>2, ElementOfSeq
        <4>4. DecodeText(p.units, "ucs2") = cut[i] BY <3>2, <4>3, Ucs2RoundTrip
        <4> QED BY <4>2, <4>4
      <3> QED BY <3>3, <3>4
    <2> QED BY <2>2, <2>3, <2>4
  <1> QED BY <1>1, <1>2, <1>3 DEF IsSplit

\* The receiver puts the text together from the parts of a message, in whatever order they are.
LEMMA Concatenated ==
    ASSUME NEW text \in Seq(Characters), NEW coding \in {"gsm", "ucs2"}, NEW ref,
           IsSplit(text), ~Escaped(text, coding),
           NEW P, NEW parts \in Seq(P), Len(parts) > 1,
           ToSet(parts) = ProcessLongSMS(text, coding, ref),
           Len(parts) = Cardinality(ProcessLongSMS(text, coding, ref))
    PROVE  ConcatenateSMSParts(parts) = Legible(text, coding)
  <1> DEFINE cut == SplitMessage(text)  K == Len(cut)  want == Legible(text, coding)
             part(i) == NumberedPart(text, coding, ref, i)
             pick(n) == CHOOSE i \in DOMAIN parts : parts[i].num = n
             seqs == [n \in 1..K |-> DecodeText(parts[pick(n)].units, parts[pick(n)].coding)]
  <1>1. K \in Nat /\ Len(parts) = K /\ K # 0 /\ DOMAIN parts = 1..K
    BY PartCount, LenProperties
  <1>2. {parts[i] : i \in 1..K} = {part(i) : i \in 1..K}
    BY <1>1, PartsMade DEF ToSet
  <1>3. \A i : part(i).num = i /\ part(i).total = K /\ part(i).ref = ref /\ part(i).coding = coding
               /\ part(i).units = EncodeText(cut[i], coding)
    BY DEF NumberedPart
  <1>4. cut \in Seq(Seq(Characters)) BY SplitParts
  <1>5. \A k \in 1..K : \A j \in 1..Len(cut[k]) :
           (k - 1) * MaxMulti + j \in 1..Len(text) /\ cut[k][j] = text[(k - 1) * MaxMulti + j]
    BY SplitParts
  <1> HIDE DEF part, K, cut, want
  <1>6. \A i \in 1..K : \E n \in 1..K : parts[i] = part(n) BY <1>2
  <1>7. \A n \in 1..K : \E i \in 1..K : parts[i] = part(n) BY <1>2
  <1>8. \A i \in 1..K : parts[i].total = K /\ parts[i].ref = ref BY <1>3, <1>6
  <1>9. {parts[i].num : i \in 1..K} = 1..K
    <2>1. \A i \in 1..K : parts[i].num \in 1..K BY <1>3, <1>6
    <2>2. \A n \in 1..K : \E i \in 1..K : parts[i].num = n BY <1>3, <1>7
    <2> QED BY <2>1, <2>2
  <1>10. ConcatenateSMSParts(parts) = FlattenSeq(seqs)
    <2>1. 1 \in 1..K BY <1>1
    <2>2. parts[1].total = K /\ parts[1].ref = ref BY <1>8, <2>1
    <2>3. ~(\/ K = 0
            \/ \E i \in DOMAIN parts : parts[i].total # K \/ parts[i].ref # parts[1].ref
            \/ Len(parts) # K \/ {parts[i].num : i \in DOMAIN parts} # 1..K)
      BY <1>1, <1>8, <1>9, <2>2
    <2> QED BY <2>2, <2>3, Zenon DEF ConcatenateSMSParts
  <1>11. ASSUME NEW n \in 1..K PROVE seqs[n] = Legible(cut[n], coding)
    <2>1. pick(n) \in 1..K /\ parts[pick(n)].num = n
      <3>1. \E i \in DOMAIN parts : parts[i].num = n BY <1>1, <1>3, <1>7
      <3>2. pick(n) \in DOMAIN parts /\ parts[pick(n)].num = n BY <3>1, Zenon
      <3> QED BY <1>1, <3>2
    <2> HIDE DEF pick
    <2>2. parts[pick(n)] = part(n)
      <3>1. PICK l \in 1..K : parts[pick(n)] = part(l) BY <1>6, <2>1
      <3> QED BY <1>3, <2>1, <3>1
    <2>3. seqs[n] = DecodeText(EncodeText(cut[n], coding), coding) BY <1>3, <2>2
    <2>4. cut[n] \in Seq(Characters) BY <1>4, ElementOfSeq DEF K
    <2>5. ~Escaped(cut[n], coding)
      <3> SUFFICES ASSUME coding = "gsm" PROVE ~Contains(cut[n], "esc") BY DEF Escaped
      <3>1. \A i \in 1..Len(text) : text[i] # "esc" BY DEF Escaped, Contains
      <3>2. \A j \in 1..Len(cut[n]) : cut[n][j] # "esc" BY <1>5, <3>1
      <3> QED BY <3>2 DEF Contains
    <2>6. coding \in Codings BY DEF Codings
    <2> QED BY <2>3, <2>4, <2>5, <2>6, TextRoundTrip
  <1> HIDE DEF pick
  <1>12. seqs \in Seq(Seq(Characters)) /\ Len(seqs) = K
    <2>1. \A n \in 1..K : seqs[n] \in Seq(Characters)
      <3> SUFFICES ASSUME NEW n \in 1..K PROVE seqs[n] \in Seq(Characters) OBVIOUS
      <3>1. cut[n] \in Seq(Characters) BY <1>4, ElementOfSeq DEF K
      <3> HIDE DEF seqs
      <3> QED BY <1>11, <3>1, LegibleText
    <2>2. seqs \in [1..K -> Seq(Characters)] BY <2>1
    <2> HIDE DEF seqs
    <2> QED BY <1>1, <2>2, FunIsSeq
  <1> HIDE DEF seqs
  <1>13. want \in Seq(Characters) /\ Len(want) = Len(text) BY LegibleText DEF want
  <1>14. Fit(seqs, cut, want)
    <2> SUFFICES ASSUME NEW k \in 1..K
                 PROVE  /\ Len(seqs[k]) = Len(cut[k])
                        /\ \A j \in 1..Len(cut[k]) : seqs[k][j] = want[(k - 1) * MaxMulti + j]
      BY DEF Fit, K
    <2>1. cut[k] \in Seq(Characters) BY <1>4, ElementOfSeq DEF K
    <2>2. seqs[k] = Legible(cut[k], coding) BY <1>11
    <2>3. ASSUME NEW j \in 1..Len(cut[k]) PROVE seqs[k][j] = want[(k - 1) * MaxMulti + j]
      <3>1. PICK i \in 1..Len(text) : i = (k - 1) * MaxMulti + j /\ cut[k][j] = text[i] BY <1>5
      <3>2. want[i] = IF coding = "gsm" /\ text[i] \notin Gsm \cup {"euro"} THEN "?" ELSE text[i]
        BY LegibleText DEF want
      <3>3. Legible(cut[k], coding)[j] =
              IF coding = "gsm" /\ cut[k][j] \notin Gsm \cup {"euro"} THEN "?" ELSE cut[k][j]
        BY <2>1, LegibleText
      <3> QED BY <2>2, <3>1, <3>2, <3>3, Zenon
    <2>4. Len(seqs[k]) = Len(cut[k]) BY <2>1, <2>2, LegibleText
    <2> QED BY <2>3, <2>4
  <1>15. FlattenSeq(seqs) = want BY <1>4, <1>12, <1>13, <1>14, PartsJoin DEF K, cut
  <1> QED BY <1>10, <1>15 DEF want

-----------------------------------------------------------------------------
(* The invariant *)

LEMMA LongInitInv == LongInit => LongInv
  <1> SUFFICES ASSUME LongInit PROVE LongInv OBVIOUS
  <1> DEFINE P == UNION {ProcessLongSMS(o.text, o.coding, o.ref) : o \in Messages}
  <1>1. draft \in Seq(Characters) /\ inbox \in Seq(P) /\ Len(inbox) = 0
    <2> HIDE DEF P
    <2> QED BY EmptySeq DEF LongInit
  <1>2. outgoing \in [MessageIDs -> Messages \cup {NotSent}] BY Zenon DEF LongInit
  <1>3. InboxSent BY <1>1 DEF InboxSent
  <1> QED BY <1>1, <1>2, <1>3 DEF LongInv, LongTypeOK

LEMMA LongNextInv == LongInv /\ [LongNext]_longVars => LongInv'
  <1> DEFINE P == UNION {ProcessLongSMS(o.text, o.coding, o.ref) : o \in Messages}
  <1> SUFFICES ASSUME LongInv, [LongNext]_longVars PROVE LongInv' OBVIOUS
  <1>0. /\ draft \in Seq(Characters) /\ outgoing \in [MessageIDs -> Messages \cup {NotSent}]
        /\ inbox \in Seq(P) /\ InboxSent
    BY DEF LongInv, LongTypeOK
  <1>1. ASSUME NEW c \in Characters, Type(c) PROVE LongInv'
    <2>1. draft' \in Seq(Characters) /\ UNCHANGED <<outgoing, inbox>>
      BY <1>0, <1>1, AppendProperties DEF Type
    <2> HIDE DEF P
    <2> QED BY <1>0, <2>1 DEF LongInv, LongTypeOK, InboxSent, PartsOf, P
  <1>2. ASSUME NEW m \in MessageIDs, NEW text \in LongTexts, NEW coding \in {"gsm", "ucs2"},
               NEW ref \in References, Send(m, text, coding, ref)
        PROVE  LongInv'
    <2> DEFINE o == [text |-> text, coding |-> coding, ref |-> ref]
    <2>1. outgoing[m] = NotSent /\ outgoing' = [outgoing EXCEPT ![m] = o] /\ UNCHANGED <<draft, inbox>>
      BY <1>2 DEF Send
    <2>2. o \in Messages BY DEF Messages
    <2> HIDE DEF o, P
    <2>3. LongTypeOK'
      <3>1. outgoing' \in [MessageIDs -> Messages \cup {NotSent}] BY <1>0, <2>1, <2>2
      <3> QED BY <1>0, <2>1, <3>1 DEF LongTypeOK, P
    <2>4. InboxSent'
      <3> SUFFICES ASSUME NEW i \in 1..Len(inbox)
                   PROVE  \E n \in MessageIDs :
                            /\ outgoing'[n] # NotSent
                            /\ inbox[i] \in ProcessLongSMS(outgoing'[n].text, outgoing'[n].coding,
                                                           outgoing'[n].ref)
        BY <2>1 DEF InboxSent, PartsOf
      <3>1. PICK n \in MessageIDs : outgoing[n] # NotSent /\ inbox[i] \in PartsOf(n) BY <1>0 DEF InboxSent
      <3>2. outgoing'[n] = outgoing[n] BY <1>0, <2>1, <3>1
      <3> QED BY <3>1, <3>2 DEF PartsOf
    <2> QED BY <2>3, <2>4 DEF LongInv
  <1>3. ASSUME NEW m \in MessageIDs, outgoing[m] # NotSent, NEW p \in PartsOf(m), Arrive(m, p)
        PROVE  LongInv'
    <2>1. p \in P
      <3>1. outgoing[m] \in Messages BY <1>0, <1>3
      <3>2. p \in ProcessLongSMS(outgoing[m].text, outgoing[m].coding, outgoing[m].ref) BY <1>3 DEF PartsOf
      <3> QED BY <3>1, <3>2
    <2> HIDE DEF P
    <2>2. inbox' = Append(inbox, p) /\ UNCHANGED <<draft, outgoing>> BY <1>3 DEF Arrive
    <2>3. /\ inbox' \in Seq(P) /\ Len(inbox') = Len(inbox) + 1 /\ Len(inbox) \in Nat
          /\ \A i \in 1..Len(inbox) : inbox'[i] = inbox[i]
          /\ inbox'[Len(inbox) + 1] = p
      BY <1>0, <2>1, <2>2, AppendProperties, LenProperties
    <2>4. LongTypeOK' BY <1>0, <2>2, <2>3 DEF LongTypeOK, P
    <2>5. InboxSent'
      <3> SUFFICES ASSUME NEW i \in 1..Len(inbox')
                   PROVE  \E n \in MessageIDs : outgoing[n] # NotSent /\ inbox'[i] \in PartsOf(n)
        BY <2>2 DEF InboxSent, PartsOf
      <3>1. CASE i = Len(inbox) + 1 BY <1>3, <2>3, <3>1
      <3>2. CASE i # Len(inbox) + 1
        <4>1. i \in 1..Len(inbox) BY <2>3, <3>2
        <4> QED BY <1>0, <2>3, <4>1 DEF InboxSent
      <3> QED BY <3>1, <3>2
    <2> QED BY <2>4, <2>5 DEF LongInv
  <1>4. CASE UNCHANGED longVars
    <2> HIDE DEF P
    <2> QED BY <1>0, <1>4 DEF longVars, LongInv, LongTypeOK, InboxSent, PartsOf, P
  <1> QED BY <1>1, <1>2, <1>3, <1>4 DEF LongNext

\* What is on its way has a text and a coding.
LEMMA OutgoingText ==
    ASSUME LongInv, NEW m \in MessageIDs
    PROVE  /\ outgoing[m].text \in Seq(Characters) /\ outgoing[m].coding \in {"gsm", "ucs2"}
           /\ outgoing[m] = NotSent => Len(outgoing[m].text) = 0
  <1>1. outgoing[m] \in Messages \/ outgoing[m] = NotSent BY DEF LongInv, LongTypeOK
  <1>2. CASE outgoing[m] \in Messages
    <2>1. outgoing[m].text \in Seq(Characters) /\ outgoing[m].coding \in {"gsm", "ucs2"}
      BY <1>2, LongAssumption DEF Messages
    <2>2. outgoing[m] = NotSent => outgoing[m].text = <<>> BY DEF NotSent
    <2> QED BY <2>1, <2>2
  <1>3. CASE outgoing[m] = NotSent
    <2>1. outgoing[m].text = <<>> /\ outgoing[m].coding = "gsm" BY <1>3 DEF NotSent
    <2> QED BY <2>1, EmptySeq
  <1> QED BY <1>1, <1>2, <1>3

-----------------------------------------------------------------------------
(* The properties *)

LEMMA LongRoundTrip == LongInv => RoundTrip
  <1> SUFFICES ASSUME LongInv PROVE RoundTrip OBVIOUS
  <1>1. draft \in Seq(Characters) BY DEF LongInv, LongTypeOK
  <1> QED BY <1>1, TextRoundTrip, DetectedLegible DEF RoundTrip

LEMMA LongEstimated == LongInv => PartsAsEstimated
  <1> SUFFICES ASSUME LongInv, NEW text \in {draft} \cup {outgoing[m].text : m \in MessageIDs}
               PROVE  LET parts == ProcessLongSMS(text, "ucs2", 1)
                          count == EstimatePartCount(text) IN
                      /\ Cardinality(parts) = IF count > MaxParts THEN 0 ELSE count
                      /\ \A p \in parts : Len(DecodeText(p.units, "ucs2")) = MaxMulti \/ p.num = p.total
    BY DEF PartsAsEstimated
  <1>1. text \in Seq(Characters) BY OutgoingText DEF LongInv, LongTypeOK
  <1> QED BY <1>1, Estimated, Zenon

\* More than one part: the message is split.
LEMMA CompleteIsSplit ==
    ASSUME LongInv, NEW m \in MessageIDs, Complete(m), Len(inbox) > 1
    PROVE  IsSplit(outgoing[m].text)
  <1> DEFINE o == outgoing[m]
  <1>1. o.text \in Seq(Characters) BY OutgoingText
  <1>2. Len(inbox) = Cardinality(ProcessLongSMS(o.text, o.coding, o.ref)) BY DEF Complete, PartsOf
  <1>3. CASE Len(o.text) <= MaxSingle
    <2>1. ProcessLongSMS(o.text, o.coding, o.ref) = {WholePart(o.text, o.coding)}
      BY <1>1, <1>3, PartsMade
    <2>2. Len(inbox) = 1 BY <1>2, <2>1, FS_Singleton
    <2> QED BY <2>2
  <1>4. CASE ~(Len(o.text) <= MaxSingle) /\ Len(SplitMessage(o.text)) > MaxParts
    <2>1. Len(inbox) = 0 BY <1>1, <1>2, <1>4, PartsMade, FS_EmptySet
    <2> QED BY <2>1
  <1> QED BY <1>3, <1>4 DEF IsSplit

\* The inbox of a whole message.
LEMMA LongComplete ==
    ASSUME LongInv, Len(inbox) > 1, NEW m \in MessageIDs, Complete(m),
           ~Escaped(outgoing[m].text, outgoing[m].coding)
    PROVE  ConcatenateSMSParts(inbox) = Legible(outgoing[m].text, outgoing[m].coding)
  <1>1. IsSplit(outgoing[m].text) BY CompleteIsSplit
  <1>2. outgoing[m].text \in Seq(Characters) /\ outgoing[m].coding \in {"gsm", "ucs2"} BY OutgoingText
  <1>3. PICK P : inbox \in Seq(P) BY DEF LongInv, LongTypeOK
  <1>4. /\ ToSet(inbox) = ProcessLongSMS(outgoing[m].text, outgoing[m].coding, outgoing[m].ref)
        /\ Len(inbox) = Cardinality(ProcessLongSMS(outgoing[m].text, outgoing[m].coding, outgoing[m].ref))
    BY DEF Complete, PartsOf
  <1> QED BY <1>1, <1>2, <1>3, <1>4, Concatenated

\* A part with a header is a numbered part of its message.
LEMMA HeaderTells ==
    ASSUME LongInv, NEW m \in MessageIDs, NEW p \in PartsOf(m), p.total # 0
    PROVE  /\ IsSplit(outgoing[m].text) /\ p.ref = outgoing[m].ref
           /\ p.total = Len(SplitMessage(outgoing[m].text)) /\ p.num \in 1..p.total
           /\ p = NumberedPart(outgoing[m].text, outgoing[m].coding, outgoing[m].ref, p.num)
  <1> DEFINE o == outgoing[m]
  <1>1. o.text \in Seq(Characters) /\ p \in ProcessLongSMS(o.text, o.coding, o.ref)
    BY OutgoingText DEF PartsOf
  <1>2. ~(Len(o.text) <= MaxSingle)
    <2> SUFFICES ASSUME Len(o.text) <= MaxSingle PROVE FALSE OBVIOUS
    <2>1. p = WholePart(o.text, o.coding) BY <1>1, PartsMade
    <2> QED BY <2>1 DEF WholePart
  <1>3. IsSplit(o.text) BY <1>1, <1>2, PartsMade DEF IsSplit
  <1>4. PICK i \in 1..Len(SplitMessage(o.text)) : p = NumberedPart(o.text, o.coding, o.ref, i)
    BY <1>1, <1>3, PartsMade
  <1>5. p.num = i /\ p.ref = o.ref /\ p.total = Len(SplitMessage(o.text)) BY <1>4 DEF NumberedPart
  <1> QED BY <1>3, <1>4, <1>5

\* What is not refused is a whole message, if references differ.
LEMMA LongRefused ==
    ASSUME LongInv, Len(inbox) > 1, ConcatenateSMSParts(inbox) # Refused,
           \A m, n \in MessageIDs : m # n /\ outgoing[m] # NotSent => outgoing[m].ref # outgoing[n].ref
    PROVE  \E m \in MessageIDs : outgoing[m] # NotSent /\ Complete(m)
  <1> DEFINE K == inbox[1].total
  <1>1. /\ K # 0 /\ Len(inbox) = K
        /\ \A i \in DOMAIN inbox : inbox[i].total = K /\ inbox[i].ref = inbox[1].ref
        /\ {inbox[i].num : i \in DOMAIN inbox} = 1..K
    BY Zenon DEF ConcatenateSMSParts
  <1>2. Len(inbox) \in Nat /\ DOMAIN inbox = 1..Len(inbox) BY LenProperties DEF LongInv, LongTypeOK
  <1>3. 1 \in 1..Len(inbox) BY <1>2
  <1>4. PICK m \in MessageIDs : outgoing[m] # NotSent /\ inbox[1] \in PartsOf(m)
    BY <1>3 DEF LongInv, InboxSent
  <1> DEFINE o == outgoing[m]  part(i) == NumberedPart(o.text, o.coding, o.ref, i)
  <1>5. IsSplit(o.text) /\ inbox[1].ref = o.ref /\ K = Len(SplitMessage(o.text))
    BY <1>1, <1>4, HeaderTells
  <1>6. ASSUME NEW i \in 1..Len(inbox) PROVE inbox[i] \in PartsOf(m) /\ inbox[i] = part(inbox[i].num)
    <2>1. PICK n \in MessageIDs : outgoing[n] # NotSent /\ inbox[i] \in PartsOf(n)
      BY DEF LongInv, InboxSent
    <2>2. inbox[i].total # 0 /\ inbox[i].ref = o.ref BY <1>1, <1>2, <1>5
    <2>3. inbox[i].ref = outgoing[n].ref BY <2>1, <2>2, HeaderTells
    <2>4. n = m BY <1>4, <2>1, <2>2, <2>3
    <2>5. inbox[i] \in PartsOf(m) BY <2>1, <2>4
    <2> QED BY <2>2, <2>5, HeaderTells
  <1>7. PartsOf(m) = {part(i) : i \in 1..K}
    <2>1. o.text \in Seq(Characters) BY OutgoingText
    <2> QED BY <1>5, <2>1, PartsMade DEF PartsOf
  <1>8. ToSet(inbox) \subseteq PartsOf(m) BY <1>2, <1>6 DEF ToSet
  <1>9. ASSUME NEW p \in PartsOf(m) PROVE p \in ToSet(inbox)
    <2>1. PICK n \in 1..K : p = part(n) BY <1>7
    <2>2. PICK i \in DOMAIN inbox : inbox[i].num = n BY <1>1
    <2>3. inbox[i] = part(n) BY <1>2, <1>6, <2>2
    <2> QED BY <2>1, <2>2, <2>3 DEF ToSet
  <1>10. Cardinality(PartsOf(m)) = K
    <2>1. o.text \in Seq(Characters) BY OutgoingText
    <2> QED BY <1>5, <2>1, PartCount DEF PartsOf
  <1>11. Complete(m) BY <1>1, <1>8, <1>9, <1>10 DEF Complete
  <1> QED BY <1>4, <1>11

LEMMA LongNoPatchwork == LongInv => NoPatchwork
  <1> SUFFICES ASSUME LongInv, Len(inbox) > 1
               PROVE  /\ \A m \in MessageIDs :
                           Complete(m) /\ ~Escaped(outgoing[m].text, outgoing[m].coding) =>
                             ConcatenateSMSParts(inbox) = Legible(outgoing[m].text, outgoing[m].coding)
                      /\ \/ ConcatenateSMSParts(inbox) = Refused
                         \/ \E m \in MessageIDs : outgoing[m] # NotSent /\ Complete(m)
                         \/ \E m, n \in MessageIDs :
                              m # n /\ outgoing[m] # NotSent /\ outgoing[m].ref = outgoing[n].ref
    BY DEF NoPatchwork
  <1> QED BY LongComplete, LongRefused

LEMMA LongInvariant == LongSpec => []LongInv
  BY LongInitInv, LongNextInv, PTL DEF LongSpec

\* For a text of any length and in every coding, decoding what was encoded gives the text back as far
\* as the coding has its characters, and the coding that is detected has all of them (TextEncoder:
\* Encode, Decode, DetectOptimalEncoding).
THEOREM TextComesBack == LongSpec => []RoundTrip
  BY LongInvariant, LongRoundTrip, PTL

\* For texts of any length and all limits EstimatePartCount is the number of parts ProcessLongSMS
\* makes, or there are too many; all parts but the last are full (SplitMessage).
THEOREM EstimateIsExact == LongSpec => []PartsAsEstimated
  BY LongInvariant, LongEstimated, PTL

\* For any messages and parts, however reordered, repeated, lost or mixed: ConcatenateSMSParts returns
\* the sender's text from the parts of one message and refuses everything else, unless two messages
\* with the same reference are under way.
THEOREM PartsComeTogether == LongSpec => []NoPatchwork
  BY LongInvariant, LongNoPatchwork, PTL

-----------------------------------------------------------------------------
(* MessageSearch: the order of the matching messages *)

\* The map holds messages with a submit time and a status.
SearchTypeOK == stored \in [StoredIDs -> [submit_time : SubmitTimes, status : Ranks] \cup {Nothing}]

LEMMA SearchTypes == SearchSpec => []SearchTypeOK
  <1>1. SearchInit => SearchTypeOK BY DEF SearchInit, SearchTypeOK
  <1>2. SearchTypeOK /\ [SearchNext]_stored => SearchTypeOK'
    BY DEF SearchTypeOK, SearchNext, Put, Drop
  <1> QED BY <1>1, <1>2, PTL DEF SearchSpec

\* Wrong is the strict order of the keys.
Strict(c) ==
    \A x, y, z \in Found(c) :
        /\ ~Wrong(x, y, c) /\ Wrong(x, z, c) => ~Wrong(z, y, c)
        /\ ~Wrong(x, x, c)
        /\ Wrong(x, y, c) => ~Wrong(y, x, c)
        /\ ~Wrong(x, y, c) /\ ~Wrong(y, x, c) => Key(x, c) = Key(y, c)

LEMMA KeysOrder ==
    ASSUME SearchTypeOK, NEW c \in SearchCriteria
    PROVE  Strict(c)
  <1>1. ASSUME NEW x \in Found(c) PROVE Key(x, c) \in Int
    <2>1. x \in StoredIDs /\ stored[x] # Nothing BY DEF Found, MatchesCriteria
    <2>2. stored[x] \in [submit_time : SubmitTimes, status : Ranks] BY <2>1 DEF SearchTypeOK
    <2>3. stored[x].submit_time \in SubmitTimes /\ stored[x].status \in Ranks BY <2>2
    <2>4. PICK a, b : a = stored[x].submit_time /\ b = stored[x].status OBVIOUS
    <2>5. a \in Nat /\ b \in Nat BY ONLY <2>3, <2>4, SearchAssumption, Zenon
    <2>6. a \in Int /\ b \in Int BY ONLY <2>5
    <2> QED BY ONLY <2>4, <2>6 DEF Key
  <1> QED BY <1>1 DEF Strict, Wrong

\* The orders in which the map may be met are the sequences of all matching messages.
LEMMA OrdersAre ==
    ASSUME NEW c, NEW X, X = Found(c), NEW n, n = Cardinality(X), NEW s \in MapOrders(c)
    PROVE  /\ n \in Nat /\ s \in [1..n -> X] /\ s \in Seq(X) /\ Len(s) = n
           /\ \A i, j \in 1..n : s[i] = s[j] => i = j
           /\ \A x \in X : \E i \in 1..n : s[i] = x
  <1>1. IsFiniteSet(X)
    <2>1. X \subseteq StoredIDs BY DEF Found
    <2> QED BY <2>1, SearchAssumption, FS_Subset
  <1>2. n \in Nat BY <1>1, FS_CardinalityType
  <1>3. s \in [1..n -> X] /\ \A i, j \in 1..n : i # j => s[i] # s[j] BY DEF MapOrders, SetToSeqs
  <1>4. \A i, j \in 1..n : s[i] = s[j] => i = j BY <1>3
  <1>5. s \in Injection(1..n, X) BY <1>3, <1>4, Fun_IsInj
  <1>6. Cardinality(1..n) = n
    <2>1. 1 \in Int /\ n \in Int BY <1>2
    <2>2. Cardinality(1..n) = IF 1 > n THEN 0 ELSE n - 1 + 1 BY <2>1, FS_Interval
    <2> QED BY <1>2, <2>2
  <1>7. s \in Surjection(1..n, X) BY <1>1, <1>5, <1>6, FS_Injection
  <1>8. \A x \in X : \E i \in 1..n : s[i] = x BY <1>7 DEF Surjection
  <1> QED BY <1>2, <1>3, <1>4, <1>8, FunIsSeq

\* s has each element of X at one of n positions.
Lists(s, X, n) ==
    /\ n \in Nat /\ s \in [1..n -> X] /\ \A i, j \in 1..n : s[i] = s[j] => i = j
    /\ \A x \in X : \E i \in 1..n : s[i] = x

LEMMA OrdersList ==
    ASSUME NEW c, NEW s \in MapOrders(c)
    PROVE  Lists(s, Found(c), Cardinality(Found(c)))
  <1>1. PICK X : X = Found(c) OBVIOUS
  <1>2. PICK n : n = Cardinality(X) OBVIOUS
  <1>3. Lists(s, X, n) BY <1>1, <1>2, OrdersAre DEF Lists
  <1> QED BY ONLY <1>1, <1>2, <1>3

\* And all sequences that name each of n different messages once are such orders.
LEMMA IsOrder ==
    ASSUME NEW c, NEW X, X = Found(c), NEW n, n = Cardinality(X), NEW s \in [1..n -> X],
           \A i, j \in 1..n : s[i] = s[j] => i = j
    PROVE  s \in MapOrders(c)
  BY DEF MapOrders, SetToSeqs

\* An exchange leaves an order an order.
LEMMA ExchangeOrder ==
    ASSUME NEW c, NEW s \in MapOrders(c), NEW n, n = Len(s), NEW i \in 1..n, NEW j \in 1..n
    PROVE  Exchange(s, i, j, c) \in MapOrders(c)
  <1>1. PICK X : X = Found(c) OBVIOUS
  <1>2. /\ n = Cardinality(X) /\ n \in Nat /\ s \in [1..n -> X]
        /\ \A k, l \in 1..n : s[k] = s[l] => k = l
    BY <1>1, OrdersAre
  <1>3. PICK t : t = [s EXCEPT ![i] = s[j], ![j] = s[i]] OBVIOUS
  <1>4. /\ t \in [1..n -> X]
        /\ \A k \in 1..n : t[k] = IF k = j THEN s[i] ELSE IF k = i THEN s[j] ELSE s[k]
    BY <1>2, <1>3
  <1>5. \A k, l \in 1..n : t[k] = t[l] => k = l BY <1>2, <1>4
  <1>6. t \in MapOrders(c) BY <1>1, <1>2, <1>4, <1>5, IsOrder
  <1> QED BY <1>3, <1>6 DEF Exchange

-----------------------------------------------------------------------------
(* MessageSearch: the sort *)

\* The first i positions have nothing after them that should be before them.
Settled(s, i, c) == \A a \in 1..i : \A k \in (a + 1)..Len(s) : ~Wrong(s[a], s[k], c)

\* And position i nothing up to j: what the inner loop has done when it has been at j.
Placed(s, i, j, c) == Settled(s, i - 1, c) /\ \A k \in (i + 1)..j : ~Wrong(s[i], s[k], c)

\* What an exchange does to each position.
LEMMA ExchangeIs ==
    ASSUME NEW c, NEW s \in MapOrders(c), NEW n, n = Len(s), NEW i \in 1..n, NEW j \in 1..n, i # j,
           NEW t, t = Exchange(s, i, j, c)
    PROVE  IF Wrong(s[i], s[j], c)
           THEN t[i] = s[j] /\ t[j] = s[i] /\ \A k \in 1..n : k # i /\ k # j => t[k] = s[k]
           ELSE t = s
  <1>1. s \in [1..n -> Found(c)] BY OrdersAre
  <1> QED BY <1>1 DEF Exchange

\* One comparison of the inner loop.
LEMMA PlacedStep ==
    ASSUME NEW c, Strict(c), NEW s \in MapOrders(c), NEW n, n = Len(s), NEW i \in 1..n, NEW j \in (i + 1)..n,
           Placed(s, i, j - 1, c), NEW t, t = Exchange(s, i, j, c)
    PROVE  Placed(t, i, j, c)
  <1>0. n \in Nat /\ s \in [1..n -> Found(c)] BY OrdersAre
  <1>1. j \in 1..n /\ i # j /\ i < j /\ i \in Nat /\ j \in Nat BY <1>0
  <1>2. t \in MapOrders(c) BY <1>1, ExchangeOrder
  <1>3. Len(t) = n BY <1>2, OrdersAre
  <1>4. IF Wrong(s[i], s[j], c)
        THEN t[i] = s[j] /\ t[j] = s[i] /\ \A k \in 1..n : k # i /\ k # j => t[k] = s[k]
        ELSE t = s
    BY <1>1, ExchangeIs
  <1>5. Settled(s, i - 1, c) /\ \A k \in (i + 1)..(j - 1) : ~Wrong(s[i], s[k], c) BY DEF Placed
  <1>6. CASE ~Wrong(s[i], s[j], c)
    <2>1. t = s BY <1>4, <1>6
    <2>2. \A k \in (i + 1)..j : k \in (i + 1)..(j - 1) \/ k = j BY <1>1
    <2>3. \A k \in (i + 1)..j : ~Wrong(t[i], t[k], c) BY <1>5, <1>6, <2>1, <2>2
    <2> QED BY <1>5, <2>1, <2>3 DEF Placed
  <1>7. CASE Wrong(s[i], s[j], c)
    <2>1. t[i] = s[j] /\ t[j] = s[i] /\ \A k \in 1..n : k # i /\ k # j => t[k] = s[k] BY <1>4, <1>7
    <2>2. ASSUME NEW a \in 1..(i - 1), NEW k \in (a + 1)..n PROVE ~Wrong(t[a], t[k], c)
      <3>1. a \in 1..n /\ a # i /\ a # j /\ k \in 1..n /\ i \in (a + 1)..n /\ j \in (a + 1)..n BY <1>0, <1>1
      <3>2. t[a] = s[a] BY <2>1, <3>1
      <3>3. PICK l \in (a + 1)..n : t[k] = s[l] BY <2>1, <3>1
      <3>4. ~Wrong(s[a], s[l], c) BY <1>5 DEF Settled
      <3> QED BY <3>2, <3>3, <3>4
    <2>3. ASSUME NEW k \in (i + 1)..j PROVE ~Wrong(t[i], t[k], c)
      <3>1. s[i] \in Found(c) /\ s[j] \in Found(c) BY <1>0, <1>1
      <3>2. CASE k = j BY <1>7, <2>1, <3>1, <3>2 DEF Strict
      <3>3. CASE k # j
        <4>1. k \in (i + 1)..(j - 1) /\ k \in 1..n /\ k # i BY <1>0, <1>1, <3>3
        <4>2. t[k] = s[k] /\ ~Wrong(s[i], s[k], c) /\ s[k] \in Found(c) BY <1>0, <1>5, <2>1, <3>3, <4>1
        <4> QED BY <1>7, <2>1, <3>1, <4>2 DEF Strict
      <3> QED BY <3>2, <3>3
    <2> QED BY <1>3, <2>2, <2>3 DEF Placed, Settled
  <1> QED BY <1>6, <1>7

\* The recursive function of the inner loop is defined, and runs through the exchanges.
LEMMA InnerLoopIs ==
    ASSUME NEW c, NEW s \in MapOrders(c), NEW n, n = Len(s), NEW i \in 1..n
    PROVE  \E h : /\ h[i] = s /\ InnerLoop(s, i, c) = h[n]
                  /\ \A j \in (i + 1)..n : h[j] = Exchange(h[j - 1], i, j, c)
  <1> DEFINE T == MapOrders(c)
             F == [j \in (i + 1)..n |-> [u \in T |-> Exchange(u, i, j, c)]]
             h == CHOOSE f : f = [j \in i..n |-> IF j = i THEN s ELSE Exchange(f[j - 1], i, j, c)]
  <1>0. n \in Nat /\ i \in Nat /\ i <= n BY OrdersAre
  <1>1. ASSUME NEW j \in (i + 1)..n, NEW u \in T PROVE Exchange(u, i, j, c) \in T
    <2>1. Len(u) = n BY OrdersAre
    <2>2. j \in 1..n BY <1>0
    <2> QED BY <2>1, <2>2, ExchangeOrder
  <1>2. F \in [(i + 1)..n -> [T -> T]]
    <2> HIDE DEF T
    <2> QED BY <1>1
  <1>3. PICK g \in [i..n -> T] : Rounds(g, s, F, i, n)
    <2> HIDE DEF F
    <2> QED BY <1>0, <1>2, RoundsExist
  <1>4. ASSUME NEW j \in i..n PROVE g[j] = IF j = i THEN s ELSE Exchange(g[j - 1], i, j, c)
    <2>1. CASE j = i BY <1>3, <2>1 DEF Rounds
    <2>2. CASE j # i
      <3>1. j \in (i + 1)..n /\ j - 1 \in i..n BY <1>0, <2>2
      <3>2. g[j] = F[j][g[j - 1]] /\ g[j - 1] \in T BY <1>3, <3>1 DEF Rounds
      <3>3. F[j][g[j - 1]] = Exchange(g[j - 1], i, j, c) BY <3>1, <3>2
      <3> QED BY <2>2, <3>2, <3>3
    <2> QED BY <2>1, <2>2
  <1>5. g = [j \in i..n |-> IF j = i THEN s ELSE Exchange(g[j - 1], i, j, c)]
    <2>1. g = [j \in i..n |-> g[j]] BY <1>3
    <2> QED BY <1>4, <2>1, Zenon
  <1>6. h = [j \in i..n |-> IF j = i THEN s ELSE Exchange(h[j - 1], i, j, c)] BY <1>5, Zenon
  <1>7. InnerLoop(s, i, c) = h[n] BY DEF InnerLoop
  <1> HIDE DEF h
  <1>8. \A j \in i..n : h[j] = IF j = i THEN s ELSE Exchange(h[j - 1], i, j, c) BY <1>6, Zenon
  <1>9. i \in i..n /\ \A j \in (i + 1)..n : j \in i..n /\ j # i BY <1>0
  <1>10. h[i] = s /\ \A j \in (i + 1)..n : h[j] = Exchange(h[j - 1], i, j, c) BY <1>8, <1>9, Zenon
  <1> QED BY <1>7, <1>10

\* The inner loop leaves an order an order.
LEMMA InnerLoopOrder ==
    ASSUME NEW c, NEW s \in MapOrders(c), NEW n, n = Len(s), NEW i \in 1..n
    PROVE  InnerLoop(s, i, c) \in MapOrders(c)
  <1>0. n \in Nat /\ i \in Nat /\ i <= n BY OrdersAre
  <1>1. PICK h : /\ h[i] = s /\ InnerLoop(s, i, c) = h[n]
                 /\ \A j \in (i + 1)..n : h[j] = Exchange(h[j - 1], i, j, c)
    BY InnerLoopIs
  <1> DEFINE N == {j \in i..n : h[j] \in MapOrders(c)}
  <1>2. i \in N BY <1>0, <1>1
  <1>3. ASSUME NEW j \in i..n, j \in N /\ j < n PROVE j + 1 \in N
    <2>1. j + 1 \in (i + 1)..n /\ j + 1 \in i..n /\ (j + 1) - 1 = j /\ j + 1 \in 1..n BY <1>0, <1>3
    <2>2. h[j + 1] = Exchange(h[j], i, j + 1, c) BY <1>1, <2>1
    <2>3. h[j] \in MapOrders(c) BY <1>3
    <2>4. Len(h[j]) = n BY <2>3, OrdersAre
    <2>5. h[j + 1] \in MapOrders(c) BY <2>1, <2>2, <2>3, <2>4, ExchangeOrder
    <2> QED BY <2>1, <2>5
  <1>4. \A j \in i..n : j \in N
    <2> HIDE DEF N
    <2> QED BY <1>0, <1>2, <1>3, UpFrom
  <1>5. n \in i..n BY <1>0
  <1> QED BY <1>1, <1>4, <1>5

\* The inner loop puts at position i what belongs there.
LEMMA InnerLoopPlaces ==
    ASSUME NEW c, Strict(c), NEW s \in MapOrders(c), NEW n, n = Len(s), NEW i \in 1..n, Settled(s, i - 1, c)
    PROVE  Settled(InnerLoop(s, i, c), i, c)
  <1>0. n \in Nat /\ i \in Nat /\ i <= n BY OrdersAre
  <1>1. PICK h : /\ h[i] = s /\ InnerLoop(s, i, c) = h[n]
                 /\ \A j \in (i + 1)..n : h[j] = Exchange(h[j - 1], i, j, c)
    BY InnerLoopIs
  <1> DEFINE N == {j \in i..n : h[j] \in MapOrders(c) /\ Placed(h[j], i, j, c)}
  <1>2. i \in N
    <2>1. Placed(s, i, i, c) BY <1>0 DEF Placed
    <2> QED BY <1>0, <1>1, <2>1
  <1>3. ASSUME NEW j \in i..n, j \in N /\ j < n PROVE j + 1 \in N
    <2>1. j + 1 \in (i + 1)..n /\ j + 1 \in i..n /\ (j + 1) - 1 = j /\ j + 1 \in 1..n BY <1>0, <1>3
    <2>2. h[j + 1] = Exchange(h[j], i, j + 1, c) BY <1>1, <2>1
    <2>3. h[j] \in MapOrders(c) /\ Placed(h[j], i, (j + 1) - 1, c) BY <1>3, <2>1
    <2>4. Len(h[j]) = n BY <2>3, OrdersAre
    <2>5. h[j + 1] \in MapOrders(c) BY <2>1, <2>2, <2>3, <2>4, ExchangeOrder
    <2>6. Placed(h[j + 1], i, j + 1, c) BY <2>1, <2>2, <2>3, <2>4, PlacedStep
    <2> QED BY <2>1, <2>5, <2>6
  <1>4. \A j \in i..n : j \in N
    <2> HIDE DEF N
    <2> QED BY <1>0, <1>2, <1>3, UpFrom
  <1>5. h[n] \in MapOrders(c) /\ Placed(h[n], i, n, c)
    <2>1. n \in i..n BY <1>0
    <2> QED BY <1>4, <2>1
  <1>6. PICK t : t = h[n] OBVIOUS
  <1>7. Len(t) = n BY <1>5, <1>6, OrdersAre
  <1>8. \A a \in 1..i : a \in 1..(i - 1) \/ a = i BY <1>0
  <1>9. Settled(t, i, c) BY <1>5, <1>6, <1>7, <1>8 DEF Placed, Settled
  <1> QED BY <1>1, <1>6, <1>9

\* The recursive function of the outer loop is defined, and runs through the positions.
LEMMA OuterLoopIs ==
    ASSUME NEW c, NEW s \in MapOrders(c), NEW n, n = Len(s)
    PROVE  \E h : /\ h[0] = s /\ OuterLoop(s, c) = h[n]
                  /\ \A i \in 1..n : h[i] = InnerLoop(h[i - 1], i, c)
  <1> DEFINE T == MapOrders(c)
             F == [i \in (0 + 1)..n |-> [u \in T |-> InnerLoop(u, i, c)]]
             h == CHOOSE f : f = [i \in 0..n |-> IF i = 0 THEN s ELSE InnerLoop(f[i - 1], i, c)]
  <1>0. n \in Nat /\ 0 \in Nat /\ 0 <= n /\ 0 + 1 = 1 BY OrdersAre
  <1>1. ASSUME NEW i \in (0 + 1)..n, NEW u \in T PROVE InnerLoop(u, i, c) \in T
    <2>1. Len(u) = n BY OrdersAre
    <2>2. i \in 1..n BY <1>0
    <2> QED BY <2>1, <2>2, InnerLoopOrder
  <1>2. F \in [(0 + 1)..n -> [T -> T]]
    <2> HIDE DEF T
    <2> QED BY <1>1
  <1>3. PICK g \in [0..n -> T] : Rounds(g, s, F, 0, n)
    <2> HIDE DEF F
    <2> QED BY <1>0, <1>2, RoundsExist
  <1>4. ASSUME NEW i \in 0..n PROVE g[i] = IF i = 0 THEN s ELSE InnerLoop(g[i - 1], i, c)
    <2>1. CASE i = 0 BY <1>3, <2>1 DEF Rounds
    <2>2. CASE i # 0
      <3>1. i \in (0 + 1)..n /\ i - 1 \in 0..n BY <1>0, <2>2
      <3>2. g[i] = F[i][g[i - 1]] /\ g[i - 1] \in T BY <1>3, <3>1 DEF Rounds
      <3>3. F[i][g[i - 1]] = InnerLoop(g[i - 1], i, c) BY <3>1, <3>2
      <3> QED BY <2>2, <3>2, <3>3
    <2> QED BY <2>1, <2>2
  <1>5. g = [i \in 0..n |-> IF i = 0 THEN s ELSE InnerLoop(g[i - 1], i, c)]
    <2>1. g = [i \in 0..n |-> g[i]] BY <1>3
    <2> QED BY <1>4, <2>1, Zenon
  <1>6. h = [i \in 0..n |-> IF i = 0 THEN s ELSE InnerLoop(h[i - 1], i, c)] BY <1>5, Zenon
  <1>7. OuterLoop(s, c) = h[n] BY DEF OuterLoop
  <1> HIDE DEF h
  <1>8. \A i \in 0..n : h[i] = IF i = 0 THEN s ELSE InnerLoop(h[i - 1], i, c) BY <1>6, Zenon
  <1>9. 0 \in 0..n /\ \A i \in 1..n : i \in 0..n /\ i # 0 BY <1>0
  <1>10. h[0] = s /\ \A i \in 1..n : h[i] = InnerLoop(h[i - 1], i, c) BY <1>8, <1>9, Zenon
  <1> QED BY <1>7, <1>10

\* The exchanges sort: nothing is lost, nothing is twice there, and no pair is out of order.
LEMMA LoopsSort ==
    ASSUME NEW c, Strict(c), NEW s \in MapOrders(c)
    PROVE  OuterLoop(s, c) \in MapOrders(c) /\ Sorted(OuterLoop(s, c), c)
  <1>n. PICK n : n = Len(s) OBVIOUS
  <1>0. n \in Nat BY <1>n, OrdersAre
  <1>1. PICK h : /\ h[0] = s /\ OuterLoop(s, c) = h[n]
                 /\ \A i \in 1..n : h[i] = InnerLoop(h[i - 1], i, c)
    BY <1>n, OuterLoopIs
  <1> DEFINE N == {i \in 0..n : h[i] \in MapOrders(c) /\ Settled(h[i], i, c)}
  <1>2. 0 \in N
    <2>1. Settled(s, 0, c) BY DEF Settled
    <2> QED BY <1>0, <1>1, <2>1
  <1>3. ASSUME NEW i \in 0..n, i \in N /\ i < n PROVE i + 1 \in N
    <2>1. i + 1 \in 1..n /\ i + 1 \in 0..n /\ (i + 1) - 1 = i BY <1>0, <1>3
    <2>2. h[i + 1] = InnerLoop(h[i], i + 1, c) BY <1>1, <2>1
    <2>3. h[i] \in MapOrders(c) /\ Settled(h[i], (i + 1) - 1, c) BY <1>3, <2>1
    <2>4. Len(h[i]) = n BY <1>n, <2>3, OrdersAre
    <2>5. h[i + 1] \in MapOrders(c) BY <2>1, <2>2, <2>3, <2>4, InnerLoopOrder
    <2>6. Settled(h[i + 1], i + 1, c) BY <2>1, <2>2, <2>3, <2>4, InnerLoopPlaces
    <2> QED BY <2>1, <2>5, <2>6
  <1>4. \A i \in 0..n : i \in N
    <2> HIDE DEF N
    <2> QED BY <1>0, <1>2, <1>3, UpFrom
  <1>5. PICK t : t = h[n] OBVIOUS
  <1>6. t \in MapOrders(c) /\ Settled(t, n, c)
    <2>1. n \in 0..n BY <1>0
    <2> QED BY <1>4, <1>5, <2>1
  <1>7. Len(t) = n /\ DOMAIN t = 1..n
    <2>1. Len(t) = n BY <1>n, <1>6, OrdersAre
    <2>2. t \in [1..n -> Found(c)] BY <2>1, <1>6, OrdersAre
    <2> QED BY <2>1, <2>2
  <1>8. ASSUME NEW i \in 1..n, NEW j \in 1..n, i < j PROVE ~Wrong(t[i], t[j], c)
    <2>1. j \in (i + 1)..Len(t) BY <1>0, <1>7, <1>8
    <2> QED BY <1>6, <2>1 DEF Settled
  <1>9. Sorted(t, c) BY <1>7, <1>8 DEF Sorted
  <1> QED BY <1>1, <1>5, <1>6, <1>9

\* Without ties there is one sorted order.
LEMMA OneSortedOrder ==
    ASSUME NEW c, Strict(c), DistinctKeys(c), NEW s \in MapOrders(c), Sorted(s, c), NEW t \in MapOrders(c), Sorted(t, c)
    PROVE  s = t
  <1>1. PICK X : X = Found(c) OBVIOUS
  <1>n. PICK n : n = Cardinality(X) OBVIOUS
  <1>l. Lists(s, X, n) /\ Lists(t, X, n) BY <1>1, <1>n, OrdersList
  <1>2. /\ n \in Nat /\ s \in [1..n -> X] /\ \A i, j \in 1..n : s[i] = s[j] => i = j
        /\ \A x \in X : \E i \in 1..n : s[i] = x
    BY ONLY <1>l, Zenon DEF Lists
  <1>3. /\ t \in [1..n -> X] /\ \A i, j \in 1..n : t[i] = t[j] => i = j
        /\ \A x \in X : \E i \in 1..n : t[i] = x
    BY ONLY <1>l, Zenon DEF Lists
  <1>4. \A i, j \in 1..n : i < j => ~Wrong(s[i], s[j], c) /\ ~Wrong(t[i], t[j], c) BY <1>2, <1>3 DEF Sorted
  <1> DEFINE N == {m \in 0..n : \A k \in 1..m : s[k] = t[k]}
  <1>5. 0 \in N BY <1>2
  <1>6. ASSUME NEW m \in 0..n, m \in N /\ m < n PROVE m + 1 \in N
    <2>1. PICK q \in 1..n : q = m + 1 BY <1>2, <1>6
    <2>2. \A k \in 1..n : k < q => s[k] = t[k] BY <1>2, <1>6, <2>1
    <2>3. s[q] \in X /\ t[q] \in X BY <1>2, <1>3
    <2>4. PICK x \in 1..n : s[x] = t[q] BY <1>2, <2>3
    <2>5. PICK y \in 1..n : t[y] = s[q] BY <1>3, <2>3
    <2>6. ~(x < q) /\ ~(y < q) BY <1>2, <1>3, <2>2, <2>4, <2>5
    <2>7. ~Wrong(s[q], t[q], c)
      <3>1. CASE x = q BY <1>1, <2>3, <2>4, <3>1 DEF Strict
      <3>2. CASE x # q
        <4>1. q < x BY <1>2, <2>6, <3>2
        <4> QED BY <1>4, <2>4, <4>1
      <3> QED BY <3>1, <3>2
    <2>8. ~Wrong(t[q], s[q], c)
      <3>1. CASE y = q BY <1>1, <2>3, <2>5, <3>1 DEF Strict
      <3>2. CASE y # q
        <4>1. q < y BY <1>2, <2>6, <3>2
        <4> QED BY <1>4, <2>5, <4>1
      <3> QED BY <3>1, <3>2
    <2>9. s[q] = t[q] BY <1>1, <2>3, <2>7, <2>8 DEF Strict, DistinctKeys
    <2>10. m + 1 \in 0..n /\ \A k \in 1..(m + 1) : k \in 1..m \/ k = q BY <1>2, <1>6, <2>1
    <2> QED BY <1>6, <2>9, <2>10
  <1>7. n \in N
    <2>1. \A m \in 0..n : m \in N
      <3> HIDE DEF N
      <3> QED BY <1>2, <1>5, <1>6, UpFrom
    <2>2. n \in 0..n BY <1>2
    <2> QED BY <2>1, <2>2, Zenon
  <1> QED BY <1>2, <1>3, <1>7

-----------------------------------------------------------------------------
(* MessageSearch: the pages *)

\* A position, or the end of s if that comes first.
Within(s, a) == IF a <= Len(s) THEN a ELSE Len(s)

\* The part of s after position a up to position b, or up to its end.
PageCut(s, a, b) == SubSeq(s, Within(s, a) + 1, Within(s, b))

\* Cuts tile.
LEMMA CutsTile ==
    ASSUME NEW S, NEW s \in Seq(S), NEW a \in Nat, NEW b \in Nat, NEW d \in Nat, a <= b, b <= d
    PROVE  PageCut(s, a, b) \o PageCut(s, b, d) = PageCut(s, a, d)
  <1>0. PICK n \in Nat : n = Len(s) BY LenProperties
  <1>1. PICK x, y, z : x = Within(s, a) /\ y = Within(s, b) /\ z = Within(s, d) OBVIOUS
  <1>2. x \in Nat /\ y \in Nat /\ z \in Nat /\ x <= y /\ y <= z /\ z <= n BY <1>0, <1>1 DEF Within
  <1>3. PICK m : m = x + 1 OBVIOUS
  <1>4. m \in 1..n + 1 /\ y \in m - 1..n /\ z \in y..n BY ONLY <1>0, <1>2, <1>3
  <1>5. m \in 1..Len(s) + 1 /\ y \in m - 1..Len(s) /\ z \in y..Len(s) BY ONLY <1>0, <1>4
  <1>6. SubSeq(s, m, y) \o SubSeq(s, y + 1, z) = SubSeq(s, m, z) BY <1>5, ConcatAdjacentSubSeq
  <1> QED BY ONLY <1>1, <1>3, <1>6 DEF PageCut

\* A page of either storage is a cut.
LEMMA PagesAreCuts ==
    ASSUME NEW S, NEW s \in Seq(S), NEW offset \in Nat, NEW limit \in Nat, limit # 0
    PROVE  /\ FilePage(s, offset, limit) = PageCut(s, offset, offset + limit)
           /\ MemoryPage(s, offset, limit) = PageCut(s, offset, offset + limit)
  <1>0. PICK n \in Nat : n = Len(s) BY LenProperties
  <1>1. PICK x, y : x = Within(s, offset) /\ y = Within(s, offset + limit) OBVIOUS
  <1>2. PageCut(s, offset, offset + limit) = SubSeq(s, x + 1, y) BY ONLY <1>1 DEF PageCut
  <1>3. CASE offset >= n
    <2>1. x = n /\ y = n BY <1>0, <1>1, <1>3 DEF Within
    <2>2. x + 1 \in Int /\ y \in Int /\ y < x + 1 BY ONLY <1>0, <2>1
    <2>3. SubSeq(s, x + 1, y) = <<>> BY ONLY <2>2, SubSeqEmpty
    <2>4. MemoryPage(s, offset, limit) = <<>> BY <1>0, <1>3 DEF MemoryPage
    <2>5. FilePage(s, offset, limit) = <<>>
      <3>1. CASE offset > 0 BY <1>0, <1>3, <3>1 DEF FilePage
      <3>2. CASE ~(offset > 0)
        <4>1. offset = x /\ n = 0 /\ ~(offset + limit < n) BY <1>0, <1>3, <2>1, <3>2
        <4>2. FilePage(s, offset, limit) = SubSeq(s, x + 1, y) BY ONLY <1>0, <2>1, <3>2, <4>1 DEF FilePage
        <4> QED BY ONLY <2>3, <4>2
      <3> QED BY ONLY <3>1, <3>2
    <2> QED BY ONLY <1>2, <2>3, <2>4, <2>5
  <1>4. CASE ~(offset >= n)
    <2>1. x = offset /\ y = (IF limit > 0 /\ offset + limit < n THEN offset + limit ELSE n)
          /\ y = (IF offset + limit > n THEN n ELSE offset + limit) /\ limit # 0
      BY <1>0, <1>1, <1>4 DEF Within
    <2>2. FilePage(s, offset, limit) = SubSeq(s, x + 1, y) BY ONLY <1>0, <1>4, <2>1 DEF FilePage
    <2>3. MemoryPage(s, offset, limit) = SubSeq(s, x + 1, y) BY ONLY <1>0, <1>4, <2>1 DEF MemoryPage
    <2> QED BY ONLY <1>2, <2>2, <2>3
  <1> QED BY ONLY <1>3, <1>4

\* Pages of a search tile, whatever the offset, the limit and the orders the map is met in.
THEOREM SearchTiles ==
    ASSUME SearchTypeOK, NEW c \in SearchCriteria, c.SortBy # "none", DistinctKeys(c),
           NEW s \in MapOrders(c), NEW t \in MapOrders(c), NEW offset \in Nat, NEW limit \in Nat, limit # 0
    PROVE  /\ FilePage(SortResults(s, c), offset, limit) \o FilePage(SortResults(t, c), offset + limit, limit)
                = FilePage(SortResults(s, c), offset, 2 * limit)
           /\ Sorted(t, c) => FilePage(SortResults(s, c), offset, limit) = MemoryPage(t, offset, limit)
  <1>1. Strict(c) BY KeysOrder
  <1>2. PICK u, v : u = SortResults(s, c) /\ v = SortResults(t, c) OBVIOUS
  <1>3. u \in MapOrders(c) /\ Sorted(u, c) /\ v \in MapOrders(c) /\ Sorted(v, c)
    BY <1>1, <1>2, LoopsSort DEF SortResults
  <1>4. u = v BY <1>1, <1>3, OneSortedOrder
  <1>5. PICK S : u \in Seq(S) BY <1>3, OrdersAre
  <1>6. offset + limit \in Nat /\ 2 * limit \in Nat /\ 2 * limit # 0 /\ offset + 2 * limit = (offset + limit) + limit
        /\ offset <= offset + limit /\ offset + limit <= (offset + limit) + limit /\ (offset + limit) + limit \in Nat
    OBVIOUS
  <1>7. /\ FilePage(u, offset, limit) = PageCut(u, offset, offset + limit)
        /\ FilePage(u, offset + limit, limit) = PageCut(u, offset + limit, (offset + limit) + limit)
        /\ FilePage(u, offset, 2 * limit) = PageCut(u, offset, offset + 2 * limit)
    BY <1>5, <1>6, PagesAreCuts
  <1>8. PageCut(u, offset, offset + limit) \o PageCut(u, offset + limit, (offset + limit) + limit)
          = PageCut(u, offset, (offset + limit) + limit)
    BY <1>5, <1>6, CutsTile
  <1>9. FilePage(u, offset, limit) \o FilePage(v, offset + limit, limit) = FilePage(u, offset, 2 * limit)
    BY <1>4, <1>6, <1>7, <1>8
  <1>10. ASSUME Sorted(t, c) PROVE FilePage(u, offset, limit) = MemoryPage(t, offset, limit)
    <2>1. u = t BY <1>1, <1>3, <1>10, OneSortedOrder
    <2>2. MemoryPage(u, offset, limit) = FilePage(u, offset, limit) BY <1>5, PagesAreCuts
    <2> QED BY <2>1, <2>2
  <1> QED BY <1>2, <1>9, <1>10

\* Pages tile and agree with the other storage in every state.
THEOREM SearchPages == SearchSpec => []PagesTile
  <1>1. ASSUME SearchTypeOK PROVE PagesTile
    <2> SUFFICES ASSUME NEW c \in SearchCriteria, c.SortBy # "none" /\ DistinctKeys(c),
                        NEW s \in MapOrders(c), NEW t \in MapOrders(c),
                        NEW offset \in 0..Cardinality(StoredIDs), NEW limit \in 1..2
                 PROVE  /\ FilePage(SortResults(s, c), offset, limit)
                             \o FilePage(SortResults(t, c), offset + limit, limit)
                             = FilePage(SortResults(s, c), offset, 2 * limit)
                        /\ c = NewestFirst /\ Sorted(t, c) =>
                             FilePage(SortResults(s, c), offset, limit) = MemoryPage(t, offset, limit)
      BY Zenon DEF PagesTile
    <2>1. offset \in Nat /\ limit \in Nat /\ limit # 0 OBVIOUS
    <2> QED BY <1>1, <2>1, SearchTiles
  <1>2. SearchSpec => []SearchTypeOK BY SearchTypes
  <1> QED BY <1>1, <1>2, PTL

=============================================================================
