--------------------------- MODULE PduStreamProofs ---------------------------
(***************************************************************************)
(* Proofs about PduStream, for every byte size from six on, all field      *)
(* lengths, names and messages that a frame has room for, and any breaks.  *)
(*                                                                         *)
(* The first half is about single PDUs: numbers are read back from their   *)
(* bytes, the frame and the fixed fields are laid out one after the other, *)
(* and so every PDU that client or server builds is Sound: its frame says  *)
(* how long it is and decodes to the PDU, if it can be decoded at all and  *)
(* if its values fit.                                                      *)
(*                                                                         *)
(* The second half is about the stream. None of the properties is          *)
(* inductive: the invariant has to say what is still to be read. Follows   *)
(* does: the bytes ahead of the reader are the frames of the PDUs that     *)
(* were sent and not yet read, one after the other and as far as there are *)
(* any, up to the first that was cut short; and a torn frame of the        *)
(* server, after which it writes nothing, is shorter than its header says. *)
(***************************************************************************)
EXTENDS PduStream, SequenceLemmas

-----------------------------------------------------------------------------
(* Numbers *)

\* q is how often b goes into a, and r remains.
Divides(a, b, q, r) == q \in Nat /\ r \in 0..b - 1 /\ a = b * q + r

\* Division with a remainder.
LEMMA Division ==
    ASSUME NEW a \in Nat, NEW b \in Nat, b > 0, NEW q, q = a \div b, NEW r, r = a % b
    PROVE  Divides(a, b, q, r)
  BY DEF Divides

\* There is only one quotient and one remainder.
LEMMA DivisionUnique ==
    ASSUME NEW b \in Nat, b > 0, NEW q \in Nat, NEW r \in 0..b - 1, NEW s \in Nat, NEW t \in 0..b - 1,
           b * q + r = b * s + t
    PROVE  q = s /\ r = t
  <1>1. ASSUME NEW x \in Nat, NEW y \in Nat, x < y PROVE b * x + b <= b * y
    <2>1. y - x - 1 \in Nat /\ y = x + 1 + (y - x - 1) BY <1>1
    <2>2. \A d \in Nat : b * (x + 1 + d) = b * x + b + b * d /\ b * d \in Nat OBVIOUS
    <2>3. b * y = b * x + b + b * (y - x - 1) /\ b * (y - x - 1) \in Nat BY <2>1, <2>2, Zenon
    <2>4. b * x \in Nat OBVIOUS
    <2> QED BY <2>3, <2>4
  <1>2. b * q \in Nat /\ b * s \in Nat OBVIOUS
  <1>3. ~(q < s)
    <2> SUFFICES ASSUME q < s PROVE FALSE OBVIOUS
    <2>1. b * q + b <= b * s BY <1>1
    <2> QED BY <1>2, <2>1
  <1>4. ~(s < q)
    <2> SUFFICES ASSUME s < q PROVE FALSE OBVIOUS
    <2>1. b * s + b <= b * q BY <1>1
    <2> QED BY <1>2, <2>1
  <1>5. q = s BY <1>3, <1>4
  <1> QED BY <1>2, <1>5

\* Division, for provers that must not look into it.
Quotient(a, b) == a \div b

\* Dividing twice by b.
LEMMA DivideTwice ==
    ASSUME NEW a \in Nat, NEW b \in Nat, b > 0
    PROVE  Quotient(Quotient(a, b), b) = Quotient(a, b * b)
  <1>a. PICK c : c = b * b OBVIOUS
  <1>b. PICK q : q = a \div b OBVIOUS
  <1>c. PICK s : s = q \div b OBVIOUS
  <1>d. PICK d : d = a \div c OBVIOUS
  <1>1. PICK r : r = a % b OBVIOUS
  <1>2. PICK t : t = q % b OBVIOUS
  <1>3. PICK e : e = a % c OBVIOUS
  <1>4. q \in Nat /\ r \in 0..b - 1 /\ a = b * q + r BY <1>1, <1>b, Division DEF Divides
  <1>5. s \in Nat /\ t \in 0..b - 1 /\ q = b * s + t BY <1>2, <1>4, <1>c, Division DEF Divides
  <1>6. c \in Nat /\ c > 0 /\ b * (b - 1) = c - b BY <1>a
  <1>7. d \in Nat /\ e \in 0..c - 1 /\ a = c * d + e BY <1>3, <1>6, <1>d, Division DEF Divides
  <1>8. b * t \in Nat /\ b * t <= c - b
    <2>1. b - 1 - t \in Nat /\ b - 1 = t + (b - 1 - t) BY <1>5
    <2>2. \A x, y \in Nat : b * (x + y) = b * x + b * y /\ b * x \in Nat /\ b * y \in Nat OBVIOUS
    <2>3. t \in Nat BY <1>5
    <2>4. b * (b - 1) = b * t + b * (b - 1 - t) /\ b * t \in Nat /\ b * (b - 1 - t) \in Nat
      BY <2>1, <2>2, <2>3, Zenon
    <2> QED BY <1>6, <2>4
  <1>9. b * t + r \in 0..c - 1 BY <1>4, <1>6, <1>8
  <1>10. b * (b * s + t) = c * s + b * t /\ c * s \in Nat BY <1>5, <1>6, <1>a
  <1>11. c * d + e = c * s + (b * t + r)
    <2>1. a = b * (b * s + t) + r BY <1>4, <1>5
    <2>2. a = (c * s + b * t) + r BY <1>10, <2>1
    <2>3. r \in Nat BY <1>4
    <2> QED BY <1>7, <1>8, <1>10, <2>2, <2>3
  <1>12. PICK f : f = b * t + r OBVIOUS
  <1>13. f \in 0..c - 1 /\ c * d + e = c * s + f BY <1>9, <1>11, <1>12
  <1>14. s = d BY <1>5, <1>6, <1>7, <1>13, DivisionUnique
  <1> QED BY <1>14, <1>a, <1>b, <1>c, <1>d, Zenon DEF Quotient

\* A byte has at least six values, and four bytes make a word.
LEMMA ByteFacts ==
    /\ ByteSize \in Nat /\ ByteSize >= 6 /\ WordSize \in Nat
    /\ Bytes = 0..ByteSize - 1
    /\ WordSize = (ByteSize * ByteSize) * (ByteSize * ByteSize)
    /\ WordSize >= 1296
  <1>1. ByteSize \in Nat /\ ByteSize >= 6 /\ Bytes = 0..ByteSize - 1 BY CodecAssumption DEF Bytes
  <1>2. PICK b : b = ByteSize OBVIOUS
  <1>3. PICK c : c = b * b OBVIOUS
  <1>4. ASSUME NEW x \in Nat, NEW y \in Nat, NEW z \in Nat, x >= y, z >= 0 PROVE z * x >= z * y
    <2>1. x - y \in Nat /\ x = y + (x - y) BY <1>4
    <2>2. \A d \in Nat : z * (y + d) = z * y + z * d /\ z * d \in Nat OBVIOUS
    <2>3. z * x = z * y + z * (x - y) /\ z * (x - y) \in Nat BY <2>1, <2>2, Zenon
    <2>4. z * y \in Nat OBVIOUS
    <2> QED BY <2>3, <2>4
  <1>5. c \in Nat /\ c >= 36
    <2>1. b \in Nat /\ b >= 6 BY <1>1, <1>2
    <2>2. b * b >= b * 6 BY <1>4, <2>1
    <2>3. c \in Nat BY <1>3, <2>1
    <2> QED BY <1>3, <2>1, <2>2, <2>3
  <1>6. c * c \in Nat /\ c * c >= 1296
    <2>1. c * c >= c * 36 BY <1>4, <1>5
    <2>2. c * c \in Nat BY <1>5
    <2> QED BY <1>5, <2>1, <2>2
  <1>7. WordSize = (b * b) * (b * b)
    <2>1. b \in Nat BY <1>1, <1>2
    <2>2. WordSize = ((b * b) * b) * b BY <1>2, Zenon DEF WordSize
    <2>3. \A x, y \in Nat : (x * y) * y = x * (y * y) OBVIOUS
    <2>4. b * b \in Nat BY <2>1
    <2> QED BY <2>1, <2>2, <2>3, <2>4, Zenon
  <1> QED BY <1>1, <1>2, <1>3, <1>6, <1>7

\* A number below ByteSize^2 is its two bytes.
LEMMA TwoBytes ==
    ASSUME NEW n \in Nat, NEW q, q = n \div ByteSize, NEW h, h = q % ByteSize, NEW l, l = n % ByteSize
    PROVE  /\ h \in Bytes /\ l \in Bytes /\ q \in Nat /\ n = ByteSize * q + l
           /\ n < ByteSize * ByteSize => n = h * ByteSize + l
  <1>0. PICK b : b = ByteSize OBVIOUS
  <1>1. b \in Nat /\ b >= 6 /\ b > 0 /\ Bytes = 0..b - 1 BY <1>0, ByteFacts
  <1>2. q \in Nat /\ l \in 0..b - 1 /\ n = b * q + l
    <2>1. q = n \div b /\ l = n % b BY <1>0
    <2> QED BY <1>1, <2>1, Division DEF Divides
  <1>3. PICK s : s = q \div b OBVIOUS
  <1>4. s \in Nat /\ h \in 0..b - 1 /\ q = b * s + h
    <2>1. h = q % b BY <1>0
    <2>2. Divides(q, b, s, h) BY <1>1, <1>2, <1>3, <2>1, Division
    <2> QED BY <2>2, Zenon DEF Divides
  <1>5. ASSUME n < b * b PROVE n = h * b + l
    <2>1. s = 0
      <3> SUFFICES ASSUME s # 0 PROVE FALSE OBVIOUS
      <3>1. s - 1 \in Nat /\ s = (s - 1) + 1 BY <1>4
      <3>2. \A x \in Nat : b * (x + 1) = b * x + b /\ b * x \in Nat BY <1>1
      <3>3. b * s = b * (s - 1) + b /\ b * (s - 1) \in Nat BY <3>1, <3>2, Zenon
      <3>4. q >= b BY <1>1, <1>4, <3>3
      <3>5. q - b \in Nat /\ q = b + (q - b) BY <1>1, <1>2, <3>4
      <3>6. \A x \in Nat : b * (b + x) = b * b + b * x /\ b * x \in Nat BY <1>1
      <3>7. b * q = b * b + b * (q - b) /\ b * (q - b) \in Nat BY <3>5, <3>6, Zenon
      <3>8. b * b \in Nat BY <1>1
      <3> QED BY <1>2, <1>5, <3>7, <3>8
    <2>2. q = h BY <1>1, <1>4, <2>1
    <2>3. b * h = h * b BY <1>1, <1>4
    <2> QED BY <1>2, <2>2, <2>3
  <1> QED BY <1>0, <1>1, <1>2, <1>4, <1>5

\* The second byte is what remains when the number without the first is divided once more.
LEMMA SecondByte ==
    ASSUME NEW n \in Nat, NEW q, q = n \div ByteSize, NEW x, x = n \div (ByteSize * ByteSize),
           NEW y, y = q % ByteSize
    PROVE  q = ByteSize * x + y
  <1>1. ByteSize \in Nat /\ ByteSize > 0 BY ByteFacts
  <1>2. PICK s : s = q \div ByteSize OBVIOUS
  <1>3. PICK c : c = ByteSize * ByteSize OBVIOUS
  <1>4. x = n \div c BY <1>3
  <1>5. s = x
    <2>1. Quotient(n, ByteSize) = q /\ Quotient(q, ByteSize) = s /\ Quotient(n, c) = x
      BY <1>2, <1>4 DEF Quotient
    <2>2. Quotient(Quotient(n, ByteSize), ByteSize) = Quotient(n, ByteSize * ByteSize)
      BY <1>1, DivideTwice
    <2> QED BY <1>3, <2>1, <2>2, Zenon
  <1>6. q \in Nat BY <1>1
  <1>7. Divides(q, ByteSize, s, y) BY <1>1, <1>2, <1>6, Division
  <1> QED BY <1>5, <1>7 DEF Divides

\* A word is its four bytes.
LEMMA FourBytes ==
    ASSUME NEW n \in Nat, n < WordSize,
           NEW x, x = n \div (ByteSize * ByteSize), NEW x1, x1 = (x \div ByteSize) % ByteSize,
           NEW x0, x0 = x % ByteSize, NEW y1, y1 = (n \div ByteSize) % ByteSize,
           NEW y0, y0 = n % ByteSize
    PROVE  /\ x1 \in Bytes /\ x0 \in Bytes /\ y1 \in Bytes /\ y0 \in Bytes
           /\ n = ((x1 * ByteSize + x0) * ByteSize + y1) * ByteSize + y0
  <1>0. PICK b : b = ByteSize OBVIOUS
  <1>1. b \in Nat /\ b > 0 /\ Bytes = 0..b - 1 BY <1>0, ByteFacts
  <1>2. PICK c : c = b * b OBVIOUS
  <1>3. c \in Nat /\ c > 0 /\ n < c * c
    <2>1. n < c * c BY <1>0, <1>2, ByteFacts
    <2>2. c \in Nat /\ c > 0 BY <1>1, <1>2
    <2> QED BY <2>1, <2>2
  <1>4. PICK q : q = n \div b OBVIOUS
  <1>5. PICK p : p = x \div b OBVIOUS
  <1>6. PICK e : e = n % c OBVIOUS
  <1>7. x \in Nat /\ e \in 0..c - 1 /\ n = c * x + e BY <1>0, <1>2, <1>3, <1>6, Division DEF Divides
  <1>8. x < c
    <2> SUFFICES ASSUME ~(x < c) PROVE FALSE OBVIOUS
    <2>1. x - c \in Nat /\ x = c + (x - c) BY <1>3, <1>7
    <2>2. \A y \in Nat : c * (c + y) = c * c + c * y /\ c * y \in Nat BY <1>3
    <2>3. c * x = c * c + c * (x - c) /\ c * (x - c) \in Nat BY <2>1, <2>2, Zenon
    <2>4. c * c \in Nat BY <1>3
    <2> QED BY <1>3, <1>7, <2>3, <2>4
  <1>9. x1 \in Bytes /\ x0 \in Bytes /\ x = x1 * b + x0
    BY <1>0, <1>2, <1>5, <1>7, <1>8, TwoBytes
  <1>10. y1 \in Bytes /\ y0 \in Bytes /\ q \in Nat /\ n = b * q + y0
    BY <1>0, <1>4, TwoBytes
  <1>11. q = b * x + y1 BY <1>0, <1>4, SecondByte
  <1>12. b * x = x * b /\ b * q = q * b BY <1>1, <1>7, <1>10
  <1>13. n = (x * b + y1) * b + y0 BY <1>10, <1>11, <1>12
  <1> QED BY <1>0, <1>9, <1>10, <1>13

-----------------------------------------------------------------------------
(* Sums and positional numbers *)

\* f adds up d[1], d[2], ..., with the weight m for each place.
Adds(f, n, m, d) ==
    /\ f[0] = 0
    /\ \A i \in 1..n : f[i] = f[i - 1] * m + d[i]

\* There is such a function.
LEMMA AddsExists ==
    ASSUME NEW n \in Nat, NEW m \in Nat, NEW d, \A i \in 1..n : d[i] \in Nat
    PROVE  \E f \in [0..n -> Nat] : Adds(f, n, m, d)
  <1> DEFINE Has(k) == \E f \in [0..k -> Nat] : Adds(f, k, m, d)
             N == {k \in 0..n : Has(k)}
  <1>1. 0 \in N
    <2>1. [i \in 0..0 |-> 0] \in [0..0 -> Nat] /\ Adds([i \in 0..0 |-> 0], 0, m, d) BY DEF Adds
    <2> QED BY <2>1
  <1>2. ASSUME NEW k \in 0..n, k \in N /\ k < n PROVE k + 1 \in N
    <2>1. PICK f \in [0..k -> Nat] : Adds(f, k, m, d) BY <1>2
    <2> HIDE DEF N, Has
    <2> DEFINE x == f[k] * m + d[k + 1]
               g == [i \in 0..k + 1 |-> IF i = k + 1 THEN x ELSE f[i]]
    <2>2. x \in Nat
      <3>1. f[k] \in Nat /\ d[k + 1] \in Nat BY <1>2, <2>1
      <3>2. f[k] * m \in Nat BY <3>1
      <3> QED BY <3>1, <3>2
    <2>3. g[k + 1] = x /\ \A i \in 0..k : g[i] = f[i]
      <3>1. k + 1 \in 0..k + 1 /\ \A i \in 0..k : i # k + 1 /\ i \in 0..k + 1 OBVIOUS
      <3> HIDE DEF x
      <3> QED BY <3>1, Zenon
    <2>4. g \in [0..k + 1 -> Nat]
      <3> HIDE DEF x
      <3> QED BY <2>1, <2>2
    <2> HIDE DEF g
    <2>5. ASSUME NEW i \in 1..k + 1 PROVE g[i] = g[i - 1] * m + d[i]
      <3>1. CASE i = k + 1
        <4>1. i - 1 = k /\ k \in 0..k BY <3>1
        <4> QED BY <2>3, <3>1, <4>1, Zenon
      <3>2. CASE i # k + 1
        <4>1. i \in 1..k /\ i \in 0..k /\ i - 1 \in 0..k BY <3>2
        <4> QED BY <2>1, <2>3, <4>1, Zenon DEF Adds
      <3> QED BY <3>1, <3>2
    <2>6. Adds(g, k + 1, m, d)
      <3>1. 0 \in 0..k OBVIOUS
      <3>2. g[0] = 0 BY <2>1, <2>3, <3>1, Zenon DEF Adds
      <3> QED BY <2>5, <3>2, Zenon DEF Adds
    <2>7. k + 1 \in 0..n BY <1>2
    <2> QED BY <2>4, <2>6, <2>7, Zenon DEF Has, N
  <1>3. n \in N
    <2>1. \A k \in 0..n : k \in N
      <3> HIDE DEF N
      <3> QED BY <1>1, <1>2, UpFrom
    <2> HIDE DEF N
    <2> QED BY <2>1
  <1> QED BY <1>3

\* A recursive definition of it.
LEMMA AddsDefined ==
    ASSUME NEW n \in Nat, NEW m \in Nat, NEW d, \A i \in 1..n : d[i] \in Nat,
           NEW c, c = CHOOSE f : f = [i \in 0..n |-> IF i = 0 THEN 0 ELSE f[i - 1] * m + d[i]]
    PROVE  Adds(c, n, m, d) /\ \A i \in 0..n : c[i] \in Nat
  <1>1. PICK g \in [0..n -> Nat] : Adds(g, n, m, d) BY AddsExists
  <1>2. g = [i \in 0..n |-> IF i = 0 THEN 0 ELSE g[i - 1] * m + d[i]]
    <2>1. ASSUME NEW i \in 0..n PROVE g[i] = IF i = 0 THEN 0 ELSE g[i - 1] * m + d[i]
      <3>1. i = 0 \/ i \in 1..n OBVIOUS
      <3> QED BY <1>1, <3>1, Zenon DEF Adds
    <2>2. g = [i \in 0..n |-> g[i]] BY <1>1
    <2> QED BY <2>1, <2>2, Zenon
  <1>3. c = [i \in 0..n |-> IF i = 0 THEN 0 ELSE c[i - 1] * m + d[i]] BY <1>2, Zenon
  <1>4. Adds(c, n, m, d)
    <2>1. 0 \in 0..n /\ \A i \in 1..n : i \in 0..n /\ i # 0 OBVIOUS
    <2>2. \A i \in 0..n : c[i] = IF i = 0 THEN 0 ELSE c[i - 1] * m + d[i] BY <1>3, Zenon
    <2> QED BY <2>1, <2>2, Zenon DEF Adds
  <1> DEFINE N == {i \in 0..n : c[i] \in Nat}
  <1>5. 0 \in N BY <1>4 DEF Adds
  <1>6. ASSUME NEW k \in 0..n, k \in N /\ k < n PROVE k + 1 \in N
    <2>1. k + 1 \in 1..n /\ k + 1 \in 0..n /\ (k + 1) - 1 = k BY <1>6
    <2>2. c[k + 1] = c[k] * m + d[k + 1] BY <1>4, <2>1 DEF Adds
    <2>3. c[k] \in Nat /\ d[k + 1] \in Nat BY <1>6, <2>1
    <2>4. c[k] * m \in Nat BY <2>3
    <2>5. c[k + 1] \in Nat
      <3>1. \A x, y \in Nat : x + y \in Nat OBVIOUS
      <3> QED BY <2>2, <2>3, <2>4, <3>1, Zenon
    <2> QED BY <2>1, <2>5
  <1>7. \A k \in 0..n : k \in N
    <2> HIDE DEF N
    <2> QED BY <1>5, <1>6, UpFrom
  <1> QED BY <1>4, <1>7

\* FromUint is a number, and for two and four bytes this one.
LEMMA FromUintIs ==
    ASSUME NEW bs \in Seq(Nat)
    PROVE  /\ FromUint(bs) \in Nat
           /\ Len(bs) = 2 => FromUint(bs) = bs[1] * ByteSize + bs[2]
           /\ Len(bs) = 4 => FromUint(bs) =
                 ((bs[1] * ByteSize + bs[2]) * ByteSize + bs[3]) * ByteSize + bs[4]
  <1> DEFINE c == CHOOSE f : f = [i \in 0..Len(bs) |-> IF i = 0 THEN 0 ELSE f[i - 1] * ByteSize + bs[i]]
  <1>1. FromUint(bs) = c[Len(bs)] BY DEF FromUint
  <1>2. Len(bs) \in Nat /\ \A i \in 1..Len(bs) : bs[i] \in Nat BY LenProperties, ElementOfSeq
  <1>3. Adds(c, Len(bs), ByteSize, bs) /\ \A i \in 0..Len(bs) : c[i] \in Nat
    BY <1>2, ByteFacts, AddsDefined
  <1> HIDE DEF c
  <1>4. FromUint(bs) \in Nat BY <1>1, <1>2, <1>3
  <1>5. ASSUME Len(bs) >= 2 PROVE c[1] = bs[1] /\ c[2] = bs[1] * ByteSize + bs[2]
    <2>1. 1 \in 1..Len(bs) /\ 2 \in 1..Len(bs) /\ 1 - 1 = 0 /\ 2 - 1 = 1 BY <1>2, <1>5
    <2>2. c[1] = c[0] * ByteSize + bs[1] /\ c[0] = 0 /\ c[2] = c[1] * ByteSize + bs[2]
      BY <1>3, <2>1 DEF Adds
    <2>3. 0 * ByteSize = 0 BY ByteFacts
    <2>4. c[1] = bs[1] BY <1>2, <2>1, <2>2, <2>3
    <2> QED BY <2>2, <2>4
  <1>6. ASSUME Len(bs) = 2 PROVE FromUint(bs) = bs[1] * ByteSize + bs[2]
    BY <1>1, <1>5, <1>6
  <1>7. ASSUME Len(bs) = 4
        PROVE  FromUint(bs) = ((bs[1] * ByteSize + bs[2]) * ByteSize + bs[3]) * ByteSize + bs[4]
    <2>1. 3 \in 1..Len(bs) /\ 4 \in 1..Len(bs) /\ 3 - 1 = 2 /\ 4 - 1 = 3 /\ Len(bs) >= 2 BY <1>7
    <2>2. c[3] = c[2] * ByteSize + bs[3] /\ c[4] = c[3] * ByteSize + bs[4] BY <1>3, <2>1 DEF Adds
    <2>3. c[2] = bs[1] * ByteSize + bs[2] BY <1>5, <2>1
    <2> QED BY <1>1, <1>7, <2>2, <2>3, Zenon
  <1> QED BY <1>4, <1>6, <1>7

\* Two bytes of a number below ByteSize^2.
LEMMA Uint16Is ==
    ASSUME NEW n \in Nat
    PROVE  /\ Uint16(n) \in Seq(Bytes) /\ Len(Uint16(n)) = 2
           /\ n < ByteSize * ByteSize =>
                 n = Uint16(n)[1] * ByteSize + Uint16(n)[2]
  <1>1. PICK q : q = n \div ByteSize OBVIOUS
  <1>2. PICK h : h = q % ByteSize OBVIOUS
  <1>3. PICK l : l = n % ByteSize OBVIOUS
  <1>4. Uint16(n) = <<h, l>> BY <1>1, <1>2, <1>3 DEF Uint16
  <1>5. /\ h \in Bytes /\ l \in Bytes
        /\ n < ByteSize * ByteSize => n = h * ByteSize + l
    BY <1>1, <1>2, <1>3, TwoBytes
  <1>6. <<h, l>> \in Seq(Bytes) /\ Len(<<h, l>>) = 2 /\ <<h, l>>[1] = h /\ <<h, l>>[2] = l
    <2> HIDE DEF Bytes
    <2> QED BY <1>5
  <1> QED BY <1>4, <1>5, <1>6, Zenon

\* Four bytes of a word.
LEMMA Uint32Is ==
    ASSUME NEW n \in Nat, n < WordSize
    PROVE  /\ Uint32(n) \in Seq(Bytes) /\ Len(Uint32(n)) = 4
           /\ n = ((Uint32(n)[1] * ByteSize + Uint32(n)[2]) * ByteSize + Uint32(n)[3]) * ByteSize
                   + Uint32(n)[4]
  <1>1. PICK x : x = n \div (ByteSize * ByteSize) OBVIOUS
  <1>2. PICK x1 : x1 = (x \div ByteSize) % ByteSize OBVIOUS
  <1>3. PICK x0 : x0 = x % ByteSize OBVIOUS
  <1>4. PICK y1 : y1 = (n \div ByteSize) % ByteSize OBVIOUS
  <1>5. PICK y0 : y0 = n % ByteSize OBVIOUS
  <1>6. /\ x1 \in Bytes /\ x0 \in Bytes /\ y1 \in Bytes /\ y0 \in Bytes
        /\ n = ((x1 * ByteSize + x0) * ByteSize + y1) * ByteSize + y0
    BY <1>1, <1>2, <1>3, <1>4, <1>5, FourBytes
  <1>7. Uint32(n) = <<x1, x0>> \o <<y1, y0>>
    <2>1. Uint16(x) = <<x1, x0>> BY <1>2, <1>3 DEF Uint16
    <2>2. Uint16(n) = <<y1, y0>> BY <1>4, <1>5 DEF Uint16
    <2>3. Uint32(n) = Uint16(x) \o Uint16(n) BY <1>1 DEF Uint32
    <2> QED BY <2>1, <2>2, <2>3
  <1> DEFINE u == <<x1, x0>>  v == <<y1, y0>>
  <1>8. /\ u \in Seq(Bytes) /\ Len(u) = 2 /\ u[1] = x1 /\ u[2] = x0
        /\ v \in Seq(Bytes) /\ Len(v) = 2 /\ v[1] = y1 /\ v[2] = y0
    BY <1>6
  <1> HIDE DEF u, v
  <1>9. /\ u \o v \in Seq(Bytes) /\ Len(u \o v) = Len(u) + Len(v)
        /\ \A j \in 1..Len(u) + Len(v) : (u \o v)[j] = IF j <= Len(u) THEN u[j] ELSE v[j - Len(u)]
    BY <1>8, ConcatProperties
  <1>10. /\ Len(u \o v) = 4 /\ (u \o v)[1] = x1 /\ (u \o v)[2] = x0
         /\ (u \o v)[3] = y1 /\ (u \o v)[4] = y0
    BY <1>8, <1>9
  <1>11. Uint32(n) = u \o v BY <1>7 DEF u, v
  <1> QED BY <1>6, <1>9, <1>10, <1>11, Zenon

\* s has the word n after position k.
HasWord(s, k, n) == /\ s[k + 1] = Uint32(n)[1] /\ s[k + 2] = Uint32(n)[2]
                    /\ s[k + 3] = Uint32(n)[3] /\ s[k + 4] = Uint32(n)[4]

\* A number that is read from four bytes of a longer sequence.
LEMMA ReadUint ==
    ASSUME NEW s \in Seq(Nat), NEW k \in Nat, k + 4 <= Len(s), NEW n \in Nat, n < WordSize,
           HasWord(s, k, n)
    PROVE  FromUint(SubSeq(s, k + 1, k + 4)) = n
  <1> DEFINE t == SubSeq(s, k + 1, k + 4)
  <1>1. t \in Seq(Nat) /\ Len(t) = 4 /\ \A j \in 1..4 : t[j] = s[k + j]
    <2>2. k + 4 \in Nat /\ k <= k + 4 /\ (k + 4) - k = 4 OBVIOUS
    <2>3. /\ t \in Seq(Nat) /\ Len(t) = (k + 4) - k
          /\ \A j \in 1..(k + 4) - k : t[j] = s[k + j]
      BY <2>2, CutOut
    <2> QED BY <2>2, <2>3
  <1> HIDE DEF t
  <1>2. t[1] = Uint32(n)[1] /\ t[2] = Uint32(n)[2] /\ t[3] = Uint32(n)[3] /\ t[4] = Uint32(n)[4]
    <2>1. t[1] = s[k + 1] /\ t[2] = s[k + 2] /\ t[3] = s[k + 3] /\ t[4] = s[k + 4] BY <1>1
    <2> QED BY <2>1, Zenon DEF HasWord
  <1>3. FromUint(t) = ((t[1] * ByteSize + t[2]) * ByteSize + t[3]) * ByteSize + t[4]
    BY <1>1, FromUintIs
  <1>4. FromUint(t) = n BY <1>2, <1>3, Uint32Is, Zenon
  <1> QED BY <1>4 DEF t

\* The same for two bytes.
LEMMA ReadUint16 ==
    ASSUME NEW s \in Seq(Nat), NEW k \in Nat, k + 2 <= Len(s), NEW n \in Nat, n < ByteSize * ByteSize,
           \A j \in 1..2 : s[k + j] = Uint16(n)[j]
    PROVE  FromUint(SubSeq(s, k + 1, k + 2)) = n
  <1> DEFINE t == SubSeq(s, k + 1, k + 2)
  <1>1. t \in Seq(Nat) /\ Len(t) = 2 /\ \A j \in 1..2 : t[j] = s[k + j]
    <2>2. k + 2 \in Nat /\ k <= k + 2 /\ (k + 2) - k = 2 OBVIOUS
    <2>3. /\ t \in Seq(Nat) /\ Len(t) = (k + 2) - k
          /\ \A j \in 1..(k + 2) - k : t[j] = s[k + j]
      BY <2>2, CutOut
    <2> QED BY <2>2, <2>3
  <1> HIDE DEF t
  <1>2. t[1] = Uint16(n)[1] /\ t[2] = Uint16(n)[2] BY <1>1
  <1>3. FromUint(t) = t[1] * ByteSize + t[2] BY <1>1, FromUintIs
  <1>4. FromUint(t) = n BY <1>2, <1>3, Uint16Is, Zenon
  <1> QED BY <1>4 DEF t

-----------------------------------------------------------------------------
(* Fields *)

\* A set of numbers up to n with an element has a greatest one.
LEMMA GreatestElement ==
    ASSUME NEW n \in Nat, NEW T \in SUBSET (1..n), T # {}
    PROVE  Max(T) \in T /\ \A y \in T : Max(T) >= y
  <1> DEFINE R == {x \in 0..n : n - x \in T}
  <1>1. R \in SUBSET Nat OBVIOUS
  <1>2. R # {}
    <2>1. PICK y \in T : TRUE OBVIOUS
    <2>2. n - y \in 0..n /\ n - (n - y) = y OBVIOUS
    <2> QED BY <2>1, <2>2
  <1>3. PICK x \in R : \A y \in R : ~(y < x)
    <2> HIDE DEF R
    <2> QED BY <1>1, <1>2, LeastElement
  <1>4. n - x \in T BY <1>3
  <1>5. ASSUME NEW y \in T PROVE n - x >= y
    <2>1. n - y \in 0..n /\ n - (n - y) = y OBVIOUS
    <2>2. n - y \in R BY <2>1
    <2>3. ~(n - y < x) BY <1>3, <2>2
    <2> QED BY <1>3, <2>3
  <1>6. \E z \in T : \A y \in T : z >= y BY <1>4, <1>5
  <1> QED BY <1>6 DEF Max

\* A string that fits comes back from its padded field.
LEMMA TrimPadded ==
    ASSUME NEW v \in Seq(Bytes \ {0}), NEW t \in Seq(Bytes), Len(v) <= Len(t),
           \A i \in 1..Len(t) : t[i] = IF i <= Len(v) THEN v[i] ELSE 0
    PROVE  TrimRight(t) = v
  <1> DEFINE I == {i \in 1..Len(t) : NotNul(t[i])}
             m == IF I # {} THEN Max(I) ELSE 0
  <1>1. TrimRight(t) = SubSeq(t, 1, m) BY DEF TrimRight, SelectLastInSubSeq
  <1>2. Len(t) \in Nat /\ Len(v) \in Nat /\ \A i \in 1..Len(v) : v[i] # 0 /\ v[i] \in Bytes
    BY LenProperties, ElementOfSeq
  <1>3. I = 1..Len(v)
    <2>1. ASSUME NEW i \in 1..Len(t) PROVE NotNul(t[i]) <=> i <= Len(v)
      <3>1. CASE i <= Len(v)
        <4>1. i \in 1..Len(v) BY <1>2, <3>1
        <4> QED BY <1>2, <3>1, <4>1 DEF NotNul
      <3>2. CASE ~(i <= Len(v)) BY <3>2 DEF NotNul
      <3> QED BY <3>1, <3>2
    <2>2. \A i \in 1..Len(v) : i \in 1..Len(t) /\ i <= Len(v) BY <1>2
    <2>3. \A i \in 1..Len(t) : i <= Len(v) => i \in 1..Len(v) BY <1>2
    <2> QED BY <2>1, <2>2, <2>3
  <1>4. m = Len(v)
    <2> HIDE DEF I
    <2>1. CASE Len(v) = 0
      <3>1. I = {} BY <1>3, <2>1
      <3> QED BY <2>1, <3>1
    <2>2. CASE Len(v) # 0
      <3>1. Len(v) \in I /\ I # {} /\ I \in SUBSET (1..Len(v)) BY <1>2, <1>3, <2>2
      <3>2. Max(I) \in I /\ Max(I) >= Len(v) BY <1>2, <3>1, GreatestElement
      <3>3. Max(I) = Len(v) BY <1>2, <1>3, <3>2
      <3> QED BY <3>1, <3>3
    <2> QED BY <2>1, <2>2
  <1> HIDE DEF m
  <1> DEFINE r == SubSeq(t, 0 + 1, Len(v))
  <1>5. /\ r \in Seq(Bytes) /\ Len(r) = Len(v) - 0 /\ \A j \in 1..Len(v) - 0 : r[j] = t[0 + j]
    BY <1>2, CutOut
  <1>6. Len(r) = Len(v) /\ \A j \in 1..Len(v) : r[j] = v[j]
    <2>1. \A j \in 1..Len(v) : j \in 1..Len(v) - 0 /\ 0 + j = j /\ j \in 1..Len(t) /\ j <= Len(v)
      BY <1>2
    <2>2. Len(v) - 0 = Len(v) BY <1>2
    <2> HIDE DEF r
    <2> QED BY <1>5, <2>1, <2>2
  <1>7. v \in Seq(Bytes) BY SeqMonotonic
  <1>8. r = v
    <2> HIDE DEF r
    <2> QED BY <1>5, <1>6, <1>7, SeqEqual
  <1>9. 0 + 1 = 1 OBVIOUS
  <1> QED BY <1>1, <1>4, <1>8, <1>9

\* A string comes back from its terminated field.
LEMMA UntilTerminator ==
    ASSUME NEW v \in Seq(Bytes \ {0})
    PROVE  UntilNul(Append(v, 0)) = v
  <1> DEFINE t == Append(v, 0)
             I == {i \in 1..Len(t) : t[i] = 0}
             n == IF I # {} THEN Min(I) ELSE 0
  <1>1. UntilNul(t) = IF n = 0 THEN t ELSE SubSeq(t, 1, n - 1) BY DEF UntilNul, SelectInSeq
  <1>2. Len(v) \in Nat /\ \A i \in 1..Len(v) : v[i] # 0 /\ v[i] \in Bytes
    BY LenProperties, ElementOfSeq
  <1>3. 0 \in Bytes /\ v \in Seq(Bytes) BY ByteFacts, SeqMonotonic
  <1>4. /\ t \in Seq(Bytes) /\ Len(t) = Len(v) + 1 /\ t[Len(v) + 1] = 0
        /\ \A i \in 1..Len(v) : t[i] = v[i]
    <2> HIDE DEF Bytes
    <2> QED BY <1>2, <1>3, AppendProperties
  <1> HIDE DEF t
  <1>5. I = {Len(v) + 1}
    <2>1. \A i \in 1..Len(t) : i \in 1..Len(v) \/ i = Len(v) + 1 BY <1>2, <1>4
    <2>2. Len(v) + 1 \in 1..Len(t) BY <1>2, <1>4
    <2> QED BY <1>2, <1>4, <2>1, <2>2
  <1>6. n = Len(v) + 1
    <2> HIDE DEF I
    <2>1. Len(v) + 1 \in I /\ \A y \in I : Len(v) + 1 =< y BY <1>2, <1>5
    <2>2. Min(I) \in I BY <2>1 DEF Min
    <2> QED BY <1>5, <2>2
  <1> HIDE DEF n
  <1>7. n # 0 /\ n - 1 = Len(v) BY <1>2, <1>6
  <1> DEFINE r == SubSeq(t, 0 + 1, Len(v))
  <1>8. /\ r \in Seq(Bytes) /\ Len(r) = Len(v) - 0 /\ \A j \in 1..Len(v) - 0 : r[j] = t[0 + j]
    BY <1>2, <1>4, CutOut
  <1>9. Len(r) = Len(v) /\ \A j \in 1..Len(v) : r[j] = v[j]
    <2>1. \A j \in 1..Len(v) : j \in 1..Len(v) - 0 /\ 0 + j = j BY <1>2
    <2>2. Len(v) - 0 = Len(v) BY <1>2
    <2> HIDE DEF r
    <2> QED BY <1>4, <1>8, <2>1, <2>2
  <1>10. r = v
    <2> HIDE DEF r
    <2> QED BY <1>3, <1>8, <1>9, SeqEqual
  <1>11. 0 + 1 = 1 OBVIOUS
  <1> QED BY <1>1, <1>7, <1>10, <1>11 DEF t

-----------------------------------------------------------------------------
(* Frames *)

\* A word stays where it is when something follows.
LEMMA WordStays ==
    ASSUME NEW s \in Seq(Bytes), NEW t \in Seq(Bytes), NEW k \in Nat, k + 4 <= Len(s), NEW n,
           HasWord(s, k, n)
    PROVE  HasWord(s \o t, k, n)
  <1>1. \A j \in 1..Len(s) : (s \o t)[j] = s[j] BY Joined
  <1>2. Len(s) \in Nat BY LenProperties
  <1>3. k + 1 \in 1..Len(s) /\ k + 2 \in 1..Len(s) /\ k + 3 \in 1..Len(s) /\ k + 4 \in 1..Len(s) BY <1>2
  <1> QED BY <1>1, <1>3, Zenon DEF HasWord

\* A word that is put at the end.
LEMMA WordAdded ==
    ASSUME NEW s \in Seq(Bytes), NEW n \in Nat, n < WordSize
    PROVE  /\ s \o Uint32(n) \in Seq(Bytes) /\ Len(s \o Uint32(n)) = Len(s) + 4
           /\ HasWord(s \o Uint32(n), Len(s), n)
  <1>1. Uint32(n) \in Seq(Bytes) /\ Len(Uint32(n)) = 4 BY Uint32Is
  <1>2. /\ s \o Uint32(n) \in Seq(Bytes) /\ Len(s \o Uint32(n)) = Len(s) + Len(Uint32(n))
        /\ \A j \in 1..Len(Uint32(n)) : (s \o Uint32(n))[Len(s) + j] = Uint32(n)[j]
    BY <1>1, Joined
  <1>3. 1 \in 1..4 /\ 2 \in 1..4 /\ 3 \in 1..4 /\ 4 \in 1..4 OBVIOUS
  <1> QED BY <1>1, <1>2, <1>3, Zenon DEF HasWord

\* f is the frame of a body with these header fields.
IsFrame(f, command, status, seq, body) ==
    /\ f \in Seq(Bytes) /\ Len(f) = HeaderLength + Len(body)
    /\ HasWord(f, 0, HeaderLength + Len(body)) /\ HasWord(f, 4, command)
    /\ HasWord(f, 8, status) /\ HasWord(f, 12, seq)
    /\ \A j \in 1..Len(body) : f[HeaderLength + j] = body[j]

\* Encode puts four words and the body one after the other.
LEMMA FrameLaidOut ==
    ASSUME NEW b \in Seq(Bytes), HeaderLength + Len(b) < WordSize,
           NEW x \in Nat, x < WordSize, NEW y \in Nat, y < WordSize, NEW z \in Nat, z < WordSize
    PROVE  IsFrame(Uint32(HeaderLength + Len(b)) \o Uint32(x) \o Uint32(y) \o Uint32(z) \o b, x, y, z, b)
  <1>0. PICK l : l = HeaderLength + Len(b) OBVIOUS
  <1>1. l \in Nat /\ l < WordSize /\ Len(b) \in Nat /\ l = 16 + Len(b)
    BY <1>0, LenProperties DEF HeaderLength
  <1>2. PICK s1 : s1 = Uint32(l) OBVIOUS
  <1>3. PICK s2 : s2 = s1 \o Uint32(x) OBVIOUS
  <1>4. PICK s3 : s3 = s2 \o Uint32(y) OBVIOUS
  <1>5. PICK s4 : s4 = s3 \o Uint32(z) OBVIOUS
  <1>6. PICK f : f = s4 \o b OBVIOUS
  <1>u. /\ Uint32(x) \in Seq(Bytes) /\ Uint32(y) \in Seq(Bytes) /\ Uint32(z) \in Seq(Bytes)
    BY Uint32Is
  <1>7. s1 \in Seq(Bytes) /\ Len(s1) = 4 /\ HasWord(s1, 0, l)
    <2>1. s1 \in Seq(Bytes) /\ Len(s1) = 4 BY <1>1, <1>2, Uint32Is
    <2>2. 0 + 1 = 1 /\ 0 + 2 = 2 /\ 0 + 3 = 3 /\ 0 + 4 = 4 OBVIOUS
    <2> QED BY <1>2, <2>1, <2>2 DEF HasWord
  <1>8. s2 \in Seq(Bytes) /\ Len(s2) = 8 /\ HasWord(s2, 0, l) /\ HasWord(s2, 4, x)
    <2>1. s2 \in Seq(Bytes) /\ Len(s2) = Len(s1) + 4 /\ HasWord(s2, Len(s1), x) BY <1>3, <1>7, WordAdded
    <2>2. 0 \in Nat /\ 0 + 4 <= Len(s1) BY <1>7
    <2>3. HasWord(s2, 0, l) BY <1>3, <1>7, <1>u, <2>2, WordStays, Zenon
    <2> QED BY <1>7, <2>1, <2>3
  <1>9. /\ s3 \in Seq(Bytes) /\ Len(s3) = 12
        /\ HasWord(s3, 0, l) /\ HasWord(s3, 4, x) /\ HasWord(s3, 8, y)
    <2>1. s3 \in Seq(Bytes) /\ Len(s3) = Len(s2) + 4 /\ HasWord(s3, Len(s2), y) BY <1>4, <1>8, WordAdded
    <2>2. 0 \in Nat /\ 4 \in Nat /\ 0 + 4 <= Len(s2) /\ 4 + 4 <= Len(s2) BY <1>8
    <2>3. HasWord(s3, 0, l) BY <1>4, <1>8, <1>u, <2>2, WordStays, Zenon
    <2>4. HasWord(s3, 4, x) BY <1>4, <1>8, <1>u, <2>2, WordStays, Zenon
    <2> QED BY <1>8, <2>1, <2>3, <2>4
  <1>10. /\ s4 \in Seq(Bytes) /\ Len(s4) = 16
         /\ HasWord(s4, 0, l) /\ HasWord(s4, 4, x) /\ HasWord(s4, 8, y) /\ HasWord(s4, 12, z)
    <2>1. s4 \in Seq(Bytes) /\ Len(s4) = Len(s3) + 4 /\ HasWord(s4, Len(s3), z) BY <1>5, <1>9, WordAdded
    <2>2. /\ 0 \in Nat /\ 4 \in Nat /\ 8 \in Nat
          /\ 0 + 4 <= Len(s3) /\ 4 + 4 <= Len(s3) /\ 8 + 4 <= Len(s3)
      BY <1>9
    <2>3. HasWord(s4, 0, l) BY <1>5, <1>9, <1>u, <2>2, WordStays, Zenon
    <2>4. HasWord(s4, 4, x) BY <1>5, <1>9, <1>u, <2>2, WordStays, Zenon
    <2>5. HasWord(s4, 8, y) BY <1>5, <1>9, <1>u, <2>2, WordStays, Zenon
    <2> QED BY <1>9, <2>1, <2>3, <2>4, <2>5
  <1>11. HasWord(f, 0, l) /\ HasWord(f, 4, x) /\ HasWord(f, 8, y) /\ HasWord(f, 12, z)
    <2>1. /\ 0 \in Nat /\ 4 \in Nat /\ 8 \in Nat /\ 12 \in Nat
          /\ 0 + 4 <= Len(s4) /\ 4 + 4 <= Len(s4) /\ 8 + 4 <= Len(s4) /\ 12 + 4 <= Len(s4)
      BY <1>10
    <2>2. HasWord(f, 0, l) BY <1>6, <1>10, <2>1, WordStays, Zenon
    <2>3. HasWord(f, 4, x) BY <1>6, <1>10, <2>1, WordStays, Zenon
    <2>4. HasWord(f, 8, y) BY <1>6, <1>10, <2>1, WordStays, Zenon
    <2>5. HasWord(f, 12, z) BY <1>6, <1>10, <2>1, WordStays, Zenon
    <2> QED BY <2>2, <2>3, <2>4, <2>5
  <1>12. /\ f \in Seq(Bytes) /\ Len(f) = Len(s4) + Len(b)
         /\ \A j \in 1..Len(b) : f[Len(s4) + j] = b[j]
    <2>1. s4 \in Seq(Bytes) BY <1>10
    <2>2. /\ s4 \o b \in Seq(Bytes) /\ Len(s4 \o b) = Len(s4) + Len(b)
          /\ \A j \in 1..Len(b) : (s4 \o b)[Len(s4) + j] = b[j]
      BY <2>1, Joined
    <2> QED BY <1>6, <2>2
  <1>13. IsFrame(f, x, y, z, b) BY <1>0, <1>1, <1>10, <1>11, <1>12 DEF IsFrame, HeaderLength
  <1> QED BY <1>0, <1>2, <1>3, <1>4, <1>5, <1>6, <1>13, Zenon

-----------------------------------------------------------------------------
(* Bodies *)

\* What Marshal does by the kind of the field.
LEMMA MarshalKinds ==
    /\ \A v : Marshal(octet, v) = v
    /\ \A n, v : Marshal(fixed(n), v) = [i \in 1 .. n |-> IF i <= Len(v) THEN v[i] ELSE 0]
    /\ \A v : Marshal(cstring, v) = Append(v, 0)
    /\ \A v : Marshal(shortMessage, v) = <<v.length>> \o v.data
    /\ \A v : Marshal(optional, v) = FlattenSeq([i \in DOMAIN v |-> MarshalParam(v[i])])
  <1>1. ASSUME NEW v PROVE Marshal(octet, v) = v
    <2>1. octet.kind = "octet" BY DEF octet
    <2> QED BY <2>1 DEF Marshal
  <1>2. ASSUME NEW n, NEW v PROVE Marshal(fixed(n), v) = [i \in 1 .. n |-> IF i <= Len(v) THEN v[i] ELSE 0]
    <2>1. fixed(n).kind = "fixed" /\ fixed(n).n = n BY DEF fixed
    <2> QED BY <2>1 DEF Marshal
  <1>3. ASSUME NEW v PROVE Marshal(cstring, v) = Append(v, 0)
    <2>1. cstring.kind = "cstring" BY DEF cstring
    <2> QED BY <2>1 DEF Marshal
  <1>4. ASSUME NEW v PROVE Marshal(shortMessage, v) = <<v.length>> \o v.data
    <2>1. shortMessage.kind = "short_message" BY DEF shortMessage
    <2> QED BY <2>1 DEF Marshal
  <1>5. ASSUME NEW v PROVE Marshal(optional, v) = FlattenSeq([i \in DOMAIN v |-> MarshalParam(v[i])])
    <2>1. optional.kind = "optional" BY DEF optional
    <2> QED BY <2>1 DEF Marshal
  <1> QED BY <1>1, <1>2, <1>3, <1>4, <1>5

\* A single byte.
LEMMA OneByte ==
    ASSUME NEW x \in Bytes
    PROVE  <<x>> \in Seq(Bytes) /\ Len(<<x>>) = 1 /\ <<x>>[1] = x
  OBVIOUS

\* The numbers that the builders put into octets.
LEMMA SmallBytes == 0 \in Bytes /\ 1 \in Bytes /\ 3 \in Bytes /\ 4 \in Bytes
  BY ByteFacts

\* An octet is itself.
LEMMA MarshalOctet ==
    ASSUME NEW x \in Bytes
    PROVE  Marshal(octet, <<x>>) \in Seq(Bytes) /\ Len(Marshal(octet, <<x>>)) = 1
  BY MarshalKinds, OneByte, Zenon

\* A fixed field is its value, padded with NULs or cut at its length.
LEMMA MarshalFixed ==
    ASSUME NEW n \in Nat, NEW v \in Seq(Bytes)
    PROVE  /\ Marshal(fixed(n), v) \in Seq(Bytes) /\ Len(Marshal(fixed(n), v)) = n
           /\ \A i \in 1..n : Marshal(fixed(n), v)[i] = IF i <= Len(v) THEN v[i] ELSE 0
  <1> DEFINE t == [i \in 1 .. n |-> IF i <= Len(v) THEN v[i] ELSE 0]
  <1>1. Marshal(fixed(n), v) = t BY MarshalKinds
  <1>2. Len(v) \in Nat /\ \A i \in 1..Len(v) : v[i] \in Bytes BY LenProperties, ElementOfSeq
  <1>3. t \in [1..n -> Bytes]
    <2>1. ASSUME NEW i \in 1..n PROVE (IF i <= Len(v) THEN v[i] ELSE 0) \in Bytes
      <3>1. i <= Len(v) => i \in 1..Len(v) BY <1>2
      <3> QED BY <1>2, <3>1, SmallBytes
    <2> QED BY <2>1
  <1>4. t \in Seq(Bytes) /\ Len(t) = n
    <2> HIDE DEF t
    <2> QED BY <1>3, FunIsSeq
  <1> QED BY <1>1, <1>4

\* The fields of a body are found one after the other, the k-th of them between off[k - 1] and off[k].
BodyAt(layout, body, n, off) ==
    /\ off \in [0..n -> Nat] /\ off[0] = 0 /\ Len(MarshalBody(layout, body)) = off[n]
    /\ \A k \in 1..n :
          /\ off[k] = off[k - 1] + Len(Marshal(layout[k], body[k])) /\ off[k] <= off[n]
          /\ \A j \in 1..Len(Marshal(layout[k], body[k])) :
                MarshalBody(layout, body)[off[k - 1] + j] = Marshal(layout[k], body[k])[j]

\* All fields of a body are made of bytes.
FieldsOk(layout, body, n) ==
    DOMAIN layout = 1..n /\ \A k \in 1..n : Marshal(layout[k], body[k]) \in Seq(Bytes)

\* MarshalBody puts the bytes of the fields one after the other.
LEMMA BodyLaidOut ==
    ASSUME NEW layout, NEW body, NEW n \in Nat, FieldsOk(layout, body, n)
    PROVE  /\ MarshalBody(layout, body) \in Seq(Bytes)
           /\ \E off : BodyAt(layout, body, n, off)
  <1> DEFINE seqs == [i \in DOMAIN layout |-> Marshal(layout[i], body[i])]
  <1>1. seqs = [i \in 1..n |-> Marshal(layout[i], body[i])] BY DEF FieldsOk
  <1>2. seqs \in [1..n -> Seq(Bytes)] BY <1>1 DEF FieldsOk
  <1>3. \A k \in 1..n : seqs[k] = Marshal(layout[k], body[k]) BY <1>1
  <1>4. MarshalBody(layout, body) = FlattenSeq(seqs) BY DEF MarshalBody
  <1> HIDE DEF seqs
  <1>5. seqs \in Seq(Seq(Bytes)) /\ Len(seqs) = n BY <1>2, FunIsSeq
  <1>6. FlattenSeq(seqs) \in Seq(Bytes) BY <1>5, FlattenLayout
  <1>7. PICK off : Ends(off, seqs) /\ LaidOut(off, seqs, FlattenSeq(seqs), Len(seqs))
    BY <1>5, FlattenLayout
  <1>8. /\ off \in [0..n -> Nat] /\ off[0] = 0 /\ Len(FlattenSeq(seqs)) = off[n]
        /\ \A k \in 1..n : off[k] = off[k - 1] + Len(seqs[k]) /\ off[k] <= off[n]
        /\ \A k \in 1..n : \A j \in 1..Len(seqs[k]) : FlattenSeq(seqs)[off[k - 1] + j] = seqs[k][j]
    BY <1>5, <1>7, Zenon DEF Ends, LaidOut
  <1>9. BodyAt(layout, body, n, off) BY <1>3, <1>4, <1>8, Zenon DEF BodyAt
  <1> QED BY <1>4, <1>6, <1>9

-----------------------------------------------------------------------------
(* Layouts *)

\* The fields of submit_sm and deliver_sm, by their kinds and sizes.
LEMMA SubmitSMFields ==
    /\ DOMAIN SubmitSM = 1..18 /\ Len(SubmitSM) = 18
    /\ SubmitSM[1] = fixed(MaxServiceTypeLength)
    /\ SubmitSM[4] = fixed(MaxAddressLength) /\ SubmitSM[7] = fixed(MaxAddressLength)
    /\ SubmitSM[11] = fixed(TimeLength) /\ SubmitSM[12] = fixed(TimeLength)
    /\ \A k \in {2, 3, 5, 6, 8, 9, 10, 13, 14, 15, 16} : SubmitSM[k] = octet
    /\ SubmitSM[17] = shortMessage /\ SubmitSM[18] = optional
  BY DEF SubmitSM

\* The values of a submit_sm or deliver_sm.
LEMMA SmBodyFields ==
    ASSUME NEW esm, NEW source, NEW dest, NEW registered, NEW length, NEW data, NEW params,
           NEW b, b = SmBody(esm, source, dest, registered, length, data, params)
    PROVE  /\ DOMAIN b = 1..18 /\ Len(b) = 18
           /\ b[1] = <<>> /\ b[4] = source /\ b[7] = dest /\ b[11] = <<>> /\ b[12] = <<>>
           /\ \A k \in {2, 3, 5, 6} : b[k] = <<1>>
           /\ b[8] = <<esm>> /\ b[13] = <<registered>>
           /\ \A k \in {9, 10, 14, 15, 16} : b[k] = <<0>>
           /\ b[17] = [length |-> length, data |-> data] /\ b[18] = params
  BY DEF SmBody

\* The fields of a bind.
LEMMA BindRequestFields ==
    /\ DOMAIN BindRequest = 1..7 /\ Len(BindRequest) = 7
    /\ BindRequest[1] = fixed(MaxSystemIDLength) /\ BindRequest[2] = fixed(MaxPasswordLength)
    /\ BindRequest[3] = fixed(MaxSystemTypeLength)
    /\ BindRequest[4] = octet /\ BindRequest[5] = octet /\ BindRequest[6] = octet
    /\ BindRequest[7] = fixed(RangeLength)
  BY DEF BindRequest

\* The values of a bind: three names, the version, two address octets and the range.
LEMMA BindBodyFields ==
    ASSUME NEW i, NEW p, NEW t, NEW version, NEW ton, NEW npi, NEW range,
           NEW b, b = <<i, p, t, version, ton, npi, range>>
    PROVE  /\ DOMAIN b = 1..7 /\ Len(b) = 7
           /\ b[1] = i /\ b[2] = p /\ b[3] = t /\ b[4] = version /\ b[5] = ton /\ b[6] = npi
           /\ b[7] = range
  OBVIOUS

\* The fields of a submit_sm ahead of its message.
LEMMA FixedFieldsAre ==
    /\ DOMAIN FixedFields = 1..16 /\ Len(FixedFields) = 16
    /\ \A k \in 1..16 : FixedFields[k] = SubmitSM[k]
  <1>1. SubmitSM \in Seq({SubmitSM[k] : k \in 1..18})
    <2>1. SubmitSM = [k \in 1..18 |-> SubmitSM[k]] BY SubmitSMFields DEF SubmitSM
    <2>2. PICK f : f = SubmitSM OBVIOUS
    <2>3. f \in [1..18 -> {f[k] : k \in 1..18}] BY <2>1, <2>2
    <2>4. f \in Seq({f[k] : k \in 1..18}) BY <2>3, FunIsSeq
    <2> QED BY <2>2, <2>4, Zenon
  <1>2. PICK S : SubmitSM \in Seq(S) BY <1>1
  <1>3. FixedFields = SubSeq(SubmitSM, 0 + 1, 16) BY SubmitSMFields DEF FixedFields
  <1>4. /\ FixedFields \in Seq(S) /\ Len(FixedFields) = 16 - 0
        /\ \A j \in 1..16 - 0 : FixedFields[j] = SubmitSM[0 + j]
    <2>1. 0 \in Nat /\ 16 \in Nat /\ 0 <= 16 /\ 16 <= Len(SubmitSM) BY SubmitSMFields
    <2>2. PICK l : l = SubmitSM OBVIOUS
    <2>3. l \in Seq(S) /\ 16 <= Len(l) BY ONLY <1>2, <2>1, <2>2
    <2>4. /\ SubSeq(l, 0 + 1, 16) \in Seq(S) /\ Len(SubSeq(l, 0 + 1, 16)) = 16 - 0
          /\ \A j \in 1..16 - 0 : SubSeq(l, 0 + 1, 16)[j] = l[0 + j]
      BY ONLY <2>1, <2>3, CutOut
    <2>5. FixedFields = SubSeq(l, 0 + 1, 16) BY ONLY <1>3, <2>2
    <2> QED BY ONLY <2>2, <2>4, <2>5
  <1> QED BY <1>4, LenProperties

\* The offsets are the sums of the sizes.
LEMMA OffsetsAre ==
    ASSUME NEW layout, NEW n \in Nat, Len(layout) = n, \A k \in 1..n : Size(layout[k]) \in Nat
    PROVE  /\ Offsets(layout)[0] = 0 /\ \A k \in 0..n : Offsets(layout)[k] \in Nat
           /\ \A k \in 1..n : Offsets(layout)[k] = Offsets(layout)[k - 1] + Size(layout[k])
  <1> DEFINE c == CHOOSE f : f = [i \in 0..n |-> IF i = 0 THEN 0 ELSE f[i - 1] + Size(layout[i])]
             d == [i \in 1..n |-> Size(layout[i])]
  <1>1. Offsets(layout) = c BY DEF Offsets
  <1>2. \A i \in 1..n : d[i] \in Nat /\ d[i] = Size(layout[i]) OBVIOUS
  <1> HIDE DEF d
  <1>3. PICK g \in [0..n -> Nat] : Adds(g, n, 1, d) BY <1>2, AddsExists
  <1>4. g = [i \in 0..n |-> IF i = 0 THEN 0 ELSE g[i - 1] + Size(layout[i])]
    <2>1. ASSUME NEW i \in 0..n PROVE g[i] = IF i = 0 THEN 0 ELSE g[i - 1] + Size(layout[i])
      <3>1. CASE i = 0 BY <1>3, <3>1 DEF Adds
      <3>2. CASE i # 0
        <4>1. i \in 1..n /\ i - 1 \in 0..n BY <3>2
        <4>2. g[i] = g[i - 1] * 1 + d[i] BY <1>3, <4>1 DEF Adds
        <4>3. g[i - 1] \in Nat BY <1>3, <4>1
        <4>4. g[i - 1] * 1 = g[i - 1] BY <4>3
        <4> QED BY <1>2, <3>2, <4>1, <4>2, <4>4, Zenon
      <3> QED BY <3>1, <3>2
    <2>2. g = [i \in 0..n |-> g[i]] BY <1>3
    <2> QED BY <2>1, <2>2, Zenon
  <1>5. c = [i \in 0..n |-> IF i = 0 THEN 0 ELSE c[i - 1] + Size(layout[i])] BY <1>4, Zenon
  <1> HIDE DEF c
  <1>6. c[0] = 0 /\ \A k \in 1..n : c[k] = c[k - 1] + Size(layout[k])
    <2>1. 0 \in 0..n /\ \A i \in 1..n : i \in 0..n /\ i # 0 OBVIOUS
    <2>2. \A i \in 0..n : c[i] = IF i = 0 THEN 0 ELSE c[i - 1] + Size(layout[i]) BY <1>5, Zenon
    <2> QED BY <2>1, <2>2, Zenon
  <1> DEFINE N == {i \in 0..n : c[i] \in Nat}
  <1>7. 0 \in N BY <1>6
  <1>8. ASSUME NEW k \in 0..n, k \in N /\ k < n PROVE k + 1 \in N
    <2>1. k + 1 \in 1..n /\ k + 1 \in 0..n /\ (k + 1) - 1 = k BY <1>8
    <2>2. c[k + 1] = c[k] + Size(layout[k + 1]) BY <1>6, <2>1
    <2> QED BY <1>8, <2>1, <2>2
  <1>9. \A k \in 0..n : k \in N
    <2> HIDE DEF N
    <2> QED BY <1>7, <1>8, UpFrom
  <1> QED BY <1>1, <1>6, <1>9

\* Fields of known size, with their sizes.
SizesOk(fields, layout, body, n) ==
    /\ Len(fields) = n
    /\ \A k \in 1..n : /\ Size(fields[k]) \in Nat
                         /\ Len(Marshal(layout[k], body[k])) = Size(fields[k])

\* The decoder looks for the fields where the encoder put them.
LEMMA OffsetsMatch ==
    ASSUME NEW layout, NEW body, NEW m \in Nat, NEW off, BodyAt(layout, body, m, off),
           NEW fields, NEW n \in 0..m, SizesOk(fields, layout, body, n)
    PROVE  \A k \in 0..n : Offsets(fields)[k] = off[k]
  <1>1. n \in Nat /\ Len(fields) = n /\ \A k \in 1..n : Size(fields[k]) \in Nat BY DEF SizesOk
  <1>2. /\ Offsets(fields)[0] = 0
        /\ \A k \in 1..n : Offsets(fields)[k] = Offsets(fields)[k - 1] + Size(fields[k])
    BY <1>1, OffsetsAre
  <1> DEFINE N == {k \in 0..n : Offsets(fields)[k] = off[k]}
  <1>3. 0 \in N BY <1>1, <1>2 DEF BodyAt
  <1>4. ASSUME NEW k \in 0..n, k \in N /\ k < n PROVE k + 1 \in N
    <2>1. k + 1 \in 1..n /\ k + 1 \in 1..m /\ k + 1 \in 0..n /\ (k + 1) - 1 = k BY <1>4
    <2>2. Offsets(fields)[k + 1] = Offsets(fields)[k] + Size(fields[k + 1]) BY <1>2, <2>1
    <2>3. off[k + 1] = off[k] + Len(Marshal(layout[k + 1], body[k + 1])) BY <2>1 DEF BodyAt
    <2>4. Len(Marshal(layout[k + 1], body[k + 1])) = Size(fields[k + 1]) BY <2>1 DEF SizesOk
    <2> QED BY <1>4, <2>1, <2>2, <2>3, <2>4
  <1>5. \A k \in 0..n : k \in N
    <2> HIDE DEF N
    <2> QED BY <1>1, <1>3, <1>4, UpFrom
  <1> QED BY <1>5

\* A field is cut out where it lies.
LEMMA FieldCutOut ==
    ASSUME NEW layout, NEW body, NEW m \in Nat, NEW off, BodyAt(layout, body, m, off),
           FieldsOk(layout, body, m), NEW k \in 1..m
    PROVE  SubSeq(MarshalBody(layout, body), off[k - 1] + 1, off[k]) = Marshal(layout[k], body[k])
  <1> DEFINE t == Marshal(layout[k], body[k])  s == MarshalBody(layout, body)
  <1>1. t \in Seq(Bytes) /\ Len(t) \in Nat BY LenProperties DEF FieldsOk
  <1>2. s \in Seq(Bytes) BY BodyLaidOut
  <1>3. k - 1 \in 0..m /\ off[k - 1] \in Nat BY DEF BodyAt
  <1>4. /\ off[k] = off[k - 1] + Len(t) /\ off[k] <= Len(s)
        /\ \A j \in 1..Len(t) : s[off[k - 1] + j] = t[j]
    BY DEF BodyAt
  <1> HIDE DEF t, s
  <1>5. SubSeq(s, off[k - 1] + 1, off[k - 1] + Len(t)) = t BY <1>1, <1>2, <1>3, <1>4, CutOutIs
  <1> QED BY <1>4, <1>5 DEF t, s

-----------------------------------------------------------------------------
(* Commands *)

\* Commands without a body, and all commands that are sent.
EmptyCommands == {"unbind", "enquire_link", "unbind_resp", "enquire_link_resp", "replace_sm_resp",
                  "cancel_sm_resp", "generic_nack"}

\* The commands that are sent.
SentCommands ==
    EmptyCommands \cup {"bind_transceiver", "bind_transceiver_resp", "submit_sm", "submit_sm_resp",
                        "deliver_sm", "deliver_sm_resp", "query_sm_resp", "submit_multi_resp", "data_sm_resp"}

\* The layouts of the commands that are sent.
LEMMA LayoutIs ==
    /\ \A c \in Binds : Layout(c) = BindRequest
    /\ Layout("submit_sm") = SubmitSM /\ Layout("deliver_sm") = SubmitSM
    /\ \A c \in BindResponses \cup {"submit_sm_resp", "deliver_sm_resp"} : Layout(c) = <<cstring>>
    /\ Layout("submit_multi_resp") = <<cstring, octet>>
    /\ Layout("data_sm_resp") = <<cstring, optional>>
    /\ Layout("query_sm_resp") = <<cstring, cstring, octet, octet>>
    /\ \A c \in EmptyCommands : Layout(c) = <<>>
  <1>1. \A c \in Binds : Layout(c) = BindRequest BY DEF Layout, Binds, BindResponses
  <1>2. Layout("submit_sm") = SubmitSM /\ Layout("deliver_sm") = SubmitSM
    BY DEF Layout, DeliverSM, Binds, BindResponses
  <1>3. \A c \in BindResponses : Layout(c) = <<cstring>>
    BY DEF Layout, Binds, BindResponses, BindResponse
  <1>4. Layout("submit_sm_resp") = <<cstring>> /\ Layout("deliver_sm_resp") = <<cstring>>
    BY DEF Layout, Binds, BindResponses, SubmitSMResp, DeliverSMResp
  <1>5. /\ Layout("submit_multi_resp") = <<cstring, octet>>
        /\ Layout("data_sm_resp") = <<cstring, optional>>
        /\ Layout("query_sm_resp") = <<cstring, cstring, octet, octet>>
    BY DEF Layout, Binds, BindResponses, SubmitMultiResp, DataSMResp, QuerySMResp
  <1>6. \A c \in EmptyCommands : Layout(c) = <<>>
    BY DEF Layout, Binds, BindResponses, EmptyCommands
  <1> QED BY <1>1, <1>2, <1>3, <1>4, <1>5, <1>6

\* The highest bit of a word is far above the numbers of the requests.
LEMMA HalfWord ==
    WordSize \div 2 \in Nat /\ WordSize \div 2 >= 648 /\ 2 * (WordSize \div 2) <= WordSize
  <1>1. PICK w : w = WordSize OBVIOUS
  <1>2. w \in Nat /\ w >= 1296 BY <1>1, ByteFacts
  <1>3. w \div 2 \in Nat /\ w \div 2 >= 648 /\ 2 * (w \div 2) <= w BY <1>2
  <1> QED BY <1>1, <1>3

\* The numbers of the commands.
LEMMA NumberIs ==
    /\ Number("bind_transceiver") = 9 /\ Number("submit_sm") = 4 /\ Number("deliver_sm") = 5
    /\ Number("bind_receiver") = 1 /\ Number("bind_transmitter") = 2
    /\ Number("unbind") = 6 /\ Number("enquire_link") = 21
    /\ Number("bind_receiver_resp") = WordSize \div 2 + 1
    /\ Number("bind_transmitter_resp") = WordSize \div 2 + 2
    /\ Number("query_sm_resp") = WordSize \div 2 + 3
    /\ Number("submit_sm_resp") = WordSize \div 2 + 4
    /\ Number("deliver_sm_resp") = WordSize \div 2 + 5
    /\ Number("unbind_resp") = WordSize \div 2 + 6
    /\ Number("replace_sm_resp") = WordSize \div 2 + 7
    /\ Number("cancel_sm_resp") = WordSize \div 2 + 8
    /\ Number("bind_transceiver_resp") = WordSize \div 2 + 9
    /\ Number("enquire_link_resp") = WordSize \div 2 + 21
    /\ Number("submit_multi_resp") = WordSize \div 2 + 33
    /\ Number("data_sm_resp") = WordSize \div 2 + 259
    /\ Number("generic_nack") = WordSize \div 2 + 0
  <1>1. DOMAIN Requests = {"bind_receiver", "bind_transmitter", "submit_sm", "deliver_sm", "unbind",
                           "bind_transceiver", "enquire_link"}
    BY DEF Requests
  <1>2. /\ Requests["bind_transceiver"] = 9 /\ Requests["submit_sm"] = 4 /\ Requests["deliver_sm"] = 5
        /\ Requests["bind_receiver"] = 1 /\ Requests["bind_transmitter"] = 2
        /\ Requests["unbind"] = 6 /\ Requests["enquire_link"] = 21
    BY DEF Requests
  <1>3. /\ Responses["bind_receiver_resp"] = 1 /\ Responses["bind_transmitter_resp"] = 2
        /\ Responses["query_sm_resp"] = 3 /\ Responses["submit_sm_resp"] = 4
        /\ Responses["deliver_sm_resp"] = 5 /\ Responses["unbind_resp"] = 6
        /\ Responses["replace_sm_resp"] = 7 /\ Responses["cancel_sm_resp"] = 8
        /\ Responses["bind_transceiver_resp"] = 9 /\ Responses["enquire_link_resp"] = 21
        /\ Responses["submit_multi_resp"] = 33 /\ Responses["data_sm_resp"] = 259
        /\ Responses["generic_nack"] = 0
    BY DEF Responses
  <1> QED BY <1>1, <1>2, <1>3 DEF Number

\* Command numbers are words, and no two commands have the same.
LEMMA NumbersFit ==
    \A c \in SentCommands : Number(c) \in Nat /\ Number(c) < WordSize
  <1>1. PICK h : h = WordSize \div 2 OBVIOUS
  <1>2. h \in Nat /\ h >= 648 /\ 2 * h <= WordSize /\ WordSize \in Nat BY <1>1, HalfWord, ByteFacts
  <1> QED BY <1>1, <1>2, NumberIs DEF SentCommands, EmptyCommands

\* The number tells which command the decoder sees.
LEMMA NumbersDiffer ==
    \A c \in createPDUBody, d \in SentCommands : Number(c) = Number(d) => c = d
  <1>1. PICK h : h = WordSize \div 2 OBVIOUS
  <1>2. h \in Nat /\ h >= 648 BY <1>1, HalfWord
  <1> QED BY <1>1, <1>2, NumberIs DEF SentCommands, EmptyCommands, createPDUBody, Binds, BindResponses

-----------------------------------------------------------------------------
(* What is sent *)

\* The bytes of a PDU's body.
BodyOf(p) == MarshalBody(Layout(p.command), p.body)

\* The PDU makes a frame that is decoded to it, if it can be decoded at all.
Sound(p) ==
    /\ p.command \in SentCommands /\ p.status \in 0..WordSize - 1 /\ p.seq \in 0..WordSize - 1
    /\ CommandID(p.command) = p.command
    /\ BodyOf(p) \in Seq(Bytes) /\ HeaderLength + Len(BodyOf(p)) < WordSize
    /\ Decodable(p) => Unmarshal(p.command, BodyOf(p)).ok
    /\ p.command \in createPDUBody /\ Unmarshal(p.command, BodyOf(p)).ok /\ Fits(p) =>
          Unmarshal(p.command, BodyOf(p)).body = p.body

\* A PDU has the four parts it was built of.
LEMMA PduParts ==
    ASSUME NEW c, NEW status, NEW seq, NEW body, NEW p, p = pdu(c, status, seq, body)
    PROVE  p.command = c /\ p.status = status /\ p.seq = seq /\ p.body = body
  BY DEF pdu

\* What a successful unmarshalling returns.
LEMMA OkIs == \A body : Ok(body).ok = TRUE /\ Ok(body).body = body
  BY DEF Ok

\* An empty sequence of fields is an empty body.
LEMMA EmptyFields ==
    ASSUME NEW e, NEW body, e = <<>>
    PROVE  MarshalBody(e, body) = <<>>
  <1>1. DOMAIN e = 1..0 /\ Len(e) = 0 BY EmptySeq
  <1>2. FieldsOk(e, body, 0) BY <1>1 DEF FieldsOk
  <1>3. PICK off : BodyAt(e, body, 0, off) BY <1>2, BodyLaidOut
  <1>4. MarshalBody(e, body) \in Seq(Bytes) /\ Len(MarshalBody(e, body)) = 0
    <2>1. MarshalBody(e, body) \in Seq(Bytes) BY <1>2, BodyLaidOut
    <2>2. Len(MarshalBody(e, body)) = off[0] /\ off[0] = 0 BY <1>3 DEF BodyAt
    <2> QED BY <2>1, <2>2
  <1> QED BY <1>4, EmptySeq

\* PDUs without a body.
LEMMA EmptySound ==
    ASSUME NEW c \in EmptyCommands, NEW status \in 0..WordSize - 1, NEW seq \in 0..WordSize - 1,
           NEW p, p = pdu(c, status, seq, <<>>)
    PROVE  Sound(p)
  <1>1. p.command = c /\ p.status = status /\ p.seq = seq /\ p.body = <<>> BY PduParts
  <1>2. Layout(c) = <<>> BY LayoutIs
  <1>3. BodyOf(p) = <<>> BY <1>1, <1>2, EmptyFields DEF BodyOf
  <1>4. c \in SentCommands /\ CommandID(c) = c
    BY DEF SentCommands, EmptyCommands, CommandID, Binds, BindResponses
  <1>5. HeaderLength + 0 < WordSize BY ByteFacts DEF HeaderLength
  <1>6. Zero(c) = <<>>
    <2> DEFINE z == [i \in DOMAIN Layout(c) |->
        CASE Layout(c)[i].kind = "octet" -> <<0>>
          [] Layout(c)[i].kind = "short_message" -> [length |-> 0, data |-> <<>>]
          [] OTHER -> <<>>]
    <2>1. Zero(c) = z BY DEF Zero
    <2>2. DOMAIN Layout(c) = 1..0 BY <1>2
    <2>3. z \in [1..0 -> {}] BY <2>2
    <2> HIDE DEF z
    <2>4. z \in Seq({}) /\ Len(z) = 0 BY <2>3, FunIsSeq
    <2> QED BY <2>1, <2>4, EmptySeq
  <1>7. Unmarshal(c, <<>>) = Ok(<<>>)
    <2>1. c \notin Binds /\ c \notin {"submit_sm", "deliver_sm"} BY DEF EmptyCommands, Binds
    <2>2. Layout(c) # <<cstring>> BY <1>2
    <2> QED BY <1>6, <2>1, <2>2 DEF Unmarshal
  <1>8. BodyOf(p) \in Seq(Bytes) /\ HeaderLength + Len(BodyOf(p)) < WordSize
    <2>1. <<>> \in Seq(Bytes) /\ Len(<<>>) = 0 BY EmptySeq
    <2> QED BY ONLY <1>3, <1>5, <2>1
  <1>9. Unmarshal(p.command, BodyOf(p)).ok /\ Unmarshal(p.command, BodyOf(p)).body = p.body
    <2>1. Ok(<<>>).ok = TRUE /\ Ok(<<>>).body = <<>> BY ONLY OkIs
    <2> QED BY ONLY <1>1, <1>3, <1>7, <2>1
  <1>10. p.command \in SentCommands /\ CommandID(p.command) = p.command BY ONLY <1>1, <1>4
  <1>11. p.status \in 0..WordSize - 1 /\ p.seq \in 0..WordSize - 1 BY <1>1
  <1> QED BY ONLY <1>8, <1>9, <1>10, <1>11, Zenon DEF Sound

\* Strings, the empty one included.
LEMMA NamesFit ==
    ASSUME NEW n \in Names \cup {<<>>}
    PROVE  /\ n \in Seq(Bytes \ {0}) /\ n \in Seq(Bytes) /\ Len(n) \in Nat
           /\ HeaderLength + Len(n) + 4 < WordSize
  <1>1. n \in Seq(Bytes \ {0})
    <2>1. CASE n \in Names BY <2>1, CodecAssumption
    <2>2. CASE n = <<>> BY <2>2, EmptySeq
    <2> QED BY <2>1, <2>2
  <1>2. n \in Seq(Bytes) BY <1>1, SeqMonotonic
  <1>3. Len(n) \in Nat BY <1>1, LenProperties
  <1>4. HeaderLength + Len(n) + 4 < WordSize
    <2>1. CASE n \in Names BY <2>1, SizesAssumption
    <2>2. CASE n = <<>>
      <3>1. Len(n) = 0 BY <2>2, EmptySeq
      <3> QED BY <3>1, ByteFacts DEF HeaderLength
    <2> QED BY <2>1, <2>2
  <1> QED BY <1>1, <1>2, <1>3, <1>4

\* A C string is its bytes and a NUL.
LEMMA MarshalString ==
    ASSUME NEW n \in Seq(Bytes)
    PROVE  /\ Marshal(cstring, n) = Append(n, 0) /\ Append(n, 0) \in Seq(Bytes)
           /\ Len(Append(n, 0)) = Len(n) + 1
  <1>1. Marshal(cstring, n) = Append(n, 0) BY MarshalKinds
  <1>2. 0 \in Bytes BY SmallBytes
  <1> QED BY <1>1, <1>2, AppendProperties

\* Responses that carry one string.
LEMMA StringSound ==
    ASSUME NEW c \in {"bind_transceiver_resp", "submit_sm_resp", "deliver_sm_resp"},
           NEW n \in Names \cup {<<>>},
           NEW status \in 0..WordSize - 1, NEW seq \in 0..WordSize - 1,
           NEW p, p = pdu(c, status, seq, <<n>>)
    PROVE  Sound(p)
  <1>1. p.command = c /\ p.status = status /\ p.seq = seq /\ p.body = <<n>> BY PduParts
  <1>2. Layout(c) = <<cstring>> BY LayoutIs DEF BindResponses
  <1>3. /\ n \in Seq(Bytes \ {0}) /\ n \in Seq(Bytes) /\ Len(n) \in Nat
        /\ HeaderLength + Len(n) + 4 < WordSize
    BY NamesFit
  <1>4. /\ Marshal(cstring, n) = Append(n, 0) /\ Append(n, 0) \in Seq(Bytes)
        /\ Len(Append(n, 0)) = Len(n) + 1
    BY <1>3, MarshalString
  <1> DEFINE l == <<cstring>>  b == <<n>>  t == Append(n, 0)
  <1>5. DOMAIN l = 1..1 /\ l[1] = cstring /\ b[1] = n OBVIOUS
  <1> HIDE DEF l, b, t
  <1>6. FieldsOk(l, b, 1)
    <2>1. \A k \in 1..1 : k = 1 OBVIOUS
    <2> QED BY <1>4, <1>5, <2>1 DEF FieldsOk, t
  <1>7. MarshalBody(l, b) = t
    <2>1. PICK off : BodyAt(l, b, 1, off) BY <1>6, BodyLaidOut
    <2>2. MarshalBody(l, b) \in Seq(Bytes) BY <1>6, BodyLaidOut
    <2>3. Marshal(l[1], b[1]) = t /\ t \in Seq(Bytes) /\ Len(t) \in Nat BY <1>4, <1>5, LenProperties DEF t
    <2>4. 1 \in 1..1 /\ 1 - 1 = 0 OBVIOUS
    <2>5. off[1] = off[0] + Len(t) /\ off[0] = 0 /\ Len(MarshalBody(l, b)) = off[1]
      BY <2>1, <2>3, <2>4 DEF BodyAt
    <2>6. \A j \in 1..Len(t) : MarshalBody(l, b)[off[0] + j] = t[j]
      BY <2>1, <2>3, <2>4 DEF BodyAt
    <2>7. Len(MarshalBody(l, b)) = Len(t) /\ \A j \in 1..Len(t) : off[0] + j = j BY <2>3, <2>5
    <2>8. \A j \in 1..Len(MarshalBody(l, b)) : MarshalBody(l, b)[j] = t[j] BY <2>6, <2>7
    <2> QED BY <2>2, <2>3, <2>7, <2>8, SeqEqual
  <1>8. BodyOf(p) = t BY <1>1, <1>2, <1>7 DEF BodyOf, l, b
  <1>9. t # <<>> /\ t \in Seq(Bytes) /\ HeaderLength + Len(t) < WordSize
    <2>1. Len(t) = Len(n) + 1 /\ t \in Seq(Bytes) BY <1>4 DEF t
    <2>2. t # <<>> BY <1>3, <2>1, EmptySeq
    <2> QED BY <1>3, <2>1, <2>2, ByteFacts DEF HeaderLength
  <1>10. UntilNul(t) = n BY <1>3, UntilTerminator DEF t
  <1>11. Unmarshal(c, t) = Ok(<<n>>)
    <2>1. c \notin Binds /\ c \notin {"submit_sm", "deliver_sm"} BY DEF Binds
    <2> QED BY <1>2, <1>9, <1>10, <2>1 DEF Unmarshal
  <1>12. c \in SentCommands /\ CommandID(c) = c
    BY DEF SentCommands, CommandID, Binds, BindResponses
  <1> QED BY <1>1, <1>8, <1>9, <1>11, <1>12, OkIs DEF Sound

\* No parameters.
LEMMA NoParams ==
    Marshal(optional, <<>>) \in Seq(Bytes) /\ Len(Marshal(optional, <<>>)) = 0
  <1>1. PICK e : e = <<>> OBVIOUS
  <1> DEFINE m == [i \in DOMAIN e |-> MarshalParam(e[i])]
  <1>2. DOMAIN e = 1..0 BY <1>1
  <1>3. m \in [1..0 -> Seq(Bytes)] BY <1>2
  <1>4. Marshal(optional, e) = FlattenSeq(m) BY MarshalKinds
  <1> HIDE DEF m
  <1>5. m \in Seq(Seq(Bytes)) /\ Len(m) = 0 BY <1>3, FunIsSeq
  <1>6. FlattenSeq(m) = m BY <1>5 DEF FlattenSeq
  <1>7. m \in Seq(Bytes)
    <2>1. m \in [1..0 -> Bytes] BY <1>3
    <2> QED BY <2>1, FunIsSeq
  <1> QED BY <1>1, <1>4, <1>5, <1>6, <1>7

\* Answers that no decoder knows only have to be well-formed frames.
LEMMA UnknownSound ==
    ASSUME NEW c \in {"query_sm_resp", "submit_multi_resp", "data_sm_resp"},
           NEW status \in 0..WordSize - 1, NEW seq \in 0..WordSize - 1, NEW body,
           NEW p, p = pdu(c, status, seq, body),
           NEW n \in Nat, FieldsOk(Layout(c), body, n),
           HeaderLength + Len(MarshalBody(Layout(c), body)) < WordSize
    PROVE  Sound(p)
  <1>1. p.command = c /\ p.status = status /\ p.seq = seq /\ p.body = body BY PduParts
  <1>2. BodyOf(p) = MarshalBody(Layout(c), body) BY <1>1 DEF BodyOf
  <1>3. BodyOf(p) \in Seq(Bytes) BY <1>2, BodyLaidOut
  <1>4. c \in SentCommands /\ CommandID(c) = c /\ c \notin createPDUBody
    BY DEF SentCommands, CommandID, Binds, BindResponses, createPDUBody
  <1> QED BY <1>1, <1>2, <1>3, <1>4 DEF Sound, Decodable

\* The answers to query_sm, submit_multi and data_sm.
LEMMA OperationSound ==
    ASSUME NEW n \in Names, NEW seq \in 0..WordSize - 1
    PROVE  /\ Sound(pdu("query_sm_resp", StatusOK, seq, <<n, <<>>, <<0>>, <<0>> >>))
           /\ Sound(pdu("submit_multi_resp", StatusOK, seq, <<n, <<0>> >>))
           /\ Sound(pdu("data_sm_resp", StatusOK, seq, <<n, <<>> >>))
  <1>1. StatusOK \in 0..WordSize - 1 BY ByteFacts DEF StatusOK
  <1>2. n \in Seq(Bytes) /\ Len(n) \in Nat /\ HeaderLength + Len(n) + 4 < WordSize BY NamesFit
  <1>3. PICK e : e = <<>> OBVIOUS
  <1>4. e \in Seq(Bytes) /\ Len(e) = 0 BY <1>3, EmptySeq
  <1>5. /\ Marshal(cstring, n) \in Seq(Bytes) /\ Len(Marshal(cstring, n)) = Len(n) + 1
        /\ Marshal(cstring, e) \in Seq(Bytes) /\ Len(Marshal(cstring, e)) = 1
    <2>1. /\ Marshal(cstring, n) = Append(n, 0) /\ Append(n, 0) \in Seq(Bytes)
          /\ Len(Append(n, 0)) = Len(n) + 1
      BY <1>2, MarshalString
    <2>2. /\ Marshal(cstring, e) = Append(e, 0) /\ Append(e, 0) \in Seq(Bytes)
          /\ Len(Append(e, 0)) = Len(e) + 1
      BY <1>4, MarshalString
    <2> QED BY <1>4, <2>1, <2>2
  <1>6. PICK z : z = <<0>> OBVIOUS
  <1>7. Marshal(octet, z) \in Seq(Bytes) /\ Len(Marshal(octet, z)) = 1 BY <1>6, SmallBytes, MarshalOctet
  <1>8. Marshal(optional, e) \in Seq(Bytes) /\ Len(Marshal(optional, e)) = 0 BY <1>3, NoParams
  <1>9. Sound(pdu("query_sm_resp", StatusOK, seq, <<n, e, z, z>>))
    <2>1. PICK l : l = Layout("query_sm_resp") OBVIOUS
    <2>2. PICK b : b = <<n, e, z, z>> OBVIOUS
    <2>3. DOMAIN l = 1..4 /\ l[1] = cstring /\ l[2] = cstring /\ l[3] = octet /\ l[4] = octet
      BY <2>1, LayoutIs
    <2>4. b[1] = n /\ b[2] = e /\ b[3] = z /\ b[4] = z BY <2>2
    <2>5. FieldsOk(l, b, 4)
      <3>1. \A k \in 1..4 : k = 1 \/ k = 2 \/ k = 3 \/ k = 4 OBVIOUS
      <3> QED BY <1>5, <1>7, <2>3, <2>4, <3>1 DEF FieldsOk
    <2>6. PICK off : BodyAt(l, b, 4, off) BY <2>5, BodyLaidOut
    <2>7. 1 \in 1..4 /\ 2 \in 1..4 /\ 3 \in 1..4 /\ 4 \in 1..4 /\ 1-1 = 0 /\ 2-1 = 1 /\ 3-1 = 2 /\ 4-1 = 3
      OBVIOUS
    <2>8. /\ off[1] = off[0] + Len(Marshal(l[1], b[1])) /\ off[2] = off[1] + Len(Marshal(l[2], b[2]))
          /\ off[3] = off[2] + Len(Marshal(l[3], b[3])) /\ off[4] = off[3] + Len(Marshal(l[4], b[4]))
          /\ off[0] = 0 /\ Len(MarshalBody(l, b)) = off[4]
      BY <2>6, <2>7, Zenon DEF BodyAt
    <2>9. Len(MarshalBody(l, b)) = Len(n) + 4 BY <1>2, <1>5, <1>7, <2>3, <2>4, <2>8
    <2>10. HeaderLength + Len(MarshalBody(l, b)) < WordSize BY <1>2, <2>9, ByteFacts DEF HeaderLength
    <2> QED BY <1>1, <2>1, <2>2, <2>5, <2>10, UnknownSound
  <1>10. Sound(pdu("submit_multi_resp", StatusOK, seq, <<n, z>>))
    <2>1. PICK l : l = Layout("submit_multi_resp") OBVIOUS
    <2>2. PICK b : b = <<n, z>> OBVIOUS
    <2>3. DOMAIN l = 1..2 /\ l[1] = cstring /\ l[2] = octet BY <2>1, LayoutIs
    <2>4. b[1] = n /\ b[2] = z BY <2>2
    <2>5. FieldsOk(l, b, 2)
      <3>1. \A k \in 1..2 : k = 1 \/ k = 2 OBVIOUS
      <3> QED BY <1>5, <1>7, <2>3, <2>4, <3>1 DEF FieldsOk
    <2>6. PICK off : BodyAt(l, b, 2, off) BY <2>5, BodyLaidOut
    <2>7. 1 \in 1..2 /\ 2 \in 1..2 /\ 1-1 = 0 /\ 2-1 = 1 OBVIOUS
    <2>8. /\ off[1] = off[0] + (Len(n) + 1) /\ off[2] = off[1] + 1 /\ off[0] = 0
          /\ Len(MarshalBody(l, b)) = off[2]
      BY <1>5, <1>7, <2>3, <2>4, <2>6, <2>7 DEF BodyAt
    <2>9. Len(MarshalBody(l, b)) = Len(n) + 2 BY <1>2, <2>8
    <2>10. HeaderLength + Len(MarshalBody(l, b)) < WordSize BY <1>2, <2>9, ByteFacts DEF HeaderLength
    <2> QED BY <1>1, <2>1, <2>2, <2>5, <2>10, UnknownSound
  <1>11. Sound(pdu("data_sm_resp", StatusOK, seq, <<n, e>>))
    <2>1. PICK l : l = Layout("data_sm_resp") OBVIOUS
    <2>2. PICK b : b = <<n, e>> OBVIOUS
    <2>3. DOMAIN l = 1..2 /\ l[1] = cstring /\ l[2] = optional BY <2>1, LayoutIs
    <2>4. b[1] = n /\ b[2] = e BY <2>2
    <2>5. FieldsOk(l, b, 2)
      <3>1. \A k \in 1..2 : k = 1 \/ k = 2 OBVIOUS
      <3> QED BY <1>5, <1>8, <2>3, <2>4, <3>1 DEF FieldsOk
    <2>6. PICK off : BodyAt(l, b, 2, off) BY <2>5, BodyLaidOut
    <2>7. 1 \in 1..2 /\ 2 \in 1..2 /\ 1-1 = 0 /\ 2-1 = 1 OBVIOUS
    <2>8. /\ off[1] = off[0] + (Len(n) + 1) /\ off[2] = off[1] + 0 /\ off[0] = 0
          /\ Len(MarshalBody(l, b)) = off[2]
      BY <1>5, <1>8, <2>3, <2>4, <2>6, <2>7 DEF BodyAt
    <2>9. Len(MarshalBody(l, b)) = Len(n) + 1 BY <1>2, <2>8
    <2>10. HeaderLength + Len(MarshalBody(l, b)) < WordSize BY <1>2, <2>9, ByteFacts DEF HeaderLength
    <2> QED BY <1>1, <2>1, <2>2, <2>5, <2>10, UnknownSound
  <1> QED BY <1>3, <1>6, <1>9, <1>10, <1>11, Zenon

\* The first n fields have a known size: they are octets, or strings that are padded.
Plain(layout, body, n) ==
    \A k \in 1..n : \/ layout[k] = octet /\ \E x \in Bytes : body[k] = <<x>>
                    \/ \E x \in Nat : layout[k] = fixed(x) /\ body[k] \in Seq(Bytes \ {0})

\* Their strings fit.
Tight(layout, body, n) ==
    \A k \in 1..n : layout[k].kind = "fixed" => Len(body[k]) <= layout[k].n

\* The decoder's fields are the first n of the encoder's.
Begins(fields, layout, n) ==
    DOMAIN fields = 1..n /\ Len(fields) = n /\ \A k \in 1..n : fields[k] = layout[k]

\* Size and kind of the fields of known size.
LEMMA SizeIs ==
    /\ Size(octet) = 1 /\ octet.kind = "octet"
    /\ \A x : Size(fixed(x)) = x /\ fixed(x).kind = "fixed" /\ fixed(x).n = x
  BY DEF Size, octet, fixed

\* Such fields take up as many bytes as the decoder thinks.
LEMMA PlainFields ==
    ASSUME NEW layout, NEW body, NEW n \in Nat, Plain(layout, body, n),
           NEW fields, Begins(fields, layout, n)
    PROVE  /\ \A k \in 1..n : Marshal(layout[k], body[k]) \in Seq(Bytes)
           /\ SizesOk(fields, layout, body, n)
  <1>1. ASSUME NEW k \in 1..n
        PROVE  /\ Marshal(layout[k], body[k]) \in Seq(Bytes) /\ Size(fields[k]) \in Nat
               /\ Len(Marshal(layout[k], body[k])) = Size(fields[k])
    <2>1. fields[k] = layout[k] BY DEF Begins
    <2>2. CASE layout[k] = octet /\ \E x \in Bytes : body[k] = <<x>>
      <3>1. PICK x \in Bytes : body[k] = <<x>> BY <2>2
      <3>2. Marshal(octet, <<x>>) \in Seq(Bytes) /\ Len(Marshal(octet, <<x>>)) = 1 BY MarshalOctet
      <3>3. Size(fields[k]) = 1 BY <2>1, <2>2, SizeIs
      <3>4. Marshal(layout[k], body[k]) = Marshal(octet, <<x>>) BY <2>2, <3>1
      <3> QED BY <3>2, <3>3, <3>4
    <2>3. CASE \E x \in Nat : layout[k] = fixed(x) /\ body[k] \in Seq(Bytes \ {0})
      <3>1. PICK x \in Nat : layout[k] = fixed(x) /\ body[k] \in Seq(Bytes \ {0}) BY <2>3
      <3>2. body[k] \in Seq(Bytes) BY <3>1, SeqMonotonic
      <3>3. Marshal(fixed(x), body[k]) \in Seq(Bytes) /\ Len(Marshal(fixed(x), body[k])) = x
        BY <3>2, MarshalFixed
      <3>4. Size(fields[k]) = x BY <2>1, <3>1, SizeIs
      <3> QED BY <3>1, <3>3, <3>4
    <2> QED BY <2>2, <2>3 DEF Plain
  <1> QED BY <1>1 DEF SizesOk, Begins

\* They come back as they were if their strings fit.
LEMMA PlainBack ==
    ASSUME NEW layout, NEW body, NEW m \in Nat, FieldsOk(layout, body, m),
           NEW off, BodyAt(layout, body, m, off),
           NEW n \in 0..m, Plain(layout, body, n), Tight(layout, body, n),
           NEW fields, Begins(fields, layout, n), NEW k \in 1..n
    PROVE  UnmarshalFixed(fields, Offsets(fields), MarshalBody(layout, body))[k] = body[k]
  <1>1. n \in Nat /\ k \in 1..m /\ k \in 0..n /\ k - 1 \in 0..n OBVIOUS
  <1>2. SizesOk(fields, layout, body, n) BY <1>1, PlainFields
  <1>3. Offsets(fields)[k - 1] = off[k - 1] /\ Offsets(fields)[k] = off[k]
    <2>1. \A i \in 0..n : Offsets(fields)[i] = off[i] BY <1>2, OffsetsMatch
    <2> QED BY <1>1, <2>1
  <1>4. SubSeq(MarshalBody(layout, body), off[k - 1] + 1, off[k]) = Marshal(layout[k], body[k])
    BY <1>1, FieldCutOut
  <1> DEFINE t == Marshal(layout[k], body[k])
  <1>5. UnmarshalFixed(fields, Offsets(fields), MarshalBody(layout, body))[k]
          = IF fields[k].kind = "fixed" THEN TrimRight(t) ELSE t
    <2>1. k \in DOMAIN fields BY DEF Begins
    <2> HIDE DEF t
    <2>2. SubSeq(MarshalBody(layout, body), Offsets(fields)[k - 1] + 1, Offsets(fields)[k]) = t
      BY <1>3, <1>4, Zenon DEF t
    <2> QED BY <2>1, <2>2, Zenon DEF UnmarshalFixed
  <1>6. fields[k] = layout[k] BY DEF Begins
  <1>7. CASE layout[k] = octet /\ \E x \in Bytes : body[k] = <<x>>
    <2>1. t = body[k] BY <1>7, MarshalKinds
    <2>2. fields[k].kind # "fixed" BY <1>6, <1>7, SizeIs
    <2> HIDE DEF t
    <2> QED BY <1>5, <2>1, <2>2
  <1>8. CASE \E x \in Nat : layout[k] = fixed(x) /\ body[k] \in Seq(Bytes \ {0})
    <2>1. PICK x \in Nat : layout[k] = fixed(x) /\ body[k] \in Seq(Bytes \ {0}) BY <1>8
    <2>2. PICK v : v = body[k] OBVIOUS
    <2>3. v \in Seq(Bytes \ {0}) /\ v \in Seq(Bytes) BY <2>1, <2>2, SeqMonotonic
    <2>4. /\ t \in Seq(Bytes) /\ Len(t) = x
          /\ \A i \in 1..x : t[i] = IF i <= Len(v) THEN v[i] ELSE 0
      <3>1. /\ Marshal(fixed(x), v) \in Seq(Bytes) /\ Len(Marshal(fixed(x), v)) = x
            /\ \A i \in 1..x : Marshal(fixed(x), v)[i] = IF i <= Len(v) THEN v[i] ELSE 0
        BY <2>3, MarshalFixed
      <3>2. t = Marshal(fixed(x), v) BY <2>1, <2>2
      <3> HIDE DEF t
      <3> QED BY <3>1, <3>2, Zenon
    <2>5. Len(v) <= x BY <2>1, <2>2, SizeIs DEF Tight
    <2> HIDE DEF t
    <2>6. TrimRight(t) = v BY <2>3, <2>4, <2>5, TrimPadded
    <2>7. fields[k].kind = "fixed" BY <1>6, <2>1, SizeIs
    <2> QED BY <1>5, <2>2, <2>6, <2>7
  <1> QED BY <1>7, <1>8 DEF Plain

\* A bind request: the names are cut off by fields that are too short for them.
LEMMA BindSound ==
    ASSUME NEW i \in Names, NEW pw \in Names, NEW t \in Names, NEW seq \in 0..WordSize - 1,
           NEW p, p = BuildBind("bind_transceiver", i, pw, t, seq)
    PROVE  Sound(p)
  <1>1. PICK b : b = <<i, pw, t, <<3>>, <<0>>, <<0>>, <<>> >> OBVIOUS
  <1>2. p.command = "bind_transceiver" /\ p.status = StatusOK /\ p.seq = seq /\ p.body = b
    BY <1>1, PduParts DEF BuildBind
  <1>3. PICK l : l = BindRequest OBVIOUS
  <1>4. Layout("bind_transceiver") = l BY <1>3, LayoutIs DEF Binds
  <1>5. /\ DOMAIN b = 1..7 /\ Len(b) = 7
        /\ b[1] = i /\ b[2] = pw /\ b[3] = t /\ b[4] = <<3>> /\ b[5] = <<0>> /\ b[6] = <<0>>
        /\ b[7] = <<>>
    BY <1>1, BindBodyFields
  <1>6. /\ DOMAIN l = 1..7 /\ Len(l) = 7
        /\ l[1] = fixed(MaxSystemIDLength) /\ l[2] = fixed(MaxPasswordLength)
        /\ l[3] = fixed(MaxSystemTypeLength)
        /\ l[4] = octet /\ l[5] = octet /\ l[6] = octet /\ l[7] = fixed(RangeLength)
    BY <1>3, BindRequestFields
  <1>7. \A k \in 1..7 : k = 1 \/ k = 2 \/ k = 3 \/ k = 4 \/ k = 5 \/ k = 6 \/ k = 7 OBVIOUS
  <1>8. Plain(l, b, 7)
    <2>1. /\ MaxSystemIDLength \in Nat /\ MaxPasswordLength \in Nat /\ MaxSystemTypeLength \in Nat
          /\ RangeLength \in Nat
      BY SizesAssumption
    <2>2. /\ i \in Seq(Bytes \ {0}) /\ pw \in Seq(Bytes \ {0}) /\ t \in Seq(Bytes \ {0})
          /\ b[7] \in Seq(Bytes \ {0})
      <3>1. b[7] \in Names \cup {<<>>} BY <1>5
      <3> QED BY <3>1, NamesFit
    <2> HIDE DEF Bytes
    <2> QED BY <1>5, <1>6, <1>7, <2>1, <2>2, SmallBytes, Zenon DEF Plain
  <1>9. Begins(l, l, 7) BY <1>6 DEF Begins
  <1>10. FieldsOk(l, b, 7) /\ SizesOk(l, l, b, 7) BY <1>6, <1>8, <1>9, PlainFields DEF FieldsOk
  <1>11. PICK off : BodyAt(l, b, 7, off) BY <1>10, BodyLaidOut
  <1>12. PICK data : data = MarshalBody(l, b) OBVIOUS
  <1>13. /\ data \in Seq(Bytes) /\ BodyOf(p) = data
    BY <1>2, <1>4, <1>10, <1>12, BodyLaidOut DEF BodyOf
  <1>14. \A k \in 0..7 : Offsets(l)[k] = off[k]
    <2>1. 7 \in 0..7 /\ 7 \in Nat OBVIOUS
    <2> QED BY <1>10, <1>11, <2>1, OffsetsMatch
  <1>15. /\ off[1] = off[0] + Len(Marshal(l[1], b[1])) /\ off[2] = off[1] + Len(Marshal(l[2], b[2]))
         /\ off[3] = off[2] + Len(Marshal(l[3], b[3])) /\ off[4] = off[3] + Len(Marshal(l[4], b[4]))
         /\ off[5] = off[4] + Len(Marshal(l[5], b[5])) /\ off[6] = off[5] + Len(Marshal(l[6], b[6]))
         /\ off[7] = off[6] + Len(Marshal(l[7], b[7]))
         /\ off[0] = 0 /\ Len(data) = off[7]
    <2>1. /\ 1 \in 1..7 /\ 2 \in 1..7 /\ 3 \in 1..7 /\ 4 \in 1..7 /\ 5 \in 1..7 /\ 6 \in 1..7 /\ 7 \in 1..7
          /\ 1-1 = 0 /\ 2-1 = 1 /\ 3-1 = 2 /\ 4-1 = 3 /\ 5-1 = 4 /\ 6-1 = 5 /\ 7-1 = 6
      OBVIOUS
    <2> QED BY <1>11, <1>12, <2>1, Zenon DEF BodyAt
  <1>16. Len(data) = MaxSystemIDLength + MaxPasswordLength + MaxSystemTypeLength + 3 + RangeLength
    <2>1. /\ Len(Marshal(l[1], b[1])) = MaxSystemIDLength /\ Len(Marshal(l[2], b[2])) = MaxPasswordLength
          /\ Len(Marshal(l[3], b[3])) = MaxSystemTypeLength /\ Len(Marshal(l[4], b[4])) = 1
          /\ Len(Marshal(l[5], b[5])) = 1 /\ Len(Marshal(l[6], b[6])) = 1
          /\ Len(Marshal(l[7], b[7])) = RangeLength
      <3>1. \A k \in 1..7 : Len(Marshal(l[k], b[k])) = Size(l[k]) BY <1>10 DEF SizesOk
      <3>2. /\ 1 \in 1..7 /\ 2 \in 1..7 /\ 3 \in 1..7 /\ 4 \in 1..7 /\ 5 \in 1..7 /\ 6 \in 1..7 /\ 7 \in 1..7
        OBVIOUS
      <3>3. /\ Size(l[1]) = MaxSystemIDLength /\ Size(l[2]) = MaxPasswordLength
            /\ Size(l[3]) = MaxSystemTypeLength /\ Size(l[4]) = 1 /\ Size(l[5]) = 1 /\ Size(l[6]) = 1
            /\ Size(l[7]) = RangeLength
        BY <1>6, SizeIs, Zenon
      <3> QED BY <3>1, <3>2, <3>3, Zenon
    <2>2. /\ MaxSystemIDLength \in Nat /\ MaxPasswordLength \in Nat /\ MaxSystemTypeLength \in Nat
          /\ RangeLength \in Nat
      BY SizesAssumption
    <2> QED BY <1>15, <2>1, <2>2
  <1>17. Len(data) >= 3 /\ HeaderLength + Len(data) < WordSize
    <2>1. /\ MaxSystemIDLength \in Nat /\ MaxPasswordLength \in Nat /\ MaxSystemTypeLength \in Nat
          /\ RangeLength \in Nat
          /\ HeaderLength + MaxSystemIDLength + MaxPasswordLength + MaxSystemTypeLength + 3 + RangeLength
                < WordSize
      BY SizesAssumption
    <2> QED BY <1>16, <2>1, ByteFacts DEF HeaderLength
  <1>18. data # <<>> BY <1>17, EmptySeq
  <1>19. Unmarshal("bind_transceiver", data) = Ok(UnmarshalFixed(l, Offsets(l), data))
    <2>1. "bind_transceiver" \in Binds BY DEF Binds
    <2>2. Unmarshal("bind_transceiver", data) = UnmarshalBind(data)
      <3>1. Layout("bind_transceiver") # <<cstring>>
        <4>1. Len(<<cstring>>) = 1 OBVIOUS
        <4> QED BY <1>4, <1>6, <4>1
      <3> QED BY <1>18, <2>1, <3>1 DEF Unmarshal
    <2>3. BindOffsets[Len(l)] = Len(data)
      <3>1. 7 \in 0..7 OBVIOUS
      <3> QED BY <1>3, <1>6, <1>14, <1>15, <3>1 DEF BindOffsets
    <2>4. ~(Len(data) < Len(data)) BY <1>17, <1>13, LenProperties
    <2> QED BY <1>3, <2>2, <2>3, <2>4, Zenon DEF UnmarshalBind, BindOffsets
  <1>20. ASSUME Fits(p) PROVE UnmarshalFixed(l, Offsets(l), data) = b
    <2>1. Tight(l, b, 7)
      <3>1. \A k \in DOMAIN p.body : Layout(p.command)[k].kind = "fixed" =>
              Len(p.body[k]) <= Layout(p.command)[k].n
        BY <1>20 DEF Fits
      <3> QED BY <1>2, <1>4, <1>5, <3>1 DEF Tight
    <2>2. \A k \in 1..7 : UnmarshalFixed(l, Offsets(l), data)[k] = b[k]
      <3>1. 7 \in 0..7 /\ 7 \in Nat OBVIOUS
      <3> QED BY <1>8, <1>9, <1>10, <1>11, <1>12, <2>1, <3>1, PlainBack
    <2>3. UnmarshalFixed(l, Offsets(l), data) = [k \in 1..7 |-> UnmarshalFixed(l, Offsets(l), data)[k]]
      BY <1>6 DEF UnmarshalFixed
    <2>4. b = [k \in 1..7 |-> b[k]] BY <1>1, <1>5
    <2> QED BY <2>2, <2>3, <2>4, Zenon
  <1>21. StatusOK \in 0..WordSize - 1 BY ByteFacts DEF StatusOK
  <1>22. "bind_transceiver" \in SentCommands /\ CommandID("bind_transceiver") = "bind_transceiver"
    BY DEF SentCommands, CommandID, Binds, BindResponses
  <1> QED BY <1>2, <1>13, <1>17, <1>19, <1>20, <1>21, <1>22, OkIs DEF Sound

-----------------------------------------------------------------------------
(* Optional parameters *)

\* The length that the parameter after position k claims.
LengthAt(data, k) == FromUint(SubSeq(data, k + 3, k + 4))

\* The parameters after position k, given those that follow.
ParamsFrom(data, k, f) ==
    IF Len(data) < k + 4 THEN <<>>
    ELSE IF Len(data) < k + 4 + LengthAt(data, k) THEN <<>>
    ELSE <<[tag |-> FromUint(SubSeq(data, k + 1, k + 2)), length |-> LengthAt(data, k),
            value |-> SubSeq(data, k + 5, k + 4 + LengthAt(data, k))]>> \o f[k + 4 + LengthAt(data, k)]

\* A length is a number.
LEMMA LengthIs ==
    ASSUME NEW data \in Seq(Nat), NEW k \in Nat, k + 4 <= Len(data)
    PROVE  LengthAt(data, k) \in Nat
  <1>1. PICK a : a = k + 2 OBVIOUS
  <1>2. a \in Nat /\ k + 4 \in Nat /\ a <= k + 4 /\ a + 1 = k + 3 BY <1>1
  <1>3. SubSeq(data, a + 1, k + 4) \in Seq(Nat) BY <1>2, CutOut
  <1>4. SubSeq(data, k + 3, k + 4) \in Seq(Nat) BY <1>2, <1>3
  <1> QED BY <1>4, FromUintIs DEF LengthAt

\* Only the parameters further on matter.
LEMMA ParamsLater ==
    ASSUME NEW data \in Seq(Nat), NEW k \in 0..Len(data), NEW f, NEW g,
           \A i \in k + 1..Len(data) : f[i] = g[i]
    PROVE  ParamsFrom(data, k, f) = ParamsFrom(data, k, g)
  <1>1. CASE Len(data) < k + 4 BY <1>1 DEF ParamsFrom
  <1>2. CASE ~(Len(data) < k + 4)
    <2>1. Len(data) \in Nat /\ k \in Nat /\ k + 4 <= Len(data) BY <1>2, LenProperties
    <2>2. PICK n : n = LengthAt(data, k) OBVIOUS
    <2>3. n \in Nat BY <2>1, <2>2, LengthIs
    <2>4. CASE Len(data) < k + 4 + n BY <1>2, <2>2, <2>4 DEF ParamsFrom
    <2>5. CASE ~(Len(data) < k + 4 + n)
      <3>1. k + 4 + n \in k + 1..Len(data) BY <2>1, <2>3, <2>5
      <3>2. f[k + 4 + n] = g[k + 4 + n] BY <3>1
      <3> QED BY <2>2, <3>2, Zenon DEF ParamsFrom
    <2> QED BY <2>4, <2>5
  <1> QED BY <1>1, <1>2

\* f has the parameters after each position from n on.
Parses(f, data, n) == \A k \in n..Len(data) : f[k] = ParamsFrom(data, k, f)

\* The recursive function in UnmarshalParams is defined.
LEMMA ParamsDefined ==
    ASSUME NEW data \in Seq(Nat)
    PROVE  \E f : Parses(f, data, 0) /\ UnmarshalParams(data) = f[0]
  <1>0. PICK L : L = Len(data) OBVIOUS
  <1>1. L \in Nat BY <1>0, LenProperties
  <1> DEFINE N == {n \in 0..L : \E f : Parses(f, data, n)}
  <1>2. L \in N
    <2> DEFINE f == [k \in L..L |-> ParamsFrom(data, k, <<>>)]
    <2>1. ASSUME NEW k \in L..L PROVE f[k] = ParamsFrom(data, k, f)
      <3>1. k = L /\ L < k + 4 BY <1>1
      <3>2. ParamsFrom(data, k, f) = <<>> /\ ParamsFrom(data, k, <<>>) = <<>>
        BY <1>0, <3>1, Zenon DEF ParamsFrom
      <3> QED BY <3>2
    <2>2. Parses(f, data, L) BY <1>0, <2>1 DEF Parses
    <2>3. L \in 0..L BY <1>1
    <2> QED BY <2>2, <2>3
  <1>3. ASSUME NEW n \in 1..L, n \in N PROVE n - 1 \in N
    <2>1. PICK f : Parses(f, data, n) BY <1>3
    <2> DEFINE g == [k \in n - 1..L |-> IF k = n - 1 THEN ParamsFrom(data, n - 1, f) ELSE f[k]]
    <2>2. g[n - 1] = ParamsFrom(data, n - 1, f) /\ \A k \in n..L : g[k] = f[k]
      <3>1. n - 1 \in n - 1..L /\ \A k \in n..L : k \in n - 1..L /\ k # n - 1 BY <1>1
      <3> QED BY <3>1, Zenon
    <2> HIDE DEF g, N
    <2>3. ASSUME NEW k \in n - 1..L PROVE g[k] = ParamsFrom(data, k, g)
      <3>1. k \in 0..Len(data) /\ \A i \in k + 1..Len(data) : i \in n..L BY <1>0, <1>1
      <3>2. ParamsFrom(data, k, f) = ParamsFrom(data, k, g)
        <4>1. \A i \in k + 1..Len(data) : f[i] = g[i] BY <2>2, <3>1
        <4> QED BY <3>1, <4>1, ParamsLater
      <3>3. CASE k = n - 1 BY <2>2, <3>2, <3>3
      <3>4. CASE k # n - 1
        <4>1. k \in n..L BY <1>1, <3>4
        <4>2. g[k] = f[k] BY <2>2, <4>1
        <4>3. f[k] = ParamsFrom(data, k, f) BY <1>0, <2>1, <4>1 DEF Parses
        <4> QED BY <3>2, <4>2, <4>3
      <3> QED BY <3>3, <3>4
    <2>4. Parses(g, data, n - 1) BY <1>0, <2>3 DEF Parses
    <2>5. n - 1 \in 0..L BY <1>1
    <2> QED BY <2>4, <2>5 DEF N
  <1>4. 0 \in N
    <2> HIDE DEF N
    <2>1. \A n \in 0..L : n \in N BY <1>1, <1>2, <1>3, DownFrom
    <2> QED BY <1>1, <2>1
  <1>5. PICK f : Parses(f, data, 0) BY <1>4
  <1> DEFINE h == [k \in 0..Len(data) |-> f[k]]
             c == CHOOSE r : r = [k \in 0..Len(data) |-> ParamsFrom(data, k, r)]
  <1>6. h = [k \in 0..Len(data) |-> ParamsFrom(data, k, h)]
    <2>1. ASSUME NEW k \in 0..Len(data) PROVE f[k] = ParamsFrom(data, k, h)
      <3>1. \A i \in k + 1..Len(data) : i \in 0..Len(data) BY <1>0, <1>1
      <3>2. \A i \in k + 1..Len(data) : f[i] = h[i] BY <3>1
      <3> HIDE DEF h
      <3>3. ParamsFrom(data, k, f) = ParamsFrom(data, k, h) BY <3>2, ParamsLater
      <3> QED BY <1>5, <3>3 DEF Parses
    <2> QED BY <2>1, Zenon
  <1> HIDE DEF h
  <1>7. c = [k \in 0..Len(data) |-> ParamsFrom(data, k, c)] BY <1>6, Zenon
  <1>8. UnmarshalParams(data) = c[0] BY Zenon DEF UnmarshalParams, ParamsFrom, LengthAt
  <1> HIDE DEF c
  <1>9. Parses(c, data, 0)
    <2>1. \A k \in 0..Len(data) : c[k] = ParamsFrom(data, k, c) BY <1>7, Zenon
    <2> QED BY <2>1, Zenon DEF Parses
  <1> QED BY <1>8, <1>9

\* Nothing is unmarshalled to no parameters.
LEMMA UnmarshalNone ==
    ASSUME NEW data \in Seq(Nat), Len(data) = 0
    PROVE  UnmarshalParams(data) = <<>>
  <1>1. PICK f : Parses(f, data, 0) /\ UnmarshalParams(data) = f[0] BY ParamsDefined
  <1>2. 0 \in 0..Len(data) /\ Len(data) < 0 + 4 OBVIOUS
  <1>3. f[0] = ParamsFrom(data, 0, f) BY <1>1, <1>2 DEF Parses
  <1> QED BY <1>1, <1>2, <1>3 DEF ParamsFrom

\* The bytes of a parameter.
LEMMA ParamBytes ==
    ASSUME NEW tag \in Nat, NEW n \in Nat, NEW v \in Seq(Bytes),
           NEW q, q = [tag |-> tag, length |-> n, value |-> v]
    PROVE  /\ MarshalParam(q) \in Seq(Bytes) /\ Len(MarshalParam(q)) = 4 + Len(v)
           /\ \A j \in 1..2 : MarshalParam(q)[0 + j] = Uint16(tag)[j]
           /\ \A j \in 1..2 : MarshalParam(q)[2 + j] = Uint16(n)[j]
           /\ \A j \in 1..Len(v) : MarshalParam(q)[4 + j] = v[j]
  <1>1. q.tag = tag /\ q.length = n /\ q.value = v OBVIOUS
  <1>2. PICK a : a = Uint16(tag) OBVIOUS
  <1>3. PICK b : b = Uint16(n) OBVIOUS
  <1>4. a \in Seq(Bytes) /\ Len(a) = 2 /\ b \in Seq(Bytes) /\ Len(b) = 2 BY <1>2, <1>3, Uint16Is
  <1>5. PICK d : d = a \o b OBVIOUS
  <1>6. /\ d \in Seq(Bytes) /\ Len(d) = Len(a) + Len(b) /\ \A j \in 1..Len(a) : d[j] = a[j]
        /\ \A j \in 1..Len(b) : d[Len(a) + j] = b[j]
    <2>0. a \in Seq(Bytes) /\ b \in Seq(Bytes) BY <1>4
    <2>1. /\ a \o b \in Seq(Bytes) /\ Len(a \o b) = Len(a) + Len(b)
          /\ \A j \in 1..Len(a) : (a \o b)[j] = a[j]
          /\ \A j \in 1..Len(b) : (a \o b)[Len(a) + j] = b[j]
      BY <2>0, Joined
    <2> QED BY <1>5, <2>1, Zenon
  <1>7. PICK e : e = d \o v OBVIOUS
  <1>8. /\ e \in Seq(Bytes) /\ Len(e) = Len(d) + Len(v) /\ \A j \in 1..Len(d) : e[j] = d[j]
        /\ \A j \in 1..Len(v) : e[Len(d) + j] = v[j]
    <2>1. d \in Seq(Bytes) BY <1>6
    <2>2. /\ d \o v \in Seq(Bytes) /\ Len(d \o v) = Len(d) + Len(v)
          /\ \A j \in 1..Len(d) : (d \o v)[j] = d[j]
          /\ \A j \in 1..Len(v) : (d \o v)[Len(d) + j] = v[j]
      BY <2>1, Joined
    <2> QED BY <1>7, <2>2, Zenon
  <1>9. MarshalParam(q) = e BY <1>1, <1>2, <1>3, <1>5, <1>7 DEF MarshalParam
  <1>10. Len(v) \in Nat /\ Len(d) = 4 BY <1>4, <1>6, LenProperties
  <1>11. /\ \A j \in 1..2 : j \in 1..Len(d) /\ 0 + j = j /\ j \in 1..Len(a) /\ 2 + j \in 1..Len(d)
                             /\ j \in 1..Len(b)
    BY <1>4, <1>10
  <1>12. /\ \A j \in 1..2 : e[0 + j] = a[j] /\ e[2 + j] = b[j] BY <1>4, <1>6, <1>8, <1>11
  <1>13. Len(e) = 4 + Len(v) /\ \A j \in 1..Len(v) : e[4 + j] = v[j] BY <1>8, <1>10
  <1> QED BY <1>2, <1>3, <1>8, <1>9, <1>12, <1>13

\* A parameter that is as long as it says is read back.
LEMMA UnmarshalOne ==
    ASSUME NEW tag \in Nat, tag < ByteSize * ByteSize,
           NEW v \in Seq(Bytes), Len(v) < ByteSize * ByteSize,
           NEW q, q = [tag |-> tag, length |-> Len(v), value |-> v]
    PROVE  UnmarshalParams(MarshalParam(q)) = <<q>>
  <1>1. PICK s : s = MarshalParam(q) OBVIOUS
  <1>2. PICK n : n = Len(v) OBVIOUS
  <1>3. n \in Nat /\ n < ByteSize * ByteSize BY <1>2, LenProperties
  <1>4. /\ s \in Seq(Bytes) /\ Len(s) = 4 + n
        /\ \A j \in 1..2 : s[0 + j] = Uint16(tag)[j]
        /\ \A j \in 1..2 : s[2 + j] = Uint16(n)[j]
        /\ \A j \in 1..n : s[4 + j] = v[j]
    <2>1. q = [tag |-> tag, length |-> n, value |-> v] BY <1>2
    <2>2. /\ MarshalParam(q) \in Seq(Bytes) /\ Len(MarshalParam(q)) = 4 + Len(v)
          /\ \A j \in 1..2 : MarshalParam(q)[0 + j] = Uint16(tag)[j]
          /\ \A j \in 1..2 : MarshalParam(q)[2 + j] = Uint16(n)[j]
          /\ \A j \in 1..Len(v) : MarshalParam(q)[4 + j] = v[j]
      <3>1. tag \in Nat /\ n \in Nat /\ v \in Seq(Bytes) BY <1>3
      <3> QED BY ONLY <2>1, <3>1, ParamBytes
    <2> QED BY <1>1, <1>2, <2>2, Zenon
  <1>5. s \in Seq(Nat)
    <2>1. Bytes \subseteq Nat BY ByteFacts
    <2> QED BY <1>4, <2>1, SeqMonotonic
  <1>6. FromUint(SubSeq(s, 1, 2)) = tag
    <2>1. 0 \in Nat /\ 0 + 2 <= Len(s) /\ 0 + 1 = 1 /\ 0 + 2 = 2 BY <1>3, <1>4
    <2>2. FromUint(SubSeq(s, 0 + 1, 0 + 2)) = tag BY <1>4, <1>5, <2>1, ReadUint16, Zenon
    <2> QED BY <2>1, <2>2
  <1>7. FromUint(SubSeq(s, 3, 4)) = n
    <2>1. 2 \in Nat /\ 2 + 2 <= Len(s) /\ 2 + 1 = 3 /\ 2 + 2 = 4 BY <1>3, <1>4
    <2>2. FromUint(SubSeq(s, 2 + 1, 2 + 2)) = n BY <1>3, <1>4, <1>5, <2>1, ReadUint16, Zenon
    <2> QED BY <2>1, <2>2
  <1>8. SubSeq(s, 5, 4 + n) = v
    <2>1. 4 \in Nat /\ 4 + Len(v) <= Len(s) /\ 4 + 1 = 5 BY <1>2, <1>3, <1>4
    <2>2. \A j \in 1..Len(v) : s[4 + j] = v[j] BY <1>2, <1>4
    <2>3. SubSeq(s, 4 + 1, 4 + Len(v)) = v BY <1>4, <2>1, <2>2, CutOutIs, Zenon
    <2> QED BY <1>2, <2>1, <2>3
  <1>9. PICK f : Parses(f, s, 0) /\ UnmarshalParams(s) = f[0] BY <1>5, ParamsDefined
  <1>10. f[4 + n] = <<>>
    <2>1. 4 + n \in 0..Len(s) /\ Len(s) < (4 + n) + 4 BY <1>3, <1>4
    <2>2. f[4 + n] = ParamsFrom(s, 4 + n, f) BY <1>9, <2>1 DEF Parses
    <2> QED BY <2>1, <2>2, Zenon DEF ParamsFrom
  <1>11. f[0] = <<q>> \o f[4 + n]
    <2>1. 0 \in 0..Len(s) /\ ~(Len(s) < 4) /\ ~(Len(s) < 4 + n) BY <1>3, <1>4
    <2>2. f[0] = ParamsFrom(s, 0, f) BY <1>9, <2>1 DEF Parses
    <2>3. 0 + 1 = 1 /\ 0 + 2 = 2 /\ 0 + 3 = 3 /\ 0 + 4 = 4 /\ 0 + 5 = 5 OBVIOUS
    <2>4. LengthAt(s, 0) = n BY <1>7, <2>3, Zenon DEF LengthAt
    <2>5. q = [tag |-> FromUint(SubSeq(s, 1, 2)), length |-> n, value |-> SubSeq(s, 5, 4 + n)]
      BY <1>2, <1>6, <1>8, Zenon
    <2> QED BY <2>1, <2>2, <2>3, <2>4, <2>5, Zenon DEF ParamsFrom
  <1>12. <<q>> \o <<>> = <<q>>
    <2>1. <<q>> \in Seq({q}) OBVIOUS
    <2> QED BY <2>1, ConcatEmptySeq
  <1> QED BY <1>1, <1>9, <1>10, <1>11, <1>12

\* One parameter is marshalled to its bytes.
LEMMA OneParam ==
    ASSUME NEW q, MarshalParam(q) \in Seq(Bytes)
    PROVE  Marshal(optional, <<q>>) = MarshalParam(q)
  <1>1. PICK v : v = <<q>> OBVIOUS
  <1> DEFINE m == [i \in DOMAIN v |-> MarshalParam(v[i])]
  <1>2. DOMAIN v = 1..1 /\ v[1] = q BY <1>1
  <1>3. m \in [1..1 -> Seq(Bytes)] /\ m[1] = MarshalParam(q)
    <2>1. \A i \in 1..1 : i = 1 OBVIOUS
    <2> QED BY <1>2, <2>1
  <1>4. Marshal(optional, v) = FlattenSeq(m) BY MarshalKinds
  <1> HIDE DEF m
  <1>5. m \in Seq(Seq(Bytes)) /\ Len(m) = 1 BY <1>3, FunIsSeq
  <1>6. PICK g \in [1..Len(m) -> Seq(Bytes)] : Joins(g, m, Len(m)) /\ FlattenSeq(m) = g[Len(m)]
    <2>1. m \in Seq(Seq(Bytes)) /\ Len(m) # 0 BY <1>5
    <2> QED BY <2>1, FlattenIsJoin
  <1>7. FlattenSeq(m) = m[1]
    <2>1. g[1] = m[1] BY <1>6, Zenon DEF Joins
    <2> QED BY <1>5, <1>6, <2>1, Zenon
  <1> QED BY <1>1, <1>3, <1>4, <1>7

-----------------------------------------------------------------------------
(* submit_sm and deliver_sm *)

\* The bytes of the fields before the short message.
FixedLength == MaxServiceTypeLength + 2 * MaxAddressLength + 2 * TimeLength + 11

\* A body of submit_sm or deliver_sm of well-formed parts, and the bytes of its parameters.
SmParts(b, esm, source, dest, registered, length, data, params, tail) ==
    /\ b = SmBody(esm, source, dest, registered, length, data, params)
    /\ esm \in Bytes /\ registered \in Bytes /\ length \in Bytes /\ length <= Len(data)
    /\ source \in Names \cup {<<>>} /\ dest \in Names \cup {<<>>}
    /\ data \in Seq(Bytes) /\ tail = Marshal(optional, params) /\ tail \in Seq(Bytes)

\* The encoded body is the fixed fields, the short message and the parameters.
SmLaidOut(b, off, length, data, tail, d) ==
    /\ Plain(SubmitSM, b, 16) /\ FieldsOk(SubmitSM, b, 18) /\ BodyAt(SubmitSM, b, 18, off)
    /\ d = MarshalBody(SubmitSM, b) /\ d \in Seq(Bytes)
    /\ off[16] = FixedLength /\ FixedLength \in Nat
    /\ Len(d) = FixedLength + 1 + Len(data) + Len(tail)
    /\ d[FixedLength + 1] = length
    /\ SubSeq(d, FixedLength + 2, FixedLength + 1 + Len(data)) = data
    /\ SubSeq(d, FixedLength + 2 + Len(data), Len(d)) = tail

\* The fields ahead of the message have known sizes.
LEMMA SmPlain ==
    ASSUME NEW b, NEW esm, NEW source, NEW dest, NEW registered, NEW length, NEW data, NEW params, NEW tail,
           SmParts(b, esm, source, dest, registered, length, data, params, tail)
    PROVE  Plain(SubmitSM, b, 16)
  <1>1. PICK l : l = SubmitSM OBVIOUS
  <1>2. /\ l[1] = fixed(MaxServiceTypeLength)
        /\ l[4] = fixed(MaxAddressLength) /\ l[7] = fixed(MaxAddressLength)
        /\ l[11] = fixed(TimeLength) /\ l[12] = fixed(TimeLength)
        /\ \A k \in {2, 3, 5, 6, 8, 9, 10, 13, 14, 15, 16} : l[k] = octet
    BY <1>1, SubmitSMFields
  <1>3. /\ b[1] = <<>> /\ b[4] = source /\ b[7] = dest /\ b[11] = <<>> /\ b[12] = <<>>
        /\ \A k \in {2, 3, 5, 6} : b[k] = <<1>>
        /\ b[8] = <<esm>> /\ b[13] = <<registered>>
        /\ \A k \in {9, 10, 14, 15, 16} : b[k] = <<0>>
    <2>1. b = SmBody(esm, source, dest, registered, length, data, params) BY DEF SmParts
    <2> QED BY <2>1 DEF SmBody
  <1>4. MaxServiceTypeLength \in Nat /\ MaxAddressLength \in Nat /\ TimeLength \in Nat BY SizesAssumption
  <1>5. \A n \in Names \cup {<<>>} : n \in Seq(Bytes \ {0}) BY NamesFit
  <1>6. source \in Names \cup {<<>>} /\ dest \in Names \cup {<<>>} /\ esm \in Bytes /\ registered \in Bytes
    BY DEF SmParts
  <1>7. b[1] \in Names \cup {<<>>} /\ b[11] \in Names \cup {<<>>} /\ b[12] \in Names \cup {<<>>}
    BY <1>3
  <1>8. \A k \in {1, 4, 7, 11, 12} : \E x \in Nat : l[k] = fixed(x) /\ b[k] \in Seq(Bytes \ {0})
    <2> HIDE DEF Bytes
    <2> QED BY <1>2, <1>3, <1>4, <1>5, <1>6, <1>7
  <1>9. \A k \in {2, 3, 5, 6, 8, 9, 10, 13, 14, 15, 16} : l[k] = octet /\ \E x \in Bytes : b[k] = <<x>>
    <2> HIDE DEF Bytes
    <2>1. 0 \in Bytes /\ 1 \in Bytes BY SmallBytes
    <2>2. \A k \in {2, 3, 5, 6} : \E x \in Bytes : b[k] = <<x>> BY <1>3, <2>1
    <2>3. \A k \in {9, 10, 14, 15, 16} : \E x \in Bytes : b[k] = <<x>> BY <1>3, <2>1
    <2>4. (\E x \in Bytes : b[8] = <<x>>) /\ (\E x \in Bytes : b[13] = <<x>>) BY <1>3, <1>6
    <2> QED BY <1>2, <2>2, <2>3, <2>4
  <1>10. \A k \in 1..16 : k \in {1, 4, 7, 11, 12} \/ k \in {2, 3, 5, 6, 8, 9, 10, 13, 14, 15, 16}
    OBVIOUS
  <1> QED BY <1>1, <1>8, <1>9, <1>10, Zenon DEF Plain

\* The sum of the sizes of the fixed fields.
LEMMA FixedLengthIs ==
    /\ Begins(FixedFields, SubmitSM, 16)
    /\ Offsets(FixedFields)[16] = FixedLength /\ FixedLength \in Nat
    /\ minLength = FixedLength + 2
  <1>1. PICK l : l = FixedFields OBVIOUS
  <1>2. Begins(l, SubmitSM, 16) BY <1>1, FixedFieldsAre DEF Begins
  <1>3. MaxServiceTypeLength \in Nat /\ MaxAddressLength \in Nat /\ TimeLength \in Nat BY SizesAssumption
  <1>4. /\ Size(l[1]) = MaxServiceTypeLength /\ Size(l[2]) = 1 /\ Size(l[3]) = 1
        /\ Size(l[4]) = MaxAddressLength /\ Size(l[5]) = 1 /\ Size(l[6]) = 1
        /\ Size(l[7]) = MaxAddressLength /\ Size(l[8]) = 1 /\ Size(l[9]) = 1 /\ Size(l[10]) = 1
        /\ Size(l[11]) = TimeLength /\ Size(l[12]) = TimeLength
        /\ Size(l[13]) = 1 /\ Size(l[14]) = 1 /\ Size(l[15]) = 1 /\ Size(l[16]) = 1
    <2>1. /\ l[1] = fixed(MaxServiceTypeLength)
          /\ l[4] = fixed(MaxAddressLength) /\ l[7] = fixed(MaxAddressLength)
          /\ l[11] = fixed(TimeLength) /\ l[12] = fixed(TimeLength)
          /\ \A k \in {2, 3, 5, 6, 8, 9, 10, 13, 14, 15, 16} : l[k] = octet
      BY <1>2, SubmitSMFields DEF Begins
    <2> QED BY <2>1, SizeIs
  <1>5. \A k \in 1..16 : Size(l[k]) \in Nat
    <2>1. \A k \in 1..16 : \/ k = 1 \/ k = 2 \/ k = 3 \/ k = 4 \/ k = 5 \/ k = 6 \/ k = 7 \/ k = 8
                           \/ k = 9 \/ k = 10 \/ k = 11 \/ k = 12 \/ k = 13 \/ k = 14 \/ k = 15 \/ k = 16
      OBVIOUS
    <2> QED BY <1>3, <1>4, <2>1
  <1>6. PICK o : o = Offsets(l) OBVIOUS
  <1>7. o[0] = 0 /\ \A k \in 1..16 : o[k] = o[k - 1] + Size(l[k])
    <2>1. 16 \in Nat /\ Len(l) = 16 BY <1>2 DEF Begins
    <2> QED BY <1>5, <1>6, <2>1, OffsetsAre
  <1>8. /\ o[1] = o[0] + Size(l[1]) /\ o[2] = o[1] + Size(l[2]) /\ o[3] = o[2] + Size(l[3])
        /\ o[4] = o[3] + Size(l[4]) /\ o[5] = o[4] + Size(l[5]) /\ o[6] = o[5] + Size(l[6])
        /\ o[7] = o[6] + Size(l[7]) /\ o[8] = o[7] + Size(l[8])
    <2>1. /\ 1 \in 1..16 /\ 2 \in 1..16 /\ 3 \in 1..16 /\ 4 \in 1..16
          /\ 5 \in 1..16 /\ 6 \in 1..16 /\ 7 \in 1..16 /\ 8 \in 1..16
          /\ 1-1 = 0 /\ 2-1 = 1 /\ 3-1 = 2 /\ 4-1 = 3 /\ 5-1 = 4 /\ 6-1 = 5 /\ 7-1 = 6 /\ 8-1 = 7
      OBVIOUS
    <2> QED BY <1>7, <2>1, Zenon
  <1>9. /\ o[9] = o[8] + Size(l[9]) /\ o[10] = o[9] + Size(l[10]) /\ o[11] = o[10] + Size(l[11])
        /\ o[12] = o[11] + Size(l[12]) /\ o[13] = o[12] + Size(l[13]) /\ o[14] = o[13] + Size(l[14])
        /\ o[15] = o[14] + Size(l[15]) /\ o[16] = o[15] + Size(l[16])
    <2>1. /\ 9 \in 1..16 /\ 10 \in 1..16 /\ 11 \in 1..16 /\ 12 \in 1..16
          /\ 13 \in 1..16 /\ 14 \in 1..16 /\ 15 \in 1..16 /\ 16 \in 1..16
          /\ 9-1 = 8 /\ 10-1 = 9 /\ 11-1 = 10 /\ 12-1 = 11 /\ 13-1 = 12 /\ 14-1 = 13 /\ 15-1 = 14
          /\ 16-1 = 15
      OBVIOUS
    <2> QED BY <1>7, <2>1, Zenon
  <1>10. o[8] = MaxServiceTypeLength + 2 * MaxAddressLength + 5 BY <1>3, <1>4, <1>7, <1>8
  <1>11. o[16] = FixedLength BY <1>3, <1>4, <1>9, <1>10 DEF FixedLength
  <1>12. FixedLength \in Nat /\ minLength = FixedLength + 2 BY <1>3 DEF FixedLength, minLength
  <1> QED BY <1>1, <1>2, <1>6, <1>11, <1>12

\* The short message is its length octet and its content.
LEMMA ShortMessageBytes ==
    ASSUME NEW length \in Bytes, NEW data \in Seq(Bytes), NEW v, v = [length |-> length, data |-> data]
    PROVE  /\ Marshal(shortMessage, v) \in Seq(Bytes) /\ Len(Marshal(shortMessage, v)) = 1 + Len(data)
           /\ Marshal(shortMessage, v)[1] = length
           /\ \A j \in 1..Len(data) : Marshal(shortMessage, v)[1 + j] = data[j]
  <1>1. Marshal(shortMessage, v) = <<v.length>> \o v.data BY MarshalKinds
  <1>2. v.length = length /\ v.data = data OBVIOUS
  <1>3. PICK a : a = <<length>> OBVIOUS
  <1>4. a \in Seq(Bytes) /\ Len(a) = 1 /\ a[1] = length BY <1>3, OneByte
  <1>5. a \in Seq(Bytes) BY <1>4
  <1>6. /\ a \o data \in Seq(Bytes) /\ Len(a \o data) = Len(a) + Len(data)
        /\ \A j \in 1..Len(a) : (a \o data)[j] = a[j]
        /\ \A j \in 1..Len(data) : (a \o data)[Len(a) + j] = data[j]
    BY <1>5, Joined
  <1>7. (a \o data)[1] = length BY <1>4, <1>6
  <1> QED BY <1>1, <1>2, <1>3, <1>4, <1>6, <1>7

\* Where the fields of a submit_sm or deliver_sm are in its body.
LEMMA SmLayout ==
    ASSUME NEW b, NEW esm, NEW source, NEW dest, NEW registered, NEW length, NEW data, NEW params, NEW tail,
           SmParts(b, esm, source, dest, registered, length, data, params, tail)
    PROVE  \E off : SmLaidOut(b, off, length, data, tail, MarshalBody(SubmitSM, b))
  <1>1. PICK l : l = SubmitSM OBVIOUS
  <1>2. Plain(l, b, 16) BY <1>1, SmPlain
  <1>3. PICK m : m = Marshal(l[17], b[17]) OBVIOUS
  <1>p. /\ b = SmBody(esm, source, dest, registered, length, data, params)
        /\ length \in Bytes /\ data \in Seq(Bytes) /\ tail = Marshal(optional, params) /\ tail \in Seq(Bytes)
    BY DEF SmParts
  <1>4. /\ m \in Seq(Bytes) /\ Len(m) = 1 + Len(data) /\ m[1] = length
        /\ \A j \in 1..Len(data) : m[1 + j] = data[j]
    <2>1. l[17] = shortMessage BY <1>1, SubmitSMFields
    <2>2. b[17] = [length |-> length, data |-> data] BY ONLY <1>p DEF SmBody
    <2>3. PICK v : v = b[17] OBVIOUS
    <2>4. /\ Marshal(shortMessage, v) \in Seq(Bytes) /\ Len(Marshal(shortMessage, v)) = 1 + Len(data)
          /\ Marshal(shortMessage, v)[1] = length
          /\ \A j \in 1..Len(data) : Marshal(shortMessage, v)[1 + j] = data[j]
      BY <1>p, <2>2, <2>3, ShortMessageBytes
    <2>5. m = Marshal(shortMessage, v) BY <1>3, <2>1, <2>3
    <2> QED BY <2>4, <2>5, Zenon
  <1>5. tail = Marshal(l[18], b[18])
    <2>1. l[18] = optional BY <1>1, SubmitSMFields
    <2>2. b[18] = params BY <1>p DEF SmBody
    <2> QED BY <1>p, <2>1, <2>2
  <1>6. Begins(FixedFields, l, 16) BY <1>1, FixedLengthIs
  <1>7. /\ \A k \in 1..16 : Marshal(l[k], b[k]) \in Seq(Bytes)
        /\ SizesOk(FixedFields, l, b, 16)
    <2>1. 16 \in Nat OBVIOUS
    <2> QED BY <1>2, <1>6, <2>1, PlainFields
  <1>8. FieldsOk(l, b, 18)
    <2>1. \A k \in 1..18 : k \in 1..16 \/ k = 17 \/ k = 18 OBVIOUS
    <2>2. DOMAIN l = 1..18 BY <1>1, SubmitSMFields
    <2>3. m \in Seq(Bytes) BY <1>4
    <2> QED BY <1>3, <1>p, <1>5, <1>7, <2>1, <2>2, <2>3 DEF FieldsOk
  <1>9. PICK off : BodyAt(l, b, 18, off)
    <2>1. 18 \in Nat OBVIOUS
    <2> QED BY <1>8, <2>1, BodyLaidOut, Zenon
  <1>10. PICK d : d = MarshalBody(l, b) OBVIOUS
  <1>11. d \in Seq(Bytes) BY <1>8, <1>10, BodyLaidOut
  <1>12. off[16] = FixedLength
    <2>1. 18 \in Nat /\ 16 \in 0..18 /\ 16 \in 0..16 OBVIOUS
    <2>3. SizesOk(FixedFields, l, b, 16) BY <1>7
    <2>2. \A k \in 0..16 : Offsets(FixedFields)[k] = off[k] BY <1>9, <2>1, <2>3, OffsetsMatch
    <2> QED BY <2>1, <2>2, FixedLengthIs
  <1>13. FixedLength \in Nat BY FixedLengthIs
  <1>14. /\ off[17] = off[16] + Len(m) /\ off[18] = off[17] + Len(tail) /\ Len(d) = off[18]
         /\ \A j \in 1..Len(m) : d[off[16] + j] = m[j]
         /\ \A j \in 1..Len(tail) : d[off[17] + j] = tail[j]
    <2>1. 17 \in 1..18 /\ 18 \in 1..18 /\ 17 - 1 = 16 /\ 18 - 1 = 17 OBVIOUS
    <2>2. /\ Len(MarshalBody(l, b)) = off[18]
          /\ \A k \in 1..18 : /\ off[k] = off[k - 1] + Len(Marshal(l[k], b[k]))
                             /\ \A j \in 1..Len(Marshal(l[k], b[k])) :
                                   MarshalBody(l, b)[off[k - 1] + j] = Marshal(l[k], b[k])[j]
      BY ONLY <1>9, Zenon DEF BodyAt
    <2>3. /\ off[17] = off[16] + Len(Marshal(l[17], b[17]))
          /\ \A j \in 1..Len(Marshal(l[17], b[17])) :
                MarshalBody(l, b)[off[16] + j] = Marshal(l[17], b[17])[j]
      BY ONLY <2>1, <2>2
    <2>4. /\ off[18] = off[17] + Len(Marshal(l[18], b[18]))
          /\ \A j \in 1..Len(Marshal(l[18], b[18])) :
                MarshalBody(l, b)[off[17] + j] = Marshal(l[18], b[18])[j]
      BY ONLY <2>1, <2>2
    <2>5. MarshalBody(l, b) = d /\ Marshal(l[17], b[17]) = m /\ Marshal(l[18], b[18]) = tail
      BY <1>3, <1>5, <1>10
    <2>6. Len(d) = off[18] BY ONLY <2>2, <2>5
    <2>7. off[17] = off[16] + Len(m) /\ \A j \in 1..Len(m) : d[off[16] + j] = m[j] BY ONLY <2>3, <2>5, Zenon
    <2>8. off[18] = off[17] + Len(tail) /\ \A j \in 1..Len(tail) : d[off[17] + j] = tail[j]
      BY ONLY <2>4, <2>5, Zenon
    <2> QED BY ONLY <2>6, <2>7, <2>8
  <1>15. Len(data) \in Nat /\ Len(tail) \in Nat BY <1>p, LenProperties
  <1>16. Len(d) = FixedLength + 1 + Len(data) + Len(tail) /\ off[17] = FixedLength + 1 + Len(data)
    BY <1>4, <1>12, <1>13, <1>14, <1>15
  <1>17. d[FixedLength + 1] = length
    <2>1. 1 \in 1..Len(m) BY <1>4, <1>15
    <2> QED BY <1>4, <1>12, <1>14, <2>1
  <1>18. SubSeq(d, FixedLength + 2, FixedLength + 1 + Len(data)) = data
    <2>1. PICK a : a = FixedLength + 1 OBVIOUS
    <2>2. /\ a \in Nat /\ a + Len(data) <= Len(d) /\ a + 1 = FixedLength + 2
          /\ a + Len(data) = FixedLength + 1 + Len(data)
      BY <1>13, <1>15, <1>16, <2>1
    <2>3. ASSUME NEW j \in 1..Len(data) PROVE d[a + j] = data[j]
      <3>1. 1 + j \in 1..Len(m) /\ off[16] + (1 + j) = a + j BY <1>4, <1>12, <1>13, <1>15, <2>1
      <3>2. d[off[16] + (1 + j)] = m[1 + j] BY <1>14, <3>1
      <3> QED BY <1>4, <3>1, <3>2
    <2>4. SubSeq(d, a + 1, a + Len(data)) = data BY <1>11, <1>p, <2>2, <2>3, CutOutIs
    <2> QED BY <2>2, <2>4
  <1>19. SubSeq(d, FixedLength + 2 + Len(data), Len(d)) = tail
    <2>1. PICK a : a = off[17] OBVIOUS
    <2>2. /\ a \in Nat /\ a + Len(tail) <= Len(d) /\ a + 1 = FixedLength + 2 + Len(data)
          /\ a + Len(tail) = Len(d)
      BY <1>13, <1>15, <1>16, <2>1
    <2>3. \A j \in 1..Len(tail) : d[a + j] = tail[j] BY <1>14, <2>1
    <2>4. SubSeq(d, a + 1, a + Len(tail)) = tail BY <1>11, <1>p, <2>2, <2>3, CutOutIs
    <2> QED BY <2>2, <2>4
  <1>20. SmLaidOut(b, off, length, data, tail, d)
    BY <1>1, <1>2, <1>8, <1>9, <1>10, <1>11, <1>12, <1>13, <1>16, <1>17, <1>18, <1>19 DEF SmLaidOut
  <1> QED BY <1>1, <1>10, <1>20

\* What is decoded of such a body: an error if it has no content, and otherwise the body it was made of
\* if the strings fit, the length is right and the parameters can be read back.
LEMMA SmDecoded ==
    ASSUME NEW b, NEW esm, NEW source, NEW dest, NEW registered, NEW length, NEW data, NEW params, NEW tail,
           SmParts(b, esm, source, dest, registered, length, data, params, tail),
           NEW d, d = MarshalBody(SubmitSM, b)
    PROVE  /\ d \in Seq(Bytes) /\ Len(d) = FixedLength + 1 + Len(data) + Len(tail)
           /\ UnmarshalShortMessage(d).ok <=> Len(data) + Len(tail) >= 1
           /\ UnmarshalShortMessage(d).ok /\ Tight(SubmitSM, b, 16) /\ length = Len(data)
                /\ UnmarshalParams(tail) = params => UnmarshalShortMessage(d).body = b
  <1>1. PICK off : SmLaidOut(b, off, length, data, tail, d) BY SmLayout
  <1>2. PICK F : F = FixedLength OBVIOUS
  <1>3. F \in Nat /\ d \in Seq(Bytes) /\ Len(d) = F + 1 + Len(data) + Len(tail) /\ d[F + 1] = length
    BY <1>1, <1>2 DEF SmLaidOut
  <1>4. Len(data) \in Nat /\ Len(tail) \in Nat /\ length \in Nat /\ length <= Len(data)
    <2>1. data \in Seq(Bytes) /\ tail \in Seq(Bytes) /\ length \in Bytes /\ length <= Len(data) BY DEF SmParts
    <2> QED BY <2>1, LenProperties, ByteFacts
  <1>5. FixedOffsets[Len(FixedFields)] = F /\ Len(FixedFields) = 16 /\ minLength = F + 2
        /\ Begins(FixedFields, SubmitSM, 16)
    BY <1>2, FixedLengthIs DEF FixedOffsets, Begins
  <1> DEFINE bad == Len(d) < F + 2 \/ Len(d) < (F + 1) + length
             fx == UnmarshalFixed(FixedFields, FixedOffsets, d)
             sm == [length |-> length, data |-> SubSeq(d, (F + 1) + 1, (F + 1) + length)]
             op == UnmarshalParams(SubSeq(d, (F + 1) + length + 1, Len(d)))
  <1>6. UnmarshalShortMessage(d) = IF bad THEN Error ELSE Ok(fx \o <<sm, op>>)
    <2> HIDE DEF fx
    <2>1. UnmarshalShortMessage(d) =
            IF Len(d) < F + 2 THEN Error
            ELSE IF Len(d) < (F + 1) + length THEN Error
            ELSE Ok(fx \o <<sm, op>>)
      BY <1>3, <1>5, Zenon DEF UnmarshalShortMessage, fx
    <2> QED BY <2>1, Zenon
  <1>7. ~bad <=> Len(data) + Len(tail) >= 1 BY <1>3, <1>4
  <1> HIDE DEF bad, fx, sm, op
  <1>8. UnmarshalShortMessage(d).ok <=> Len(data) + Len(tail) >= 1
    <2>1. Error.ok = FALSE BY DEF Error
    <2>2. CASE bad
      <3>1. UnmarshalShortMessage(d) = Error BY <1>6, <2>2
      <3> QED BY <1>7, <2>1, <2>2, <3>1
    <2>3. CASE ~bad
      <3>1. UnmarshalShortMessage(d) = Ok(fx \o <<sm, op>>) BY <1>6, <2>3
      <3> QED BY <1>7, <2>3, <3>1, OkIs
    <2> QED BY <2>2, <2>3
  <1>9. ASSUME UnmarshalShortMessage(d).ok, Tight(SubmitSM, b, 16), length = Len(data),
               UnmarshalParams(tail) = params
        PROVE  UnmarshalShortMessage(d).body = b
    <2>1. UnmarshalShortMessage(d).body = fx \o <<sm, op>> BY <1>6, <1>7, <1>8, <1>9, OkIs
    <2>p. b = SmBody(esm, source, dest, registered, length, data, params) BY DEF SmParts
    <2>2. sm = b[17]
      <3>1. (F + 1) + 1 = F + 2 /\ (F + 1) + length = F + 1 + Len(data) BY <1>3, <1>4, <1>9
      <3>2. SubSeq(d, F + 2, F + 1 + Len(data)) = data BY <1>1, <1>2 DEF SmLaidOut
      <3>3. sm = [length |-> length, data |-> data] BY <3>1, <3>2 DEF sm
      <3>4. b[17] = [length |-> length, data |-> data] BY <2>p DEF SmBody
      <3> QED BY <3>3, <3>4, Zenon
    <2>3. op = b[18]
      <3>1. (F + 1) + length + 1 = F + 2 + Len(data) BY <1>3, <1>4, <1>9
      <3>2. SubSeq(d, F + 2 + Len(data), Len(d)) = tail BY <1>1, <1>2 DEF SmLaidOut
      <3>3. op = params BY <1>9, <3>1, <3>2 DEF op
      <3>4. b[18] = params BY <2>p DEF SmBody
      <3> QED BY <3>3, <3>4, Zenon
    <2>4. \A k \in 1..16 : fx[k] = b[k]
      <3>1. /\ Plain(SubmitSM, b, 16) /\ FieldsOk(SubmitSM, b, 18) /\ BodyAt(SubmitSM, b, 18, off)
            /\ d = MarshalBody(SubmitSM, b)
        BY <1>1 DEF SmLaidOut
      <3>2. 18 \in Nat /\ 16 \in 0..18 OBVIOUS
      <3>3. Begins(FixedFields, SubmitSM, 16) /\ Tight(SubmitSM, b, 16) BY <1>5, <1>9
      <3>4. ASSUME NEW k \in 1..16
            PROVE  UnmarshalFixed(FixedFields, Offsets(FixedFields), MarshalBody(SubmitSM, b))[k] = b[k]
        BY <3>1, <3>2, <3>3, PlainBack
      <3> QED BY <3>1, <3>4 DEF fx, FixedOffsets
    <2>5. PICK S : S = {b[k] : k \in 1..18} OBVIOUS
    <2>6. b \in Seq(S) /\ Len(b) = 18
      <3>1. b = [k \in 1..18 |-> b[k]] BY <2>p DEF SmBody
      <3>2. b \in [1..18 -> S] BY <2>5, <3>1
      <3> QED BY <3>2, FunIsSeq
    <2>7. fx \in Seq(S) /\ Len(fx) = 16
      <3>1. fx = [k \in 1..16 |-> fx[k]] BY FixedFieldsAre DEF fx, UnmarshalFixed
      <3>2. \A k \in 1..16 : fx[k] \in S
        <4>1. \A k \in 1..16 : k \in 1..18 OBVIOUS
        <4>2. \A k \in 1..16 : b[k] \in S BY <2>5, <4>1
        <4> QED BY <2>4, <4>2
      <3>3. fx \in [1..16 -> S] BY <3>1, <3>2
      <3> QED BY <3>3, FunIsSeq
    <2>8. PICK w : w = <<sm, op>> OBVIOUS
    <2>9. w \in Seq(S) /\ Len(w) = 2 /\ w[1] = sm /\ w[2] = op
      <3>1. 17 \in 1..18 /\ 18 \in 1..18 OBVIOUS
      <3>2. b[17] \in S /\ b[18] \in S BY <2>5, <3>1, Zenon
      <3>3. sm \in S /\ op \in S BY <2>2, <2>3, <3>2, Zenon
      <3> QED BY <2>8, <3>3
    <2>10. /\ fx \o w \in Seq(S) /\ Len(fx \o w) = Len(fx) + Len(w)
           /\ \A j \in 1..Len(fx) : (fx \o w)[j] = fx[j]
           /\ \A j \in 1..Len(w) : (fx \o w)[Len(fx) + j] = w[j]
      <3>1. fx \in Seq(S) /\ w \in Seq(S) BY <2>7, <2>9
      <3> QED BY <3>1, Joined
    <2>11. PICK u : u = fx \o w OBVIOUS
    <2>12. u \in Seq(S) /\ Len(u) = 18 /\ (\A j \in 1..16 : u[j] = fx[j]) /\ u[17] = sm /\ u[18] = op
      <3>1. Len(u) = 18 /\ u \in Seq(S) BY <2>7, <2>9, <2>10, <2>11
      <3>2. \A j \in 1..16 : u[j] = fx[j] BY <2>7, <2>10, <2>11
      <3>3. \A j \in 1..2 : u[16 + j] = w[j] BY <2>7, <2>9, <2>10, <2>11
      <3>4. 1 \in 1..2 /\ 2 \in 1..2 /\ 16 + 1 = 17 /\ 16 + 2 = 18 OBVIOUS
      <3>5. u[17] = w[1] /\ u[18] = w[2] BY <3>3, <3>4, Zenon
      <3> QED BY <2>9, <3>1, <3>2, <3>5
    <2>13. \A j \in 1..Len(u) : u[j] = b[j]
      <3>1. \A j \in 1..Len(u) : j \in 1..16 \/ j = 17 \/ j = 18 BY <2>12
      <3> QED BY <2>2, <2>3, <2>4, <2>12, <3>1, Zenon
    <2>14. u = b BY <2>6, <2>12, <2>13, SeqEqual
    <2> QED BY <2>1, <2>8, <2>11, <2>14
  <1> QED BY <1>2, <1>3, <1>8, <1>9

\* Soundness of a PDU with such a body.
LEMMA SmSound ==
    ASSUME NEW b, NEW esm, NEW source, NEW dest, NEW registered, NEW length, NEW data, NEW params, NEW tail,
           SmParts(b, esm, source, dest, registered, length, data, params, tail),
           HeaderLength + FixedLength + 1 + Len(data) + Len(tail) < WordSize,
           NEW c \in {"submit_sm", "deliver_sm"}, NEW seq \in 0..WordSize - 1,
           NEW p, p = pdu(c, StatusOK, seq, b),
           Decodable(p) => Len(data) + Len(tail) >= 1,
           Fits(p) /\ Len(data) + Len(tail) >= 1 => length = Len(data) /\ UnmarshalParams(tail) = params
    PROVE  Sound(p)
  <1>1. p.command = c /\ p.status = StatusOK /\ p.seq = seq /\ p.body = b BY PduParts
  <1>2. Layout(c) = SubmitSM BY LayoutIs
  <1>3. PICK d : d = MarshalBody(SubmitSM, b) OBVIOUS
  <1>4. BodyOf(p) = d BY <1>1, <1>2, <1>3 DEF BodyOf
  <1>5. /\ d \in Seq(Bytes) /\ Len(d) = FixedLength + 1 + Len(data) + Len(tail)
        /\ UnmarshalShortMessage(d).ok <=> Len(data) + Len(tail) >= 1
        /\ UnmarshalShortMessage(d).ok /\ Tight(SubmitSM, b, 16) /\ length = Len(data)
             /\ UnmarshalParams(tail) = params => UnmarshalShortMessage(d).body = b
    BY <1>3, SmDecoded
  <1>6. Len(data) \in Nat /\ Len(tail) \in Nat /\ FixedLength \in Nat
    <2>1. data \in Seq(Bytes) /\ tail \in Seq(Bytes) BY DEF SmParts
    <2> QED BY <2>1, LenProperties, FixedLengthIs
  <1>7. HeaderLength + Len(d) < WordSize BY <1>5, <1>6, ByteFacts DEF HeaderLength
  <1>8. Unmarshal(c, d) = UnmarshalShortMessage(d)
    <2>1. Len(d) # 0 BY <1>5, <1>6
    <2>2. d # <<>> BY <2>1, EmptySeq
    <2>3. c \notin Binds BY DEF Binds
    <2>4. Layout(c) # <<cstring>>
      <3>1. Len(<<cstring>>) = 1 OBVIOUS
      <3>2. Len(SubmitSM) = 18 BY SubmitSMFields
      <3> QED BY <1>2, <3>1, <3>2
    <2>5. c = "submit_sm" \/ c = "deliver_sm" OBVIOUS
    <2> QED BY <2>2, <2>3, <2>4, <2>5 DEF Unmarshal
  <1>9. ASSUME Fits(p) PROVE Tight(SubmitSM, b, 16)
    <2>1. \A k \in DOMAIN p.body : Layout(p.command)[k].kind = "fixed" =>
            Len(p.body[k]) <= Layout(p.command)[k].n
      BY <1>9 DEF Fits
    <2>2. b = SmBody(esm, source, dest, registered, length, data, params) BY DEF SmParts
    <2>3. DOMAIN b = 1..18 BY <2>2 DEF SmBody
    <2>4. \A k \in 1..16 : k \in 1..18 OBVIOUS
    <2> QED BY <1>1, <1>2, <2>1, <2>3, <2>4 DEF Tight
  <1>10. StatusOK \in 0..WordSize - 1 BY ByteFacts DEF StatusOK
  <1>11. c \in SentCommands /\ CommandID(c) = c
    BY DEF SentCommands, CommandID, Binds, BindResponses
  <1>12. Decodable(p) => Unmarshal(p.command, BodyOf(p)).ok BY <1>1, <1>4, <1>5, <1>8
  <1>13. Unmarshal(p.command, BodyOf(p)).ok /\ Fits(p) => Unmarshal(p.command, BodyOf(p)).body = p.body
    BY <1>1, <1>4, <1>5, <1>8, <1>9
  <1> QED BY <1>1, <1>4, <1>5, <1>7, <1>10, <1>11, <1>12, <1>13 DEF Sound

\* The contents that are sent, and how long a frame they make.
LEMMA MessagesFit ==
    ASSUME NEW m \in Messages
    PROVE  /\ m \in Seq(Bytes) /\ Len(m) \in Nat
           /\ HeaderLength + FixedLength + 1 + (4 + Len(m)) < WordSize
  <1>1. m \in Seq(Bytes) BY CodecAssumption
  <1>2. Len(m) \in Nat BY <1>1, LenProperties
  <1>3. /\ MaxServiceTypeLength \in Nat /\ MaxAddressLength \in Nat /\ TimeLength \in Nat
        /\ HeaderLength + MaxServiceTypeLength + 2 * MaxAddressLength + 2 * TimeLength
             + 12 + 4 + Len(m) < WordSize
    BY SizesAssumption
  <1> QED BY <1>1, <1>2, <1>3, ByteFacts DEF HeaderLength, FixedLength

\* A number below the modulus is its own remainder; a remainder is below it.
LEMMA Remainder ==
    ASSUME NEW a \in Nat, NEW n \in Nat, n > 0, NEW r, r = a % n
    PROVE  r \in 0..n - 1 /\ r <= a /\ (a < n => r = a)
  <1>1. PICK q : q = a \div n OBVIOUS
  <1>2. q \in Nat /\ r \in 0..n - 1 /\ a = n * q + r BY <1>1, Division DEF Divides
  <1>3. n * q \in Nat BY <1>2
  <1>4. ASSUME a < n PROVE r = a
    <2>1. n * 0 + a = n * q + r /\ 0 \in Nat /\ a \in 0..n - 1 BY <1>2, <1>4
    <2> QED BY <1>2, <2>1, DivisionUnique
  <1> QED BY <1>2, <1>3, <1>4

\* A message that goes into the message_payload parameter.
LEMMA PayloadSound ==
    ASSUME NEW source \in Names, NEW dest \in Names, NEW m \in Messages, NEW seq \in 0..WordSize - 1,
           NEW p, p = BuildSubmitSM(source, dest, m, seq), Len(m) > ByteSize - 1
    PROVE  Sound(p)
  <1>1. PICK B : B = ByteSize * ByteSize OBVIOUS
  <1>2. B \in Nat /\ B > 0
    <2>1. ByteSize \in Nat /\ ByteSize > 0 BY ByteFacts
    <2> QED BY <1>1, <2>1
  <1>3. /\ m \in Seq(Bytes) /\ Len(m) \in Nat /\ Len(m) >= 1
        /\ HeaderLength + FixedLength + 1 + (4 + Len(m)) < WordSize
    BY MessagesFit, ByteFacts
  <1>4. PICK n : n = Len(m) % B OBVIOUS
  <1>5. n \in Nat /\ (Len(m) < B => n = Len(m))
    <2>1. n \in 0..B - 1 /\ (Len(m) < B => n = Len(m)) BY <1>2, <1>3, <1>4, Remainder
    <2> QED BY <1>2, <2>1
  <1>6. PICK q : q = [tag |-> TagMessagePayload, length |-> n, value |-> m] OBVIOUS
  <1>7. TagMessagePayload \in Nat /\ TagMessagePayload < B
    <2>1. TagMessagePayload \in 0..ByteSize * ByteSize - 1 BY CodecAssumption
    <2> QED BY <1>1, <1>2, <2>1
  <1>8. PICK params : params = <<q>> OBVIOUS
  <1>9. PICK e : e = <<>> OBVIOUS
  <1>10. e \in Seq(Bytes) /\ Len(e) = 0 BY <1>9, EmptySeq
  <1>11. PICK b : b = SmBody(0, source, dest, 1, 0, e, params) OBVIOUS
  <1>12. p = pdu("submit_sm", StatusOK, seq, b)
    <2>1. params = <<[tag |-> TagMessagePayload, length |-> Len(m) % (ByteSize * ByteSize), value |-> m]>>
      BY <1>1, <1>4, <1>6, <1>8, Zenon
    <2>2. b = SmBody(0, source, dest, 1, 0, <<>>, 
                <<[tag |-> TagMessagePayload, length |-> Len(m) % (ByteSize * ByteSize), value |-> m]>>)
      BY <1>9, <1>11, <2>1, Zenon
    <2> QED BY <2>2, Zenon DEF BuildSubmitSM
  <1>13. PICK tail : tail = MarshalParam(q) OBVIOUS
  <1>14. tail \in Seq(Bytes) /\ Len(tail) = 4 + Len(m)
    <2>1. MarshalParam(q) \in Seq(Bytes) /\ Len(MarshalParam(q)) = 4 + Len(m)
      BY <1>3, <1>5, <1>6, <1>7, ParamBytes
    <2> QED BY <1>13, <2>1, Zenon
  <1>15. tail = Marshal(optional, params)
    <2>1. MarshalParam(q) \in Seq(Bytes) BY <1>13, <1>14
    <2>2. Marshal(optional, <<q>>) = MarshalParam(q) BY <2>1, OneParam
    <2> QED BY <1>8, <1>13, <2>2, Zenon
  <1>16. SmParts(b, 0, source, dest, 1, 0, e, params, tail)
    <2>1. 0 \in Bytes /\ 1 \in Bytes BY SmallBytes
    <2>2. 0 <= Len(e) BY <1>10
    <2>3. source \in Names \cup {<<>>} /\ dest \in Names \cup {<<>>} BY Zenon
    <2> QED BY <1>10, <1>11, <1>14, <1>15, <2>1, <2>2, <2>3, Zenon DEF SmParts
  <1>17. HeaderLength + FixedLength + 1 + Len(e) + Len(tail) < WordSize
    BY <1>3, <1>10, <1>14, FixedLengthIs, ByteFacts DEF HeaderLength
  <1>18. Len(e) + Len(tail) >= 1 BY <1>3, <1>10, <1>14
  <1>19. ASSUME Fits(p) PROVE 0 = Len(e) /\ UnmarshalParams(tail) = params
    <2>1. p.command = "submit_sm" /\ p.body = b BY <1>12, PduParts
    <2>2. b[18] = params BY <1>11 DEF SmBody
    <2>3. DOMAIN params = 1..1 /\ params[1] = q BY <1>8
    <2>4. Len(q.value) < ByteSize * ByteSize
      <3>1. \A i \in DOMAIN p.body[18] : Len(p.body[18][i].value) < ByteSize * ByteSize
        BY <1>19, <2>1, Zenon DEF Fits
      <3>2. 1 \in 1..1 OBVIOUS
      <3> QED BY <2>1, <2>2, <2>3, <3>1, <3>2, Zenon
    <2>5. q.value = m BY <1>6
    <2>6. Len(m) < B /\ n = Len(m) BY <1>1, <1>5, <2>4, <2>5
    <2>7. q = [tag |-> TagMessagePayload, length |-> Len(m), value |-> m] BY <1>6, <2>6
    <2>8. TagMessagePayload < ByteSize * ByteSize /\ Len(m) < ByteSize * ByteSize BY <1>1, <1>7, <2>6
    <2>9. UnmarshalParams(MarshalParam(q)) = <<q>> BY <1>3, <1>7, <2>7, <2>8, UnmarshalOne, Zenon
    <2> QED BY <1>8, <1>10, <1>13, <2>9
  <1>20. "submit_sm" \in {"submit_sm", "deliver_sm"} OBVIOUS
  <1> QED BY <1>12, <1>16, <1>17, <1>18, <1>19, <1>20, SmSound, Zenon

\* A message that goes into the short message, with the length that its octet can hold.
LEMMA ShortSound ==
    ASSUME NEW source \in Names, NEW dest \in Names \cup {<<>>}, NEW m \in Messages, NEW seq \in 0..WordSize - 1,
           NEW esm \in Bytes, NEW registered \in Bytes, NEW c \in {"submit_sm", "deliver_sm"},
           NEW n \in Bytes, n <= Len(m), Len(m) < ByteSize => n = Len(m),
           c = "submit_sm" => Len(m) < ByteSize,
           NEW p, p = pdu(c, StatusOK, seq, SmBody(esm, source, dest, registered, n, m, <<>>))
    PROVE  Sound(p)
  <1>1. /\ m \in Seq(Bytes) /\ Len(m) \in Nat
        /\ HeaderLength + FixedLength + 1 + (4 + Len(m)) < WordSize
    BY MessagesFit
  <1>2. PICK e : e = <<>> OBVIOUS
  <1>3. e \in Seq(Bytes) /\ Len(e) = 0 BY <1>2, EmptySeq
  <1>4. PICK b : b = SmBody(esm, source, dest, registered, n, m, e) OBVIOUS
  <1>5. p = pdu(c, StatusOK, seq, b) BY <1>2, <1>4, Zenon
  <1>6. PICK tail : tail = Marshal(optional, e) OBVIOUS
  <1>7. tail \in Seq(Bytes) /\ Len(tail) = 0 BY <1>2, <1>6, NoParams, Zenon
  <1>8. SmParts(b, esm, source, dest, registered, n, m, e, tail)
    <2>1. source \in Names \cup {<<>>} BY Zenon
    <2> QED BY <1>1, <1>4, <1>6, <1>7, <2>1, Zenon DEF SmParts
  <1>9. HeaderLength + FixedLength + 1 + Len(m) + Len(tail) < WordSize
    BY <1>1, <1>7, FixedLengthIs, ByteFacts DEF HeaderLength
  <1>10. p.command = c /\ p.body = b BY <1>5, PduParts
  <1>11. b[17] = [length |-> n, data |-> m] /\ b[18] = e BY <1>4 DEF SmBody
  <1>12. b[17].data = m BY <1>11
  <1>13. ASSUME Decodable(p) PROVE Len(m) + Len(tail) >= 1
    <2>1. p.body[17].data # <<>> \/ p.body[18] # <<>> BY <1>10, <1>13 DEF Decodable
    <2>2. m # <<>> BY <1>2, <1>10, <1>11, <1>12, <2>1, Zenon
    <2>3. Len(m) # 0 BY <1>1, <2>2, EmptySeq
    <2> QED BY <1>1, <1>7, <2>3
  <1>14. ASSUME Fits(p) PROVE n = Len(m) /\ UnmarshalParams(tail) = e
    <2>2. c = "deliver_sm" => Len(p.body[17].data) < ByteSize BY <1>10, <1>14, Zenon DEF Fits
    <2>3. Len(m) < ByteSize
      <3>1. c = "submit_sm" \/ c = "deliver_sm" OBVIOUS
      <3> QED BY <1>10, <1>12, <2>2, <3>1, Zenon
    <2>4. tail \in Seq(Nat)
      <3>1. Bytes \subseteq Nat BY ByteFacts
      <3> QED BY <1>7, <3>1, SeqMonotonic
    <2>5. UnmarshalParams(tail) = <<>> BY <1>7, <2>4, UnmarshalNone
    <2> QED BY <1>2, <2>3, <2>5
  <1> QED BY <1>5, <1>8, <1>9, <1>13, <1>14, SmSound, Zenon

\* The two builders of messages.
LEMMA MessageSound ==
    ASSUME NEW source \in Names, NEW m \in Messages, NEW seq \in 0..WordSize - 1
    PROVE  /\ \A dest \in Names : Sound(BuildSubmitSM(source, dest, m, seq))
           /\ Sound(BuildDeliverSM(source, <<>>, m, seq))
  <1>1. m \in Seq(Bytes) /\ Len(m) \in Nat BY MessagesFit
  <1>2. ByteSize \in Nat /\ ByteSize > 0 /\ Bytes = 0..ByteSize - 1 BY ByteFacts
  <1>3. ASSUME NEW dest \in Names PROVE Sound(BuildSubmitSM(source, dest, m, seq))
    <2>1. PICK p : p = BuildSubmitSM(source, dest, m, seq) OBVIOUS
    <2>2. CASE Len(m) > ByteSize - 1 BY <2>1, <2>2, PayloadSound
    <2>3. CASE ~(Len(m) > ByteSize - 1)
      <3>1. p = pdu("submit_sm", StatusOK, seq, SmBody(0, source, dest, 1, Len(m), m, <<>>))
        BY <2>1, <2>3, Zenon DEF BuildSubmitSM
      <3>2. Len(m) \in Bytes /\ Len(m) <= Len(m) /\ Len(m) < ByteSize BY <1>1, <1>2, <2>3
      <3>3. 0 \in Bytes /\ 1 \in Bytes BY SmallBytes
      <3>4. dest \in Names \cup {<<>>} /\ "submit_sm" \in {"submit_sm", "deliver_sm"} OBVIOUS
      <3>5. Sound(p) BY <3>1, <3>2, <3>3, <3>4, ShortSound, Zenon
      <3> QED BY <2>1, <3>5
    <2> QED BY <2>2, <2>3
  <1>4. Sound(BuildDeliverSM(source, <<>>, m, seq))
    <2>1. PICK n : n = Len(m) % ByteSize OBVIOUS
    <2>2. n \in Bytes /\ n <= Len(m) /\ (Len(m) < ByteSize => n = Len(m)) BY <1>1, <1>2, <2>1, Remainder
    <2>3. PICK p : p = BuildDeliverSM(source, <<>>, m, seq) OBVIOUS
    <2>4. p = pdu("deliver_sm", StatusOK, seq, SmBody(4, source, <<>>, 0, n, m, <<>>))
      BY <2>1, <2>3 DEF BuildDeliverSM
    <2>5. 0 \in Bytes /\ 4 \in Bytes BY SmallBytes
    <2>6. /\ <<>> \in Names \cup {<<>>} /\ "deliver_sm" \in {"submit_sm", "deliver_sm"}
          /\ "deliver_sm" # "submit_sm"
      OBVIOUS
    <2>7. Sound(p) BY <2>2, <2>4, <2>5, <2>6, ShortSound, Zenon
    <2> QED BY <2>3, <2>7
  <1> QED BY <1>3, <1>4

-----------------------------------------------------------------------------
(* What the encoder does to a PDU *)

\* The PDU with the command that the encoder gives it.
Stamped(p) == [p EXCEPT !.command = CommandID(p.command)]

\* What is known of every PDU that is sent.
Sendable(p) ==
    /\ Sound(Stamped(p)) /\ Encode(p) = Encode(Stamped(p))
    /\ Stamped(p).command = p.command \/ p.command \in Binds \cup BindResponses

\* Only binds and their responses get another command.
LEMMA CommandIDIs ==
    /\ \A c \in Binds : CommandID(c) = "bind_transceiver"
    /\ \A c \in BindResponses : CommandID(c) = "bind_transceiver_resp"
    /\ \A c \in SentCommands : CommandID(c) = c
  BY DEF CommandID, Binds, BindResponses, SentCommands, EmptyCommands

\* A PDU can be sent if it is sound with the command that the encoder gives it.
LEMMA SendableIf ==
    ASSUME NEW c \in SentCommands \cup Binds \cup BindResponses, NEW status, NEW seq, NEW body,
           Sound(pdu(CommandID(c), status, seq, body))
    PROVE  Sendable(pdu(c, status, seq, body))
  <1>1. PICK p : p = pdu(c, status, seq, body) OBVIOUS
  <1>2. PICK i : i = CommandID(c) OBVIOUS
  <1>3. PICK q : q = pdu(i, status, seq, body) OBVIOUS
  <1>4. p.command = c /\ p.status = status /\ p.seq = seq /\ p.body = body BY <1>1, PduParts
  <1>5. q.command = i /\ q.status = status /\ q.seq = seq /\ q.body = body BY <1>3, PduParts
  <1>6. Stamped(p) = q
    <2>1. Stamped(p) = [p EXCEPT !.command = i] BY <1>2, <1>4, Zenon DEF Stamped
    <2>2. [p EXCEPT !.command = i] = q BY <1>1, <1>3 DEF pdu
    <2> QED BY <2>1, <2>2
  <1>7. i = c \/ c \in Binds \cup BindResponses BY <1>2, CommandIDIs
  <1>8. CommandID(i) = i
    <2>1. "bind_transceiver" \in SentCommands /\ "bind_transceiver_resp" \in SentCommands
      BY DEF SentCommands
    <2> QED BY <1>2, <2>1, CommandIDIs
  <1>9. Layout(i) = Layout(c)
    <2>1. CASE c \in SentCommands BY <1>2, <2>1, CommandIDIs
    <2>2. CASE c \in Binds
      <3>1. i = "bind_transceiver" /\ "bind_transceiver" \in Binds BY <1>2, <2>2, CommandIDIs DEF Binds
      <3> QED BY <2>2, <3>1, LayoutIs
    <2>3. CASE c \in BindResponses
      <3>1. i = "bind_transceiver_resp" /\ "bind_transceiver_resp" \in BindResponses
        BY <1>2, <2>3, CommandIDIs DEF BindResponses
      <3> QED BY <2>3, <3>1, LayoutIs
    <2> QED BY <2>1, <2>2, <2>3
  <1>10. Encode(p) = Encode(q)
    BY <1>2, <1>4, <1>5, <1>8, <1>9, Zenon DEF Encode
  <1>11. Sound(q) BY <1>2, <1>3
  <1> QED BY <1>1, <1>4, <1>5, <1>6, <1>7, <1>10, <1>11 DEF Sendable

\* Every PDU that the client or the server builds.
LEMMA BuiltSendable ==
    ASSUME NEW seq \in 0..WordSize - 1,
           NEW p \in ClientRequests(seq) \cup ServerRequests(seq) \cup ClientAnswers(seq)
                     \cup BindAnswers(seq) \cup OperationAnswers(seq) \cup LinkAnswers(seq)
    PROVE  Sendable(p)
  <1>0. StatusOK \in 0..WordSize - 1 /\ StatusSysErr \in 0..WordSize - 1
    BY ByteFacts DEF StatusOK, StatusSysErr
  <1>c. /\ "submit_sm" \in SentCommands /\ "deliver_sm" \in SentCommands
        /\ "submit_sm_resp" \in SentCommands /\ "deliver_sm_resp" \in SentCommands
        /\ "query_sm_resp" \in SentCommands /\ "submit_multi_resp" \in SentCommands
        /\ "data_sm_resp" \in SentCommands /\ EmptyCommands \subseteq SentCommands
    BY DEF SentCommands
  <1>e. ASSUME NEW c \in EmptyCommands, NEW status \in {StatusOK, StatusSysErr}
        PROVE  Sendable(BuildEmpty(c, status, seq))
    <2>1. Sound(pdu(c, status, seq, <<>>)) BY <1>0, EmptySound
    <2>2. CommandID(c) = c BY <1>c, CommandIDIs
    <2>3. c \in SentCommands \cup Binds \cup BindResponses BY <1>c
    <2>4. Sendable(pdu(c, status, seq, <<>>)) BY <2>1, <2>2, <2>3, SendableIf
    <2> QED BY <2>4 DEF BuildEmpty
  <1>s. ASSUME NEW c \in BindResponses \cup {"submit_sm_resp", "deliver_sm_resp"},
               NEW status \in {StatusOK, StatusSysErr}, NEW n \in Names \cup {<<>>}
        PROVE  Sendable(pdu(c, status, seq, <<n>>))
    <2>1. CommandID(c) \in {"bind_transceiver_resp", "submit_sm_resp", "deliver_sm_resp"}
      BY <1>c, CommandIDIs
    <2>2. Sound(pdu(CommandID(c), status, seq, <<n>>)) BY <1>0, <2>1, StringSound
    <2>3. c \in SentCommands \cup Binds \cup BindResponses BY <1>c
    <2> QED BY <2>2, <2>3, SendableIf
  <1>1. CASE p \in ClientRequests(seq)
    <2>1. CASE \E c \in Binds, i \in Names, w \in Names, t \in Names : p = BuildBind(c, i, w, t, seq)
      <3>1. PICK c \in Binds, i \in Names, w \in Names, t \in Names : p = BuildBind(c, i, w, t, seq) BY <2>1
      <3>2. PICK b : b = <<i, w, t, <<3>>, <<0>>, <<0>>, <<>> >> OBVIOUS
      <3>3. p = pdu(c, StatusOK, seq, b) BY <3>1, <3>2 DEF BuildBind
      <3>4. Sound(BuildBind("bind_transceiver", i, w, t, seq)) BY BindSound
      <3>5. Sound(pdu(CommandID(c), StatusOK, seq, b)) BY <3>2, <3>4, CommandIDIs DEF BuildBind
      <3>6. c \in SentCommands \cup Binds \cup BindResponses OBVIOUS
      <3> QED BY <3>3, <3>5, <3>6, SendableIf
    <2>2. CASE \E s \in Names, d \in Names, m \in Messages : p = BuildSubmitSM(s, d, m, seq)
      <3>1. PICK s \in Names, d \in Names, m \in Messages : p = BuildSubmitSM(s, d, m, seq) BY <2>2
      <3>2. PICK b : p = pdu("submit_sm", StatusOK, seq, b) BY <3>1 DEF BuildSubmitSM
      <3>3. Sound(p) BY <3>1, MessageSound
      <3>4. CommandID("submit_sm") = "submit_sm" BY <1>c, CommandIDIs
      <3>5. "submit_sm" \in SentCommands \cup Binds \cup BindResponses BY <1>c
      <3> QED BY <3>2, <3>3, <3>4, <3>5, SendableIf
    <2>3. CASE \E c \in {"unbind", "enquire_link"} : p = BuildEmpty(c, StatusOK, seq)
      BY <1>e, <2>3 DEF EmptyCommands
    <2> QED BY <1>1, <2>1, <2>2, <2>3 DEF ClientRequests
  <1>2. CASE p \in ServerRequests(seq)
    <2>1. PICK s \in Names, m \in Messages : p = BuildDeliverSM(s, <<>>, m, seq) BY <1>2 DEF ServerRequests
    <2>2. PICK b : p = pdu("deliver_sm", StatusOK, seq, b) BY <2>1 DEF BuildDeliverSM
    <2>3. Sound(p) BY <2>1, MessageSound
    <2>4. CommandID("deliver_sm") = "deliver_sm" BY <1>c, CommandIDIs
    <2>5. "deliver_sm" \in SentCommands \cup Binds \cup BindResponses BY <1>c
    <2> QED BY <2>2, <2>3, <2>4, <2>5, SendableIf
  <1>3. CASE p \in ClientAnswers(seq)
    <2>1. CASE p = pdu("deliver_sm_resp", StatusOK, seq, << <<>> >>)
      <3>1. PICK e \in Names \cup {<<>>} : e = <<>> OBVIOUS
      <3>2. Sendable(pdu("deliver_sm_resp", StatusOK, seq, <<e>>)) BY <1>s
      <3> QED BY <2>1, <3>1, <3>2
    <2>2. CASE p = BuildEmpty("enquire_link_resp", StatusOK, seq) BY <1>e, <2>2 DEF EmptyCommands
    <2> QED BY <1>3, <2>1, <2>2 DEF ClientAnswers
  <1>4. CASE p \in BindAnswers(seq)
    <2> DEFINE A == {pdu(c, StatusOK, seq, <<n>>) : c \in BindResponses \cup {"submit_sm_resp"}, n \in Names}
               B == {pdu(c, StatusSysErr, seq, << <<>> >>) : c \in BindResponses \cup {"submit_sm_resp"}}
    <2>1. CASE p \in A
      <3>1. PICK c \in BindResponses \cup {"submit_sm_resp"}, n \in Names : p = pdu(c, StatusOK, seq, <<n>>)
        BY <2>1
      <3>2. c \in BindResponses \cup {"submit_sm_resp", "deliver_sm_resp"} /\ n \in Names \cup {<<>>} OBVIOUS
      <3> QED BY <1>s, <3>1, <3>2
    <2>2. CASE p \in B
      <3>1. PICK c \in BindResponses \cup {"submit_sm_resp"} : p = pdu(c, StatusSysErr, seq, << <<>> >>)
        BY <2>2
      <3>2. PICK e \in Names \cup {<<>>} : e = <<>> OBVIOUS
      <3>3. c \in BindResponses \cup {"submit_sm_resp", "deliver_sm_resp"} OBVIOUS
      <3>4. Sendable(pdu(c, StatusSysErr, seq, <<e>>)) BY <1>s, <3>3
      <3> QED BY <3>1, <3>2, <3>4
    <2>3. BindAnswers(seq) = A \cup B BY DEF BindAnswers
    <2> HIDE DEF A, B
    <2> QED BY <1>4, <2>1, <2>2, <2>3
  <1>5. CASE p \in OperationAnswers(seq)
    <2>0. /\ CommandID("query_sm_resp") = "query_sm_resp"
          /\ CommandID("submit_multi_resp") = "submit_multi_resp"
          /\ CommandID("data_sm_resp") = "data_sm_resp"
      BY <1>c, CommandIDIs
    <2>1. CASE \E n \in Names : p = pdu("query_sm_resp", StatusOK, seq, <<n, <<>>, <<0>>, <<0>> >>)
      <3>1. PICK n \in Names : p = pdu("query_sm_resp", StatusOK, seq, <<n, <<>>, <<0>>, <<0>> >>) BY <2>1
      <3>2. PICK b : b = <<n, <<>>, <<0>>, <<0>> >> OBVIOUS
      <3>3. Sound(pdu("query_sm_resp", StatusOK, seq, b)) BY <3>2, OperationSound
      <3> QED BY <1>c, <2>0, <3>1, <3>2, <3>3, SendableIf
    <2>2. CASE \E n \in Names : p = pdu("submit_multi_resp", StatusOK, seq, <<n, <<0>> >>)
      <3>1. PICK n \in Names : p = pdu("submit_multi_resp", StatusOK, seq, <<n, <<0>> >>) BY <2>2
      <3>2. PICK b : b = <<n, <<0>> >> OBVIOUS
      <3>3. Sound(pdu("submit_multi_resp", StatusOK, seq, b)) BY <3>2, OperationSound
      <3> QED BY <1>c, <2>0, <3>1, <3>2, <3>3, SendableIf
    <2>3. CASE \E n \in Names : p = pdu("data_sm_resp", StatusOK, seq, <<n, <<>> >>)
      <3>1. PICK n \in Names : p = pdu("data_sm_resp", StatusOK, seq, <<n, <<>> >>) BY <2>3
      <3>2. PICK b : b = <<n, <<>> >> OBVIOUS
      <3>3. Sound(pdu("data_sm_resp", StatusOK, seq, b)) BY <3>2, OperationSound
      <3> QED BY <1>c, <2>0, <3>1, <3>2, <3>3, SendableIf
    <2>4. CASE \E c \in {"replace_sm_resp", "cancel_sm_resp"} : p = BuildEmpty(c, StatusOK, seq)
      BY <1>e, <2>4 DEF EmptyCommands
    <2> QED BY <1>5, <2>1, <2>2, <2>3, <2>4, Zenon DEF OperationAnswers
  <1>6. CASE p \in LinkAnswers(seq)
    <2>1. CASE \E c \in {"enquire_link_resp", "unbind_resp"} : p = BuildEmpty(c, StatusOK, seq)
      BY <1>e, <2>1 DEF EmptyCommands
    <2>2. CASE p = BuildEmpty("generic_nack", StatusSysErr, seq) BY <1>e, <2>2 DEF EmptyCommands
    <2> QED BY <1>6, <2>1, <2>2 DEF LinkAnswers
  <1> QED BY <1>1, <1>2, <1>3, <1>4, <1>5, <1>6

-----------------------------------------------------------------------------
(* Decoding a frame that was sent *)

\* h is the header of the frame f.
HeaderOf(h, f) == h \in Seq(Bytes) /\ Len(h) = HeaderLength /\ \A j \in 1..HeaderLength : h[j] = f[j]

\* The words of the header are found in it.
LEMMA HeaderWords ==
    ASSUME NEW h, NEW f, HeaderOf(h, f), NEW command \in Nat, command < WordSize,
           NEW status \in Nat, status < WordSize, NEW seq \in Nat, seq < WordSize,
           NEW body \in Seq(Bytes), HeaderLength + Len(body) < WordSize,
           IsFrame(f, command, status, seq, body)
    PROVE  /\ CommandLength(h) = HeaderLength + Len(body)
           /\ FromUint(SubSeq(h, 5, 8)) = command
           /\ FromUint(SubSeq(h, 9, 12)) = status
           /\ FromUint(SubSeq(h, 13, 16)) = seq
  <1>1. h \in Seq(Nat) /\ Len(h) = 16 /\ \A j \in 1..16 : h[j] = f[j]
    <2>1. Bytes \subseteq Nat BY ByteFacts
    <2> QED BY <2>1, SeqMonotonic DEF HeaderOf, HeaderLength
  <1>2. PICK n : n = HeaderLength + Len(body) OBVIOUS
  <1>3. n \in Nat /\ n < WordSize BY <1>2, LenProperties DEF HeaderLength
  <1>4. ASSUME NEW k \in {0, 4, 8, 12}, NEW x \in Nat, x < WordSize, HasWord(f, k, x)
        PROVE  FromUint(SubSeq(h, k + 1, k + 4)) = x
    <2>1. k \in Nat /\ k + 4 <= Len(h) BY <1>1
    <2>2. k + 1 \in 1..16 /\ k + 2 \in 1..16 /\ k + 3 \in 1..16 /\ k + 4 \in 1..16 OBVIOUS
    <2>3. HasWord(h, k, x) BY <1>1, <1>4, <2>2, Zenon DEF HasWord
    <2> QED BY <1>1, <1>4, <2>1, <2>3, ReadUint
  <1>5. HasWord(f, 0, n) /\ HasWord(f, 4, command) /\ HasWord(f, 8, status) /\ HasWord(f, 12, seq)
    BY <1>2 DEF IsFrame
  <1>6. /\ FromUint(SubSeq(h, 0 + 1, 0 + 4)) = n /\ FromUint(SubSeq(h, 4 + 1, 4 + 4)) = command
        /\ FromUint(SubSeq(h, 8 + 1, 8 + 4)) = status /\ FromUint(SubSeq(h, 12 + 1, 12 + 4)) = seq
    <2>1. 0 \in {0, 4, 8, 12} /\ 4 \in {0, 4, 8, 12} /\ 8 \in {0, 4, 8, 12} /\ 12 \in {0, 4, 8, 12} OBVIOUS
    <2> QED BY <1>3, <1>4, <1>5, <2>1, Zenon
  <1>7. /\ 0 + 1 = 1 /\ 0 + 4 = 4 /\ 4 + 1 = 5 /\ 4 + 4 = 8 /\ 8 + 1 = 9 /\ 8 + 4 = 12
        /\ 12 + 1 = 13 /\ 12 + 4 = 16
    OBVIOUS
  <1> QED BY <1>2, <1>6, <1>7 DEF CommandLength

\* A sound PDU is a frame.
LEMMA SoundFrame ==
    ASSUME NEW p, Sound(p)
    PROVE  /\ IsFrame(Encode(p), Number(p.command), p.status, p.seq, BodyOf(p))
           /\ Number(p.command) \in Nat /\ Number(p.command) < WordSize
           /\ p.status \in Nat /\ p.status < WordSize /\ p.seq \in Nat /\ p.seq < WordSize
           /\ BodyOf(p) \in Seq(Bytes) /\ HeaderLength + Len(BodyOf(p)) < WordSize
  <1>1. /\ p.command \in SentCommands /\ p.status \in 0..WordSize - 1 /\ p.seq \in 0..WordSize - 1
        /\ CommandID(p.command) = p.command
        /\ BodyOf(p) \in Seq(Bytes) /\ HeaderLength + Len(BodyOf(p)) < WordSize
    BY DEF Sound
  <1>2. Number(p.command) \in Nat /\ Number(p.command) < WordSize BY <1>1, NumbersFit
  <1>3. p.status \in Nat /\ p.status < WordSize /\ p.seq \in Nat /\ p.seq < WordSize
    BY <1>1, ByteFacts
  <1> DEFINE b == BodyOf(p)
  <1>4. Encode(p) = Uint32(HeaderLength + Len(b)) \o Uint32(Number(p.command))
                    \o Uint32(p.status) \o Uint32(p.seq) \o b
    BY <1>1, Zenon DEF Encode, BodyOf
  <1> HIDE DEF b
  <1>5. b \in Seq(Bytes) /\ HeaderLength + Len(b) < WordSize BY <1>1 DEF b
  <1>6. IsFrame(Encode(p), Number(p.command), p.status, p.seq, b)
    BY <1>2, <1>3, <1>4, <1>5, FrameLaidOut
  <1> QED BY <1>1, <1>2, <1>3, <1>6 DEF b

\* A frame is decoded to the PDU it was made of.
LEMMA DecodeSent ==
    ASSUME NEW p, Sound(p), NEW h, HeaderOf(h, Encode(p)), NEW r, r = Decode(h, BodyOf(p))
    PROVE  /\ r.ok \in BOOLEAN
           /\ Decodable(p) => r.ok
           /\ r.ok => /\ r.body.command = p.command /\ r.body.status = p.status /\ r.body.seq = p.seq
                      /\ Fits(p) => r.body.body = p.body
  <1>1. /\ IsFrame(Encode(p), Number(p.command), p.status, p.seq, BodyOf(p))
        /\ Number(p.command) \in Nat /\ Number(p.command) < WordSize
        /\ p.status \in Nat /\ p.status < WordSize /\ p.seq \in Nat /\ p.seq < WordSize
        /\ BodyOf(p) \in Seq(Bytes) /\ HeaderLength + Len(BodyOf(p)) < WordSize
    BY SoundFrame
  <1>2. /\ FromUint(SubSeq(h, 5, 8)) = Number(p.command)
        /\ FromUint(SubSeq(h, 9, 12)) = p.status
        /\ FromUint(SubSeq(h, 13, 16)) = p.seq
    BY <1>1, HeaderWords
  <1>3. /\ p.command \in SentCommands
        /\ Decodable(p) => Unmarshal(p.command, BodyOf(p)).ok
        /\ p.command \in createPDUBody /\ Unmarshal(p.command, BodyOf(p)).ok /\ Fits(p) =>
             Unmarshal(p.command, BodyOf(p)).body = p.body
    BY DEF Sound
  <1> DEFINE named == {c \in createPDUBody : Number(c) = Number(p.command)}
             u == Unmarshal(p.command, BodyOf(p))
  <1>4. CASE p.command \notin createPDUBody
    <2>1. named = {} BY <1>3, <1>4, NumbersDiffer
    <2>2. r = Error
      <3> HIDE DEF named
      <3> QED BY <1>2, <2>1, Zenon DEF Decode, named
    <2>3. Error.ok = FALSE BY DEF Error
    <2> QED BY <1>4, <2>2, <2>3 DEF Decodable
  <1>5. CASE p.command \in createPDUBody
    <2>1. named = {p.command} BY <1>3, <1>5, NumbersDiffer
    <2>2. (CHOOSE x \in {p.command} : TRUE) = p.command OBVIOUS
    <2>3. r = IF ~u.ok THEN Error
              ELSE Ok([command |-> p.command, status |-> p.status, seq |-> p.seq, body |-> u.body])
      <3>1. named # {} BY <2>1
      <3> HIDE DEF named, u
      <3>2. r = IF named = {} THEN Error
                ELSE LET c == CHOOSE x \in named : TRUE
                         result == Unmarshal(c, BodyOf(p)) IN
                     IF ~result.ok THEN Error
                     ELSE Ok([command |-> c, status |-> p.status, seq |-> p.seq, body |-> result.body])
        <4> DEFINE D(n, status, seq) ==
              LET set == {c \in createPDUBody : Number(c) = n} IN
              IF set = {} THEN Error
              ELSE LET c == CHOOSE x \in set : TRUE
                       result == Unmarshal(c, BodyOf(p)) IN
                   IF ~result.ok THEN Error
                   ELSE Ok([command |-> c, status |-> status, seq |-> seq, body |-> result.body])
        <4>1. r = D(FromUint(SubSeq(h, 5, 8)), FromUint(SubSeq(h, 9, 12)), FromUint(SubSeq(h, 13, 16)))
          BY Zenon DEF Decode
        <4>2. r = D(Number(p.command), p.status, p.seq)
          <5> HIDE DEF D
          <5> QED BY <1>2, <4>1
        <4> QED BY <4>2, Zenon DEF named
      <3> QED BY <2>1, <2>2, <3>1, <3>2, Zenon DEF u
    <2> HIDE DEF u
    <2>4. CASE ~u.ok
      <3>1. r = Error /\ Error.ok = FALSE BY <2>3, <2>4 DEF Error
      <3> QED BY <1>3, <2>4, <3>1 DEF u
    <2>5. CASE u.ok
      <3>1. PICK w : w = [command |-> p.command, status |-> p.status, seq |-> p.seq, body |-> u.body] OBVIOUS
      <3>2. r = Ok(w) BY <2>3, <2>5, <3>1, Zenon
      <3>3. r.ok = TRUE /\ r.body = w BY <3>2, OkIs
      <3>4. w.command = p.command /\ w.status = p.status /\ w.seq = p.seq /\ w.body = u.body BY <3>1
      <3>5. Fits(p) => u.body = p.body BY <1>3, <1>5, <2>5 DEF u
      <3> QED BY <3>3, <3>4, <3>5
    <2> QED BY <2>4, <2>5
  <1> QED BY <1>4, <1>5

-----------------------------------------------------------------------------
(* Frames that are still to be read *)

\* Whole, for any sequence of PDUs.
WholeOf(o) ==
    LET torn == SelectInSeq(o, LAMBDA e : ~e.whole) IN IF torn = 0 THEN Len(o) ELSE torn - 1

\* The first w PDUs were written whole, and the next one, if any, was not.
FirstTorn(o, w) ==
    /\ w \in 0..Len(o) /\ \A i \in 1..w : o[i].whole
    /\ w < Len(o) => ~o[w + 1].whole

\* WholeOf is the number of PDUs ahead of the first torn one.
LEMMA WholeOfIs ==
    ASSUME NEW S, NEW o \in Seq(S)
    PROVE  /\ FirstTorn(o, WholeOf(o))
           /\ \A w : FirstTorn(o, w) => w = WholeOf(o)
  <1> DEFINE I == {i \in 1..Len(o) : ~o[i].whole}
             torn == IF I # {} THEN Min(I) ELSE 0
  <1>0. Len(o) \in Nat BY LenProperties
  <1>1. WholeOf(o) = IF torn = 0 THEN Len(o) ELSE torn - 1 BY DEF WholeOf, SelectInSeq
  <1>2. FirstTorn(o, WholeOf(o))
    <2>1. CASE I = {}
      <3>1. WholeOf(o) = Len(o) BY <1>1, <2>1
      <3> QED BY <1>0, <2>1, <3>1 DEF FirstTorn
    <2>2. CASE I # {}
      <3>1. I \in SUBSET Nat /\ \A i \in I : i \in Nat OBVIOUS
      <3>2. PICK x \in I : \A y \in I : ~(y < x)
        <4> HIDE DEF I
        <4> QED BY <2>2, <3>1, LeastElement
      <3>3. \A y \in I : x =< y
        <4> HIDE DEF I
        <4> QED BY <3>1, <3>2
      <3>4. Min(I) \in I /\ \A y \in I : Min(I) =< y
        <4> HIDE DEF I
        <4> QED BY <3>2, <3>3, Zenon DEF Min
      <3>5. PICK m : m = Min(I) OBVIOUS
      <3>6. m \in 1..Len(o) /\ ~o[m].whole /\ \A i \in 1..Len(o) : ~o[i].whole => m <= i
        BY <3>4, <3>5
      <3>7. WholeOf(o) = m - 1
        <4> HIDE DEF I
        <4>1. torn = m BY <2>2, <3>5
        <4>2. m # 0 BY <1>0, <3>6
        <4> QED BY <1>1, <4>1, <4>2
      <3>8. m - 1 \in 0..Len(o) /\ (m - 1) + 1 = m BY <1>0, <3>6
      <3>9. \A i \in 1..m - 1 : o[i].whole
        <4>1. \A i \in 1..m - 1 : i \in 1..Len(o) /\ ~(m <= i) BY <1>0, <3>6
        <4> QED BY <3>6, <4>1
      <3>10. FirstTorn(o, m - 1) BY <3>6, <3>8, <3>9 DEF FirstTorn
      <3> QED BY <3>7, <3>10
    <2> QED BY <2>1, <2>2
  <1>3. ASSUME NEW w, FirstTorn(o, w) PROVE w = WholeOf(o)
    <2>1. PICK v : v = WholeOf(o) OBVIOUS
    <2>2. FirstTorn(o, v) BY <1>2, <2>1
    <2>3. w \in Nat /\ v \in Nat /\ w <= Len(o) /\ v <= Len(o) BY <1>0, <1>3, <2>2 DEF FirstTorn
    <2>4. ~(w < v)
      <3> SUFFICES ASSUME w < v PROVE FALSE OBVIOUS
      <3>1. w + 1 \in 1..v /\ w < Len(o) BY <1>0, <2>3
      <3> QED BY <1>3, <2>2, <3>1 DEF FirstTorn
    <2>5. ~(v < w)
      <3> SUFFICES ASSUME v < w PROVE FALSE OBVIOUS
      <3>1. v + 1 \in 1..w /\ v < Len(o) BY <1>0, <2>3
      <3> QED BY <1>3, <2>2, <3>1 DEF FirstTorn
    <2> QED BY <2>1, <2>3, <2>4, <2>5
  <1> QED BY <1>2, <1>3

\* One more PDU is written.
LEMMA WholeAppend ==
    ASSUME NEW S, NEW o \in Seq(S), NEW e \in S, NEW w, w = WholeOf(o)
    PROVE  WholeOf(Append(o, e)) = IF w = Len(o) /\ e.whole THEN w + 1 ELSE w
  <1>1. FirstTorn(o, w) /\ Len(o) \in Nat BY WholeOfIs, LenProperties
  <1>2. PICK a : a = Append(o, e) OBVIOUS
  <1>3. /\ a \in Seq(S) /\ Len(a) = Len(o) + 1
        /\ \A i \in 1..Len(o) : a[i] = o[i]
        /\ a[Len(o) + 1] = e
    BY <1>2, AppendProperties
  <1>4. w \in Nat /\ w <= Len(o) /\ \A i \in 1..w : i \in 1..Len(o) /\ o[i].whole
    BY <1>1 DEF FirstTorn
  <1>5. CASE w = Len(o) /\ e.whole
    <2>1. \A i \in 1..w + 1 : i \in 1..w \/ i = Len(o) + 1 BY <1>1, <1>4, <1>5
    <2>2. \A i \in 1..w + 1 : a[i].whole BY <1>3, <1>4, <1>5, <2>1
    <2>3. w + 1 \in 0..Len(a) /\ ~(w + 1 < Len(a)) BY <1>1, <1>3, <1>5
    <2>4. FirstTorn(a, w + 1) BY <2>2, <2>3 DEF FirstTorn
    <2>5. w + 1 = WholeOf(a) BY <1>3, <2>4, WholeOfIs
    <2> QED BY <1>2, <1>5, <2>5
  <1>6. CASE ~(w = Len(o) /\ e.whole)
    <2>1. \A i \in 1..w : a[i].whole BY <1>3, <1>4
    <2>2. w \in 0..Len(a) BY <1>1, <1>3, <1>4
    <2>3. ~a[w + 1].whole
      <3>1. CASE w = Len(o) BY <1>3, <1>6, <3>1
      <3>2. CASE w # Len(o)
        <4>1. w < Len(o) /\ w + 1 \in 1..Len(o) BY <1>1, <1>4, <3>2
        <4> QED BY <1>1, <1>3, <4>1 DEF FirstTorn
      <3> QED BY <3>1, <3>2
    <2>4. FirstTorn(a, w) BY <2>1, <2>2, <2>3 DEF FirstTorn
    <2>5. w = WholeOf(a) BY <1>3, <2>4, WholeOfIs
    <2> QED BY <1>2, <1>6, <2>5
  <1> QED BY <1>5, <1>6

\* Everything that client and server build, and the entries that it makes in out.
Built ==
    UNION {ClientRequests(seq) \cup ServerRequests(seq) \cup ClientAnswers(seq)
           \cup BindAnswers(seq) \cup OperationAnswers(seq) \cup LinkAnswers(seq) : seq \in 1..WordSize - 1}

Entries == {[built |-> p.command, whole |-> w, pdu |-> Stamped(p)] : p \in Built, w \in BOOLEAN}

\* What is known of every PDU in out.
LEMMA EntriesSound ==
    ASSUME NEW e \in Entries
    PROVE  /\ e.whole \in BOOLEAN /\ Sound(e.pdu)
           /\ e.pdu.command = e.built \/ e.built \in Binds \cup BindResponses
           /\ Encode(e.pdu) \in Seq(Bytes) /\ Len(Encode(e.pdu)) \in Nat
           /\ Len(Encode(e.pdu)) = HeaderLength + Len(BodyOf(e.pdu)) /\ Len(BodyOf(e.pdu)) \in Nat
  <1>1. PICK p \in Built, w \in BOOLEAN : e = [built |-> p.command, whole |-> w, pdu |-> Stamped(p)]
    BY DEF Entries
  <1>2. e.whole = w /\ e.built = p.command /\ e.pdu = Stamped(p) BY <1>1
  <1>3. Sendable(p)
    <2>1. PICK seq \in 1..WordSize - 1 :
            p \in ClientRequests(seq) \cup ServerRequests(seq) \cup ClientAnswers(seq)
                  \cup BindAnswers(seq) \cup OperationAnswers(seq) \cup LinkAnswers(seq)
      BY DEF Built
    <2>2. seq \in 0..WordSize - 1 BY ByteFacts
    <2> QED BY <2>1, <2>2, BuiltSendable
  <1>4. Sound(e.pdu) /\ (e.pdu.command = e.built \/ e.built \in Binds \cup BindResponses)
    BY <1>2, <1>3 DEF Sendable
  <1>5. /\ IsFrame(Encode(e.pdu), Number(e.pdu.command), e.pdu.status, e.pdu.seq, BodyOf(e.pdu))
        /\ BodyOf(e.pdu) \in Seq(Bytes)
    BY <1>4, SoundFrame
  <1>6. /\ Encode(e.pdu) \in Seq(Bytes) /\ Len(Encode(e.pdu)) = HeaderLength + Len(BodyOf(e.pdu))
    BY <1>5 DEF IsFrame
  <1>7. Len(BodyOf(e.pdu)) \in Nat /\ Len(Encode(e.pdu)) \in Nat BY <1>5, <1>6, LenProperties
  <1> QED BY <1>2, <1>4, <1>6, <1>7

\* The frame of the i-th PDU.
FrameAt(o, i) == Encode(o[i].pdu)

\* The bytes of f are found after position a, as far as there are any.
Match(rest, a, f) == \A k \in 1..Len(f) : a + k <= Len(rest) => rest[a + k] = f[k]

\* What is still to be read when n PDUs have been read: at[i] is where the i-th frame ends.
Follows(at, o, n, w, rest, from, gone) ==
    /\ at \in [Nat -> Nat] /\ at[n] = 0
    /\ \A i \in n + 1..w : at[i] = at[i - 1] + Len(FrameAt(o, i)) /\ Match(rest, at[i - 1], FrameAt(o, i))
    /\ \A i, j \in n..w : i <= j => at[i] <= at[j]
    /\ ~gone => at[w] <= Len(rest)
    /\ w = Len(o) => Len(rest) <= at[w]
    /\ w < Len(o) /\ from = "server" => /\ Len(rest) < at[w] + Len(FrameAt(o, w + 1))
                                /\ Match(rest, at[w], FrameAt(o, w + 1))

\* When bytes are lost at the end, the rest is still in step.
LEMMA FollowsCut ==
    ASSUME NEW at, NEW S, NEW o \in Seq(S), NEW n \in Nat, NEW w \in Nat, n <= w, w <= Len(o),
           NEW rest \in Seq(Bytes), NEW from, NEW gone,
           Follows(at, o, n, w, rest, from, gone), NEW left \in Seq(Bytes), Len(left) <= Len(rest),
           \A k \in 1..Len(left) : left[k] = rest[k],
           \A i \in 1..Len(o) : Len(FrameAt(o, i)) \in Nat
    PROVE  Follows(at, o, n, w, left, from, TRUE)
  <1>1. Len(left) \in Nat /\ Len(rest) \in Nat /\ Len(o) \in Nat BY LenProperties
  <1>2. at \in [Nat -> Nat] /\ at[w] \in Nat BY DEF Follows
  <1>3. ASSUME NEW a \in Nat, NEW f, Match(rest, a, f), Len(f) \in Nat PROVE Match(left, a, f)
    <2>1. ASSUME NEW k \in 1..Len(f), a + k <= Len(left) PROVE left[a + k] = f[k]
      <3>1. a + k \in 1..Len(left) /\ a + k <= Len(rest) BY <1>1, <1>3, <2>1
      <3>2. rest[a + k] = f[k] BY <1>3, <3>1 DEF Match
      <3> QED BY <3>1, <3>2
    <2> QED BY <2>1 DEF Match
  <1>4. ASSUME NEW i \in n + 1..w
        PROVE  at[i] = at[i - 1] + Len(FrameAt(o, i)) /\ Match(left, at[i - 1], FrameAt(o, i))
    <2>1. i - 1 \in Nat /\ i \in 1..Len(o) BY <1>1
    <2>2. at[i] = at[i - 1] + Len(FrameAt(o, i)) /\ Match(rest, at[i - 1], FrameAt(o, i)) BY DEF Follows
    <2> QED BY <1>2, <1>3, <2>1, <2>2
  <1>5. w = Len(o) => Len(left) <= at[w] BY <1>1, <1>2 DEF Follows
  <1>6. ASSUME w < Len(o), from = "server"
        PROVE  Len(left) < at[w] + Len(FrameAt(o, w + 1)) /\ Match(left, at[w], FrameAt(o, w + 1))
    <2>1. w + 1 \in 1..Len(o) BY <1>1, <1>6
    <2>2. Len(rest) < at[w] + Len(FrameAt(o, w + 1)) /\ Match(rest, at[w], FrameAt(o, w + 1))
      BY <1>6 DEF Follows
    <2>3. Len(FrameAt(o, w + 1)) \in Nat BY <2>1
    <2>4. PICK y : y = at[w] OBVIOUS
    <2>5. PICK z : z = Len(FrameAt(o, w + 1)) OBVIOUS
    <2>6. Len(left) < y + z BY <1>1, <1>2, <2>2, <2>3, <2>4, <2>5
    <2>7. Match(left, at[w], FrameAt(o, w + 1)) BY <1>2, <1>3, <2>2, <2>3
    <2> QED BY <2>4, <2>5, <2>6, <2>7
  <1> QED BY <1>4, <1>5, <1>6 DEF Follows

\* a is o with e at its end.
Grows(a, o, e) ==
    /\ Len(a) = Len(o) + 1 /\ a[Len(o) + 1] = e
    /\ \A i \in 1..Len(o) : a[i] = o[i]

\* more is rest and the first m bytes of f.
Lengthens(more, rest, f, m) ==
    /\ Len(more) = Len(rest) + m
    /\ \A j \in 1..Len(rest) : more[j] = rest[j]
    /\ \A j \in 1..m : more[Len(rest) + j] = f[j]

\* Lengths are numbers.
Measured(o, rest, f, m) ==
    /\ Len(o) \in Nat /\ Len(rest) \in Nat /\ Len(f) \in Nat /\ m \in 0..Len(f)
    /\ \A i \in 1..Len(o) : Len(FrameAt(o, i)) \in Nat

\* e, of which m bytes are written, makes a of o and v of w; the server writes nothing after a torn frame.
Continues(a, v, o, w, e, f, m, from) ==
    /\ w \in Nat /\ w <= Len(o) /\ (from = "server" => w = Len(o))
    /\ f = Encode(e.pdu) /\ Grows(a, o, e)
    /\ v = (IF w = Len(o) /\ m = Len(f) THEN w + 1 ELSE w)

\* One more frame, whole or cut short.
LEMMA FollowsMore ==
    ASSUME NEW at, NEW o, NEW n \in Nat, NEW w, n <= w, NEW rest, NEW from,
           NEW gone, ~gone, Follows(at, o, n, w, rest, from, gone), NEW e, NEW f, NEW m,
           NEW a, NEW v, Continues(a, v, o, w, e, f, m, from),
           NEW more, Lengthens(more, rest, f, m), Measured(o, rest, f, m)
    PROVE  \E to : Follows(to, a, n, v, more, from, gone)
  <1>0. PICK whole \in BOOLEAN : whole <=> m = Len(f) OBVIOUS
  <1>1. /\ Len(o) \in Nat /\ Len(rest) \in Nat /\ Len(f) \in Nat /\ m \in Nat /\ m <= Len(f)
    BY DEF Measured
  <1>2. /\ w \in Nat /\ w <= Len(o) /\ (from = "server" => w = Len(o)) /\ f = Encode(e.pdu)
        /\ v = (IF w = Len(o) /\ whole THEN w + 1 ELSE w)
    BY <1>0 DEF Continues
  <1>3. /\ Len(a) = Len(o) + 1
        /\ \A i \in 1..Len(o) : a[i] = o[i]
        /\ a[Len(o) + 1] = e
    BY DEF Continues, Grows
  <1>5. Len(f) \in Nat BY <1>1
  <1>8. /\ Len(more) = Len(rest) + m
        /\ \A j \in 1..Len(rest) : more[j] = rest[j]
        /\ \A j \in 1..m : more[Len(rest) + j] = f[j]
    BY DEF Lengthens
  <1>9. /\ at \in [Nat -> Nat] /\ at[w] \in Nat /\ at[w] <= Len(rest)
        /\ w = Len(o) => Len(rest) = at[w]
    <2>1. at \in [Nat -> Nat] /\ at[w] \in Nat BY <1>2 DEF Follows
    <2>2. at[w] <= Len(rest) /\ (w = Len(o) => Len(rest) <= at[w]) BY DEF Follows
    <2>3. PICK y : y = at[w] OBVIOUS
    <2>4. y \in Nat /\ y <= Len(rest) /\ (w = Len(o) => Len(rest) <= y) BY <2>1, <2>2, <2>3
    <2>5. w = Len(o) => Len(rest) = y BY <1>1, <2>4
    <2> QED BY <2>1, <2>2, <2>3, <2>5
  <1>y. PICK y : y = at[w] OBVIOUS
  <1>z. PICK z : z = at[w] + Len(f) OBVIOUS
  <1>yz. y \in Nat /\ z \in Nat /\ z = y + Len(f) /\ y <= Len(rest) /\ y <= z /\ (w = Len(o) => Len(rest) = y)
    <2>1. y \in Nat /\ y <= Len(rest) /\ (w = Len(o) => Len(rest) = y) BY <1>9, <1>y
    <2>2. z = y + Len(f) BY <1>y, <1>z
    <2> QED BY <1>5, <2>1, <2>2
  <1> DEFINE to == [at EXCEPT ![w + 1] = z]
  <1>10. to \in [Nat -> Nat] /\ to[w + 1] = z /\ \A i \in 0..w : to[i] = at[i]
    <2>1. w + 1 \in Nat /\ \A i \in 0..w : i \in Nat /\ i # w + 1 BY <1>2
    <2> QED BY <1>9, <1>yz, <2>1
  <1> HIDE DEF to
  <1>11. to[n] = 0 /\ to[w] = at[w]
    <2>1. n \in 0..w /\ w \in 0..w BY <1>2
    <2> QED BY <1>10, <2>1 DEF Follows
  <1>12. ASSUME NEW i \in n + 1..w
         PROVE  to[i] = to[i - 1] + Len(FrameAt(a, i)) /\ Match(more, to[i - 1], FrameAt(a, i))
    <2>1. i \in 0..w /\ i - 1 \in 0..w /\ i - 1 \in Nat /\ i \in 1..Len(o) /\ i \in n..w /\ w \in n..w /\ i <= w
      BY <1>1, <1>2
    <2>2. to[i] = at[i] /\ to[i - 1] = at[i - 1] BY <1>10, <2>1
    <2>3. PICK h : h = FrameAt(o, i) OBVIOUS
    <2>4. FrameAt(a, i) = h BY <1>3, <2>1, <2>3 DEF FrameAt
    <2>5. at[i] = at[i - 1] + Len(h) /\ Match(rest, at[i - 1], h) BY <2>3 DEF Follows
    <2>6. at[i] <= at[w] BY <2>1 DEF Follows
    <2>7. Len(h) \in Nat BY <2>1, <2>3 DEF Measured
    <2>8. PICK x : x = at[i - 1] OBVIOUS
    <2>9. x \in Nat /\ x + Len(h) <= Len(rest)
      <3>1. x \in Nat /\ at[i] = x + Len(h) BY <1>9, <2>1, <2>5, <2>8
      <3>2. at[i] <= y BY <1>y, <2>6
      <3> QED BY <1>1, <1>yz, <2>7, <3>1, <3>2
    <2>10. ASSUME NEW k \in 1..Len(h) PROVE more[x + k] = h[k]
      <3>1. x + k \in 1..Len(rest) /\ x + k <= Len(rest) BY <1>1, <2>7, <2>9
      <3>2. rest[x + k] = h[k] BY <2>5, <2>8, <3>1 DEF Match
      <3> QED BY <1>8, <3>1, <3>2
    <2>11. Match(more, x, h) BY <2>10 DEF Match
    <2> QED BY <2>2, <2>4, <2>5, <2>8, <2>11
  <1>13. \A i, j \in n..w : i <= j => to[i] <= to[j]
    <2>1. \A i \in n..w : i \in 0..w BY <1>2
    <2>2. \A i, j \in n..w : i <= j => at[i] <= at[j] BY DEF Follows
    <2> QED BY <1>10, <2>1, <2>2
  <1>14. CASE w = Len(o) /\ whole
    <2>1. v = w + 1 /\ m = Len(f) /\ v = Len(a) BY <1>0, <1>2, <1>3, <1>14
    <2>2. FrameAt(a, w + 1) = f BY <1>2, <1>3, <1>14 DEF FrameAt
    <2>3. Len(rest) = at[w] BY <1>9, <1>14
    <2>4. \A k \in 1..Len(f) : more[to[w] + k] = f[k] BY <1>8, <1>11, <2>1, <2>3
    <2>5. Match(more, to[w], f) BY <2>4 DEF Match
    <2>6. ASSUME NEW i \in n + 1..v
          PROVE  to[i] = to[i - 1] + Len(FrameAt(a, i)) /\ Match(more, to[i - 1], FrameAt(a, i))
      <3>1. CASE i = w + 1
        <4>1. i - 1 = w BY <1>2, <3>1
        <4>2. to[i] = z /\ to[i - 1] = y BY <1>10, <1>11, <1>y, <3>1, <4>1
        <4>3. FrameAt(a, i) = f /\ Match(more, y, f) BY <1>11, <1>y, <2>2, <2>5, <3>1
        <4> QED BY <1>yz, <4>2, <4>3
      <3>2. CASE i # w + 1
        <4>1. i \in n + 1..w BY <1>2, <2>1, <3>2
        <4> QED BY <1>12, <4>1
      <3> QED BY <3>1, <3>2
    <2>7. to[v] = z BY <1>10, <2>1
    <2>8. ASSUME NEW i \in n..v, NEW j \in n..v, i <= j PROVE to[i] <= to[j]
      <3>1. CASE j = w + 1
        <4>1. CASE i = w + 1
          <5>1. to[v] \in Nat BY <1>yz, <2>7
          <5> QED BY <2>1, <3>1, <4>1, <5>1
        <4>2. CASE i # w + 1
          <5>1. i \in n..w /\ w \in n..w /\ i <= w /\ i \in Nat BY <1>2, <2>1, <4>2
          <5>2. to[i] <= to[w] BY <1>13, <5>1
          <5>3. to[i] \in Nat BY <1>10, <5>1
          <5>4. to[w] = y /\ to[j] = z BY <1>11, <1>y, <1>10, <3>1
          <5> QED BY <1>yz, <5>2, <5>3, <5>4
        <4> QED BY <4>1, <4>2
      <3>2. CASE j # w + 1
        <4>1. i \in n..w /\ j \in n..w BY <1>2, <2>1, <2>8, <3>2
        <4> QED BY <1>13, <2>8, <4>1
      <3> QED BY <3>1, <3>2
    <2>9. to[v] = Len(more)
      <3>1. Len(more) = Len(rest) + Len(f) /\ Len(rest) = y BY <1>8, <1>yz, <1>14, <2>1
      <3> QED BY <1>yz, <2>7, <3>1
    <2>10. Len(more) \in Nat BY <1>1, <1>8
    <2>11. Len(more) <= to[v] /\ to[v] <= Len(more) /\ ~(v < Len(a)) BY <2>1, <2>9, <2>10, <1>1, <1>3
    <2>12. Follows(to, a, n, v, more, from, gone)
      BY <1>10, <1>11, <2>6, <2>8, <2>11 DEF Follows
    <2> QED BY <2>12
  <1>15. CASE ~(w = Len(o) /\ whole)
    <2>1. v = w /\ v # Len(a) /\ v < Len(a) BY <1>1, <1>2, <1>3, <1>15
    <2>2. to[v] <= Len(more)
      <3>1. to[v] = y BY <1>11, <1>y, <2>1
      <3>2. Len(more) = Len(rest) + m BY <1>8
      <3> QED BY <1>1, <1>yz, <3>1, <3>2
    <2>3. ASSUME from = "server"
          PROVE  Len(more) < to[v] + Len(FrameAt(a, v + 1)) /\ Match(more, to[v], FrameAt(a, v + 1))
      <3>1. w = Len(o) /\ ~whole /\ m # Len(f) BY <1>0, <1>2, <1>15, <2>3
      <3>2. FrameAt(a, v + 1) = f BY <1>2, <1>3, <2>1, <3>1 DEF FrameAt
      <3>3. Len(rest) = to[v] BY <1>yz, <1>y, <1>11, <2>1, <3>1
      <3>4. m < Len(f) BY <1>1, <3>1
      <3>5. Len(more) < to[v] + Len(f) BY <1>1, <1>5, <1>8, <3>3, <3>4
      <3>6. ASSUME NEW k \in 1..Len(f), to[v] + k <= Len(more) PROVE more[to[v] + k] = f[k]
        <4>1. k \in 1..m BY <1>1, <1>5, <1>8, <3>3, <3>6
        <4> QED BY <1>8, <3>3, <4>1
      <3>7. Match(more, to[v], f) BY <3>6 DEF Match
      <3> QED BY <3>2, <3>5, <3>7
    <2>4. Follows(to, a, n, v, more, from, gone)
      BY <1>10, <1>11, <1>12, <1>13, <2>1, <2>2, <2>3 DEF Follows
    <2> QED BY <2>4
  <1> QED BY <1>14, <1>15

\* A PDU is written, whole or cut short.
LEMMA FollowsSend ==
    ASSUME NEW at, NEW o \in Seq(Entries), NEW n \in Nat, NEW w, w = WholeOf(o), n <= w,
           NEW rest \in Seq(Bytes), NEW from, from = "server" => w = Len(o),
           NEW gone, ~gone, Follows(at, o, n, w, rest, from, gone),
           NEW e \in Entries, NEW f, f = Encode(e.pdu), NEW m \in 0..Len(f), e.whole <=> m = Len(f)
    PROVE  \E to : Follows(to, Append(o, e), n, WholeOf(Append(o, e)), rest \o SubSeq(f, 1, m), from, gone)
  <1>1. FirstTorn(o, w) /\ Len(o) \in Nat /\ Len(rest) \in Nat BY WholeOfIs, LenProperties
  <1>2. w \in Nat /\ w <= Len(o) BY <1>1 DEF FirstTorn
  <1>3. PICK a : a = Append(o, e) OBVIOUS
  <1>4. Grows(a, o, e) BY <1>3, AppendProperties DEF Grows
  <1>5. PICK whole : whole = e.whole OBVIOUS
  <1>6. whole \in BOOLEAN /\ (whole <=> m = Len(f)) BY <1>5, EntriesSound
  <1>7. PICK v : v = WholeOf(a) OBVIOUS
  <1>8. v = IF w = Len(o) /\ whole THEN w + 1 ELSE w BY <1>3, <1>5, <1>7, WholeAppend
  <1>9. f \in Seq(Bytes) /\ Len(f) \in Nat BY EntriesSound
  <1>10. PICK g : g = SubSeq(f, 0 + 1, m) OBVIOUS
  <1>11. g \in Seq(Bytes) /\ Len(g) = m /\ \A j \in 1..m : g[j] = f[j]
    <2>1. 0 \in Nat /\ m \in Nat /\ 0 <= m /\ m <= Len(f) /\ f \in Seq(Bytes) BY <1>9
    <2>2. /\ SubSeq(f, 0 + 1, m) \in Seq(Bytes) /\ Len(SubSeq(f, 0 + 1, m)) = m - 0
          /\ \A j \in 1..m - 0 : SubSeq(f, 0 + 1, m)[j] = f[0 + j]
      BY <2>1, CutOut
    <2>3. m - 0 = m /\ \A j \in 1..m : 0 + j = j BY <2>1
    <2> QED BY <1>10, <2>2, <2>3
  <1>12. PICK more : more = rest \o g OBVIOUS
  <1>13. Lengthens(more, rest, f, m)
    <2>1. g \in Seq(Bytes) BY <1>11
    <2>2. /\ rest \o g \in Seq(Bytes) /\ Len(rest \o g) = Len(rest) + Len(g)
          /\ \A j \in 1..Len(rest) : (rest \o g)[j] = rest[j]
          /\ \A j \in 1..Len(g) : (rest \o g)[Len(rest) + j] = g[j]
      BY <2>1, Joined
    <2> QED BY <1>11, <1>12, <2>2 DEF Lengthens
  <1>14. Measured(o, rest, f, m)
    <2>1. ASSUME NEW i \in 1..Len(o) PROVE Len(FrameAt(o, i)) \in Nat
      <3>1. o[i] \in Entries BY ElementOfSeq
      <3> QED BY <3>1, EntriesSound DEF FrameAt
    <2> QED BY <1>1, <1>9, <2>1 DEF Measured
  <1>15. \E to : Follows(to, a, n, v, more, from, gone)
    <2>1. Continues(a, v, o, w, e, f, m, from) BY <1>2, <1>4, <1>6, <1>8 DEF Continues
    <2>2. n \in Nat /\ n <= w /\ ~gone /\ Follows(at, o, n, w, rest, from, gone) OBVIOUS
    <2> QED BY ONLY <1>13, <1>14, <2>1, <2>2, FollowsMore, Zenon
  <1>16. more = rest \o SubSeq(f, 1, m)
    <2>1. 0 + 1 = 1 OBVIOUS
    <2> QED BY <1>10, <1>12, <2>1
  <1> QED BY <1>3, <1>7, <1>15, <1>16

\* The next frame is read.
LEMMA FollowsRead ==
    ASSUME NEW at, NEW o \in Seq(Entries), NEW n \in Nat, NEW w \in Nat, n < w, w <= Len(o),
           NEW rest \in Seq(Bytes), NEW from, NEW gone,
           Follows(at, o, n, w, rest, from, gone),
           NEW l, l = Len(FrameAt(o, n + 1)), l <= Len(rest),
           NEW left \in Seq(Bytes), Len(left) = Len(rest) - l,
           \A k \in 1..Len(left) : left[k] = rest[l + k]
    PROVE  \E to : Follows(to, o, n + 1, w, left, from, gone)
  <1>1. Len(left) \in Nat /\ Len(rest) \in Nat /\ Len(o) \in Nat BY LenProperties
  <1>2. at \in [Nat -> Nat] BY DEF Follows
  <1>3. at[n + 1] = l /\ l \in Nat
    <2>1. n + 1 \in n + 1..w /\ (n + 1) - 1 = n /\ n + 1 \in Nat OBVIOUS
    <2>2. at[n + 1] = at[n] + l /\ at[n] = 0 BY <2>1 DEF Follows
    <2>3. l \in Nat
      <3>1. n + 1 \in 1..Len(o) BY <1>1
      <3>2. o[n + 1] \in Entries BY <3>1, ElementOfSeq
      <3> QED BY <3>2, EntriesSound DEF FrameAt
    <2> QED BY <2>2, <2>3
  <1> DEFINE to == [i \in Nat |-> IF i \in n + 1..w THEN at[i] - l ELSE 0]
  <1>4. ASSUME NEW i \in n + 1..w PROVE to[i] = at[i] - l /\ to[i] \in Nat /\ at[i] \in Nat /\ at[i] >= l
    <2>1. i \in Nat /\ n + 1 \in n..w /\ i \in n..w /\ n + 1 <= i OBVIOUS
    <2>2. at[n + 1] <= at[i] /\ at[i] \in Nat BY <1>2, <2>1 DEF Follows
    <2>3. to[i] = at[i] - l BY <2>1
    <2> HIDE DEF to
    <2> QED BY <1>3, <2>2, <2>3
  <1>5. to \in [Nat -> Nat]
    <2>1. ASSUME NEW i \in Nat PROVE to[i] \in Nat
      <3>1. CASE i \in n + 1..w BY <1>4, <3>1
      <3>2. CASE i \notin n + 1..w BY <3>2
      <3> QED BY <3>1, <3>2
    <2>2. to = [i \in Nat |-> to[i]] OBVIOUS
    <2> HIDE DEF to
    <2> QED BY <2>1, <2>2
  <1> HIDE DEF to
  <1>6. to[n + 1] = 0
    <2>1. n + 1 \in n + 1..w OBVIOUS
    <2> QED BY <1>3, <1>4, <2>1
  <1>7. ASSUME NEW a \in Nat, a >= l, NEW f, Match(rest, a, f), Len(f) \in Nat
        PROVE  Match(left, a - l, f)
    <2>1. ASSUME NEW k \in 1..Len(f), (a - l) + k <= Len(left) PROVE left[(a - l) + k] = f[k]
      <3>1. (a - l) + k \in 1..Len(left) /\ a + k <= Len(rest) /\ l + ((a - l) + k) = a + k
        BY <1>1, <1>3, <1>7, <2>1
      <3>2. rest[a + k] = f[k] BY <1>7, <3>1 DEF Match
      <3> QED BY <3>1, <3>2
    <2> QED BY <2>1 DEF Match
  <1>8. \A i \in 1..Len(o) : Len(FrameAt(o, i)) \in Nat
    <2>1. ASSUME NEW i \in 1..Len(o) PROVE Len(FrameAt(o, i)) \in Nat
      <3>1. o[i] \in Entries BY ElementOfSeq
      <3> QED BY <3>1, EntriesSound DEF FrameAt
    <2> QED BY <2>1
  <1>9. ASSUME NEW i \in (n + 1) + 1..w
        PROVE  to[i] = to[i - 1] + Len(FrameAt(o, i)) /\ Match(left, to[i - 1], FrameAt(o, i))
    <2>1. i \in n + 1..w /\ i - 1 \in n + 1..w /\ i \in 1..Len(o) BY <1>1
    <2>2. PICK f : f = FrameAt(o, i) OBVIOUS
    <2>3. at[i] = at[i - 1] + Len(f) /\ Match(rest, at[i - 1], f) BY <2>1, <2>2 DEF Follows
    <2>4. to[i] = at[i] - l /\ to[i - 1] = at[i - 1] - l /\ at[i - 1] \in Nat /\ at[i - 1] >= l
      BY <1>4, <2>1
    <2>5. Len(f) \in Nat BY <1>8, <2>1, <2>2
    <2>6. Match(left, at[i - 1] - l, f) BY <1>7, <2>3, <2>4, <2>5
    <2>7. to[i] = to[i - 1] + Len(f) BY <1>3, <2>3, <2>4, <2>5
    <2> QED BY <2>2, <2>4, <2>6, <2>7
  <1>10. ASSUME NEW i \in n + 1..w, NEW j \in n + 1..w, i <= j PROVE to[i] <= to[j]
    <2>1. i \in n..w /\ j \in n..w OBVIOUS
    <2>2. at[i] <= at[j] BY <1>10, <2>1 DEF Follows
    <2>3. to[i] = at[i] - l /\ at[i] \in Nat /\ to[j] = at[j] - l /\ at[j] \in Nat BY <1>4
    <2> QED BY <1>3, <2>2, <2>3
  <1>11. w \in n + 1..w /\ to[w] = at[w] - l /\ at[w] \in Nat /\ at[w] >= l
    <2>1. w \in n + 1..w OBVIOUS
    <2> QED BY <1>4, <2>1
  <1>12. ~gone => to[w] <= Len(left)
    <2>1. ~gone => at[w] <= Len(rest) BY DEF Follows
    <2> QED BY <1>1, <1>3, <1>11, <2>1
  <1>13. w = Len(o) => Len(left) <= to[w]
    <2>1. w = Len(o) => Len(rest) <= at[w] BY DEF Follows
    <2> QED BY <1>1, <1>3, <1>11, <2>1
  <1>14. ASSUME w < Len(o), from = "server"
         PROVE  Len(left) < to[w] + Len(FrameAt(o, w + 1)) /\ Match(left, to[w], FrameAt(o, w + 1))
    <2>1. w + 1 \in 1..Len(o) BY <1>1, <1>14
    <2>2. Len(rest) < at[w] + Len(FrameAt(o, w + 1)) /\ Match(rest, at[w], FrameAt(o, w + 1))
      BY <1>14 DEF Follows
    <2>3. Len(FrameAt(o, w + 1)) \in Nat BY <1>8, <2>1
    <2>4. Match(left, at[w] - l, FrameAt(o, w + 1)) BY <1>7, <1>11, <2>2, <2>3
    <2> QED BY <1>1, <1>3, <1>11, <2>2, <2>3, <2>4
  <1>15. Follows(to, o, n + 1, w, left, from, gone)
    BY <1>5, <1>6, <1>9, <1>10, <1>12, <1>13, <1>14 DEF Follows
  <1> QED BY <1>15

-----------------------------------------------------------------------------
(* What the reader finds next *)

\* If a frame comes next, the header that is read is its header, and says how long it is.
LEMMA HeaderAhead ==
    ASSUME NEW e \in Entries, NEW f, f = Encode(e.pdu), NEW rest, Len(rest) \in Nat, Match(rest, 0, f),
           NEW h \in Seq(Bytes), Len(h) = HeaderLength, HeaderLength <= Len(rest),
           \A j \in 1..HeaderLength : h[j] = rest[j]
    PROVE  HeaderOf(h, f) /\ CommandLength(h) = Len(f) /\ Len(f) >= HeaderLength
  <1>1. Sound(e.pdu) /\ Len(f) \in Nat /\ Len(f) = HeaderLength + Len(BodyOf(e.pdu)) /\ Len(BodyOf(e.pdu)) \in Nat
    BY EntriesSound
  <1>2. Len(f) >= HeaderLength BY <1>1 DEF HeaderLength
  <1>3. \A j \in 1..HeaderLength : j \in 1..Len(f) /\ 0 + j <= Len(rest) /\ 0 + j = j
    <2>1. PICK l, m, k : l = Len(f) /\ m = Len(rest) /\ k = HeaderLength OBVIOUS
    <2>2. l \in Nat /\ m \in Nat /\ k \in Nat /\ k <= l /\ k <= m BY <1>1, <1>2, <2>1 DEF HeaderLength
    <2>3. \A j \in 1..k : j \in 1..l /\ 0 + j <= m /\ 0 + j = j BY ONLY <2>2
    <2> QED BY ONLY <2>1, <2>3
  <1>4. \A j \in 1..HeaderLength : h[j] = f[j] BY <1>3 DEF Match
  <1>5. HeaderOf(h, f) BY <1>4 DEF HeaderOf
  <1>6. PICK b : b = BodyOf(e.pdu) OBVIOUS
  <1>7. /\ IsFrame(f, Number(e.pdu.command), e.pdu.status, e.pdu.seq, b)
        /\ Number(e.pdu.command) \in Nat /\ Number(e.pdu.command) < WordSize
        /\ e.pdu.status \in Nat /\ e.pdu.status < WordSize /\ e.pdu.seq \in Nat /\ e.pdu.seq < WordSize
        /\ b \in Seq(Bytes) /\ HeaderLength + Len(b) < WordSize
    BY <1>1, <1>6, SoundFrame
  <1>8. CommandLength(h) = HeaderLength + Len(b) BY <1>5, <1>7, HeaderWords
  <1> QED BY <1>1, <1>2, <1>5, <1>6, <1>8

\* Rest is the header h that was read and the bytes on the wire.
Opens(h, wires, rest) ==
    /\ h \in Seq(Bytes) /\ wires \in Seq(Bytes) /\ rest \in Seq(Bytes)
    /\ Len(h) = HeaderLength /\ Len(rest) = HeaderLength + Len(wires)
    /\ \A j \in 1..HeaderLength : h[j] = rest[j]
    /\ \A j \in 1..Len(wires) : rest[HeaderLength + j] = wires[j]

\* The header and the wire make such a rest.
LEMMA OpensIf ==
    ASSUME NEW h \in Seq(Bytes), NEW wires \in Seq(Bytes), Len(h) = HeaderLength
    PROVE  Opens(h, wires, h \o wires)
  <1>1. /\ h \o wires \in Seq(Bytes) /\ Len(h \o wires) = Len(h) + Len(wires)
        /\ \A j \in 1..Len(h) : (h \o wires)[j] = h[j]
        /\ \A j \in 1..Len(wires) : (h \o wires)[Len(h) + j] = wires[j]
    <2>1. h \in Seq(Bytes) /\ wires \in Seq(Bytes) OBVIOUS
    <2> QED BY ONLY <2>1, Joined
  <1>2. PICK rest : rest = h \o wires OBVIOUS
  <1>3. /\ rest \in Seq(Bytes) /\ Len(rest) = HeaderLength + Len(wires)
        /\ \A j \in 1..HeaderLength : rest[j] = h[j]
        /\ \A j \in 1..Len(wires) : rest[HeaderLength + j] = wires[j]
    BY <1>1, <1>2, Zenon
  <1>4. Opens(h, wires, rest) BY <1>3 DEF Opens
  <1> QED BY <1>2, <1>4

\* While whole frames are ahead, the next one is read.
LEMMA NextFrame ==
    ASSUME NEW at, NEW o \in Seq(Entries), NEW n \in Nat, NEW w \in Nat, n < w, w <= Len(o),
           NEW rest, NEW from, NEW gone, Follows(at, o, n, w, rest, from, gone),
           NEW h, NEW wires, Opens(h, wires, rest)
    PROVE  /\ o[n + 1] \in Entries /\ HeaderOf(h, FrameAt(o, n + 1))
           /\ CommandLength(h) = Len(FrameAt(o, n + 1)) /\ Len(FrameAt(o, n + 1)) >= HeaderLength
           /\ Match(rest, 0, FrameAt(o, n + 1))
  <1>1. Len(o) \in Nat BY LenProperties
  <1>2. n + 1 \in n + 1..w /\ (n + 1) - 1 = n /\ n + 1 \in 1..Len(o) BY <1>1
  <1>3. Match(rest, at[n], FrameAt(o, n + 1)) /\ at[n] = 0 BY <1>2 DEF Follows
  <1>4. o[n + 1] \in Entries BY <1>2, ElementOfSeq
  <1>5. PICK e \in Entries : e = o[n + 1] BY <1>4
  <1>6. PICK f : f = Encode(e.pdu) OBVIOUS
  <1>7. f = FrameAt(o, n + 1) BY <1>5, <1>6 DEF FrameAt
  <1>8. Match(rest, 0, f) BY <1>3, <1>7
  <1>9. /\ h \in Seq(Bytes) /\ Len(h) = HeaderLength /\ Len(rest) \in Nat /\ HeaderLength <= Len(rest)
        /\ \A j \in 1..HeaderLength : h[j] = rest[j]
    <2>1. h \in Seq(Bytes) /\ Len(h) = HeaderLength /\ \A j \in 1..HeaderLength : h[j] = rest[j] BY DEF Opens
    <2>2. Len(rest) = HeaderLength + Len(wires) /\ Len(wires) \in Nat BY LenProperties DEF Opens
    <2> QED BY <2>1, <2>2 DEF HeaderLength
  <1>10. HeaderOf(h, f) /\ CommandLength(h) = Len(f) /\ Len(f) >= HeaderLength
    BY <1>6, <1>8, <1>9, HeaderAhead
  <1> QED BY <1>4, <1>7, <1>8, <1>10

\* With no whole frame ahead there is a torn one, and the header is there only if the client tore it or
\* if less is there than the header says.
LEMMA NoFrame ==
    ASSUME NEW at, NEW o \in Seq(Entries), NEW w \in Nat, w <= Len(o),
           NEW rest, NEW from, NEW gone, Follows(at, o, w, w, rest, from, gone),
           NEW h, NEW wires, Opens(h, wires, rest)
    PROVE  /\ w < Len(o)
           /\ from = "server" => CommandLength(h) >= HeaderLength /\ Len(rest) < CommandLength(h)
  <1>1. Len(o) \in Nat BY LenProperties
  <1>2. /\ h \in Seq(Bytes) /\ Len(h) = HeaderLength /\ Len(rest) \in Nat /\ HeaderLength <= Len(rest)
        /\ \A j \in 1..HeaderLength : h[j] = rest[j]
    <2>1. h \in Seq(Bytes) /\ Len(h) = HeaderLength /\ \A j \in 1..HeaderLength : h[j] = rest[j] BY DEF Opens
    <2>2. Len(rest) = HeaderLength + Len(wires) /\ Len(wires) \in Nat BY LenProperties DEF Opens
    <2> QED BY <2>1, <2>2 DEF HeaderLength
  <1>3. at[w] = 0 /\ (w = Len(o) => Len(rest) <= at[w]) BY DEF Follows
  <1>4. w < Len(o)
    <2>1. w # Len(o) BY <1>2, <1>3 DEF HeaderLength
    <2> QED BY <1>1, <2>1
  <1>5. ASSUME from = "server" PROVE CommandLength(h) >= HeaderLength /\ Len(rest) < CommandLength(h)
    <2>1. PICK f : f = FrameAt(o, w + 1) OBVIOUS
    <2>2. Len(rest) < at[w] + Len(f) /\ Match(rest, at[w], f) BY <1>4, <1>5, <2>1 DEF Follows
    <2>3. w + 1 \in 1..Len(o) BY <1>1, <1>4
    <2>4. o[w + 1] \in Entries BY <2>3, ElementOfSeq
    <2>5. PICK e \in Entries : e = o[w + 1] BY <2>4
    <2>6. f = Encode(e.pdu) BY <2>1, <2>5 DEF FrameAt
    <2>7. Len(f) \in Nat BY <2>6, EntriesSound
    <2>8. Len(rest) < Len(f) /\ Match(rest, 0, f) BY <1>3, <2>2, <2>7
    <2>9. CommandLength(h) = Len(f) /\ Len(f) >= HeaderLength BY <1>2, <2>6, <2>8, HeaderAhead
    <2> QED BY <2>8, <2>9
  <1> QED BY <1>4, <1>5

\* The frame that was read, r, and what the i-th PDU was.
Same(r, e) ==
    /\ r.command = e.pdu.command /\ (r.command = e.built \/ e.built \in Binds \cup BindResponses)
    /\ r.status = e.pdu.status /\ r.seq = e.pdu.seq
    /\ Fits(e.pdu) => r.body = e.pdu.body

\* The wire has the rest of the frame, which are this many bytes.
Awaited(h, wires, wanted) == wanted = CommandLength(h) - HeaderLength /\ wanted <= Len(wires)

\* What is then read, and what is left.
Taken(o, n, w, wires, wanted, from, gone) ==
    /\ wanted \in Nat /\ SubSeq(wires, 0 + 1, wanted) = BodyOf(o[n + 1].pdu)
    /\ \E to : Follows(to, o, n + 1, w, SubSeq(wires, wanted + 1, Len(wires)), from, gone)

\* The body of the next frame is read: it is the body of the PDU that was sent, and all of it.
LEMMA ReadNext ==
    ASSUME NEW at, NEW o \in Seq(Entries), NEW n \in Nat, NEW w \in Nat, n < w, w <= Len(o),
           NEW rest, NEW from, NEW gone, Follows(at, o, n, w, rest, from, gone),
           NEW h, NEW wires, Opens(h, wires, rest),
           NEW wanted, Awaited(h, wires, wanted)
    PROVE  Taken(o, n, w, wires, wanted, from, gone)
  <1>0. wanted = CommandLength(h) - HeaderLength /\ wanted <= Len(wires) BY DEF Awaited
  <1>1. /\ o[n + 1] \in Entries /\ HeaderOf(h, FrameAt(o, n + 1))
        /\ CommandLength(h) = Len(FrameAt(o, n + 1)) /\ Len(FrameAt(o, n + 1)) >= HeaderLength
        /\ Match(rest, 0, FrameAt(o, n + 1))
    BY NextFrame
  <1>2. PICK e \in Entries : e = o[n + 1] BY <1>1
  <1>3. PICK f : f = Encode(e.pdu) OBVIOUS
  <1>4. f = FrameAt(o, n + 1) BY <1>2, <1>3 DEF FrameAt
  <1>5. PICK b : b = BodyOf(e.pdu) OBVIOUS
  <1>6. Sound(e.pdu) /\ Len(f) \in Nat /\ Len(f) = HeaderLength + Len(b) /\ Len(b) \in Nat
    BY <1>3, <1>5, EntriesSound
  <1>7. wanted = Len(b) BY <1>0, <1>1, <1>4, <1>6 DEF HeaderLength
  <1>8. /\ wires \in Seq(Bytes) /\ rest \in Seq(Bytes) /\ Len(wires) \in Nat
        /\ Len(rest) = HeaderLength + Len(wires)
        /\ \A j \in 1..Len(wires) : rest[HeaderLength + j] = wires[j]
    BY LenProperties DEF Opens
  <1>9. IsFrame(f, Number(e.pdu.command), e.pdu.status, e.pdu.seq, b) /\ b \in Seq(Bytes)
    BY <1>3, <1>5, <1>6, SoundFrame
  <1>10. \A j \in 1..Len(b) : wires[0 + j] = b[j]
    <2>1. ASSUME NEW j \in 1..Len(b) PROVE wires[0 + j] = b[j]
      <3>1. /\ j \in 1..Len(wires) /\ 0 + j = j /\ HeaderLength + j \in 1..Len(f)
            /\ 0 + (HeaderLength + j) = HeaderLength + j /\ HeaderLength + j <= Len(rest)
        BY <1>0, <1>6, <1>7, <1>8 DEF HeaderLength
      <3>2. rest[HeaderLength + j] = f[HeaderLength + j] BY <1>1, <1>4, <3>1 DEF Match
      <3>3. f[HeaderLength + j] = b[j] BY <1>9 DEF IsFrame
      <3> QED BY <1>8, <3>1, <3>2, <3>3
    <2> QED BY <2>1
  <1>11. SubSeq(wires, 0 + 1, wanted) = b
    <2>1. 0 \in Nat /\ 0 + Len(b) = wanted /\ 0 + Len(b) <= Len(wires) BY <1>0, <1>6, <1>7
    <2>2. SubSeq(wires, 0 + 1, 0 + Len(b)) = b BY <1>8, <1>9, <1>10, <2>1, CutOutIs
    <2> QED BY <2>1, <2>2
  <1>12. PICK left : left = SubSeq(wires, wanted + 1, Len(wires)) OBVIOUS
  <1>13. wanted \in Nat BY <1>6, <1>7
  <1>14. /\ left \in Seq(Bytes) /\ Len(left) = Len(wires) - wanted
         /\ \A j \in 1..Len(wires) - wanted : left[j] = wires[wanted + j]
    BY <1>0, <1>8, <1>12, <1>13, CutOut
  <1>15. PICK l : l = Len(FrameAt(o, n + 1)) OBVIOUS
  <1>16. l = HeaderLength + wanted /\ l <= Len(rest) /\ Len(left) = Len(rest) - l
    <2>1. l = HeaderLength + wanted BY <1>4, <1>6, <1>7, <1>15
    <2>2. Len(rest) = HeaderLength + Len(wires) /\ Len(wires) \in Nat BY <1>8
    <2>3. Len(left) = Len(wires) - wanted BY <1>14
    <2>4. wanted <= Len(wires) BY <1>0
    <2> QED BY ONLY <1>13, <2>1, <2>2, <2>3, <2>4 DEF HeaderLength
  <1>17. ASSUME NEW k \in 1..Len(left) PROVE left[k] = rest[l + k]
    <2>1. /\ k \in 1..Len(wires) - wanted /\ wanted + k \in 1..Len(wires)
          /\ HeaderLength + (wanted + k) = l + k
      <3>1. Len(left) = Len(wires) - wanted /\ Len(wires) \in Nat BY <1>8, <1>14
      <3>2. l = HeaderLength + wanted /\ k \in 1..Len(left) BY <1>16
      <3> QED BY ONLY <1>13, <3>1, <3>2 DEF HeaderLength
    <2>2. rest[HeaderLength + (wanted + k)] = wires[wanted + k] BY <1>8, <2>1
    <2>3. left[k] = wires[wanted + k] BY <1>14, <2>1
    <2> QED BY <2>1, <2>2, <2>3
  <1>18. \E to : Follows(to, o, n + 1, w, left, from, gone)
    <2>1. left \in Seq(Bytes) /\ rest \in Seq(Bytes) BY <1>8, <1>14
    <2>2. l <= Len(rest) /\ Len(left) = Len(rest) - l BY <1>16
    <2>3. \A k \in 1..Len(left) : left[k] = rest[l + k] BY <1>17
    <2>4. o \in Seq(Entries) /\ n \in Nat /\ w \in Nat /\ n < w /\ w <= Len(o) OBVIOUS
    <2>5. Follows(at, o, n, w, rest, from, gone) OBVIOUS
    <2> QED BY ONLY <1>15, <2>1, <2>2, <2>3, <2>4, <2>5, FollowsRead
  <1> QED BY <1>2, <1>5, <1>11, <1>12, <1>13, <1>18, Zenon DEF Taken

\* What becomes of it.
LEMMA DecodedNext ==
    ASSUME NEW e \in Entries, NEW h, HeaderOf(h, Encode(e.pdu)), NEW r, r = Decode(h, BodyOf(e.pdu))
    PROVE  (Decodable(e.pdu) => r.ok) /\ (r.ok => Same(r.body, e))
  <1>1. Sound(e.pdu) /\ (e.pdu.command = e.built \/ e.built \in Binds \cup BindResponses) BY EntriesSound
  <1>2. PICK p : p = e.pdu OBVIOUS
  <1>3. /\ Decodable(p) => r.ok
        /\ r.ok => /\ r.body.command = p.command /\ r.body.status = p.status /\ r.body.seq = p.seq
                   /\ Fits(p) => r.body.body = p.body
    <2>1. Sound(p) /\ HeaderOf(h, Encode(p)) /\ r = Decode(h, BodyOf(p)) BY <1>1, <1>2
    <2> QED BY <2>1, DecodeSent, Zenon
  <1> QED BY <1>1, <1>2, <1>3, Zenon DEF Same

-----------------------------------------------------------------------------
(* The inductive invariant *)

\* What the decoder makes of two pieces of the stream.
Results == {Decode(h, d).body : h \in Seq(Bytes), d \in Seq(Bytes)}

\* Every PDU in out is one that client or server builds, and a header that was read is a whole one.
Types ==
    /\ sender \in {"client", "server"} /\ sequenceNum \in 1..WordSize - 1
    /\ active \in BOOLEAN /\ cut \in BOOLEAN /\ failed \in BOOLEAN
    /\ out \in Seq(Entries) /\ wire \in Seq(Bytes) /\ in \in Seq(Results)
    /\ header \in Seq(Bytes)
    /\ header = <<>> \/ (Len(header) = HeaderLength /\ CommandLength(header) >= HeaderLength)

\* FramesInStep, of what was read and what was sent.
ReadAs(s, o, w) == \A i \in 1..Len(s) : i <= w => Same(s[i], o[i])

\* ReaderFailsForCause, of a reader with n PDUs.
Caused(gone, o, n, w) == gone \/ w < Len(o) \/ (n < Len(o) /\ ~Decodable(o[n + 1].pdu))

\* The server stops at the first torn frame, no PDU is made of nothing, and none of the server's torn
\* frame, when n PDUs have been read and w were written whole.
Counts(from, on, o, n, w) ==
    /\ from = "server" /\ on => w = Len(o)
    /\ w = Len(o) => n <= w
    /\ from = "server" => n <= w

\* As long as nothing of a torn frame has been read, the rest of the stream is in step.
InStep(down, o, n, w, rest, from, gone) ==
    ~down /\ n <= w => \E at : Follows(at, o, n, w, rest, from, gone)

\* The inductive invariant.
Inv ==
    /\ Types
    /\ Counts(sender, active, out, Len(in), WholeOf(out))
    /\ InStep(failed, out, Len(in), WholeOf(out), header \o wire, sender, cut)
    /\ ReadAs(in, out, WholeOf(out))
    /\ failed => Caused(cut, out, Len(in), WholeOf(out))

\* The invariant has the three properties.
LEMMA InvImplies ==
    ASSUME Inv
    PROVE  FramesInStep /\ NoPduFromTornFrame /\ ReaderFailsForCause
  <1>1. Whole = WholeOf(out) BY DEF Whole, WholeOf
  <1>2. in \in Seq(Results) /\ DOMAIN in = 1..Len(in) BY LenProperties DEF Inv, Types
  <1>3. FramesInStep
    <2>1. ReadAs(in, out, Whole) BY <1>1 DEF Inv
    <2>2. ASSUME NEW i \in 1..Len(in), i <= Whole PROVE Same(in[i], out[i]) BY <2>1, <2>2, Zenon DEF ReadAs
    <2> QED BY <1>2, <2>2, Zenon DEF FramesInStep, Same
  <1>4. NoPduFromTornFrame BY <1>1 DEF Inv, Counts, NoPduFromTornFrame
  <1>5. ReaderFailsForCause BY <1>1 DEF Inv, Caused, ReaderFailsForCause
  <1> QED BY <1>3, <1>4, <1>5

\* Nothing is sent and nothing read.
LEMMA InitInv ==
    ASSUME Init
    PROVE  Inv
  <1>1. PICK e : e = <<>> OBVIOUS
  <1>2. /\ out = e /\ in = e /\ header = e /\ wire = e /\ failed = FALSE /\ cut = FALSE /\ active = TRUE
        /\ sender \in {"client", "server"} /\ sequenceNum \in StartSeqs
    BY <1>1 DEF Init
  <1>3. Len(e) = 0 /\ e \in Seq(Entries) /\ e \in Seq(Results) /\ e \in Seq(Bytes) BY <1>1, EmptySeq
  <1>4. e \o e = e BY <1>1, <1>3, ConcatEmptySeq
  <1>5. WholeOf(e) = 0
    <2>1. FirstTorn(e, WholeOf(e)) BY <1>3, WholeOfIs
    <2> QED BY <1>3, <2>1 DEF FirstTorn
  <1>6. Types
    <2>1. sequenceNum \in 1..WordSize - 1 BY <1>2, CodecAssumption
    <2> QED BY <1>1, <1>2, <1>3, <2>1 DEF Types
  <1>7. Follows([i \in Nat |-> 0], e, 0, 0, e, sender, cut)
    <2>1. PICK at : at = [i \in Nat |-> 0] OBVIOUS
    <2>2. at \in [Nat -> Nat] /\ at[0] = 0 BY <2>1
    <2>3. Follows(at, e, 0, 0, e, sender, cut) BY <1>3, <2>2 DEF Follows
    <2> QED BY <2>1, <2>3
  <1>8. Counts(sender, active, e, 0, 0) /\ ReadAs(e, e, 0) BY <1>3 DEF Counts, ReadAs
  <1>9. InStep(failed, e, 0, 0, e, sender, cut) BY <1>7 DEF InStep
  <1> QED BY <1>2, <1>3, <1>4, <1>5, <1>6, <1>8, <1>9 DEF Inv

\* What is written is a PDU that one of the two builds.
LEMMA WrittenBuilt ==
    ASSUME NEW seq \in 1..WordSize - 1, NEW p \in Asking(seq) \cup Answering(seq)
    PROVE  p \in Built
  <1>1. p \in ClientRequests(seq) \cup ServerRequests(seq) \cup ClientAnswers(seq)
              \cup BindAnswers(seq) \cup OperationAnswers(seq) \cup LinkAnswers(seq)
    BY DEF Asking, Answering
  <1> QED BY <1>1 DEF Built

\* The entry that is made of a PDU.
LEMMA WrittenEntry ==
    ASSUME NEW p \in Built, NEW n,
           NEW e, e = [built |-> p.command, whole |-> n = Len(Encode(p)),
                       pdu |-> [p EXCEPT !.command = CommandID(p.command)]]
    PROVE  e \in Entries /\ Encode(e.pdu) = Encode(p) /\ (e.whole <=> n = Len(Encode(p)))
  <1>1. PICK b \in BOOLEAN : b = (n = Len(Encode(p))) OBVIOUS
  <1>2. e = [built |-> p.command, whole |-> b, pdu |-> Stamped(p)] BY <1>1, Zenon DEF Stamped
  <1>3. e \in Entries BY <1>2 DEF Entries
  <1>4. e.pdu = Stamped(p) /\ e.whole = b BY <1>2
  <1>5. Encode(p) = Encode(Stamped(p))
    <2>1. PICK seq \in 1..WordSize - 1 :
            p \in ClientRequests(seq) \cup ServerRequests(seq) \cup ClientAnswers(seq)
                  \cup BindAnswers(seq) \cup OperationAnswers(seq) \cup LinkAnswers(seq)
      BY DEF Built
    <2>2. seq \in 0..WordSize - 1 BY ByteFacts
    <2>3. Sendable(p) BY <2>1, <2>2, BuiltSendable
    <2> QED BY <2>3 DEF Sendable
  <1> QED BY <1>1, <1>3, <1>4, <1>5

-----------------------------------------------------------------------------
(* One lemma per action *)

\* What the state's counters are.
LEMMA InvCounts ==
    ASSUME Inv
    PROVE  /\ Len(in) \in Nat /\ Len(out) \in Nat /\ WholeOf(out) \in Nat /\ WholeOf(out) <= Len(out)
           /\ Len(wire) \in Nat /\ Len(header) \in Nat
           /\ header \o wire \in Seq(Bytes) /\ Len(header \o wire) = Len(header) + Len(wire)
  <1>1. out \in Seq(Entries) /\ in \in Seq(Results) /\ wire \in Seq(Bytes) /\ header \in Seq(Bytes)
    BY DEF Inv, Types
  <1>2. Len(in) \in Nat /\ Len(out) \in Nat /\ Len(wire) \in Nat /\ Len(header) \in Nat
    BY <1>1, LenProperties
  <1>3. FirstTorn(out, WholeOf(out)) BY <1>1, WholeOfIs
  <1>4. WholeOf(out) \in Nat /\ WholeOf(out) <= Len(out) BY <1>2, <1>3 DEF FirstTorn
  <1>5. header \o wire \in Seq(Bytes) /\ Len(header \o wire) = Len(header) + Len(wire) BY ONLY <1>1, Joined
  <1> QED BY <1>2, <1>4, <1>5

\* sendPDU and Send keep the invariant.
LEMMA WriteInv ==
    ASSUME Inv, MaySend, NEW p \in Built, Write(p), sequenceNum' \in 1..WordSize - 1
    PROVE  Inv'
  <1>1. PICK f : f = Encode(p) OBVIOUS
  <1>2. PICK m \in {Len(f)} \cup {k \in Breaks : k < Len(f)} :
          /\ out' = Append(out, [built |-> p.command, whole |-> m = Len(f),
                                 pdu |-> [p EXCEPT !.command = CommandID(p.command)]])
          /\ wire' = wire \o SubSeq(f, 1, m)
          /\ active' = (sender = "server" => m = Len(f))
    BY <1>1 DEF Write
  <1>3. PICK e : e = [built |-> p.command, whole |-> m = Len(Encode(p)),
                      pdu |-> [p EXCEPT !.command = CommandID(p.command)]]
    OBVIOUS
  <1>4. e \in Entries /\ f = Encode(e.pdu) /\ (e.whole <=> m = Len(f))
    <2>1. e \in Entries /\ Encode(e.pdu) = Encode(p) /\ (e.whole <=> m = Len(Encode(p)))
      BY ONLY p \in Built, <1>3, WrittenEntry, Zenon
    <2> QED BY <1>1, <2>1, Zenon
  <1>5. out' = Append(out, e) BY <1>1, <1>2, <1>3, Zenon
  <1>6. /\ sender' = sender /\ cut' = cut /\ header' = header /\ in' = in /\ failed' = failed
        /\ active /\ ~cut
    BY DEF Write, MaySend
  <1>7. f \in Seq(Bytes) /\ Len(f) \in Nat BY <1>4, EntriesSound
  <1>8. m \in 0..Len(f)
    <2>1. m = Len(f) \/ (m \in Nat /\ m < Len(f)) BY <1>2, CodecAssumption
    <2> QED BY <1>7, <2>1
  <1>9. /\ sender \in {"client", "server"} /\ out \in Seq(Entries) /\ wire \in Seq(Bytes)
        /\ in \in Seq(Results) /\ header \in Seq(Bytes)
    BY DEF Inv, Types
  <1>10. PICK g : g = SubSeq(f, 1, m) OBVIOUS
  <1>11. g \in Seq(Bytes)
    <2>1. 0 \in Nat /\ m \in Nat /\ 0 <= m /\ m <= Len(f) BY <1>7, <1>8
    <2>2. SubSeq(f, 0 + 1, m) \in Seq(Bytes) BY <1>7, <2>1, CutOut
    <2>3. 0 + 1 = 1 OBVIOUS
    <2> QED BY <1>10, <2>2, <2>3
  <1>12. out' \in Seq(Entries) /\ Len(out') = Len(out) + 1 /\ \A i \in 1..Len(out) : out'[i] = out[i]
    BY <1>4, <1>5, <1>9, AppendProperties
  <1>13. wire' \in Seq(Bytes)
    <2>1. wire \o g \in Seq(Bytes) BY <1>9, <1>11, ConcatProperties
    <2> QED BY <1>2, <1>10, <2>1
  <1>14. active' \in BOOLEAN BY <1>2
  <1>15. Types' BY <1>6, <1>12, <1>13, <1>14 DEF Inv, Types
  <1>16. PICK n : n = Len(in) OBVIOUS
  <1>17. PICK w : w = WholeOf(out) OBVIOUS
  <1>18. PICK v : v = WholeOf(out') OBVIOUS
  <1>19. v = IF w = Len(out) /\ m = Len(f) THEN w + 1 ELSE w
    <2>1. WholeOf(Append(out, e)) = IF w = Len(out) /\ e.whole THEN w + 1 ELSE w
      BY <1>4, <1>9, <1>17, WholeAppend
    <2> QED BY <1>4, <1>5, <1>18, <2>1
  <1>20. n \in Nat /\ Len(out) \in Nat /\ w \in Nat /\ w <= Len(out) BY <1>16, <1>17, InvCounts
  <1>21. Counts(sender, active, out, n, w) /\ InStep(failed, out, n, w, header \o wire, sender, cut)
         /\ ReadAs(in, out, w) /\ (failed => Caused(cut, out, n, w))
    BY <1>16, <1>17 DEF Inv
  <1>22. /\ sender = "server" => w = Len(out)
         /\ w = Len(out) => n <= w
         /\ sender = "server" => n <= w
    BY <1>6, <1>21 DEF Counts
  <1>23. n <= v => n <= w BY <1>19, <1>20, <1>22
  <1>24. Counts(sender, active', out', n, v)
    <2>1. sender = "server" /\ active' => v = Len(out') BY <1>2, <1>12, <1>19, <1>22
    <2>2. v = Len(out') => n <= v BY <1>12, <1>19, <1>20, <1>22
    <2>3. sender = "server" => n <= v BY <1>19, <1>20, <1>22
    <2> QED BY <2>1, <2>2, <2>3 DEF Counts
  <1>25. ReadAs(in, out', v)
    <2>1. ASSUME NEW i \in 1..Len(in), i <= v PROVE Same(in[i], out'[i])
      <3>1. i <= w BY <1>16, <1>19, <1>20, <1>22, <2>1
      <3>2. i \in 1..Len(out) BY <1>20, <3>1, <1>16
      <3>3. out'[i] = out[i] BY <1>12, <3>2
      <3>4. Same(in[i], out[i]) BY <1>21, <3>1 DEF ReadAs
      <3> QED BY <3>3, <3>4
    <2> QED BY <2>1 DEF ReadAs
  <1>26. failed => Caused(cut, out', n, v)
    <2>1. CASE w < Len(out)
      <3>1. v < Len(out') BY <1>12, <1>19, <1>20, <2>1
      <3> QED BY <3>1 DEF Caused
    <2>2. CASE n < Len(out) /\ ~Decodable(out[n + 1].pdu)
      <3>1. n + 1 \in 1..Len(out) /\ n < Len(out') BY <1>12, <1>20, <2>2
      <3>2. out'[n + 1] = out[n + 1] BY <1>12, <3>1
      <3> QED BY <2>2, <3>1, <3>2 DEF Caused
    <2> QED BY <1>6, <1>21, <2>1, <2>2 DEF Caused
  <1>27. InStep(failed, out', n, v, header \o wire', sender, cut)
    <2> SUFFICES ASSUME ~failed, n <= v PROVE \E to : Follows(to, out', n, v, header \o wire', sender, cut)
      BY DEF InStep
    <2>1. n <= w BY <1>23
    <2>2. PICK at : Follows(at, out, n, w, header \o wire, sender, cut) BY <1>21, <2>1 DEF InStep
    <2>3. PICK rest : rest = header \o wire OBVIOUS
    <2>4. rest \in Seq(Bytes) BY <2>3, InvCounts
    <2>5. Follows(at, out, n, w, rest, sender, cut) BY <2>2, <2>3
    <2>6. \E to : Follows(to, Append(out, e), n, WholeOf(Append(out, e)), rest \o SubSeq(f, 1, m), sender, cut)
      <3>1. out \in Seq(Entries) /\ n \in Nat /\ n <= w /\ rest \in Seq(Bytes) BY <1>9, <1>20, <2>1, <2>4
      <3>2. (sender = "server" => w = Len(out)) /\ ~cut BY <1>6, <1>22
      <3> QED BY ONLY <1>4, <1>8, <1>17, <2>5, <3>1, <3>2, FollowsSend
    <2>7. rest \o SubSeq(f, 1, m) = header \o wire'
      <3>1. PICK x, y, B : x = header /\ y = wire /\ B = Bytes OBVIOUS
      <3>2. x \in Seq(B) /\ y \in Seq(B) /\ g \in Seq(B) BY ONLY <1>9, <1>11, <3>1
      <3>3. (x \o y) \o g = x \o (y \o g) BY ONLY <3>2, ConcatAssociative
      <3> QED BY <1>2, <1>10, <2>3, <3>1, <3>3, Zenon
    <2>8. Append(out, e) = out' /\ WholeOf(Append(out, e)) = v BY <1>5, <1>18
    <2> QED BY <2>6, <2>7, <2>8, Zenon
  <1>28. Counts(sender', active', out', Len(in'), WholeOf(out')) BY <1>6, <1>16, <1>18, <1>24
  <1>29. InStep(failed', out', Len(in'), WholeOf(out'), header' \o wire', sender', cut')
    BY <1>6, <1>16, <1>18, <1>27
  <1>30. ReadAs(in', out', WholeOf(out')) BY <1>6, <1>18, <1>25
  <1>31. failed' => Caused(cut', out', Len(in'), WholeOf(out')) BY <1>6, <1>16, <1>18, <1>26
  <1> QED BY <1>15, <1>28, <1>29, <1>30, <1>31 DEF Inv

\* The end of the stream.
LEMMA CutInv ==
    ASSUME Inv, Cut
    PROVE  Inv'
  <1>1. PICK m \in Breaks \cup {0, Len(wire)} : m <= Len(wire) /\ wire' = SubSeq(wire, 1, m) BY DEF Cut
  <1>2. /\ cut' = TRUE /\ sender' = sender /\ sequenceNum' = sequenceNum /\ active' = active
        /\ out' = out /\ header' = header /\ in' = in /\ failed' = failed
    BY DEF Cut
  <1>3. /\ out \in Seq(Entries) /\ wire \in Seq(Bytes) /\ in \in Seq(Results) /\ header \in Seq(Bytes)
    BY DEF Inv, Types
  <1>4. /\ Len(in) \in Nat /\ Len(out) \in Nat /\ WholeOf(out) \in Nat /\ WholeOf(out) <= Len(out)
        /\ Len(wire) \in Nat /\ Len(header) \in Nat
        /\ header \o wire \in Seq(Bytes) /\ Len(header \o wire) = Len(header) + Len(wire)
    BY InvCounts
  <1>5. m \in Nat /\ m <= Len(wire) BY <1>1, <1>4, CodecAssumption
  <1>6. wire' \in Seq(Bytes) /\ Len(wire') = m /\ \A j \in 1..m : wire'[j] = wire[j]
    <2>1. 0 \in Nat /\ 0 <= m BY <1>5
    <2>2. /\ SubSeq(wire, 0 + 1, m) \in Seq(Bytes) /\ Len(SubSeq(wire, 0 + 1, m)) = m - 0
          /\ \A j \in 1..m - 0 : SubSeq(wire, 0 + 1, m)[j] = wire[0 + j]
      BY <1>3, <1>5, <2>1, CutOut
    <2>3. 0 + 1 = 1 /\ m - 0 = m /\ \A j \in 1..m : 0 + j = j BY <1>5
    <2> QED BY <1>1, <2>2, <2>3
  <1>7. Types' BY <1>2, <1>6 DEF Inv, Types
  <1>8. InStep(failed, out, Len(in), WholeOf(out), header \o wire', sender, TRUE)
    <2> SUFFICES ASSUME ~failed, Len(in) <= WholeOf(out)
                 PROVE  \E at : Follows(at, out, Len(in), WholeOf(out), header \o wire', sender, TRUE)
      BY DEF InStep
    <2>1. PICK at : Follows(at, out, Len(in), WholeOf(out), header \o wire, sender, cut) BY DEF Inv, InStep
    <2>2. PICK rest : rest = header \o wire OBVIOUS
    <2>3. PICK left : left = header \o wire' OBVIOUS
    <2>4. /\ rest \in Seq(Bytes) /\ Len(rest) = Len(header) + Len(wire)
          /\ \A j \in 1..Len(header) : rest[j] = header[j]
          /\ \A j \in 1..Len(wire) : rest[Len(header) + j] = wire[j]
      <3>1. /\ header \o wire \in Seq(Bytes) /\ Len(header \o wire) = Len(header) + Len(wire)
            /\ \A j \in 1..Len(header) : (header \o wire)[j] = header[j]
            /\ \A j \in 1..Len(wire) : (header \o wire)[Len(header) + j] = wire[j]
        BY ONLY <1>3, Joined
      <3> QED BY <2>2, <3>1, Zenon
    <2>5. /\ left \in Seq(Bytes) /\ Len(left) = Len(header) + m
          /\ \A j \in 1..Len(header) : left[j] = header[j]
          /\ \A j \in 1..m : left[Len(header) + j] = wire'[j]
      <3>0. wire' \in Seq(Bytes) /\ header \in Seq(Bytes) BY <1>3, <1>6
      <3>1. /\ header \o wire' \in Seq(Bytes) /\ Len(header \o wire') = Len(header) + Len(wire')
            /\ \A j \in 1..Len(header) : (header \o wire')[j] = header[j]
            /\ \A j \in 1..Len(wire') : (header \o wire')[Len(header) + j] = wire'[j]
        BY ONLY <3>0, Joined
      <3> QED BY <1>6, <2>3, <3>1, Zenon
    <2>6. Len(left) <= Len(rest) BY <1>4, <1>5, <2>4, <2>5
    <2>7. ASSUME NEW k \in 1..Len(left) PROVE left[k] = rest[k]
      <3>1. CASE k <= Len(header)
        <4>1. k \in 1..Len(header) BY <1>4, <3>1
        <4> QED BY <2>4, <2>5, <4>1
      <3>2. CASE ~(k <= Len(header))
        <4>1. k - Len(header) \in 1..m /\ k - Len(header) \in 1..Len(wire)
              /\ Len(header) + (k - Len(header)) = k
          BY <1>4, <1>5, <2>5, <3>2
        <4> QED BY <1>6, <2>4, <2>5, <4>1
      <3> QED BY <3>1, <3>2
    <2>8. \A i \in 1..Len(out) : Len(FrameAt(out, i)) \in Nat
      <3>1. ASSUME NEW i \in 1..Len(out) PROVE Len(FrameAt(out, i)) \in Nat
        <4>1. out[i] \in Entries BY <1>3, ElementOfSeq
        <4> QED BY <4>1, EntriesSound DEF FrameAt
      <3> QED BY <3>1
    <2>9. Follows(at, out, Len(in), WholeOf(out), rest, sender, cut) BY <2>1, <2>2
    <2>10. Len(in) <= WholeOf(out) OBVIOUS
    <2>11. \A k \in 1..Len(left) : left[k] = rest[k] BY <2>7
    <2>12. Follows(at, out, Len(in), WholeOf(out), left, sender, TRUE)
      BY ONLY <1>3, <1>4, <2>4, <2>5, <2>6, <2>8, <2>9, <2>10, <2>11, FollowsCut
    <2> QED BY <2>3, <2>12
  <1>9. InStep(failed', out', Len(in'), WholeOf(out'), header' \o wire', sender', cut') BY <1>2, <1>8
  <1>10. Counts(sender', active', out', Len(in'), WholeOf(out')) BY <1>2 DEF Inv
  <1>11. ReadAs(in', out', WholeOf(out')) BY <1>2 DEF Inv
  <1>12. Caused(cut', out', Len(in'), WholeOf(out')) BY <1>2 DEF Caused
  <1> QED BY <1>7, <1>9, <1>10, <1>11, <1>12 DEF Inv

\* The length in a header is a number.
LEMMA LengthIsNat ==
    ASSUME NEW h \in Seq(Bytes), Len(h) = HeaderLength
    PROVE  CommandLength(h) \in Nat
  <1>1. 0 \in Nat /\ 4 \in Nat /\ 0 <= 4 /\ 4 <= Len(h) /\ 0 + 1 = 1 BY DEF HeaderLength
  <1>2. SubSeq(h, 0 + 1, 4) \in Seq(Bytes)
    <2>1. h \in Seq(Bytes) OBVIOUS
    <2> QED BY ONLY <1>1, <2>1, CutOut
  <1>3. PICK t : t = SubSeq(h, 1, 4) OBVIOUS
  <1>4. t \in Seq(Bytes) BY <1>1, <1>2, <1>3
  <1>5. \A x \in Bytes : x \in Nat BY ByteFacts
  <1>6. t \in Seq(Nat)
    <2>1. Len(t) \in Nat /\ \A i \in 1..Len(t) : t[i] \in Bytes BY <1>4, LenProperties, ElementOfSeq
    <2> HIDE DEF Bytes
    <2>2. DOMAIN t = 1..Len(t) /\ t = [i \in 1..Len(t) |-> t[i]] BY <1>4, LenProperties
    <2>3. t \in [1..Len(t) -> Nat] BY <1>5, <2>1, <2>2
    <2> QED BY <2>1, <2>3, FunIsSeq
  <1> QED BY <1>3, <1>6, FromUintIs DEF CommandLength

\* The header is read, or refused.
LEMMA ReadHeaderInv ==
    ASSUME Inv, ReadHeader
    PROVE  Inv'
  <1>1. PICK z : z = <<>> OBVIOUS
  <1>2. /\ ~failed /\ header = z /\ Len(wire) >= HeaderLength
        /\ sender' = sender /\ sequenceNum' = sequenceNum /\ active' = active
        /\ out' = out /\ cut' = cut /\ in' = in
    BY <1>1 DEF ReadHeader, Wanted
  <1>3. PICK head : head = SubSeq(wire, 1, HeaderLength) OBVIOUS
  <1>4. PICK left : left = SubSeq(wire, HeaderLength + 1, Len(wire)) OBVIOUS
  <1>5. /\ wire' = left
        /\ IF CommandLength(head) < HeaderLength
           THEN failed' = TRUE /\ header' = header
           ELSE header' = head /\ failed' = failed
    BY <1>3, <1>4 DEF ReadHeader
  <1>6. out \in Seq(Entries) /\ wire \in Seq(Bytes) /\ in \in Seq(Results) /\ header \in Seq(Bytes)
    BY DEF Inv, Types
  <1>7. Len(wire) \in Nat /\ HeaderLength \in Nat /\ Len(in) \in Nat /\ Len(out) \in Nat
        /\ WholeOf(out) \in Nat /\ WholeOf(out) <= Len(out)
    BY InvCounts DEF HeaderLength
  <1>8. head \in Seq(Bytes) /\ Len(head) = HeaderLength
    <2>1. 0 \in Nat /\ 0 <= HeaderLength /\ HeaderLength - 0 = HeaderLength /\ 0 + 1 = 1 BY DEF HeaderLength
    <2>2. HeaderLength <= Len(wire) BY <1>2, <1>7
    <2>3. /\ SubSeq(wire, 0 + 1, HeaderLength) \in Seq(Bytes)
          /\ Len(SubSeq(wire, 0 + 1, HeaderLength)) = HeaderLength - 0
      BY <1>6, <1>7, <2>1, <2>2, CutOut
    <2> QED BY <1>3, <2>1, <2>3
  <1>9. left \in Seq(Bytes)
    <2>1. HeaderLength <= Len(wire) /\ Len(wire) <= Len(wire) BY <1>2, <1>7
    <2> QED BY <1>4, <1>6, <1>7, <2>1, CutOut
  <1>10. head \o left = wire
    <2>1. 1 \in 1..Len(wire) + 1 /\ HeaderLength \in 1 - 1..Len(wire) /\ Len(wire) \in HeaderLength..Len(wire)
      BY <1>2, <1>7 DEF HeaderLength
    <2>2. SubSeq(wire, 1, HeaderLength) \o SubSeq(wire, HeaderLength + 1, Len(wire)) = SubSeq(wire, 1, Len(wire))
      BY <1>6, <2>1, ConcatAdjacentSubSeq
    <2>3. SubSeq(wire, 1, Len(wire)) = wire BY <1>6, SubSeqFull
    <2> QED BY <1>3, <1>4, <2>2, <2>3
  <1>11. header \o wire = wire BY <1>1, <1>2, <1>6, ConcatEmptySeq
  <1>12. Opens(head, left, wire)
    <2>1. Opens(head, left, head \o left) BY <1>8, <1>9, OpensIf
    <2> QED BY <1>10, <2>1
  <1>13. PICK n \in Nat : n = Len(in) BY <1>7
  <1>14. PICK w \in Nat : w = WholeOf(out) BY <1>7
  <1>15. /\ Counts(sender, active, out, n, w) /\ ReadAs(in, out, w)
         /\ n <= w => \E at : Follows(at, out, n, w, wire, sender, cut)
    BY <1>2, <1>11, <1>13, <1>14 DEF Inv, InStep
  <1>16. CASE CommandLength(head) < HeaderLength
    <2>1. failed' = TRUE /\ header' = header BY <1>5, <1>16
    <2>2. w < Len(out)
      <3> SUFFICES ASSUME w = Len(out) PROVE FALSE BY <1>7, <1>14
      <3>1. n <= w BY <1>15 DEF Counts
      <3>2. PICK at : Follows(at, out, n, w, wire, sender, cut) BY <1>15, <3>1
      <3>3. n < w
        <4>1. CASE n = w
          <5>1. Follows(at, out, w, w, wire, sender, cut) /\ w <= Len(out) BY <1>7, <1>14, <3>2, <4>1
          <5>2. w < Len(out) BY ONLY <1>6, <1>12, <5>1, w \in Nat, NoFrame
          <5> QED BY <1>7, <5>2
        <4> QED BY <3>1, <4>1
      <3>4. CommandLength(head) = Len(FrameAt(out, n + 1)) /\ Len(FrameAt(out, n + 1)) >= HeaderLength
        <4>1. w <= Len(out) BY <1>7, <1>14
        <4> QED BY ONLY <1>6, <1>12, <3>2, <3>3, <4>1, n \in Nat, w \in Nat, NextFrame
      <3>5. out[n + 1] \in Entries
        <4>1. n + 1 \in 1..Len(out) BY <1>7, <3>3
        <4> QED BY <1>6, <4>1, ElementOfSeq
      <3>6. Len(FrameAt(out, n + 1)) \in Nat BY <3>5, EntriesSound DEF FrameAt
      <3> QED BY <1>16, <1>7, <3>4, <3>6
    <2>3. Types' BY <1>2, <1>5, <1>9, <2>1 DEF Inv, Types
    <2>4. Counts(sender', active', out', Len(in'), WholeOf(out')) BY <1>2 DEF Inv
    <2>5. ReadAs(in', out', WholeOf(out')) BY <1>2 DEF Inv
    <2>6. Caused(cut', out', Len(in'), WholeOf(out')) BY <1>2, <1>14, <2>2 DEF Caused
    <2>7. InStep(failed', out', Len(in'), WholeOf(out'), header' \o wire', sender', cut') BY <2>1 DEF InStep
    <2> QED BY <2>3, <2>4, <2>5, <2>6, <2>7 DEF Inv
  <1>17. CASE ~(CommandLength(head) < HeaderLength)
    <2>1. header' = head /\ failed' = failed BY <1>5, <1>17
    <2>2. CommandLength(head) >= HeaderLength
      <3>1. CommandLength(head) \in Nat BY <1>8, LengthIsNat
      <3> QED BY <1>7, <1>17, <3>1
    <2>3. Types' BY <1>2, <1>5, <1>8, <1>9, <2>1, <2>2 DEF Inv, Types
    <2>4. header' \o wire' = header \o wire BY <1>5, <1>10, <1>11, <2>1
    <2>5. InStep(failed', out', Len(in'), WholeOf(out'), header' \o wire', sender', cut')
      BY <1>2, <2>1, <2>4 DEF Inv
    <2>6. Counts(sender', active', out', Len(in'), WholeOf(out')) BY <1>2 DEF Inv
    <2>7. ReadAs(in', out', WholeOf(out')) BY <1>2 DEF Inv
    <2> QED BY <1>2, <2>1, <2>3, <2>5, <2>6, <2>7 DEF Inv
  <1> QED BY <1>16, <1>17

\* The body is read, and decoded or not.
LEMMA ReadBodyInv ==
    ASSUME Inv, ReadBody
    PROVE  Inv'
  <1>1. PICK z : z = <<>> OBVIOUS
  <1>2. /\ ~failed /\ header # z /\ header' = z
        /\ sender' = sender /\ sequenceNum' = sequenceNum /\ active' = active /\ out' = out /\ cut' = cut
    BY <1>1 DEF ReadBody
  <1>3. out \in Seq(Entries) /\ wire \in Seq(Bytes) /\ in \in Seq(Results) /\ header \in Seq(Bytes)
    BY DEF Inv, Types
  <1>4. Len(header) = HeaderLength /\ CommandLength(header) >= HeaderLength BY <1>1, <1>2 DEF Inv, Types
  <1>5. Len(wire) \in Nat /\ HeaderLength \in Nat /\ Len(in) \in Nat /\ Len(out) \in Nat
        /\ WholeOf(out) \in Nat /\ WholeOf(out) <= Len(out)
    BY InvCounts DEF HeaderLength
  <1>6. PICK k : k = CommandLength(header) - HeaderLength OBVIOUS
  <1>7. k \in Nat /\ CommandLength(header) = HeaderLength + k
    <2>1. CommandLength(header) \in Nat BY <1>3, <1>4, LengthIsNat
    <2> QED BY <1>4, <1>5, <1>6, <2>1
  <1>8. Wanted = k BY <1>1, <1>2, <1>6 DEF Wanted
  <1>9. PICK r : r = Decode(header, SubSeq(wire, 1, k)) OBVIOUS
  <1>10. PICK left : left = SubSeq(wire, k + 1, Len(wire)) OBVIOUS
  <1>11. /\ Len(wire) >= k /\ wire' = left
         /\ IF r.ok THEN in' = Append(in, r.body) /\ failed' = failed ELSE failed' = TRUE /\ in' = in
    BY <1>8, <1>9, <1>10 DEF ReadBody
  <1>12. left \in Seq(Bytes) /\ SubSeq(wire, 1, k) \in Seq(Bytes)
    <2>1. k <= Len(wire) /\ Len(wire) <= Len(wire) /\ 0 <= k /\ 0 \in Nat /\ 0 + 1 = 1 BY <1>5, <1>7, <1>11
    <2>2. SubSeq(wire, k + 1, Len(wire)) \in Seq(Bytes) BY <1>3, <1>5, <1>7, <2>1, CutOut
    <2>3. SubSeq(wire, 0 + 1, k) \in Seq(Bytes) BY <1>3, <1>7, <2>1, CutOut
    <2> QED BY <1>10, <2>1, <2>2, <2>3
  <1>13. r.body \in Results
    <2>1. PICK d \in Seq(Bytes) : d = SubSeq(wire, 1, k) BY <1>12
    <2>2. PICK h \in Seq(Bytes) : h = header BY <1>3
    <2>3. r.body = Decode(h, d).body BY <1>9, <2>1, <2>2
    <2> QED BY <2>3 DEF Results
  <1>14. /\ Append(in, r.body) \in Seq(Results) /\ Len(Append(in, r.body)) = Len(in) + 1
         /\ \A i \in 1..Len(in) : Append(in, r.body)[i] = in[i]
         /\ Append(in, r.body)[Len(in) + 1] = r.body
    BY <1>3, <1>13, AppendProperties
  <1>15. Types'
    <2>1. in' \in Seq(Results) BY <1>3, <1>11, <1>14
    <2>2. failed' \in BOOLEAN
      <3>1. failed \in BOOLEAN BY DEF Inv, Types
      <3>2. failed' = failed \/ failed' = TRUE BY <1>11
      <3> QED BY <3>1, <3>2
    <2>3. z \in Seq(Bytes) BY <1>1, EmptySeq
    <2> QED BY <1>1, <1>2, <1>11, <1>12, <2>1, <2>2, <2>3 DEF Inv, Types
  <1>16. PICK n \in Nat : n = Len(in) BY <1>5
  <1>17. PICK w \in Nat : w = WholeOf(out) BY <1>5
  <1>18. PICK rest : rest = header \o wire OBVIOUS
  <1>19. /\ Counts(sender, active, out, n, w) /\ ReadAs(in, out, w)
         /\ n <= w => \E at : Follows(at, out, n, w, rest, sender, cut)
    BY <1>2, <1>16, <1>17, <1>18 DEF Inv, InStep
  <1>20. Opens(header, wire, rest) BY <1>3, <1>4, <1>18, OpensIf
  <1>21. w <= Len(out) BY <1>5, <1>17
  <1>22. header' \o wire' = left BY <1>1, <1>2, <1>11, <1>12, ConcatEmptySeq
  <1>23. CASE n < w
    <2>1. PICK at : Follows(at, out, n, w, rest, sender, cut) BY <1>19, <1>23
    <2>2. PICK e : e = out[n + 1] OBVIOUS
    <2>3. e \in Entries /\ HeaderOf(header, Encode(e.pdu))
      <3>1. out[n + 1] \in Entries /\ HeaderOf(header, FrameAt(out, n + 1))
        BY ONLY <1>3, <1>20, <1>21, <1>23, <2>1, n \in Nat, w \in Nat, NextFrame
      <3> QED BY <2>2, <3>1 DEF FrameAt
    <2>4. /\ SubSeq(wire, 0 + 1, k) = BodyOf(out[n + 1].pdu)
          /\ \E to : Follows(to, out, n + 1, w, SubSeq(wire, k + 1, Len(wire)), sender, cut)
      <3>1. Awaited(header, wire, k) BY <1>5, <1>6, <1>7, <1>11 DEF Awaited
      <3>2. out \in Seq(Entries) /\ n \in Nat /\ w \in Nat BY <1>3
      <3>3. Taken(out, n, w, wire, k, sender, cut)
        BY ONLY <1>20, <1>21, <1>23, <2>1, <3>1, <3>2, ReadNext
      <3> QED BY <3>3, Zenon DEF Taken
    <2>5. r = Decode(header, BodyOf(e.pdu))
      <3>1. 0 + 1 = 1 OBVIOUS
      <3> QED BY <1>9, <2>2, <2>4, <3>1
    <2>6. (Decodable(e.pdu) => r.ok) /\ (r.ok => Same(r.body, e)) BY ONLY <2>3, <2>5, DecodedNext
    <2>7. CASE r.ok
      <3>1. in' = Append(in, r.body) /\ failed' = failed BY <1>11, <2>7
      <3>2. Len(in') = n + 1 /\ n + 1 <= w BY <1>14, <1>16, <1>23, <3>1
      <3>3. Counts(sender', active', out', Len(in'), WholeOf(out'))
        <4>1. Counts(sender, active, out, n + 1, w) BY <1>19, <3>2 DEF Counts
        <4> QED BY <1>2, <1>17, <3>2, <4>1
      <3>4. InStep(failed', out', Len(in'), WholeOf(out'), header' \o wire', sender', cut')
        <4>1. \E to : Follows(to, out, n + 1, w, left, sender, cut) BY <1>10, <2>4
        <4>2. InStep(failed, out, n + 1, w, left, sender, cut) BY <4>1 DEF InStep
        <4> QED BY <1>2, <1>17, <1>22, <3>1, <3>2, <4>2
      <3>5. ReadAs(in', out', WholeOf(out'))
        <4>1. ASSUME NEW i \in 1..Len(in'), i <= w PROVE Same(in'[i], out[i])
          <5>1. CASE i = n + 1
            <6>1. in'[i] = r.body BY <1>14, <1>16, <3>1, <5>1
            <6> QED BY <2>2, <2>6, <2>7, <5>1, <6>1
          <5>2. CASE i # n + 1
            <6>1. i \in 1..Len(in) BY <1>16, <3>2, <5>2
            <6>2. in'[i] = in[i] BY <1>14, <3>1, <6>1
            <6>3. Same(in[i], out[i]) BY <1>19, <4>1, <6>1 DEF ReadAs
            <6> QED BY <6>2, <6>3
          <5> QED BY <5>1, <5>2
        <4>2. ReadAs(in', out, w) BY <4>1 DEF ReadAs
        <4> QED BY <1>2, <1>17, <4>2
      <3> QED BY <1>2, <1>15, <3>1, <3>3, <3>4, <3>5 DEF Inv
    <2>8. CASE ~r.ok
      <3>1. in' = in /\ failed' = TRUE BY <1>11, <2>8
      <3>2. n < Len(out) /\ ~Decodable(out[n + 1].pdu) BY <1>5, <1>21, <1>23, <2>2, <2>6, <2>8
      <3>3. Caused(cut', out', Len(in'), WholeOf(out')) BY <1>2, <1>16, <3>1, <3>2 DEF Caused
      <3>4. InStep(failed', out', Len(in'), WholeOf(out'), header' \o wire', sender', cut') BY <3>1 DEF InStep
      <3>5. Counts(sender', active', out', Len(in'), WholeOf(out')) BY <1>2, <3>1 DEF Inv
      <3>6. ReadAs(in', out', WholeOf(out')) BY <1>2, <3>1 DEF Inv
      <3> QED BY <1>15, <3>3, <3>4, <3>5, <3>6 DEF Inv
    <2> QED BY <2>7, <2>8
  <1>24. CASE ~(n < w)
    <2>1. w < Len(out) /\ sender # "server"
      <3>1. CASE n = w
        <4>1. PICK at : Follows(at, out, w, w, rest, sender, cut) BY <1>19, <3>1
        <4>2. /\ w < Len(out)
              /\ sender = "server" => CommandLength(header) >= HeaderLength /\ Len(rest) < CommandLength(header)
          BY ONLY <1>3, <1>20, <1>21, <4>1, w \in Nat, NoFrame
        <4>3. Len(rest) = HeaderLength + Len(wire) BY <1>20 DEF Opens
        <4>4. ~(Len(rest) < CommandLength(header)) BY <1>5, <1>7, <1>11, <4>3
        <4> QED BY <4>2, <4>4
      <3>2. CASE n # w
        <4>1. ~(n <= w) BY <1>24, <3>2
        <4>2. w # Len(out) /\ sender # "server" BY <1>19, <4>1 DEF Counts
        <4> QED BY <1>5, <1>21, <4>2
      <3> QED BY <3>1, <3>2
    <2>2. Counts(sender', active', out', Len(in'), WholeOf(out'))
      <3>1. w # Len(out) BY <1>5, <2>1
      <3> QED BY <1>2, <1>17, <2>1, <3>1 DEF Counts
    <2>3. Caused(cut', out', Len(in'), WholeOf(out')) BY <1>2, <1>17, <2>1 DEF Caused
    <2>4. Len(in') = n \/ Len(in') = n + 1 BY <1>11, <1>14, <1>16
    <2>5. ReadAs(in', out', WholeOf(out'))
      <3>1. ASSUME NEW i \in 1..Len(in'), i <= w PROVE Same(in'[i], out[i])
        <4>1. i \in 1..Len(in) BY <1>16, <1>24, <2>4, <3>1
        <4>2. in'[i] = in[i] BY <1>11, <1>14, <4>1
        <4>3. Same(in[i], out[i]) BY <1>19, <3>1, <4>1 DEF ReadAs
        <4> QED BY <4>2, <4>3
      <3>2. ReadAs(in', out, w) BY <3>1 DEF ReadAs
      <3> QED BY <1>2, <1>17, <3>2
    <2>6. failed' \/ ~(Len(in') <= w)
      <3>1. CASE r.ok
        <4>1. Len(in') = n + 1 BY <1>11, <1>14, <1>16, <3>1
        <4> QED BY <1>24, <4>1
      <3> QED BY <1>11, <3>1
    <2>7. InStep(failed', out', Len(in'), WholeOf(out'), header' \o wire', sender', cut')
      BY <1>2, <1>17, <2>6 DEF InStep
    <2> QED BY <1>15, <2>2, <2>3, <2>5, <2>7 DEF Inv
  <1> QED BY <1>23, <1>24

\* The stream ends within a frame.
LEMMA ReadFailsInv ==
    ASSUME Inv, ReadFails
    PROVE  Inv'
  <1>1. PICK z : z = <<>> OBVIOUS
  <1>2. /\ cut /\ failed' = TRUE /\ wire' = z
        /\ sender' = sender /\ sequenceNum' = sequenceNum /\ active' = active
        /\ out' = out /\ cut' = cut /\ header' = header /\ in' = in
    BY <1>1 DEF ReadFails
  <1>3. z \in Seq(Bytes) BY <1>1, EmptySeq
  <1>4. Types' BY <1>2, <1>3 DEF Inv, Types
  <1>5. Caused(cut', out', Len(in'), WholeOf(out')) BY <1>2 DEF Caused
  <1>6. InStep(failed', out', Len(in'), WholeOf(out'), header' \o wire', sender', cut') BY <1>2 DEF InStep
  <1>7. Counts(sender', active', out', Len(in'), WholeOf(out')) BY <1>2 DEF Inv
  <1>8. ReadAs(in', out', WholeOf(out')) BY <1>2 DEF Inv
  <1> QED BY <1>4, <1>5, <1>6, <1>7, <1>8 DEF Inv

\* The builder's next number is one that a request may have.
LEMMA NextSequence ==
    ASSUME NEW s \in 1..WordSize - 1
    PROVE  getNextSequence(s) \in 1..WordSize - 1
  <1>1. PICK v \in Nat : v = WordSize /\ v > 0 BY ByteFacts
  <1>2. (s + 1) % v \in 0..v - 1 BY <1>1
  <1>3. PICK t : t = (s + 1) % v OBVIOUS
  <1>4. t \in 0..v - 1 /\ getNextSequence(s) = IF t = 0 THEN 1 ELSE t
    BY <1>1, <1>2, <1>3 DEF getNextSequence
  <1>5. v >= 2 BY <1>1, ByteFacts
  <1> QED BY <1>1, <1>4, <1>5

\* Every step keeps the invariant.
LEMMA NextInv ==
    ASSUME Inv, [Next]_vars
    PROVE  Inv'
  <1>1. sequenceNum \in 1..WordSize - 1 BY DEF Inv, Types
  <1>2. CASE SendRequest
    <2>1. PICK p \in Asking(sequenceNum) : Write(p) BY <1>2 DEF SendRequest
    <2>2. p \in Built BY <1>1, WrittenBuilt
    <2>3. MaySend /\ sequenceNum' \in 1..WordSize - 1 BY <1>1, <1>2, NextSequence DEF SendRequest
    <2> QED BY <2>1, <2>2, <2>3, WriteInv
  <1>3. CASE SendAnswer
    <2>0. PICK seq \in AnswerSeqs : \E p \in Answering(seq) : Write(p) BY <1>3 DEF SendAnswer
    <2>1. PICK p \in Answering(seq) : Write(p) BY <2>0
    <2>2. seq \in 1..WordSize - 1 BY CodecAssumption
    <2>3. p \in Built BY <2>2, WrittenBuilt
    <2>4. MaySend /\ sequenceNum' \in 1..WordSize - 1 BY <1>1, <1>3 DEF SendAnswer
    <2> QED BY <2>1, <2>3, <2>4, WriteInv
  <1>4. CASE Cut BY <1>4, CutInv
  <1>5. CASE ReadHeader BY <1>5, ReadHeaderInv
  <1>6. CASE ReadBody BY <1>6, ReadBodyInv
  <1>7. CASE ReadFails BY <1>7, ReadFailsInv
  <1>8. CASE UNCHANGED vars
    <2>1. /\ sender' = sender /\ sequenceNum' = sequenceNum /\ active' = active /\ out' = out
          /\ wire' = wire /\ cut' = cut /\ header' = header /\ in' = in /\ failed' = failed
      BY <1>8 DEF vars
    <2>2. Types' BY <2>1 DEF Inv, Types
    <2> QED BY <2>1, <2>2 DEF Inv
  <1> QED BY <1>2, <1>3, <1>4, <1>5, <1>6, <1>7, <1>8 DEF Next

\* The invariant holds of every behaviour of encoder, stream and decoder.
THEOREM Invariant == Spec => []Inv
  <1>1. Init => Inv BY InitInv
  <1>2. Inv /\ [Next]_vars => Inv' BY NextInv
  <1> QED BY <1>1, <1>2, PTL DEF Spec

-----------------------------------------------------------------------------
(* Theorems *)

\* Encode and DecodeFromReader agree: for every byte size, field length and set of messages, as long as
\* writes are whole the i-th PDU that is read is the i-th that was encoded, its header always and its
\* body if every value fits its field.
THEOREM InStepAlways == Spec => []FramesInStep
  <1>1. Inv => FramesInStep BY InvImplies
  <1> QED BY <1>1, Invariant, PTL

\* The client never makes a PDU of a frame that the server did not write whole, because
\* ServerConnection.Send refuses the connection after its first failing write.
THEOREM NoTornPdu == Spec => []NoPduFromTornFrame
  <1>1. Inv => NoPduFromTornFrame BY InvImplies
  <1> QED BY <1>1, Invariant, PTL

\* DecodeFromReader fails only where the stream ended or a write was cut short, or at a PDU that it
\* cannot decode even by itself: never because of what an earlier PDU left in the stream.
THEOREM FailsForCause == Spec => []ReaderFailsForCause
  <1>1. Inv => ReaderFailsForCause BY InvImplies
  <1> QED BY <1>1, Invariant, PTL

==============================================================================
