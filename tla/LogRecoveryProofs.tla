-------------------------- MODULE LogRecoveryProofs --------------------------
(***************************************************************************)
(* Files in which failed appends left parts of records: the parser finds   *)
(* every record that was written whole.                                    *)
(***************************************************************************)
EXTENDS LogFilesProofs

(* Zenon proves the steps that cite no prover; SMT is cited where there are *)
(* numbers, sequences, or much to unfold.                                   *)
USE Zenon

------------------------------------------------------------------------------
(* Numbers *)

(* ValueJoin: the digits in front make a number no smaller. *)
LEMMA ValueJoin ==
    ASSUME NEW s \in Seq(Digit), NEW t \in Seq(Digit)
    PROVE  t \o s \in Seq(Digit) /\ Value(t \o s) >= Value(s)
<1> DEFINE u == t \o s
           a == Len(t)
           n == Len(s)
<1>1. u \in Seq(Digit) /\ Len(u) = a + n /\ a \in Nat /\ n \in Nat
  BY SMT
<1>2. \A i \in 1..n : u[a + i] = s[i] /\ s[i] \in Nat
  BY SMT DEF Digit
<1> HIDE DEF u, a, n
<1>3. PICK g \in [0..Len(u) -> Nat] :
         /\ g[0] = 0 /\ \A i \in 1..Len(u) : g[i] = 10 * g[i - 1] + u[i]
         /\ Value(u) = g[Len(u)]
  BY <1>1, ValueUpTo
<1>4. PICK h \in [0..n -> Nat] :
         /\ h[0] = 0 /\ \A i \in 1..n : h[i] = 10 * h[i - 1] + s[i]
         /\ Value(s) = h[n]
  BY ValueUpTo DEF n
<1> DEFINE S == {i \in 0..n : g[a + i] >= h[i]}
<1>5. 0 \in S
  <2>1. a + 0 \in 0..Len(u) /\ 0 \in 0..n
    BY <1>1, SMT
  <2>2. g[a + 0] \in Nat
    BY <2>1
  <2>3. g[a + 0] >= 0
    BY <2>2, SMT
  <2> QED
    BY <1>4, <2>1, <2>3
<1>6. ASSUME NEW m \in 1..n, m - 1 \in S PROVE m \in S
  <2>1. /\ a + m \in 1..Len(u) /\ a + m - 1 = a + (m - 1)
        /\ a + (m - 1) \in 0..Len(u) /\ m - 1 \in 0..n /\ m \in 0..n
    BY <1>1, SMT
  <2>2. g[a + m] = 10 * g[a + (m - 1)] + s[m]
    <3>1. PICK x : x = a + m
      OBVIOUS
    <3>2. x \in 1..Len(u) /\ x - 1 = a + (m - 1)
      BY <1>1, <3>1, SMT
    <3>4. u[x] = s[m]
      BY <1>2, <3>1
    <3>3. g[x] = 10 * g[x - 1] + u[x]
      BY <1>3, <3>2
    <3> QED
      BY <3>1, <3>2, <3>3, <3>4
  <2>3. h[m] = 10 * h[m - 1] + s[m]
    BY <1>4
  <2>4. g[a + (m - 1)] >= h[m - 1]
    BY <1>6
  <2>5. g[a + (m - 1)] \in Nat /\ h[m - 1] \in Nat /\ s[m] \in Nat
    BY <1>2, <2>1
  <2>6. g[a + m] >= h[m]
    BY <2>2, <2>3, <2>4, <2>5, SMT
  <2> QED
    BY <2>1, <2>6
<1>7. n \in S
  <2>1. n \in 0..n
    BY <1>1, SMT
  <2> HIDE DEF S
  <2> QED
    BY <1>1, <1>5, <1>6, <2>1, Upwards
<1> QED
  BY <1>1, <1>3, <1>4, <1>7 DEF u

------------------------------------------------------------------------------
(* Encoded records *)

(* Digits after the first m bytes of s, up to d, and then v of the record of *)
(* f; its first space is at z.                                               *)
Follows(s, m, d, f, v, z) ==
    /\ s \in Seq(Byte) /\ m \in Nat /\ d \in Nat /\ m <= d /\ f \in Logged /\ v \in Nat
    /\ \A i \in m + 1..d : s[i] \in Digit
    /\ Shows(s, d, f, v) /\ v >= TimeLen(f) + 1 /\ z = d + TimeLen(f) + 1

(* The digits after the first m bytes end at z, with those of the time of f. *)
EndsIn(s, m, d, f, z) ==
    /\ z \in m + 2..Len(s) /\ s[z] = Space /\ z - 1 = d + TimeLen(f)
    /\ \A i \in m + 1..z - 1 : s[i] \in Digit
    /\ \A i \in 1..TimeLen(f) : s[d + i] = Decimal[f.ms][i]

LEMMA NextTime ==
    ASSUME NEW s, NEW m, NEW d, NEW f, NEW v, NEW z, Follows(s, m, d, f, v, z)
    PROVE  EndsIn(s, m, d, f, z)
<1>1. PICK r, a, b, n : r = Encode(f) /\ a = TimeLen(f) /\ b = SizeLen(f) /\ n = Len(f.data)
  OBVIOUS
<1>2. /\ s \in Seq(Byte) /\ m \in Nat /\ d \in Nat /\ m <= d /\ f \in Logged /\ v \in Nat
      /\ \A i \in m + 1..d : s[i] \in Digit
      /\ v >= a + 1 /\ z = d + a + 1
  BY <1>1 DEF Follows
<1>3. d + v <= Len(s) /\ \A i \in 1..v : s[d + i] = r[i]
  BY <1>1 DEF Follows, Shows
<1>4. a \in Nat \ {0} /\ Len(s) \in Nat
  <2>1. Len(s) \in Nat
    BY <1>2, SMT
  <2> QED
    BY <1>1, <1>2, <2>1, LensAre
<1>5. Laid(r, f, a, b, n)
  BY <1>1, <1>2, EncodeIs
<1>6. ASSUME NEW i \in 1..a PROVE s[d + i] = Decimal[f.ms][i]
  <2>1. i \in 1..v
    BY <1>2, <1>4, SMT
  <2> QED
    BY <1>3, <1>5, <2>1 DEF Laid
<1>7. \A i \in 1..a : Decimal[f.ms][i] \in Digit
  <2>1. PICK x : x = Decimal[f.ms]
    OBVIOUS
  <2>2. x \in Seq(Digit) /\ Len(x) = a
    BY <1>1, <1>2, <2>1, LensAre DEF TimeLen
  <2>3. \A i \in 1..a : x[i] \in Digit
    BY <2>2, SMT
  <2> QED
    BY <2>1, <2>3
<1>8. z \in m + 2..Len(s) /\ z - 1 = d + a /\ a + 1 \in 1..v /\ d + (a + 1) = z
  BY <1>2, <1>3, <1>4, SMT
<1>9. s[z] = Space
  BY <1>3, <1>5, <1>8 DEF Laid
<1>10. ASSUME NEW i \in m + 1..z - 1 PROVE s[i] \in Digit
  <2>1. CASE i \in m + 1..d
    BY <1>2, <2>1
  <2>2. CASE i \notin m + 1..d
    <3>1. PICK k : k = i - d
      OBVIOUS
    <3>2. k \in 1..a /\ d + k = i
      BY <1>2, <1>4, <2>2, <3>1, SMT
    <3> QED
      BY <1>6, <1>7, <3>2
  <2> QED
    BY <2>1, <2>2
<1> QED
  BY <1>1, <1>6, <1>8, <1>9, <1>10 DEF EndsIn

(* JoinedNumber: digits cut off, and those of the next time, are no length. *)
LEMMA JoinedNumber ==
    ASSUME NEW s, NEW m, NEW d, NEW f, NEW v, NEW z, Follows(s, m, d, f, v, z),
           NEW y \in Nat, y <= m, \A i \in y + 1..m : s[i] \in Digit, NEW u,
           u = Number(SubSeq(s, y + 1, z - 1))
    PROVE  u = None \/ u > MaxRecordBytes
<1>1. /\ s \in Seq(Byte) /\ m \in Nat /\ d \in Nat /\ m <= d /\ f \in Logged
      /\ y \in Nat /\ y <= m
  BY DEF Follows
<1>2. PICK a : a = TimeLen(f)
  OBVIOUS
<1>3. /\ z \in m + 2..Len(s) /\ z - 1 = d + a
      /\ \A i \in m + 1..z - 1 : s[i] \in Digit
      /\ \A i \in 1..a : s[d + i] = Decimal[f.ms][i]
  <2>1. EndsIn(s, m, d, f, z)
    BY NextTime
  <2> QED
    BY <1>2, <2>1 DEF EndsIn
<1>4. a \in Nat \ {0} /\ Len(s) \in Nat
  <2>1. Len(s) \in Nat
    BY <1>1, SMT
  <2> QED
    BY <1>1, <1>2, <2>1, LensAre
<1>5. PICK j \in Nat : j = d - y
  BY ONLY <1>1, SMT
<1>6. /\ d + a <= Len(s) /\ y + j <= Len(s) /\ y + j = d /\ d + 1 \in Nat
      /\ y + (j + a) <= Len(s) /\ y + (j + a) = d + a /\ j + a \in Nat
  BY ONLY <1>1, <1>3, <1>4, <1>5, SMT
<1>7. PICK t, g, w : /\ t = SubSeq(s, y + 1, y + j) /\ g = Decimal[f.ms]
                     /\ w = SubSeq(s, y + 1, y + (j + a))
  OBVIOUS
<1>8. IsPart(t, Byte, s, y, j)
  BY <1>1, <1>6, <1>7, PartIs
<1>9. IsPart(w, Byte, s, y, j + a)
  BY <1>1, <1>6, <1>7, PartIs
<1>10. g \in Seq(Digit) /\ Len(g) = a /\ Value(g) = f.ms /\ f.ms \in Nat /\ f.ms > MaxRecordBytes
  BY <1>1, <1>2, <1>7, LensAre, LoggedIs, DecimalIs DEF TimeLen
<1>11. t \in Seq(Digit) /\ Len(t) = j
  <2>1. t \in Seq(Byte) /\ Len(t) = j
    BY <1>8 DEF IsPart
  <2>2. ASSUME NEW i \in 1..j PROVE t[i] \in Digit
    <3>1. y + i \in y + 1..m \/ y + i \in m + 1..z - 1
      <4>0. i \in 1..j
        OBVIOUS
      <4> QED
        BY ONLY <1>1, <1>3, <1>4, <1>5, <4>0, SMT
    <3>2. t[i] = s[y + i]
      BY <1>8 DEF IsPart
    <3> QED
      BY <1>3, <3>1, <3>2
  <2> QED
    BY ONLY <1>5, <2>1, <2>2, SMT
<1>12. w = t \o g
  <2>1. PICK x : x = t \o g
    OBVIOUS
  <2>2. t \in Seq(Byte) /\ g \in Seq(Byte)
    BY ONLY <1>10, <1>11, ByteFacts, SMT
  <2>3. IsJoin(x, Byte, t, g, j, a)
    BY <1>10, <1>11, <2>1, <2>2, Joined
  <2>4. w \in Seq(Byte) /\ Len(w) = j + a /\ x \in Seq(Byte) /\ Len(x) = j + a
    BY <1>9, <2>3 DEF IsPart, IsJoin
  <2>5. ASSUME NEW i \in 1..j + a PROVE w[i] = x[i]
    <3>1. w[i] = s[y + i]
      BY <1>9 DEF IsPart
    <3>2. CASE i \in 1..j
      <4>1. x[i] = t[i] /\ t[i] = s[y + i]
        BY <1>8, <2>3, <3>2 DEF IsPart, IsJoin
      <4> QED
        BY <3>1, <4>1
    <3>3. CASE i \notin 1..j
      <4>0. i \in 1..j + a
        OBVIOUS
      <4>1. PICK k : k = i - j
        OBVIOUS
      <4>2. k \in 1..a /\ j + k = i /\ y + i = d + k
        BY ONLY <1>1, <1>4, <1>5, <3>3, <4>0, <4>1, SMT
      <4>3. x[j + k] = g[k]
        BY <2>3, <4>2 DEF IsJoin
      <4>4. s[d + k] = g[k]
        BY <1>3, <1>7, <4>2
      <4> QED
        BY <3>1, <4>2, <4>3, <4>4
    <3> QED
      BY <3>2, <3>3
  <2>6. w = x
    BY <2>4, <2>5, SameSeq
  <2> QED
    BY <2>1, <2>6
<1>13. w \in Seq(Digit) /\ Value(w) >= f.ms
  BY <1>10, <1>11, <1>12, ValueJoin
<1>14. w # <<>>
  <2>1. Len(w) = j + a
    BY <1>9 DEF IsPart
  <2> QED
    BY ONLY <1>4, <2>1, <1>5, SMT
<1>15. Number(w) = None \/ Number(w) > MaxRecordBytes
  <2>1. Value(w) \in Nat
    BY <1>13, ValueType
  <2>2. Value(w) > MaxRecordBytes
    BY ONLY <1>10, <1>13, <2>1, CodecAssumption, SMT
  <2> QED
    BY <1>13, <1>14, <2>2, NumberOfDigits
<1> QED
  BY <1>3, <1>6, <1>7, <1>15

(* TornHeader: a header that breaks off before its length ends, and another  *)
(* record's time after it, is malformed.                                     *)
LEMMA TornHeader ==
    ASSUME NEW s, NEW c, NEW e, NEW w, NEW a, NEW b, NEW p, NEW q,
           Placed(s, c, e, w, a, b, p, q), w >= a + 1, w < a + b + 4,
           NEW m, m = c + w, NEW d, NEW f, NEW v, NEW z, Follows(s, m, d, f, v, z)
    PROVE  Decode(s) = Malformed
<1>1. SpaceAt(s, p)
  BY DigitsThen
<1>2. CASE Number(SubSeq(s, 1, p - 1)) = None
  <2>1. s \in Seq(Byte)
    BY DEF Placed
  <2> QED
    BY <1>1, <1>2, <2>1, DecodeBadTime
<1>3. CASE Number(SubSeq(s, 1, p - 1)) # None
  <2>1. /\ s \in Seq(Byte) /\ c \in Nat /\ e \in Logged /\ w \in Nat /\ p = c + a + 1
        /\ w >= a + 1 /\ w < a + b + 4 /\ m = c + w
    BY DEF Placed
  <2>2. a = TimeLen(e) /\ b = SizeLen(e) /\ Shows(s, c, e, w)
    BY DEF Placed
  <2>3. a \in Nat \ {0} /\ b \in Nat \ {0}
    BY <2>1, <2>2, LensAre
  <2>4. /\ z \in m + 2..Len(s) /\ s[z] = Space /\ \A i \in m + 1..z - 1 : s[i] \in Digit
    <3>1. EndsIn(s, m, d, f, z)
      BY NextTime
    <3> QED
      BY <3>1 DEF EndsIn
  <2>5. Len(s) \in Nat
    BY <2>1, SMT
  <2>6. ~(Len(s) < p + 2) /\ m + 1 \in m + 1..z - 1
    BY ONLY <2>1, <2>3, <2>4, <2>5, SMT
  <2>7. s[m + 1] \in Digit
    BY <2>4, <2>6
  <2>8. CASE w = a + 1
    <3>1. m + 1 = p + 1
      BY ONLY <2>1, <2>3, <2>8, SMT
    <3>2. s[p + 1] \notin Letter
      BY <2>7, <3>1, ByteFacts DEF Letter
    <3> QED
      BY <1>1, <1>3, <2>1, <2>6, <3>2, DecodeBadStream
  <2>9. CASE w = a + 2
    <3>1. m + 1 = p + 2
      BY ONLY <2>1, <2>3, <2>9, SMT
    <3>2. s[p + 2] # Space
      BY <2>7, <3>1, ByteFacts
    <3> QED
      BY <1>1, <1>3, <2>1, <2>6, <3>2, DecodeBadStream
  <2>10. CASE w # a + 1 /\ w # a + 2
    <3>1. w >= a + 3
      BY ONLY <2>1, <2>3, <2>10, SMT
    <3>2. Stamped(s, p)
      BY <1>3, <3>1, StampThere
    <3>3. PICK y \in Nat : y = p + 2
      BY ONLY <2>1, <2>3, SMT
    <3>4. y <= m /\ y + 1 = p + 3 /\ z \in p + 3..Len(s)
      BY ONLY <2>1, <2>3, <2>4, <2>5, <3>1, <3>3, SMT
    <3>5. ASSUME NEW i \in y + 1..m PROVE s[i] \in Digit
      <4>1. PICK r, n, k, g : /\ r = Encode(e) /\ n = Len(e.data) /\ k = i - (c + a + 3)
                              /\ g = Decimal[n]
        OBVIOUS
      <4>2. i \in y + 1..m
        OBVIOUS
      <4>3. k \in 1..b /\ a + 3 + k \in 1..w /\ c + (a + 3 + k) = i
        <5>1. k = i - (c + a + 3)
          BY <4>1
        <5> QED
          BY ONLY <2>1, <2>3, <3>1, <3>3, <4>2, <5>1, SMT
      <4>4. Laid(r, e, a, b, n)
        BY <2>1, <2>2, <4>1, EncodeIs
      <4>5. s[c + (a + 3 + k)] = r[a + 3 + k]
        BY <2>2, <4>1, <4>3 DEF Shows
      <4>6. r[a + 3 + k] = g[k]
        BY <4>1, <4>3, <4>4 DEF Laid
      <4>7. g \in Seq(Digit) /\ Len(g) = b
        BY <2>1, <2>2, <4>1, LensAre DEF SizeLen
      <4>8. g[k] \in Digit
        BY ONLY <4>3, <4>7, SMT
      <4> QED
        BY <4>3, <4>5, <4>6, <4>8
    <3>6. PICK u : u = LengthOf(s, p, z)
      OBVIOUS
    <3>7. u = Number(SubSeq(s, y + 1, z - 1))
      BY <3>4, <3>6 DEF LengthOf
    <3>8. u = None \/ u > MaxRecordBytes
      BY <3>4, <3>5, <3>7, JoinedNumber
    <3>9. \A i \in p + 3..z - 1 : s[i] # Space
      <4>1. ASSUME NEW i \in p + 3..z - 1 PROVE i \in y + 1..m \/ i \in m + 1..z - 1
        <5>0. i \in p + 3..z - 1
          OBVIOUS
        <5> QED
          BY ONLY <2>1, <2>3, <2>4, <2>5, <3>4, <5>0, SMT
      <4> QED
        BY <2>4, <3>5, <4>1, ByteFacts
    <3>10. Headed(s, p, z)
      BY <2>4, <3>2, <3>4, <3>9 DEF Headed
    <3> QED
      BY <2>1, <3>6, <3>8, <3>10, DecodeBadLength
  <2> QED
    BY <2>8, <2>9, <2>10
<1> QED
  BY <1>2, <1>3

------------------------------------------------------------------------------
(* Files with records cut off *)

(* RecordNewline: in a record a newline is its last byte, or its data's. *)
LEMMA RecordNewline ==
    ASSUME NEW e \in Logged, NEW i \in 1..Len(Encode(e)), Encode(e)[i] = Newline
    PROVE  i = Len(Encode(e)) \/ i + 1 = Len(Encode(e))
<1>1. PICK r, a, b, n : r = Encode(e) /\ a = TimeLen(e) /\ b = SizeLen(e) /\ n = Len(e.data)
  OBVIOUS
<1>2. Laid(r, e, a, b, n)
  BY <1>1, EncodeIs
<1>3. Len(r) = a + b + n + 5 /\ a \in Nat \ {0} /\ b \in Nat \ {0} /\ n \in Nat
  BY <1>1, EncodeLen
<1>4. PICK x, y : x = Decimal[e.ms] /\ y = Decimal[n]
  OBVIOUS
<1>5. x \in Seq(Digit) /\ y \in Seq(Digit) /\ Len(x) = a /\ Len(y) = b
  BY <1>1, <1>4, LensAre DEF TimeLen, SizeLen
<1>6. (\A k \in 1..a : x[k] \in Digit) /\ \A k \in 1..b : y[k] \in Digit
  BY ONLY <1>5, SMT
<1>7. i \in 1..Len(r) /\ r[i] = Newline
  BY <1>1
<1>8. CASE i \in 1..a
  <2>1. r[i] = x[i]
    BY <1>2, <1>4, <1>8 DEF Laid
  <2> QED
    BY <1>6, <1>7, <1>8, <2>1, ByteFacts
<1>9. CASE i \in {a + 1, a + 2, a + 3}
  <2>1. r[i] \in {Space, Stream[e.stream]}
    BY <1>2, <1>9 DEF Laid
  <2> QED
    BY <1>7, <2>1, ByteFacts, LoggedIs DEF Letter
<1>10. CASE i \in a + 4..a + b + 3
  <2>1. PICK k : k = i - (a + 3)
    OBVIOUS
  <2>2. k \in 1..b /\ a + 3 + k = i
    BY ONLY <1>3, <1>10, <2>1, SMT
  <2>3. r[i] = y[k]
    BY <1>2, <1>4, <2>2 DEF Laid
  <2> QED
    BY <1>6, <1>7, <2>2, <2>3, ByteFacts
<1>11. CASE i = a + b + 4
  <2>1. r[i] = Space
    BY <1>2, <1>11 DEF Laid
  <2> QED
    BY <1>7, <2>1, ByteFacts
<1>12. CASE i \in a + b + 5..a + b + n + 3
  <2>1. PICK k : k = i - (a + b + 4)
    OBVIOUS
  <2>2. k \in 1..n /\ k \in 1..n - 1 /\ a + b + 4 + k = i
    BY ONLY <1>3, <1>12, <2>1, SMT
  <2>3. r[i] = e.data[k]
    BY <1>2, <2>2 DEF Laid
  <2>4. e.data[k] # Newline
    BY <1>1, <2>2, LoggedIs
  <2> QED
    BY <1>7, <2>3, <2>4
<1>13. \/ i \in 1..a \/ i \in {a + 1, a + 2, a + 3} \/ i \in a + 4..a + b + 3
       \/ i = a + b + 4 \/ i \in a + b + 5..a + b + n + 3 \/ i = Len(r) \/ i + 1 = Len(r)
  BY ONLY <1>3, <1>7, SMT
<1> QED
  BY <1>1, <1>8, <1>9, <1>10, <1>11, <1>12, <1>13

(* Covered: every byte is a record's. *)
LEMMA Covered ==
    ASSUME NEW s, NEW M, Marked(s, M), NEW y \in 1..Len(s)
    PROVE  \E k \in 1..Len(M) : End(M, k - 1) < y /\ y <= End(M, k)
<1>1. PICK n : n = Len(M)
  OBVIOUS
<1>2. M \in Seq(Mark) /\ Len(s) = End(M, n)
  BY <1>1 DEF Marked
<1>3. n \in Nat
  BY <1>1, <1>2, SMT
<1> DEFINE S == {m \in 0..n : \A x \in 1..End(M, m) : \E k \in 1..m : End(M, k - 1) < x /\ x <= End(M, k)}
<1>4. 0 \in S
  <2>1. 0 \in 0..n /\ 1..0 = {}
    BY <1>3, SMT
  <2>2. 1..End(M, 0) = {}
    BY <2>1 DEF End
  <2> QED
    BY <2>1, <2>2
<1>5. ASSUME NEW m \in 1..n, m - 1 \in S PROVE m \in S
  <2>1. m \in 0..n /\ m - 1 \in 0..n /\ m \in 1..m /\ \A k \in 1..m - 1 : k \in 1..m
    BY <1>3, SMT
  <2>2. End(M, m) \in Nat /\ End(M, m - 1) \in Nat
    BY <1>1, <1>2, <2>1, EndType
  <2>3. ASSUME NEW x \in 1..End(M, m) PROVE \E k \in 1..m : End(M, k - 1) < x /\ x <= End(M, k)
    <3>1. x \in 1..End(M, m - 1) \/ (End(M, m - 1) < x /\ x <= End(M, m))
      BY <2>2, SMT
    <3>2. CASE x \in 1..End(M, m - 1)
      BY <1>5, <2>1, <3>2
    <3>3. CASE End(M, m - 1) < x /\ x <= End(M, m)
      BY <2>1, <3>3
    <3> QED
      BY <3>1, <3>2, <3>3
  <2> QED
    BY <2>1, <2>3
<1>6. n \in S
  <2>1. n \in 0..n
    BY <1>3, SMT
  <2> HIDE DEF S
  <2> QED
    BY <1>3, <1>4, <1>5, <2>1, Upwards
<1> QED
  BY <1>1, <1>2, <1>6

(* The i-th byte of the k-th mark is at y. *)
ByteOf(s, M, k, i, y) ==
    /\ k \in 1..Len(M) /\ y = End(M, k - 1) + i /\ i \in 1..Len(Encode(M[k].entry))
    /\ i <= M[k].end - M[k].start /\ s[y] = Encode(M[k].entry)[i] /\ y <= End(M, k)

LEMMA BytesAre ==
    ASSUME NEW s, NEW M, Marked(s, M), NEW k \in 1..Len(M), NEW y,
           y \in 1..Len(s), End(M, k - 1) < y, y <= End(M, k)
    PROVE  \E i : ByteOf(s, M, k, i, y)
<1>1. PICK e, c, x, n : /\ e = M[k].entry /\ c = M[k].start /\ x = M[k].end
                        /\ n = Len(Encode(e))
  OBVIOUS
<1>2. s \in Seq(Byte) /\ M \in Seq(Mark) /\ MarkAt(s, M, k)
  BY DEF Marked
<1>3. e \in Logged /\ c \in Nat /\ x \in Nat /\ End(M, k) = x /\ End(M, k - 1) = c
  BY <1>1, <1>2, MarkIs DEF MarkAt
<1>4. x <= c + n /\ Shows(s, c, e, x - c)
  BY <1>1, <1>2 DEF MarkAt
<1>5. n \in Nat /\ y \in Nat /\ c < y /\ y <= x
  <2>1. y \in Nat
    <3>1. y \in 1..Len(s)
      OBVIOUS
    <3> QED
      BY ONLY <3>1, SMT
  <2> QED
    BY <1>1, <1>3, <2>1, EncodeLen
<1>6. PICK i : i = y - c
  OBVIOUS
<1>7. i \in 1..n /\ i \in 1..x - c /\ c + i = y /\ i <= x - c
  BY ONLY <1>3, <1>4, <1>5, <1>6, SMT
<1>8. s[y] = Encode(e)[i]
  BY <1>4, <1>7 DEF Shows
<1>9. ByteOf(s, M, k, i, y)
  BY <1>1, <1>3, <1>5, <1>7, <1>8 DEF ByteOf
<1> QED
  BY <1>9

(* NewlineAt: a newline ends what was written of a record, or is the one     *)
(* before the end of a whole record.                                         *)
LEMMA NewlineAt ==
    ASSUME NEW s, NEW M, Marked(s, M), NEW y \in 1..Len(s), s[y] = Newline
    PROVE  \E k \in 1..Len(M) :
              y = End(M, k) \/ (y + 1 = End(M, k) /\ M[k].end = M[k].full)
<1>1. PICK k \in 1..Len(M) : End(M, k - 1) < y /\ y <= End(M, k)
  BY Covered
<1>2. PICK i : ByteOf(s, M, k, i, y)
  BY <1>1, BytesAre
<1>3. PICK e, c, x, f, n : /\ e = M[k].entry /\ c = M[k].start /\ x = M[k].end
                           /\ f = M[k].full /\ n = Len(Encode(e))
  OBVIOUS
<1>4. M \in Seq(Mark) /\ MarkAt(s, M, k)
  BY DEF Marked
<1>5. /\ e \in Logged /\ c \in Nat /\ x \in Nat /\ f \in Nat /\ End(M, k) = x
      /\ End(M, k - 1) = c /\ x <= f /\ f = c + n
  BY <1>3, <1>4, MarkIs DEF MarkAt
<1>6. y = c + i /\ i \in 1..n /\ y <= x /\ Encode(e)[i] = Newline
  BY <1>2, <1>3, <1>5 DEF ByteOf
<1>7. n \in Nat
  BY <1>3, <1>5, EncodeLen
<1>8. i = n \/ i + 1 = n
  BY <1>3, <1>5, <1>6, RecordNewline
<1>9. y = x \/ (y + 1 = x /\ x = f)
  BY ONLY <1>5, <1>6, <1>7, <1>8, SMT
<1> QED
  BY <1>3, <1>5, <1>9

(* WholeNewline: a whole record ends with one. *)
LEMMA WholeNewline ==
    ASSUME NEW s, NEW M, Marked(s, M), NEW k \in 1..Len(M), M[k].end = M[k].full
    PROVE  End(M, k) \in 1..Len(s) /\ s[End(M, k)] = Newline
<1>1. PICK e, c, x, n : /\ e = M[k].entry /\ c = M[k].start /\ x = M[k].end
                        /\ n = Len(Encode(e))
  OBVIOUS
<1>2. s \in Seq(Byte) /\ M \in Seq(Mark) /\ MarkAt(s, M, k)
  BY DEF Marked
<1>3. e \in Logged /\ c \in Nat /\ x \in Nat /\ End(M, k) = x
  BY <1>1, <1>2, MarkIs
<1>4. c < x /\ x = c + n /\ Shows(s, c, e, x - c)
  BY <1>1, <1>2 DEF MarkAt
<1>5. n \in Nat /\ Len(s) \in Nat
  <2>1. Len(s) \in Nat
    BY <1>2, SMT
  <2> QED
    BY <1>1, <1>3, <2>1, EncodeLen
<1>6. n \in 1..x - c /\ c + (x - c) = x
  BY ONLY <1>3, <1>4, <1>5, SMT
<1>7. s[c + n] = Encode(e)[n] /\ x <= Len(s)
  BY <1>4, <1>6 DEF Shows
<1>8. Encode(e)[n] = Newline
  <2>1. PICK r, a, b, m : r = Encode(e) /\ a = TimeLen(e) /\ b = SizeLen(e) /\ m = Len(e.data)
    OBVIOUS
  <2>2. Laid(r, e, a, b, m)
    BY <1>3, <2>1, EncodeIs
  <2> QED
    BY <1>1, <2>1, <2>2 DEF Laid
<1>9. x \in 1..Len(s)
  BY ONLY <1>3, <1>4, <1>5, <1>7, SMT
<1> QED
  BY <1>3, <1>4, <1>7, <1>8, <1>9

(* What was written of the k-th record reaches past its time. *)
Reaches(M, k) == M[k].end - M[k].start >= TimeLen(M[k].entry) + 1

LEMMA WholeReaches ==
    ASSUME NEW s, NEW M, Marked(s, M), NEW k \in 1..Len(M), M[k].end = M[k].full
    PROVE  Reaches(M, k)
<1>1. PICK e, c, x : e = M[k].entry /\ c = M[k].start /\ x = M[k].end
  OBVIOUS
<1>2. PICK a, b, m, n : /\ a = TimeLen(e) /\ b = SizeLen(e) /\ m = Len(e.data)
                        /\ n = Len(Encode(e))
  OBVIOUS
<1>3. M \in Seq(Mark) /\ MarkAt(s, M, k)
  BY DEF Marked
<1>4. e \in Logged /\ c \in Nat /\ x \in Nat /\ x = c + n
  BY <1>1, <1>2, <1>3, MarkIs DEF MarkAt
<1>5. n = a + b + m + 5 /\ a \in Nat /\ b \in Nat /\ m \in Nat
  BY <1>2, <1>4, EncodeLen
<1>6. x - c >= a + 1
  BY ONLY <1>4, <1>5, SMT
<1> QED
  BY <1>1, <1>2, <1>6 DEF Reaches

(* DigitsBetween: records that do not reach that far leave only digits. *)
LEMMA DigitsBetween ==
    ASSUME NEW s, NEW M, Marked(s, M), NEW j \in 0..Len(M), NEW k \in j..Len(M),
           \A i \in j + 1..k : ~Reaches(M, i), NEW y \in 1..Len(s),
           End(M, j) < y, y <= End(M, k)
    PROVE  s[y] \in Digit
<1>1. PICK h \in 1..Len(M) : End(M, h - 1) < y /\ y <= End(M, h)
  BY Covered
<1>2. M \in Seq(Mark) /\ Len(M) \in Nat /\ MarkAt(s, M, h)
  <2>1. M \in Seq(Mark) /\ MarkAt(s, M, h)
    BY DEF Marked
  <2> QED
    BY <2>1, SMT
<1>3. h \in j + 1..k
  <2>1. CASE h <= j
    <3>1. h \in 0..j /\ h \in 0..Len(M)
      BY <1>2, <2>1, SMT
    <3>2. End(M, h) <= End(M, j) /\ End(M, h) \in Nat /\ End(M, j) \in Nat
      BY <1>2, <3>1, MarksGrow, EndType
    <3>3. y \in Nat
      BY SMT
    <3> QED
      BY <1>1, <3>2, <3>3, SMT
  <2>2. CASE h > k
    <3>1. PICK g : g = h - 1
      OBVIOUS
    <3>2. g \in 0..Len(M) /\ k \in 0..g /\ k \in 0..Len(M)
      BY <1>2, <2>2, <3>1, SMT
    <3>3. End(M, k) <= End(M, g) /\ End(M, k) \in Nat /\ End(M, g) \in Nat
      BY <1>2, <3>2, MarksGrow, EndType
    <3>4. y \in Nat /\ End(M, g) < y
      BY <1>1, <3>1, SMT
    <3> QED
      BY <3>3, <3>4, SMT
  <2>3. CASE ~(h <= j) /\ ~(h > k)
    BY <1>2, <2>3, SMT
  <2> QED
    BY <2>1, <2>2, <2>3
<1>4. PICK i : ByteOf(s, M, h, i, y)
  BY <1>1, BytesAre
<1>5. PICK e, a, d : e = M[h].entry /\ a = TimeLen(e) /\ d = Decimal[e.ms]
  OBVIOUS
<1>6. PICK c, x : c = M[h].start /\ x = M[h].end
  OBVIOUS
<1>7. e \in Logged /\ c \in Nat /\ x \in Nat
  BY <1>2, <1>5, <1>6, MarkIs
<1>8. a \in Nat /\ d \in Seq(Digit) /\ Len(d) = a
  BY <1>5, <1>7, LensAre DEF TimeLen
<1>9. ~(x - c >= a + 1)
  BY <1>3, <1>5, <1>6 DEF Reaches
<1>10. i \in 1..Len(Encode(e)) /\ i <= x - c /\ s[y] = Encode(e)[i]
  BY <1>4, <1>5, <1>6 DEF ByteOf
<1>11. i \in 1..a
  <2>1. i \in Nat /\ i >= 1
    BY <1>10, SMT
  <2> QED
    BY <1>7, <1>8, <1>9, <1>10, <2>1, SMT
<1>12. Encode(e)[i] = d[i]
  <2>1. PICK r, b, m : r = Encode(e) /\ b = SizeLen(e) /\ m = Len(e.data)
    OBVIOUS
  <2>2. Laid(r, e, a, b, m)
    BY <1>5, <1>7, <2>1, EncodeIs
  <2> QED
    BY <1>5, <1>11, <2>1, <2>2 DEF Laid
<1>13. d[i] \in Digit
  BY ONLY <1>8, <1>11, SMT
<1> QED
  BY <1>10, <1>12, <1>13

(* The first record from the j-th that reaches past its time is the k-th. *)
NextReaching(M, j, k) == /\ k \in j..Len(M) /\ Reaches(M, k) /\ \A i \in j..k - 1 : ~Reaches(M, i)

LEMMA NextReachingIs ==
    ASSUME NEW M \in Seq(Mark), NEW j \in 1..Len(M), NEW h \in j..Len(M), Reaches(M, h)
    PROVE  \E k \in j..h : NextReaching(M, j, k)
<1> DEFINE S == {i \in j..Len(M) : Reaches(M, i)}
<1>1. Len(M) \in Nat
  BY SMT
<1>2. S \subseteq Nat /\ S # {}
  <2>1. j..Len(M) \subseteq Nat
    BY <1>1, SMT
  <2> QED
    BY <2>1
<1>3. PICK k \in S : \A i \in S : k <= i
  <2> HIDE DEF S
  <2> QED
    BY <1>2, HasLeast
<1>4. k \in j..Len(M) /\ Reaches(M, k) /\ k <= h
  BY <1>3
<1>5. \A i \in j..k - 1 : i \in j..Len(M) /\ ~(k <= i)
  BY <1>1, <1>4, SMT
<1>6. k \in j..h
  BY <1>1, <1>4, SMT
<1> QED
  BY <1>3, <1>4, <1>5, <1>6 DEF NextReaching

(* ReachingPlaced: seen from the end of the j-th record, digits and then the *)
(* first record that reaches past its time.                                  *)
LEMMA ReachingPlaced ==
    ASSUME NEW s, NEW M, Marked(s, M), NEW j \in 1..Len(M), NEW k, NextReaching(M, j, k),
           NEW c, c = End(M, j - 1), NEW r, r = From(s, c + 1)
    PROVE  LET d == End(M, k - 1) - c
               e == M[k].entry
               w == M[k].end - M[k].start
               a == TimeLen(e)
               b == SizeLen(e)
           IN  Placed(r, d, e, w, a, b, d + a + 1, d + a + b + 4) /\ w >= a + 1
<1>1. PICK l, e, w, a, b : /\ l = k - 1 /\ e = M[k].entry /\ w = M[k].end - M[k].start
                           /\ a = TimeLen(e) /\ b = SizeLen(e)
  OBVIOUS
<1>2. PICK x, y, i : x = End(M, l) /\ y = M[k].end /\ i = j - 1
  OBVIOUS
<1>3. k \in j..Len(M) /\ Reaches(M, k) /\ \A n \in j..k - 1 : ~Reaches(M, n)
  BY DEF NextReaching
<1>4. s \in Seq(Byte) /\ M \in Seq(Mark)
  BY DEF Marked
<1>5. Len(s) \in Nat /\ Len(M) \in Nat
  BY <1>4, SMT
<1>6. /\ k \in 1..Len(M) /\ l \in 0..Len(M) /\ i \in 0..l /\ l \in i..Len(M) /\ i \in 0..Len(M)
      /\ i + 1 = j
  BY <1>1, <1>2, <1>3, <1>5, SMT
<1>7. MarkAt(s, M, k)
  BY <1>6 DEF Marked
<1>8. e \in Logged /\ y \in Nat /\ x \in Nat /\ c \in Nat /\ M[k].start = x
  BY <1>1, <1>2, <1>4, <1>6, <1>7, MarkIs, EndType DEF MarkAt
<1>9. c <= x
  BY <1>2, <1>6, MarksGrow
<1>10. x < y /\ Shows(s, x, e, y - x) /\ w = y - x
  BY <1>1, <1>2, <1>7, <1>8 DEF MarkAt
<1>11. w \in Nat
  BY <1>8, <1>10, SMT
<1>12. x + w <= Len(s)
  BY <1>10 DEF Shows
<1>13. PICK d \in Nat : d = x - c
  BY <1>8, <1>9, SMT
<1>14. c \in 0..Len(s) /\ x = c + d /\ d <= Len(s) - c
  BY <1>5, <1>8, <1>9, <1>11, <1>12, <1>13, SMT
<1>15. r \in Seq(Byte) /\ Shows(r, d, e, w)
  BY <1>4, <1>10, <1>11, <1>14, FromShows
<1>16. ASSUME NEW n \in 1..d PROVE r[n] \in Digit
  <2>1. PICK z : z = c + n
    OBVIOUS
  <2>2. n \in 1..Len(s) - c /\ z \in 1..Len(s) /\ c < z /\ z <= x
    <3>1. n \in 1..d
      OBVIOUS
    <3> QED
      BY ONLY <1>5, <1>8, <1>14, <2>1, <3>1, SMT
  <2>3. r[n] = s[z]
    BY <1>4, <1>14, <2>1, <2>2, FromIs
  <2>4. \A m \in i + 1..l : ~Reaches(M, m)
    BY <1>1, <1>3, <1>6
  <2>5. s[z] \in Digit
    BY <1>2, <1>6, <2>2, <2>4, DigitsBetween
  <2> QED
    BY <2>3, <2>5
<1>17. w >= a + 1
  BY <1>1, <1>3 DEF Reaches
<1>18. PICK p, q : p = d + a + 1 /\ q = d + a + b + 4
  OBVIOUS
<1>19. Placed(r, d, e, w, a, b, p, q)
  BY <1>1, <1>8, <1>11, <1>15, <1>16, <1>18 DEF Placed
<1> QED
  BY <1>1, <1>2, <1>13, <1>17, <1>18, <1>19

(* ReachingFollows: and so after the i-th, seen from a place before it. *)
LEMMA ReachingFollows ==
    ASSUME NEW s, NEW M, Marked(s, M), NEW i \in 0..Len(M), NEW j, j = i + 1,
           NEW k, NextReaching(M, j, k),
           NEW c \in Nat, c <= End(M, i), NEW r, r = From(s, c + 1), NEW m, m = End(M, i) - c
    PROVE  \E d, f, v, z : Follows(r, m, d, f, v, z)
<1>1. PICK l, e, w : l = k - 1 /\ e = M[k].entry /\ w = M[k].end - M[k].start
  OBVIOUS
<1>2. PICK x, y, u : x = End(M, l) /\ y = M[k].end /\ u = End(M, i)
  OBVIOUS
<1>3. k \in j..Len(M) /\ Reaches(M, k) /\ \A n \in j..k - 1 : ~Reaches(M, n)
  BY DEF NextReaching
<1>4. s \in Seq(Byte) /\ M \in Seq(Mark)
  BY DEF Marked
<1>5. Len(s) \in Nat /\ Len(M) \in Nat
  BY <1>4, SMT
<1>6. k \in 1..Len(M) /\ l \in 0..Len(M) /\ i \in 0..l /\ l \in i..Len(M)
  BY <1>1, <1>3, <1>5, SMT
<1>7. MarkAt(s, M, k)
  BY <1>6 DEF Marked
<1>8. e \in Logged /\ y \in Nat /\ x \in Nat /\ u \in Nat /\ M[k].start = x
  BY <1>1, <1>2, <1>4, <1>6, <1>7, MarkIs, EndType DEF MarkAt
<1>9. u <= x /\ c <= u /\ m = u - c /\ c \in Nat
  BY <1>2, <1>6, MarksGrow
<1>10. x < y /\ Shows(s, x, e, y - x) /\ w = y - x
  BY <1>1, <1>2, <1>7, <1>8 DEF MarkAt
<1>11. w \in Nat
  BY <1>8, <1>10, SMT
<1>12. x + w <= Len(s)
  BY <1>10 DEF Shows
<1>13. PICK d \in Nat : d = x - c
  BY <1>8, <1>9, SMT
<1>14. c \in 0..Len(s) /\ x = c + d /\ d <= Len(s) - c /\ m \in Nat /\ m <= d
  BY ONLY <1>5, <1>8, <1>9, <1>11, <1>12, <1>13, SMT
<1>15. r \in Seq(Byte) /\ Shows(r, d, e, w)
  BY <1>4, <1>10, <1>11, <1>14, FromShows
<1>16. ASSUME NEW n \in m + 1..d PROVE r[n] \in Digit
  <2>1. PICK z : z = c + n
    OBVIOUS
  <2>2. n \in 1..Len(s) - c /\ z \in 1..Len(s) /\ u < z /\ z <= x
    <3>1. n \in m + 1..d
      OBVIOUS
    <3> QED
      BY ONLY <1>5, <1>8, <1>9, <1>14, <2>1, <3>1, SMT
  <2>3. r[n] = s[z]
    BY <1>4, <1>14, <2>1, <2>2, FromIs
  <2>4. \A h \in i + 1..l : ~Reaches(M, h)
    BY <1>1, <1>3
  <2>5. s[z] \in Digit
    BY <1>2, <1>6, <2>2, <2>4, DigitsBetween
  <2> QED
    BY <2>3, <2>5
<1>17. w >= TimeLen(e) + 1
  BY <1>1, <1>3 DEF Reaches
<1>18. PICK z : z = d + TimeLen(e) + 1
  OBVIOUS
<1>19. Follows(r, m, d, e, w, z)
  BY <1>8, <1>11, <1>14, <1>15, <1>16, <1>17, <1>18 DEF Follows
<1> QED
  BY <1>19

(* MalformedSkips: what is malformed is skipped to the next newline. *)
LEMMA MalformedSkips ==
    ASSUME NEW s \in Seq(Byte), NEW c \in 0..Len(s), Decode(From(s, c + 1)) = Malformed,
           NEW y \in c + 1..Len(s), s[y] = Newline
    PROVE  \E x \in c + 1..y : SkipsLine(s, c, x) /\ s[x] = Newline
<1>1. PICK r, k : r = From(s, c + 1) /\ k = Find(r, Newline)
  OBVIOUS
<1>2. r \in Seq(Byte) /\ Len(r) = Len(s) - c /\ \A i \in 1..Len(s) - c : r[i] = s[c + i]
  BY <1>1, FromIs
<1>3. PICK n : n = y - c
  OBVIOUS
<1>4. Len(s) \in Nat
  BY SMT
<1>5. n \in 1..Len(s) - c /\ c + n = y
  BY <1>3, <1>4, SMT
<1>6. r[n] = Newline
  BY <1>2, <1>5
<1>first. /\ k = 0 => \A i \in 1..Len(r) : r[i] # Newline
          /\ k # 0 => k \in 1..Len(r) /\ r[k] = Newline /\ NoneBefore(r, Newline, k)
  <2>1. r \in Seq(Byte)
    BY <1>2
  <2>2. /\ Find(r, Newline) = 0 => \A i \in 1..Len(r) : r[i] # Newline
        /\ Find(r, Newline) # 0 => /\ Find(r, Newline) \in 1..Len(r) /\ r[Find(r, Newline)] = Newline
                                   /\ NoneBefore(r, Newline, Find(r, Newline))
    BY ONLY <2>1, FindIs, ZenonT(30)
  <2> QED
    BY ONLY <1>1, <2>2, Zenon
<1>7. k # 0
  BY <1>2, <1>5, <1>6, <1>first
<1>8. k \in 1..Len(s) - c /\ r[k] = Newline /\ NoneBefore(r, Newline, k)
  BY <1>2, <1>7, <1>first
<1>9. ~(n \in 1..k - 1)
  BY <1>6, <1>8 DEF NoneBefore
<1>10. PICK x : x = c + k
  OBVIOUS
<1>11. x \in c + 1..y
  <2>1. k \in 1..Len(s) - c
    BY <1>8
  <2> QED
    BY <1>4, <1>5, <1>9, <1>10, <2>1, SMT
<1>12. s[x] = Newline
  BY <1>2, <1>8, <1>10
<1>13. SkipsLine(s, c, x)
  <2>1. Malformed.kind = "malformed"
    BY DEF Malformed
  <2> QED
    BY <1>1, <1>7, <1>10, <2>1 DEF SkipsLine
<1> QED
  BY <1>11, <1>12, <1>13

(* Each record up to the k-th that was cut off has a whole one after it,     *)
(* before the k-th, that ends no earlier than the record would have.         *)
Witnessed(M, k) ==
    \A j \in 1..k : M[j].end # M[j].full =>
        \E h \in j + 1..k - 1 : M[h].end = M[h].full /\ M[h].end >= M[j].full

(* The parser goes on behind a newline, at most y. *)
GoesOn(s, c, y) ==
    \E x \in c + 1..y : /\ s[x] = Newline
                        /\ SkipsLine(s, c, x) \/ \E e : TakesRecord(s, c, e, x)

(* TornStep: at a record cut off, no later than where the k-th begins. *)
LEMMA TornStep ==
    ASSUME NEW s, NEW M, Marked(s, M), NEW k \in 1..Len(M), Witnessed(M, k),
           NEW j \in 1..k, M[j].end # M[j].full, NEW c, c = End(M, j - 1)
    PROVE  GoesOn(s, c, End(M, k - 1))
<1>1. PICK r, z, i : r = From(s, c + 1) /\ z = End(M, i) /\ i = k - 1
  OBVIOUS
<1>2. s \in Seq(Byte) /\ M \in Seq(Mark)
  BY DEF Marked
<1>3. Len(s) \in Nat /\ Len(M) \in Nat
  BY <1>2, SMT
<1>4. PICK h \in j + 1..k - 1 : M[h].end = M[h].full /\ M[h].end >= M[j].full
  BY DEF Witnessed
<1>5. /\ h \in 1..Len(M) /\ h \in j..Len(M) /\ j \in 1..Len(M) /\ i \in 0..Len(M) /\ h \in 0..i
      /\ j - 1 \in 0..h /\ j - 1 \in 0..Len(M) /\ h \in 0..Len(M) /\ j - 1 # h
      /\ Len(M) \in 0..Len(M) /\ i \in 0..Len(M)
  BY <1>1, <1>3, SMT
<1>6. Reaches(M, h)
  BY <1>4, <1>5, WholeReaches
<1>7. PICK n \in j..h : NextReaching(M, j, n)
  BY <1>2, <1>5, <1>6, NextReachingIs
<1>8. n \in 1..Len(M) /\ n \in 1..k /\ n # k /\ n \in 0..i
  BY <1>1, <1>3, <1>5, SMT
<1>9. /\ c \in Nat /\ z \in Nat /\ End(M, h) \in 1..Len(s) /\ s[End(M, h)] = Newline
      /\ c < End(M, h) /\ End(M, h) <= z
  BY <1>1, <1>2, <1>4, <1>5, WholeNewline, MarksGrow, EndType
<1>10. c \in 0..Len(s) /\ End(M, h) \in c + 1..Len(s) /\ z <= Len(s)
  <2>1. z <= Len(s)
    <3>1. i \in 0..Len(M) /\ Len(s) = End(M, Len(M))
      BY <1>5 DEF Marked
    <3> QED
      BY <1>1, <1>5, <3>1, MarksGrow
  <2> QED
    BY <1>3, <1>9, <2>1, SMT
<1>11. CASE Decode(r) = Malformed
  <2>1. PICK x \in c + 1..End(M, h) : SkipsLine(s, c, x) /\ s[x] = Newline
    BY <1>1, <1>2, <1>9, <1>10, <1>11, MalformedSkips
  <2>2. x \in c + 1..z
    BY <1>3, <1>9, SMT
  <2> QED
    BY <1>1, <2>1, <2>2 DEF GoesOn
<1>12. CASE Decode(r) # Malformed
  <2>1. PICK d, e, w, a, b : /\ d = End(M, n - 1) - c /\ e = M[n].entry
                             /\ w = M[n].end - M[n].start /\ a = TimeLen(e) /\ b = SizeLen(e)
    OBVIOUS
  <2>2. PICK p, q : p = d + a + 1 /\ q = d + a + b + 4
    OBVIOUS
  <2>3. Placed(r, d, e, w, a, b, p, q) /\ w >= a + 1
    BY <1>1, <1>5, <1>7, <2>1, <2>2, ReachingPlaced
  <2>4. e \in Logged /\ r \in Seq(Byte) /\ d \in Nat /\ w \in Nat
    BY <2>3 DEF Placed
  <2>5. a \in Nat /\ b \in Nat
    BY <2>1, <2>4, LensAre
  <2>6. PICK x, y, f : x = M[n].start /\ y = M[n].end /\ f = M[n].full
    OBVIOUS
  <2>7. /\ x \in Nat /\ y \in Nat /\ f \in Nat /\ f = x + Len(Encode(e)) /\ x < y /\ y <= f
        /\ x = End(M, n - 1) /\ y = End(M, n)
    <3>1. MarkAt(s, M, n)
      BY <1>8 DEF Marked
    <3> QED
      BY <1>2, <1>8, <2>1, <2>6, <3>1, MarkIs DEF MarkAt
  <2>8. f <= z
    <3>1. CASE y = f
      <4>1. End(M, n) <= End(M, i)
        BY <1>5, <1>8, MarksGrow
      <4> QED
        BY <1>1, <2>7, <3>1, <4>1
    <3>2. CASE y # f
      <4>1. PICK g \in n + 1..k - 1 : M[g].end = M[g].full /\ M[g].end >= f
        BY <1>8, <2>6, <3>2 DEF Witnessed
      <4>2. g \in 0..i /\ g \in 1..Len(M)
        BY <1>1, <1>3, <1>8, SMT
      <4>3. End(M, g) <= z /\ End(M, g) = M[g].end /\ M[g].end \in Nat
        BY <1>1, <1>2, <1>5, <4>2, MarksGrow, MarkIs
      <4>4. PICK o \in Nat : o = M[g].end
        BY <4>3
      <4>5. o >= f /\ o <= z /\ f \in Nat /\ z \in Nat /\ o \in Nat
        BY <1>9, <2>7, <4>1, <4>3, <4>4
      <4> QED
        BY ONLY <4>5, SMT
    <3> QED
      BY <3>1, <3>2
  <2>9. ~(w < a + b + 4)
    <3> SUFFICES ASSUME w < a + b + 4 PROVE FALSE
      OBVIOUS
    <3>1. y # f
      <4>1. Len(Encode(e)) = a + b + Len(e.data) + 5 /\ Len(e.data) \in Nat
        BY <2>1, <2>4, EncodeLen
      <4>2. w = y - x /\ w < a + b + 4
        BY <2>1, <2>6
      <4>3. f = x + (a + b + Len(e.data) + 5)
        BY <2>7, <4>1
      <4>4. PICK l \in Nat : l = Len(e.data)
        BY <4>1
      <4>5. f = x + (a + b + l + 5) /\ x \in Nat /\ y \in Nat /\ l \in Nat /\ w \in Nat
        BY <2>4, <2>7, <4>3, <4>4
      <4> QED
        BY ONLY <2>5, <4>2, <4>5, SMT
    <3>2. PICK g \in n + 1..k - 1 : M[g].end = M[g].full
      BY <1>8, <2>6, <3>1 DEF Witnessed
    <3>3. PICK o : o = n + 1
      OBVIOUS
    <3>4. g \in o..Len(M) /\ o \in 1..Len(M) /\ n \in 0..Len(M) /\ g \in 1..Len(M)
      BY <1>3, <1>8, <3>3, SMT
    <3>5. Reaches(M, g)
      BY <3>2, <3>4, WholeReaches
    <3>6. PICK t \in o..g : NextReaching(M, o, t)
      BY <1>2, <3>4, <3>5, NextReachingIs
    <3>7. PICK m : m = y - c
      OBVIOUS
    <3>8. c <= y /\ m = d + w
      <4>1. /\ d = x - c /\ w = y - x /\ d \in Nat /\ w \in Nat /\ x < y
            /\ x \in Nat /\ y \in Nat /\ c \in Nat
        BY <1>9, <2>1, <2>4, <2>6, <2>7
      <4> QED
        BY ONLY <3>7, <4>1, SMT
    <3>9. PICK dd, ff, vv, zz : Follows(r, m, dd, ff, vv, zz)
      BY <1>1, <1>9, <2>7, <3>3, <3>4, <3>6, <3>7, <3>8, ReachingFollows
    <3>10. Decode(r) = Malformed
      BY <2>3, <3>8, <3>9, TornHeader
    <3> QED
      BY <1>12, <3>10
  <2>10. w >= a + b + 4
    BY <2>4, <2>5, <2>9, SMT
  <2>11. Number(SubSeq(r, 1, p - 1)) # None
    <3>1. SpaceAt(r, p)
      BY <2>3, DigitsThen
    <3> QED
      BY <1>12, <2>4, <3>1, DecodeBadTime
  <2>12. PICK v : v = d + Len(Encode(e))
    OBVIOUS
  <2>13. v \in 1..Len(s) - c /\ c + v = f /\ f \in c + 1..z
    <3>1. d = x - c /\ d \in Nat
      BY <2>1, <2>4, <2>7
    <3>2. PICK l : l = Len(Encode(e))
      OBVIOUS
    <3>3. v = d + l /\ l \in Nat /\ f = x + l
      BY <2>4, <2>7, <2>12, <3>2, EncodeLen
    <3>4. /\ x \in Nat /\ y \in Nat /\ x < y /\ y <= f /\ f \in Nat /\ f <= z /\ z <= Len(s)
          /\ z \in Nat /\ c \in Nat /\ Len(s) \in Nat
      BY <1>3, <1>9, <1>10, <2>7, <2>8
    <3> QED
      BY ONLY <3>1, <3>3, <3>4, SMT
  <2>14. Len(r) = Len(s) - c /\ r[v] = s[f]
    BY <1>1, <1>2, <1>10, <2>13, FromIs
  <2>15. ~(Len(r) < v)
    BY <1>3, <1>9, <2>13, <2>14, SMT
  <2>16. s[f] = Newline /\ Decode(r) = [kind |-> "record", consumed |-> v, entry |-> EntryAt(r, p, q)]
    BY <1>12, <2>3, <2>10, <2>11, <2>12, <2>14, <2>15, BodyThere
  <2>17. TakesRecord(s, c, EntryAt(r, p, q), f)
    <3>1. PICK en : en = EntryAt(r, p, q)
      OBVIOUS
    <3>2. Decode(r).kind = "record" /\ Decode(r).consumed = v /\ Decode(r).entry = en
      BY <2>16, <3>1, SMT
    <3> QED
      BY <1>1, <2>13, <3>1, <3>2 DEF TakesRecord
  <2> QED
    BY <1>1, <2>13, <2>16, <2>17 DEF GoesOn
<1> QED
  BY <1>11, <1>12

(* NewlineStep: the parser that stands before the newline of a whole record  *)
(* skips it, if there is a record after it.                                  *)
LEMMA NewlineStep ==
    ASSUME NEW s \in Seq(Byte), NEW c \in Nat, NEW x, x = c + 1, x \in 1..Len(s), s[x] = Newline,
           NEW y \in 1..Len(s), x < y, s[y] = Space
    PROVE  SkipsLine(s, c, x)
<1>1. PICK r : r = From(s, c + 1)
  OBVIOUS
<1>2. Len(s) \in Nat
  BY SMT
<1>3. c \in 0..Len(s) /\ 1 \in 1..Len(s) - c
  BY <1>2, SMT
<1>4. r \in Seq(Byte) /\ Len(r) = Len(s) - c /\ \A i \in 1..Len(s) - c : r[i] = s[c + i]
  BY <1>1, <1>3, FromIs
<1>5. r[1] = Newline /\ 1 \in 1..Len(r)
  BY <1>3, <1>4
<1>6. Find(r, Newline) = 1 /\ Find(r, Newline) # 0
  <2>1. NoneBefore(r, Newline, 1)
    BY SMT DEF NoneBefore
  <2> QED
    BY <1>4, <1>5, <2>1, FindAt
<1>7. PICK p : p = Find(r, Space)
  OBVIOUS
<1>8. p # 0
  <2>1. PICK n : n = y - c
    OBVIOUS
  <2>2. n \in 1..Len(s) - c /\ c + n = y
    BY <1>2, <2>1, SMT
  <2>3. r[n] = Space /\ n \in 1..Len(r)
    BY <1>4, <2>2
  <2>4. Find(r, Space) = 0 => \A i \in 1..Len(r) : r[i] # Space
    <3>1. r \in Seq(Byte)
      BY <1>4
    <3> QED
      BY ONLY <3>1, FindIs, Zenon
  <2> QED
    BY <1>7, <2>3, <2>4
<1>9. SpaceAt(r, p)
  BY <1>4, <1>7, <1>8, FindIs, ZenonT(30) DEF SpaceAt
<1>10. p \in 1..Len(r) /\ r[p] = Space
  BY <1>9 DEF SpaceAt
<1>11. p # 1
  BY <1>5, <1>10, ByteFacts
<1>12. Number(SubSeq(r, 1, p - 1)) = None
  <2>1. PICK t : t = SubSeq(r, 1, p - 1)
    OBVIOUS
  <2>2. 1 \in DOMAIN t /\ t[1] = r[1]
    <3>1. p \in 1..Len(r) /\ r \in Seq(Byte) /\ p # 1
      BY <1>4, <1>10, <1>11
    <3> QED
      BY ONLY <2>1, <3>1, SMT
  <2>3. ~(t[1] \in 0..9)
    <3>1. t[1] = Newline
      BY <1>5, <2>2
    <3> QED
      BY ONLY <3>1, SMT DEF Newline
  <2> QED
    BY <2>1, <2>2, <2>3 DEF Number
<1>13. Decode(r) = Malformed
  BY <1>4, <1>9, <1>12, DecodeBadTime
<1>14. Malformed.kind = "malformed"
  BY DEF Malformed
<1> QED
  BY <1>1, <1>6, <1>13, <1>14 DEF SkipsLine

(* A whole record has a space after where it begins. *)
LEMMA WholeSpace ==
    ASSUME NEW s, NEW M, Marked(s, M), NEW k \in 1..Len(M), M[k].end = M[k].full
    PROVE  \E y \in 1..Len(s) : End(M, k - 1) + 1 < y /\ s[y] = Space
<1>1. PICK e, c, x : e = M[k].entry /\ c = M[k].start /\ x = M[k].end
  OBVIOUS
<1>2. PICK r, a, b, m, n : /\ r = Encode(e) /\ a = TimeLen(e) /\ b = SizeLen(e)
                           /\ m = Len(e.data) /\ n = Len(r)
  OBVIOUS
<1>3. s \in Seq(Byte) /\ M \in Seq(Mark) /\ MarkAt(s, M, k)
  BY DEF Marked
<1>4. e \in Logged /\ c \in Nat /\ x \in Nat /\ x = c + n /\ c = End(M, k - 1) /\ Shows(s, c, e, x - c)
  BY <1>1, <1>2, <1>3, MarkIs DEF MarkAt
<1>5. n = a + b + m + 5 /\ a \in Nat \ {0} /\ b \in Nat /\ m \in Nat
  BY <1>2, <1>4, EncodeLen
<1>6. Laid(r, e, a, b, m)
  BY <1>2, <1>4, EncodeIs
<1>7. PICK y : y = c + (a + 1)
  OBVIOUS
<1>8. c + (x - c) <= Len(s) /\ \A i \in 1..x - c : s[c + i] = r[i]
  BY <1>2, <1>4 DEF Shows
<1>9. a + 1 \in 1..x - c /\ y \in 1..Len(s) /\ c + 1 < y
  <2>1. Len(s) \in Nat
    BY <1>3, SMT
  <2>2. c \in Nat /\ x \in Nat /\ x = c + n /\ c + (x - c) <= Len(s)
    BY <1>4, <1>8
  <2> QED
    BY ONLY <1>5, <1>7, <2>1, <2>2, SMT
<1>10. s[y] = Space
  BY <1>6, <1>7, <1>8, <1>9 DEF Laid
<1> QED
  BY <1>4, <1>9, <1>10

(* e is one of the entries of f. *)
Among(e, f) == \E i \in 1..Len(f) : f[i] = e

LEMMA AmongFirst ==
    ASSUME NEW e \in Entry, NEW f \in Seq(Entry)
    PROVE  Among(e, <<e>> \o f)
<1>1. 1 \in 1..Len(<<e>> \o f) /\ (<<e>> \o f)[1] = e
  BY SMT
<1> QED
  BY <1>1 DEF Among

LEMMA AmongLater ==
    ASSUME NEW e \in Entry, NEW d \in Entry, NEW f \in Seq(Entry), Among(e, f)
    PROVE  Among(e, <<d>> \o f)
<1>1. PICK i \in 1..Len(f) : f[i] = e
  BY DEF Among
<1>2. i + 1 \in 1..Len(<<d>> \o f) /\ (<<d>> \o f)[i + 1] = f[i]
  BY SMT
<1> QED
  BY <1>1, <1>2 DEF Among

(* Recovers: a record written whole is parsed, whatever was cut off before   *)
(* it, if each cut was made up for by whole records before it.               *)
LEMMA Recovers ==
    ASSUME NEW s, NEW M, Marked(s, M), NEW k \in 1..Len(M), Witnessed(M, k)
    PROVE  Among(M[k].entry, Parse(s))
<1>1. PICK e, z, l : e = M[k].entry /\ z = End(M, l) /\ l = k - 1
  OBVIOUS
<1>2. s \in Seq(Byte) /\ M \in Seq(Mark) /\ Len(s) = End(M, Len(M))
  BY DEF Marked
<1>3. Len(s) \in Nat /\ Len(M) \in Nat /\ k \in Nat
  BY <1>2, SMT
<1>4. l \in 0..Len(M) /\ l \in 0..l /\ l \in Nat /\ Len(M) \in 0..Len(M) /\ k \in 1..k
  BY <1>1, <1>3, SMT
<1>5. M[k].end = M[k].full
  <2> SUFFICES ASSUME M[k].end # M[k].full PROVE FALSE
    OBVIOUS
  <2>1. k + 1..k - 1 = {}
    BY <1>3, SMT
  <2> QED
    BY <1>4, <2>1 DEF Witnessed
<1>6. z \in Nat /\ z <= Len(s)
  BY <1>1, <1>2, <1>4, EndType, MarksGrow
<1>7. e \in Entry
  BY <1>1, <1>2, MarkIs, LoggedIs
<1>8. PICK g : Parsed(s, g) /\ Parse(s) = g[0]
  BY <1>2, ParseIs
<1>9. g \in [0..Len(s) -> Seq(Entry)] /\ \A c \in 0..Len(s) : g[c] = ParseFrom(s, g, c)
  BY <1>8 DEF Parsed
<1>10. \A c \in 0..z : c \in 0..Len(s)
  BY <1>3, <1>6, SMT
<1> DEFINE InStep(c) == (\E i \in 0..l : c = End(M, i)) \/ (c \in 1..z /\ s[c] = Newline)
           S == {c \in 0..z : InStep(c) => Among(e, g[c])}
<1>11. ASSUME NEW c \in 0..z, \A x \in c + 1..z : x \in S, InStep(c) PROVE Among(e, g[c])
  <2>0. c \in 0..Len(s) /\ c \in Nat
    <3>1. c \in Nat
      BY <1>6, SMT
    <3> QED
      BY <1>10, <3>1
  <2>1. ASSUME NEW x \in c + 1..z, InStep(x), NEW d, TakesRecord(s, c, d, x) PROVE Among(e, g[c])
    <3>1. g[c] = <<d>> \o g[x]
      <4>1. g[c] = ParseFrom(s, g, c)
        BY <1>9, <2>0
      <4>2. ParseFrom(s, g, c) = <<d>> \o g[x]
        BY ONLY <2>1, ParseRecord, SMT
      <4> QED
        BY <4>1, <4>2
    <3>2. Among(e, g[x])
      BY <1>11, <2>1
    <3>3. x \in 0..Len(s)
      BY <1>3, <1>6, <2>0, SMT
    <3>4. d \in Entry
      <4>1. PICK r : r = From(s, c + 1)
        OBVIOUS
      <4>2. r \in Seq(Byte)
        BY <1>2, <2>0, <4>1, FromIs
      <4>3. Decode(r).kind = "record" /\ d = Decode(r).entry
        BY <2>1, <4>1 DEF TakesRecord
      <4> QED
        BY <4>2, <4>3, DecodeType
    <3>5. g[x] \in Seq(Entry)
      BY <1>9, <3>3
    <3>6. Among(e, <<d>> \o g[x])
      BY <1>7, <3>2, <3>4, <3>5, AmongLater
    <3> QED
      BY <3>1, <3>6
  <2>2. ASSUME NEW x \in c + 1..z, InStep(x), SkipsLine(s, c, x) PROVE Among(e, g[c])
    <3>1. g[c] = g[x]
      BY <1>9, <2>0, <2>2, ParseSkip, ZenonT(30)
    <3>2. Among(e, g[x])
      BY <1>11, <2>2
    <3> QED
      BY <3>1, <3>2
  <2>3. ASSUME NEW i \in 0..l, c = End(M, i) PROVE Among(e, g[c])
    <3>1. PICK j : j = i + 1
      OBVIOUS
    <3>2. j - 1 = i /\ j \in 1..k /\ j \in 1..Len(M) /\ j \in 0..Len(M) /\ (i # l => j \in 0..l)
      BY <1>1, <1>3, <1>4, <3>1, SMT
    <3>3. CASE M[j].end = M[j].full
      <4>1. PICK x : x = End(M, j)
        OBVIOUS
      <4>2. x \in 0..Len(s) /\ TakesRecord(s, c, M[j].entry, x)
        BY <2>3, <3>2, <3>3, <4>1, WholeTaken
      <4>3. CASE i = l
        <5>1. M[j].entry = e
          <6>1. j = k
            BY <1>1, <1>3, <3>1, <4>3, SMT
          <6> QED
            BY <1>1, <6>1
        <5>2. ParseFrom(s, g, c) = <<M[j].entry>> \o g[x]
          BY ONLY <4>2, ParseRecord, SMT
        <5>3. g[x] \in Seq(Entry)
          BY <1>9, <4>2
        <5>4. Among(e, <<e>> \o g[x])
          BY <1>7, <5>3, AmongFirst
        <5> QED
          BY <1>9, <2>0, <5>1, <5>2, <5>4
      <4>4. CASE i # l
        <5>1. InStep(x)
          BY <3>2, <4>1, <4>4
        <5>2. x \in c + 1..z
          <6>1. End(M, i) < End(M, j) /\ End(M, j) <= End(M, l)
            <7>1. i \in 0..j /\ i # j
              BY <1>4, <3>1, SMT
            <7> QED
              BY <1>4, <3>2, <4>4, <7>1, MarksGrow
          <6>2. c < x /\ x <= z /\ x \in Nat
            BY <1>1, <1>2, <2>3, <3>2, <4>1, <6>1, EndType
          <6> QED
            BY <1>6, <2>0, <6>2, SMT
        <5> QED
          BY <2>1, <4>2, <5>1, <5>2
      <4> QED
        BY <4>3, <4>4
    <3>4. CASE M[j].end # M[j].full
      <4>1. GoesOn(s, c, End(M, k - 1))
        BY <2>3, <3>2, <3>4, TornStep
      <4>2. PICK x \in c + 1..z : /\ s[x] = Newline
                                  /\ SkipsLine(s, c, x) \/ \E d : TakesRecord(s, c, d, x)
        BY <1>1, <4>1 DEF GoesOn
      <4>3. x \in 1..z
        BY <1>6, <2>0, SMT
      <4>4. InStep(x)
        BY <4>2, <4>3
      <4> QED
        BY <2>1, <2>2, <4>2, <4>4
    <3> QED
      BY <3>3, <3>4
  <2>4. CASE c \in 1..z /\ s[c] = Newline
    <3>1. c \in 1..Len(s)
      BY <1>3, <1>6, <2>4, SMT
    <3>2. PICK i \in 1..Len(M) : c = End(M, i) \/ (c + 1 = End(M, i) /\ M[i].end = M[i].full)
      BY <2>4, <3>1, NewlineAt
    <3>3. i \in 0..Len(M) /\ i \in Nat
      BY <1>3, SMT
    <3>4. i \in 0..l
      <4> SUFFICES ASSUME i \notin 0..l PROVE FALSE
        OBVIOUS
      <4>1. k \in 0..i /\ k \in 1..Len(M) /\ l \in 0..k /\ l # k /\ k \in 0..Len(M)
        BY <1>1, <1>3, <3>3, SMT
      <4>2. End(M, k) <= End(M, i) /\ z < End(M, k)
        BY <1>1, <3>3, <4>1, MarksGrow
      <4>3. End(M, k) \in Nat /\ End(M, i) \in Nat
        BY <1>2, <3>3, <4>1, EndType
      <4>4. CASE c = End(M, i)
        BY <1>6, <2>4, <4>2, <4>3, <4>4, SMT
      <4>5. CASE c + 1 = End(M, i) /\ c # End(M, i)
        <5>1. c = z /\ End(M, k) = End(M, i)
          BY <1>6, <2>4, <4>2, <4>3, <4>5, SMT
        <5>2. c < z + 1 /\ End(M, k) = z + 1
          BY <1>6, <2>4, <4>3, <4>5, <5>1, SMT
        <5>3. PICK y \in 1..Len(s) : z + 1 < y /\ s[y] = Space
          BY <1>1, <1>5, WholeSpace
        <5>4. k \in 1..Len(M) /\ End(M, k) - z >= 2
          <6>1. PICK n : n = Len(Encode(M[k].entry))
            OBVIOUS
          <6>2. MarkAt(s, M, k) /\ M[k].entry \in Logged /\ End(M, k) = M[k].end
            BY <1>2, <4>1, MarkIs DEF Marked
          <6>3. End(M, k) = z + n
            BY <1>1, <1>5, <6>1, <6>2 DEF MarkAt
          <6>4. PICK a, b, m : a = TimeLen(M[k].entry) /\ b = SizeLen(M[k].entry) /\ m = Len(M[k].entry.data)
            OBVIOUS
          <6>5. n = a + b + m + 5 /\ a \in Nat /\ b \in Nat /\ m \in Nat
            BY <6>1, <6>2, <6>4, EncodeLen
          <6>6. End(M, k) \in Nat /\ z \in Nat
            BY <1>6, <4>3
          <6>7. End(M, k) - z >= 2
            BY ONLY <6>3, <6>5, <6>6, SMT
          <6> QED
            BY <4>1, <6>7
        <5> QED
          BY <1>6, <5>2, <5>4, SMT
      <4> QED
        BY <3>2, <4>4, <4>5
    <3>5. CASE c = End(M, i)
      BY <2>3, <3>4, <3>5
    <3>6. CASE c + 1 = End(M, i) /\ M[i].end = M[i].full
      <4>1. PICK x : x = c + 1
        OBVIOUS
      <4>2. x \in 1..Len(s) /\ s[x] = Newline
        BY <3>6, <4>1, WholeNewline
      <4>3. x <= z
        BY <1>1, <1>4, <3>4, <3>6, <4>1, MarksGrow
      <4>4. x \in c + 1..z
        BY <1>6, <2>0, <4>1, <4>3, SMT
      <4>5. PICK y \in 1..Len(s) : z + 1 < y /\ s[y] = Space
        BY <1>1, <1>5, WholeSpace
      <4>6. x < y
        BY <1>3, <1>6, <4>3, <4>4, <4>5, <2>0, SMT
      <4>7. SkipsLine(s, c, x)
        BY <1>2, <2>0, <4>1, <4>2, <4>5, <4>6, NewlineStep
      <4>8. InStep(x)
        BY <3>4, <3>6, <4>1
      <4> QED
        BY <2>2, <4>4, <4>7, <4>8
    <3> QED
      BY <3>2, <3>5, <3>6
  <2> QED
    BY <1>11, <2>3, <2>4
<1>12. 0 \in S
  <2>1. \A m \in 0..z : (\A x \in m + 1..z : x \in S) => m \in S
    BY <1>11
  <2>2. 0 \in 0..z
    BY <1>6, SMT
  <2> HIDE DEF S
  <2> QED
    BY <1>6, <2>1, <2>2, Downwards
<1>13. InStep(0)
  <2>1. 0 \in 0..l
    BY <1>4, SMT
  <2> QED
    BY <2>1 DEF End
<1> QED
  BY <1>1, <1>8, <1>12, <1>13

------------------------------------------------------------------------------
(* The tailer *)

(* Recovery: ParseRecovers in every reachable state. What failed appends     *)
(* leave behind in events.log costs parse_events_file the records up to the  *)
(* announced end and the one that reaches past it, whatever was cut where.   *)
THEOREM Recovery == Spec => []ParseRecovers
<1>1. Init => TailerInv
  BY TailerInit
<1>2. TailerInv /\ [Next]_vars => TailerInv'
  BY TailerNext
<1>3. TailerInv => ParseRecovers
  <2> SUFFICES ASSUME TailerInv, NEW i \in DOMAIN files, NEW k \in DOMAIN appended[i],
                      LET ms == appended[i]
                          torn == {j \in 1..k : ms[j].end # ms[j].full}
                      IN  \A j \in torn : \E h \in j + 1..k - 1 :
                              h \notin torn /\ ms[h].end >= ms[j].full
               PROVE  appended[i][k].entry \in Range(Parse(files[i]))
    BY DEF ParseRecovers
  <2>1. PICK M, s : M = appended[i] /\ s = files[i]
    OBVIOUS
  <2>2. /\ files \in Seq(Seq(Byte)) /\ appended \in Seq(Seq(Mark)) /\ Len(appended) = Len(files)
        /\ \A j \in 1..Len(files) : Marked(files[j], appended[j])
    BY DEF TailerInv, TailerType, FilesMarked
  <2>3. i \in 1..Len(files)
    BY <2>2, SMT
  <2>4. Marked(s, M)
    BY <2>1, <2>2, <2>3
  <2>5. M \in Seq(Mark) /\ s \in Seq(Byte)
    BY <2>4 DEF Marked
  <2>6. k \in 1..Len(M) /\ Len(M) \in Nat
    BY <2>1, <2>5, SMT
  <2>7. Witnessed(M, k)
    <3> SUFFICES ASSUME NEW j \in 1..k, M[j].end # M[j].full
                 PROVE  \E h \in j + 1..k - 1 : M[h].end = M[h].full /\ M[h].end >= M[j].full
      BY DEF Witnessed
    <3>1. PICK h \in j + 1..k - 1 :
              h \notin {g \in 1..k : M[g].end # M[g].full} /\ M[h].end >= M[j].full
      BY <2>1
    <3>2. h \in 1..k
      BY <2>6, SMT
    <3> QED
      BY <3>1, <3>2
  <2>8. Among(M[k].entry, Parse(s))
    BY <2>4, <2>6, <2>7, Recovers
  <2>9. Parse(s) \in Seq(Entry)
    BY <2>5, ParseType
  <2>10. PICK f : f = Parse(s)
    OBVIOUS
  <2>11. DOMAIN f = 1..Len(f)
    BY <2>9, <2>10, SMT
  <2> QED
    BY <2>1, <2>8, <2>10, <2>11 DEF Among, Range
<1> QED
  BY <1>1, <1>2, <1>3, PTL DEF Spec
=============================================================================
