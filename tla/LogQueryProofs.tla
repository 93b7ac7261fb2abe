--------------------------- MODULE LogQueryProofs ----------------------------
(***************************************************************************)
(* What a query of the events files returns, for any filter, while the     *)
(* tailer works on the files: its type, the order, and, where no rotation  *)
(* comes between, all of it.                                               *)
(***************************************************************************)
EXTENDS LogFilesProofs, FiniteSetTheorems

(* Zenon proves the steps that cite no prover; SMT is cited where there are *)
(* numbers, sequences, or much to unfold.                                   *)
USE Zenon

------------------------------------------------------------------------------
(* The decoder *)

LEMMA DecodeNothing ==
    ASSUME NEW s \in Seq(Byte), \A i \in 1..Len(s) : s[i] # Space
    PROVE  Decode(s) = NeedMore
<1>1. Find(s, Space) = 0
  BY FindNone
<1> QED
  BY <1>1 DEF Decode

------------------------------------------------------------------------------
(* Encoded records *)

(* PrefixNeedsMore: bytes that end within a record are waited for. *)
LEMMA PrefixNeedsMore ==
    ASSUME NEW s \in Seq(Byte), NEW e \in Logged, NEW w \in Nat, Shows(s, 0, e, w),
           Len(s) = w, w < Len(Encode(e))
    PROVE  Decode(s) = NeedMore
<1>1. PICK r, a, b, n : r = Encode(e) /\ a = TimeLen(e) /\ b = SizeLen(e) /\ n = Len(e.data)
  OBVIOUS
<1>2. PICK p, q, c : p = c + a + 1 /\ q = c + a + b + 4 /\ c = 0
  OBVIOUS
<1>3. /\ a \in Nat \ {0} /\ b \in Nat \ {0} /\ n \in Nat /\ w \in Nat
      /\ Len(Encode(e)) = a + b + n + 5
  BY <1>1, EncodeLen
<1>at. Placed(s, c, e, w, a, b, p, q)
  <2>1. c \in Nat /\ \A i \in 1..c : s[i] \in Digit
    BY <1>2, SMT
  <2> QED
    BY <1>1, <1>2, <2>1 DEF Placed
<1>4. Laid(r, e, a, b, n)
  BY <1>1, EncodeIs
<1>5. ASSUME NEW i \in 1..w PROVE s[i] = r[i]
  <2>1. 0 + i = i
    BY SMT
  <2> QED
    BY <1>1, <2>1 DEF Shows
<1>6. (\A i \in 1..a : Decimal[e.ms][i] # Space) /\ \A i \in 1..b : Decimal[n][i] # Space
  <2>1. PICK x, y : x = Decimal[e.ms] /\ y = Decimal[n]
    OBVIOUS
  <2>2. x \in Seq(Digit) /\ y \in Seq(Digit) /\ Len(x) = a /\ Len(y) = b
    BY <1>1, <2>1, LensAre DEF TimeLen, SizeLen
  <2>3. (\A i \in 1..a : x[i] \in Digit) /\ \A i \in 1..b : y[i] \in Digit
    BY <2>2, SMT
  <2> QED
    BY <2>1, <2>3, ByteFacts
<1>7. CASE w <= a
  <2>1. ASSUME NEW i \in 1..w PROVE s[i] # Space
    <3>1. i \in 1..a
      BY <1>3, <1>7, SMT
    <3> QED
      BY <1>4, <1>5, <1>6, <3>1 DEF Laid
  <2> QED
    BY <2>1, DecodeNothing
<1>8. CASE ~(w <= a)
  <2>1. w >= a + 1
    BY <1>3, <1>8, SMT
  <2>2. SpaceAt(s, p)
    BY <1>at, <2>1, DigitsThen
  <2>3. Number(SubSeq(s, 1, p - 1)) # None
    <3>1. Number(SubSeq(s, 1, p - 1)) = e.ms
      BY <1>2, <1>at, <2>1, TimeThere
    <3> QED
      BY <3>1, LoggedIs, CodecAssumption
  <2>4. CASE w < a + 3
    <3>1. Len(s) < p + 2
      BY <1>2, <1>3, <2>4, SMT
    <3> QED
      BY <2>2, <2>3, <3>1, DecodeShort
  <2>5. CASE ~(w < a + 3) /\ w < a + b + 4
    <3>1. w >= a + 3
      BY <1>3, <2>5, SMT
    <3>2. Stamped(s, p)
      BY <1>at, <2>3, <3>1, StampThere
    <3>3. ASSUME NEW i \in p + 3..Len(s) PROVE s[i] # Space
      <4>1. PICK k : k = i - (a + 3)
        OBVIOUS
      <4>2. k \in 1..b /\ a + 3 + k = i /\ i \in 1..w
        BY <1>2, <1>3, <2>5, <4>1, SMT
      <4>3. r[a + 3 + k] = Decimal[n][k]
        BY <1>4, <4>2 DEF Laid
      <4> QED
        BY <1>5, <1>6, <4>2, <4>3
    <3> QED
      BY <3>2, <3>3, DecodeNoLength
  <2>6. CASE ~(w < a + b + 4)
    <3>1. w >= a + b + 4
      BY <1>3, <2>6, SMT
    <3>2. PICK x : x = c + Len(Encode(e))
      OBVIOUS
    <3>3. Len(s) < x
      BY <1>2, <1>3, <3>2, SMT
    <3> QED
      BY <1>at, <2>3, <3>1, <3>2, <3>3, BodyThere
  <2> QED
    BY <2>4, <2>5, <2>6
<1> QED
  BY <1>7, <1>8

------------------------------------------------------------------------------
(* Files of records *)

LEMMA LineStops ==
    ASSUME NEW s, NEW c, Decode(From(s, c + 1)) = NeedMore
    PROVE  Stops(s, c)
<1>1. NeedMore.kind = "more"
  BY DEF NeedMore
<1> QED
  BY <1>1 DEF Stops

(* PartStops: and waits for the rest of the last one. *)
LEMMA PartStops ==
    ASSUME NEW s, NEW M, Marked(s, M), NEW k \in 1..Len(M), k = Len(M), M[k].end # M[k].full,
           NEW c, c = End(M, k - 1)
    PROVE  Stops(s, c)
<1>1. PICK e, r : e = M[k].entry /\ r = From(s, c + 1)
  OBVIOUS
<1>2. s \in Seq(Byte) /\ M \in Seq(Mark) /\ MarkAt(s, M, k) /\ Len(s) = End(M, k)
  BY DEF Marked
<1>3. PICK x : x = End(M, k)
  OBVIOUS
<1>4. e \in Logged /\ x = M[k].end /\ M[k].start = c /\ c \in Nat /\ x \in Nat /\ Len(s) = x
  BY <1>1, <1>2, <1>3, MarkIs DEF MarkAt
<1>5. PICK n : n = Len(Encode(e))
  OBVIOUS
<1>6. n \in Nat
  BY <1>4, <1>5, EncodeLen
<1>7. c < x /\ x <= c + n /\ x # c + n /\ Shows(s, c, e, x - c)
  BY <1>1, <1>2, <1>4, <1>5 DEF MarkAt
<1>8. PICK w \in Nat : w = x - c
  BY <1>4, <1>7, SMT
<1>9. c \in 0..Len(s) /\ c = c + 0 /\ 0 \in Nat /\ w < n /\ Len(s) - c = w
  BY <1>4, <1>6, <1>7, <1>8, SMT
<1>10. r \in Seq(Byte) /\ Shows(r, 0, e, w)
  BY <1>1, <1>2, <1>7, <1>8, <1>9, FromShows
<1>11. Len(r) = w
  BY <1>1, <1>2, <1>9, FromIs
<1>12. Decode(r) = NeedMore
  BY <1>4, <1>5, <1>9, <1>10, <1>11, PrefixNeedsMore
<1> QED
  BY <1>1, <1>12, LineStops

LEMMA EndStops ==
    ASSUME NEW s \in Seq(Byte), NEW c, c = Len(s)
    PROVE  Stops(s, c)
<1>1. PICK r : r = From(s, c + 1)
  OBVIOUS
<1>2. c \in 0..Len(s) /\ Len(s) - c = 0
  BY SMT
<1>3. r \in Seq(Byte) /\ Len(r) = 0
  BY <1>1, <1>2, FromIs
<1>4. \A i \in 1..Len(r) : r[i] # Space
  BY <1>3, SMT
<1>5. Decode(r) = NeedMore
  BY <1>3, <1>4, DecodeNothing
<1> QED
  BY <1>1, <1>5, LineStops

(* The entries of the marks after the k-th, to the m-th. *)
Entries(M, k, m) == [i \in 1..m - k |-> M[k + i].entry]

LEMMA EntriesAre ==
    ASSUME NEW M \in Seq(Mark), NEW m \in 0..Len(M), NEW k \in 0..m
    PROVE  /\ Entries(M, k, m) \in Seq(Logged) /\ Len(Entries(M, k, m)) = m - k
           /\ \A i \in 1..m - k : Entries(M, k, m)[i] = M[k + i].entry
<1>1. m - k \in Nat /\ \A i \in 1..m - k : k + i \in 1..Len(M)
  BY SMT
<1>2. \A i \in 1..m - k : M[k + i].entry \in Logged
  BY <1>1, MarkIs
<1>3. PICK n \in Nat : n = m - k
  BY <1>1
<1>4. PICK u : u = Entries(M, k, m)
  OBVIOUS
<1>5. u \in [1..n -> Logged] /\ \A i \in 1..n : u[i] = M[k + i].entry
  BY <1>2, <1>3, <1>4 DEF Entries
<1>6. u \in Seq(Logged) /\ Len(u) = n
  BY ONLY <1>3, <1>5, SMT
<1> QED
  BY <1>3, <1>4, <1>5, <1>6

LEMMA EntriesNext ==
    ASSUME NEW M \in Seq(Mark), NEW m \in 0..Len(M), NEW k \in 0..m - 1
    PROVE  Entries(M, k, m) = <<M[k + 1].entry>> \o Entries(M, k + 1, m)
<1>1. k \in 0..m /\ k + 1 \in 0..m /\ k + 1 \in 1..Len(M) /\ Len(M) \in Nat
  BY SMT
<1>2. PICK e, u, v, l : /\ e = M[k + 1].entry /\ u = Entries(M, k, m) /\ v = Entries(M, l, m)
                        /\ l = k + 1
  OBVIOUS
<1>3. u \in Seq(Logged) /\ Len(u) = m - k /\ \A i \in 1..m - k : u[i] = M[k + i].entry
  BY <1>1, <1>2, EntriesAre
<1>4. v \in Seq(Logged) /\ Len(v) = m - l /\ \A i \in 1..m - l : v[i] = M[l + i].entry
  BY <1>1, <1>2, EntriesAre
<1>5. e \in Logged
  BY <1>1, <1>2, MarkIs
<1>6. PICK w : w = <<e>> \o v
  OBVIOUS
<1>7. /\ w \in Seq(Logged) /\ Len(w) = m - k /\ w[1] = e
      /\ \A i \in 1..m - l : w[i + 1] = v[i]
  <2>1. /\ w \in Seq(Logged) /\ Len(w) = Len(v) + 1 /\ w[1] = e
        /\ \A i \in 1..Len(v) : w[i + 1] = v[i]
    BY <1>4, <1>5, <1>6, SMT
  <2>2. (m - l) + 1 = m - k
    BY <1>1, <1>2, SMT
  <2> QED
    BY <1>4, <2>1, <2>2
<1>8. ASSUME NEW i \in 1..m - k PROVE u[i] = w[i]
  <2>1. CASE i = 1
    BY <1>2, <1>3, <1>7, <2>1
  <2>2. CASE i # 1
    <3>1. PICK j : j = i - 1
      OBVIOUS
    <3>2. j \in 1..m - l /\ j + 1 = i /\ l + j = k + i
      BY <1>1, <1>2, <2>2, <3>1, SMT
    <3> QED
      BY <1>3, <1>4, <1>7, <3>2
  <2> QED
    BY <2>1, <2>2
<1>9. u = w
  BY <1>3, <1>7, <1>8, SameSeq
<1> QED
  BY <1>2, <1>6, <1>9

(* m of the marks were written whole, and at most one after them was not. *)
AllWhole(M, m) ==
    /\ m \in 0..Len(M) /\ \A k \in 1..m : M[k].end = M[k].full
    /\ m = Len(M) \/ (m + 1 = Len(M) /\ M[m + 1].end # M[m + 1].full)

(* ParseWhole: the parser finds the whole records of a file, if only its     *)
(* last record may be cut off.                                               *)
LEMMA ParseWhole ==
    ASSUME NEW s, NEW M, Marked(s, M), NEW m, AllWhole(M, m)
    PROVE  Parse(s) = Entries(M, 0, m)
<1>1. s \in Seq(Byte) /\ M \in Seq(Mark) /\ Len(s) = End(M, Len(M))
  BY DEF Marked
<1>2. /\ m \in 0..Len(M) /\ \A k \in 1..m : M[k].end = M[k].full
      /\ m = Len(M) \/ (m + 1 = Len(M) /\ M[m + 1].end # M[m + 1].full)
  BY DEF AllWhole
<1>3. Len(M) \in Nat /\ m \in Nat
  BY <1>1, <1>2, SMT
<1>4. PICK g : Parsed(s, g) /\ Parse(s) = g[0]
  BY <1>1, ParseIs
<1>5. \A c \in 0..Len(s) : g[c] = ParseFrom(s, g, c)
  BY <1>4 DEF Parsed
<1>6. \A k \in 0..m : End(M, k) \in 0..Len(s)
  <2> SUFFICES ASSUME NEW k \in 0..m PROVE End(M, k) \in 0..Len(s)
    OBVIOUS
  <2>1. PICK l : l = Len(M)
    OBVIOUS
  <2>2. l \in 0..Len(M) /\ k \in 0..l /\ k \in 0..Len(M)
    BY <1>2, <1>3, <2>1, SMT
  <2>3. End(M, k) <= End(M, l) /\ End(M, k) \in Nat
    BY <1>1, <2>2, MarksGrow, EndType
  <2>4. Len(s) \in Nat /\ Len(s) = End(M, l)
    BY <1>1, <2>1, <2>2, EndType
  <2> QED
    BY <2>3, <2>4, SMT
<1> DEFINE S == {k \in 0..m : g[End(M, k)] = Entries(M, k, m)}
<1>7. m \in S
  <2>1. m - m = 0 /\ m \in 0..m
    BY <1>3, SMT
  <2>2. Entries(M, m, m) = <<>>
    <3>1. PICK u : u = Entries(M, m, m)
      OBVIOUS
    <3>2. u \in Seq(Logged) /\ Len(u) = 0
      BY <1>1, <1>2, <2>1, <3>1, EntriesAre
    <3>3. u = <<>>
      BY <3>2, SMT
    <3> QED
      BY <3>1, <3>3
  <2>3. Stops(s, End(M, m))
    <3>1. CASE m = Len(M)
      BY <1>1, <3>1, EndStops
    <3>2. CASE m + 1 = Len(M) /\ M[m + 1].end # M[m + 1].full
      <4>1. PICK k : k = m + 1
        OBVIOUS
      <4>2. k \in 1..Len(M) /\ k - 1 = m /\ k = Len(M)
        BY <1>3, <3>2, <4>1, SMT
      <4> QED
        BY <3>2, <4>1, <4>2, PartStops
    <3> QED
      BY <1>2, <3>1, <3>2
  <2>4. g[End(M, m)] = <<>>
    BY <1>5, <1>6, <2>1, <2>3, ParseStop
  <2> QED
    BY <2>1, <2>2, <2>4
<1>8. ASSUME NEW k \in 0..m, \A j \in k + 1..m : j \in S PROVE k \in S
  <2>1. CASE k = m
    BY <1>7, <2>1
  <2>2. CASE k # m
    <3>1. PICK l : l = k + 1
      OBVIOUS
    <3>2. l \in k + 1..m /\ l \in 1..Len(M) /\ l - 1 = k /\ l \in 1..m /\ k \in 0..m - 1
      BY <1>2, <1>3, <2>2, <3>1, SMT
    <3>3. PICK c, x : c = End(M, k) /\ x = End(M, l)
      OBVIOUS
    <3>4. c \in 0..Len(s) /\ TakesRecord(s, c, M[l].entry, x)
      BY <1>2, <3>2, <3>3, WholeTaken
    <3>5. ParseFrom(s, g, c) = <<M[l].entry>> \o g[x]
      BY ONLY <3>4, ParseRecord, SMT
    <3>6. g[x] = Entries(M, l, m)
      BY <1>8, <3>2, <3>3
    <3>7. Entries(M, k, m) = <<M[l].entry>> \o Entries(M, l, m)
      BY <1>1, <1>2, <3>1, <3>2, EntriesNext
    <3> QED
      BY <1>5, <3>3, <3>4, <3>5, <3>6, <3>7
  <2> QED
    BY <2>1, <2>2
<1>9. 0 \in S
  <2>1. 0 \in 0..m
    BY <1>3, SMT
  <2> HIDE DEF S
  <2> QED
    BY <1>3, <1>8, <2>1, Downwards
<1>10. g[End(M, 0)] = Entries(M, 0, m)
  BY <1>9
<1> QED
  BY <1>4, <1>10 DEF End

------------------------------------------------------------------------------
(* Sequences *)

(* SeqInduct: what holds of the empty sequence, and of a sequence with one   *)
(* more element if it holds without it, holds of all.                        *)
LEMMA SeqInduct ==
    ASSUME NEW T, NEW s \in Seq(T), NEW S, <<>> \in S,
           \A t \in Seq(T), x \in T : t \in S => Append(t, x) \in S
    PROVE  s \in S
<1>1. PICK n : n = Len(s)
  OBVIOUS
<1>2. n \in Nat
  BY <1>1, SMT
<1> DEFINE G == {m \in 0..n : SubSeq(s, 1, m) \in S}
<1>3. 0 \in G
  <2>1. SubSeq(s, 1, 0) = <<>> /\ 0 \in 0..n
    BY <1>2, SMT
  <2> QED
    BY <2>1
<1>4. ASSUME NEW m \in 1..n, m - 1 \in G PROVE m \in G
  <2>1. PICK t, x : t = SubSeq(s, 1, m - 1) /\ x = s[m]
    OBVIOUS
  <2>2. t \in Seq(T) /\ x \in T /\ SubSeq(s, 1, m) = Append(t, x) /\ m \in 0..n
    BY ONLY <1>1, <1>2, <2>1, s \in Seq(T), m \in 1..n, SMT
  <2> QED
    BY <1>4, <2>1, <2>2
<1>5. n \in G
  <2>1. n \in 0..n
    BY <1>2, SMT
  <2> HIDE DEF G
  <2> QED
    BY <1>2, <1>3, <1>4, <2>1, Upwards
<1>6. SubSeq(s, 1, n) = s
  BY <1>1, SMT
<1> QED
  BY <1>5, <1>6

(* Keeps: the elements of s in S, up to each element of s. *)
Keeps(g, s, S, T) ==
    /\ g \in [0..Len(s) -> Seq(T)] /\ g[0] = <<>>
    /\ \A i \in 1..Len(s) : g[i] = IF s[i] \in S THEN Append(g[i - 1], s[i]) ELSE g[i - 1]

LEMMA RetainUpTo ==
    ASSUME NEW T, NEW s \in Seq(T), NEW S
    PROVE  \E g : Keeps(g, s, S, T) /\ Retain(s, S) = g[Len(s)]
<1>0. PICK n : n = Len(s)
  OBVIOUS
<1> DEFINE step == [i \in 1..n |-> [v \in Seq(T) |-> IF s[i] \in S THEN Append(v, s[i]) ELSE v]]
           F(f) == [i \in 0..n |-> IF i = 0 THEN <<>>
                                   ELSE IF s[i] \in S THEN Append(f[i - 1], s[i]) ELSE f[i - 1]]
<1>1. n \in Nat /\ <<>> \in Seq(T) /\ \A i \in 1..n : s[i] \in T
  BY <1>0, SMT
<1>2. \A i \in 1..n, v \in Seq(T) : step[i][v] = IF s[i] \in S THEN Append(v, s[i]) ELSE v
  OBVIOUS
<1> HIDE DEF step
<1>3. Steps(n, Seq(T), step)
  <2>1. ASSUME NEW i \in 1..n, NEW v \in Seq(T) PROVE step[i][v] \in Seq(T)
    <3>1. Append(v, s[i]) \in Seq(T)
      BY <1>1, SMT
    <3> QED
      BY <1>2, <3>1
  <2> QED
    BY <2>1 DEF Steps
<1>4. PICK g : Iterated(g, n, Seq(T), <<>>, step)
  BY <1>1, <1>3, Iterates
<1>5. /\ g \in [0..n -> Seq(T)] /\ g[0] = <<>>
      /\ \A i \in 1..n : g[i] = IF s[i] \in S THEN Append(g[i - 1], s[i]) ELSE g[i - 1]
  <2>1. g \in [0..n -> Seq(T)] /\ g[0] = <<>> /\ \A i \in 1..n : g[i] = step[i][g[i - 1]]
    BY <1>4 DEF Iterated
  <2>2. \A i \in 1..n : i - 1 \in 0..n
    BY <1>1, SMT
  <2>3. \A i \in 1..n : g[i - 1] \in Seq(T)
    BY <2>1, <2>2
  <2> QED
    BY <1>2, <2>1, <2>3
<1>6. \A i \in 0..n : i = 0 \/ (i # 0 /\ i \in 1..n)
  BY <1>1, SMT
<1>7. g = F(g)
  <2>1. \A i \in 0..n : g[i] = IF i = 0 THEN <<>>
                               ELSE IF s[i] \in S THEN Append(g[i - 1], s[i]) ELSE g[i - 1]
    BY <1>5, <1>6
  <2> QED
    BY <1>5, <2>1
<1> DEFINE h == CHOOSE f : f = F(f)
<1>8. h = F(h)
  <2> HIDE DEF F
  <2> QED
    BY <1>7
<1>9. Retain(s, S) = h[n]
  BY <1>0 DEF Retain
<1> HIDE DEF h
<1>10. \A i \in 0..n : h[i] = IF i = 0 THEN <<>>
                              ELSE IF s[i] \in S THEN Append(h[i - 1], s[i]) ELSE h[i - 1]
  BY <1>8
<1> DEFINE Same == {i \in 0..n : h[i] = g[i]}
<1>11. 0..n \subseteq Same
  <2>1. 0 \in Same
    <3>1. 0 \in 0..n
      BY <1>1, SMT
    <3> QED
      BY <1>5, <1>10, <3>1
  <2>2. ASSUME NEW m \in 1..n, m - 1 \in Same PROVE m \in Same
    <3>1. m \in 0..n /\ m # 0
      BY <1>1, SMT
    <3> QED
      BY <1>5, <1>10, <2>2, <3>1
  <2> HIDE DEF Same
  <2> QED
    BY <1>1, <2>1, <2>2, Upwards
<1>12. n \in 0..n
  BY <1>1, SMT
<1>13. Retain(s, S) = g[n]
  BY <1>9, <1>11, <1>12
<1>14. Keeps(g, s, S, T)
  BY <1>0, <1>5 DEF Keeps
<1> QED
  BY <1>0, <1>13, <1>14

LEMMA RetainType ==
    ASSUME NEW T, NEW s \in Seq(T), NEW S
    PROVE  Retain(s, S) \in Seq(T)
<1>1. PICK g : Keeps(g, s, S, T) /\ Retain(s, S) = g[Len(s)]
  BY RetainUpTo
<1>2. Len(s) \in 0..Len(s)
  BY SMT
<1> QED
  BY <1>1, <1>2 DEF Keeps

LEMMA RetainEmpty == \A S : Retain(<<>>, S) = <<>>
<1> TAKE S
<1>1. <<>> \in Seq(Nat) /\ Len(<<>>) = 0
  BY SMT
<1>2. PICK g : Keeps(g, <<>>, S, Nat) /\ Retain(<<>>, S) = g[Len(<<>>)]
  BY <1>1, RetainUpTo
<1> QED
  BY <1>1, <1>2 DEF Keeps

LEMMA RetainAppend ==
    ASSUME NEW T, NEW s \in Seq(T), NEW x \in T, NEW S
    PROVE  Retain(Append(s, x), S) = IF x \in S THEN Append(Retain(s, S), x) ELSE Retain(s, S)
<1>1. PICK u, n : u = Append(s, x) /\ n = Len(s)
  OBVIOUS
<1>2. /\ u \in Seq(T) /\ Len(u) = n + 1 /\ u[n + 1] = x /\ n \in Nat
      /\ \A i \in 1..n : u[i] = s[i]
  BY <1>1, SMT
<1>3. PICK g : Keeps(g, s, S, T) /\ Retain(s, S) = g[n]
  BY <1>1, RetainUpTo
<1>4. PICK h : Keeps(h, u, S, T) /\ Retain(u, S) = h[Len(u)]
  BY <1>2, RetainUpTo
<1> DEFINE Same == {i \in 0..n : h[i] = g[i]}
<1>5. 0 \in Same
  <2>1. 0 \in 0..n
    BY <1>2, SMT
  <2> QED
    BY <1>3, <1>4, <2>1 DEF Keeps
<1>6. ASSUME NEW m \in 1..n, m - 1 \in Same PROVE m \in Same
  <2>1. m \in 0..n /\ m \in 1..Len(u) /\ m \in 1..Len(s)
    BY <1>1, <1>2, SMT
  <2>2. g[m] = IF s[m] \in S THEN Append(g[m - 1], s[m]) ELSE g[m - 1]
    BY <1>3, <2>1 DEF Keeps
  <2>3. h[m] = IF u[m] \in S THEN Append(h[m - 1], u[m]) ELSE h[m - 1]
    BY <1>4, <2>1 DEF Keeps
  <2>4. u[m] = s[m] /\ h[m - 1] = g[m - 1]
    BY <1>2, <1>6
  <2>5. h[m] = g[m]
    <3>1. CASE s[m] \in S
      BY <2>2, <2>3, <2>4, <3>1
    <3>2. CASE s[m] \notin S
      BY <2>2, <2>3, <2>4, <3>2
    <3> QED
      BY <3>1, <3>2
  <2> QED
    BY <2>1, <2>5
<1>7. 0..n \subseteq Same
  <2> HIDE DEF Same
  <2> QED
    BY <1>2, <1>5, <1>6, Upwards
<1>8. h[n] = g[n]
  <2>1. n \in 0..n
    BY <1>2, SMT
  <2> QED
    BY <1>7, <2>1
<1>9. n + 1 \in 1..Len(u) /\ (n + 1) - 1 = n
  BY <1>2, SMT
<1>10. h[n + 1] = IF u[n + 1] \in S THEN Append(h[(n + 1) - 1], u[n + 1]) ELSE h[(n + 1) - 1]
  BY <1>4, <1>9 DEF Keeps
<1> QED
  BY <1>1, <1>2, <1>3, <1>4, <1>8, <1>9, <1>10

Meet(C, A, B) == C = A \cap B

Twice(s, A, B, C) == Retain(Retain(s, A), B) = Retain(s, C)

(* RetainTwice: as container_logs_filtered does it. *)
LEMMA RetainTwice ==
    ASSUME NEW T, NEW s \in Seq(T), NEW A, NEW B, NEW C, Meet(C, A, B)
    PROVE  Twice(s, A, B, C)
<1> DEFINE S == {t \in Seq(T) : Retain(Retain(t, A), B) = Retain(t, C)}
<1>1. <<>> \in S
  <2>1. <<>> \in Seq(T)
    BY SMT
  <2>2. Retain(<<>>, A) = <<>> /\ Retain(<<>>, B) = <<>> /\ Retain(<<>>, C) = <<>>
    BY RetainEmpty
  <2> QED
    BY <2>1, <2>2
<1>2. ASSUME NEW t \in Seq(T), NEW x \in T, t \in S PROVE Append(t, x) \in S
  <2>1. Append(t, x) \in Seq(T)
    BY SMT
  <2>2. Retain(t, A) \in Seq(T)
    BY RetainType
  <2>3. Retain(Append(t, x), A) = IF x \in A THEN Append(Retain(t, A), x) ELSE Retain(t, A)
    BY RetainAppend
  <2>4. Retain(Append(t, x), C) =
            IF x \in C THEN Append(Retain(t, C), x) ELSE Retain(t, C)
    BY RetainAppend
  <2>5. Retain(Append(Retain(t, A), x), B) =
            IF x \in B THEN Append(Retain(Retain(t, A), B), x) ELSE Retain(Retain(t, A), B)
    BY <2>2, RetainAppend
  <2>0. x \in C <=> x \in A /\ x \in B
    BY DEF Meet
  <2>6. CASE x \in A
    <3>1. Retain(Append(t, x), A) = Append(Retain(t, A), x) /\ Retain(Retain(t, A), B) = Retain(t, C)
      BY <1>2, <2>3, <2>6
    <3>2. CASE x \in B
      <4>1. /\ Retain(Append(t, x), C) = Append(Retain(t, C), x)
            /\ Retain(Append(Retain(t, A), x), B) = Append(Retain(Retain(t, A), B), x)
        BY <2>0, <2>4, <2>5, <2>6, <3>2
      <4> QED
        BY <2>1, <3>1, <4>1
    <3>3. CASE x \notin B
      <4>1. /\ Retain(Append(t, x), C) = Retain(t, C)
            /\ Retain(Append(Retain(t, A), x), B) = Retain(Retain(t, A), B)
        BY <2>0, <2>4, <2>5, <3>3
      <4> QED
        BY <2>1, <3>1, <4>1
    <3> QED
      BY <3>2, <3>3
  <2>7. CASE x \notin A
    BY <1>2, <2>0, <2>1, <2>3, <2>4, <2>7
  <2> QED
    BY <2>6, <2>7
<1> QED
  <2> HIDE DEF S
  <2>1. s \in S
    BY <1>1, <1>2, SeqInduct
  <2> QED
    BY <2>1 DEF S, Twice

(* RetainSame: only the elements of the sequence matter. *)
LEMMA RetainSame ==
    ASSUME NEW T, NEW s \in Seq(T), NEW A, NEW B,
           \A i \in 1..Len(s) : s[i] \in A <=> s[i] \in B
    PROVE  Retain(s, A) = Retain(s, B)
<1>1. PICK n : n = Len(s)
  OBVIOUS
<1>2. n \in Nat
  BY <1>1, SMT
<1>3. PICK g : Keeps(g, s, A, T) /\ Retain(s, A) = g[n]
  BY <1>1, RetainUpTo
<1>4. PICK h : Keeps(h, s, B, T) /\ Retain(s, B) = h[n]
  BY <1>1, RetainUpTo
<1> DEFINE Same == {i \in 0..n : h[i] = g[i]}
<1>5. 0 \in Same
  <2>1. 0 \in 0..n
    BY <1>2, SMT
  <2> QED
    BY <1>3, <1>4, <2>1 DEF Keeps
<1>6. ASSUME NEW m \in 1..n, m - 1 \in Same PROVE m \in Same
  <2>1. m \in 0..n /\ m \in 1..Len(s)
    BY <1>1, <1>2, SMT
  <2>2. g[m] = IF s[m] \in A THEN Append(g[m - 1], s[m]) ELSE g[m - 1]
    BY <1>3, <2>1 DEF Keeps
  <2>3. h[m] = IF s[m] \in B THEN Append(h[m - 1], s[m]) ELSE h[m - 1]
    BY <1>4, <2>1 DEF Keeps
  <2>4. h[m - 1] = g[m - 1]
    BY <1>6
  <2>5. h[m] = g[m]
    BY <2>1, <2>2, <2>3, <2>4
  <2> QED
    BY <2>1, <2>5
<1>7. n \in Same
  <2>1. n \in 0..n
    BY <1>2, SMT
  <2> HIDE DEF Same
  <2> QED
    BY <1>2, <1>5, <1>6, <2>1, Upwards
<1> QED
  BY <1>3, <1>4, <1>7

(* RetainAll: nothing is left out. *)
LEMMA RetainAll ==
    ASSUME NEW T, NEW s \in Seq(T), NEW A, \A i \in 1..Len(s) : s[i] \in A
    PROVE  Retain(s, A) = s
<1> DEFINE S == {t \in Seq(T) : Retain(t, T) = t}
<1>1. <<>> \in S
  <2>1. <<>> \in Seq(T)
    BY SMT
  <2> QED
    BY <2>1, RetainEmpty
<1>2. ASSUME NEW t \in Seq(T), NEW x \in T, t \in S PROVE Append(t, x) \in S
  <2>1. Append(t, x) \in Seq(T)
    BY SMT
  <2>2. Retain(Append(t, x), T) = IF x \in T THEN Append(Retain(t, T), x) ELSE Retain(t, T)
    <3>1. PICK B : B = T
      OBVIOUS
    <3>2. Retain(Append(t, x), B) = IF x \in B THEN Append(Retain(t, B), x) ELSE Retain(t, B)
      BY RetainAppend
    <3> QED
      BY <3>1, <3>2
  <2> QED
    BY <1>2, <2>1, <2>2
<1>3. s \in S
  <2> HIDE DEF S
  <2> QED
    BY <1>1, <1>2, SeqInduct
<1>4. \A i \in 1..Len(s) : s[i] \in T
  BY SMT
<1>5. Retain(s, A) = Retain(s, T)
  BY <1>4, RetainSame
<1> QED
  BY <1>3, <1>5

Distinct(s) == \A i, j \in 1..Len(s) : i # j => s[i] # s[j]

(* Counted: as many elements are kept as there are in the set. *)
Counted(s, S) ==
    LET K == {x \in S : \E i \in 1..Len(s) : s[i] = x}
    IN  IsFiniteSet(K) /\ Cardinality(K) = Len(Retain(s, S))

LEMMA RetainCount ==
    ASSUME NEW T, NEW s \in Seq(T), NEW S, Distinct(s)
    PROVE  Counted(s, S)
<1> DEFINE Q == {t \in Seq(T) : Distinct(t) => Counted(t, S)}
           K(t) == {x \in S : \E i \in 1..Len(t) : t[i] = x}
<1>1. <<>> \in Q
  <2>1. <<>> \in Seq(T) /\ 1..Len(<<>>) = {} /\ Len(<<>>) = 0
    BY SMT
  <2>2. K(<<>>) = {}
    BY <2>1
  <2>3. Retain(<<>>, S) = <<>>
    BY RetainEmpty
  <2> HIDE DEF K
  <2>4. IsFiniteSet(K(<<>>)) /\ Cardinality(K(<<>>)) = Len(Retain(<<>>, S))
    BY <2>1, <2>2, <2>3, FS_EmptySet
  <2> QED
    BY <2>1, <2>4 DEF Counted, K
<1>2. ASSUME NEW t \in Seq(T), NEW x \in T, t \in Q PROVE Append(t, x) \in Q
  <2>1. PICK u, n, m : u = Append(t, x) /\ n = Len(t) /\ m = n + 1
    OBVIOUS
  <2>2. /\ u \in Seq(T) /\ Len(u) = m /\ u[m] = x /\ n \in Nat /\ m \in 1..m
        /\ (\A i \in 1..n : u[i] = t[i] /\ i \in 1..m /\ i # m)
        /\ \A i \in 1..m : i = m \/ i \in 1..n
    BY <2>1, SMT
  <2>3. SUFFICES ASSUME Distinct(u) PROVE Counted(u, S)
    BY <2>1, <2>2
  <2>4. Distinct(t) /\ ~\E i \in 1..n : t[i] = x
    <3>1. ASSUME NEW i \in 1..n, NEW j \in 1..n, i # j PROVE t[i] # t[j]
      BY <2>2, <2>3, <3>1 DEF Distinct
    <3>2. ASSUME NEW i \in 1..n PROVE t[i] # x
      BY <2>2, <2>3 DEF Distinct
    <3> QED
      BY <2>1, <3>1, <3>2 DEF Distinct
  <2>5. IsFiniteSet(K(t)) /\ Cardinality(K(t)) = Len(Retain(t, S))
    BY <1>2, <2>4 DEF Counted
  <2>6. Retain(u, S) = IF x \in S THEN Append(Retain(t, S), x) ELSE Retain(t, S)
    BY <2>1, RetainAppend
  <2>7. K(u) = (IF x \in S THEN K(t) \cup {x} ELSE K(t)) /\ x \notin K(t)
    BY <2>1, <2>2, <2>4
  <2> HIDE DEF K
  <2>8. Retain(t, S) \in Seq(T)
    BY RetainType
  <2>9. CASE x \in S
    <3>1. IsFiniteSet(K(t) \cup {x}) /\ Cardinality(K(t) \cup {x}) = Cardinality(K(t)) + 1
      BY <2>5, <2>7, FS_AddElement
    <3>2. Len(Append(Retain(t, S), x)) = Len(Retain(t, S)) + 1
      BY <2>8, SMT
    <3>3. IsFiniteSet(K(u)) /\ Cardinality(K(u)) = Len(Retain(u, S))
      BY <2>5, <2>6, <2>7, <2>9, <3>1, <3>2
    <3> QED
      BY <3>3 DEF Counted, K
  <2>10. CASE x \notin S
    <3>1. IsFiniteSet(K(u)) /\ Cardinality(K(u)) = Len(Retain(u, S))
      BY <2>5, <2>6, <2>7, <2>10
    <3> QED
      BY <3>1 DEF Counted, K
  <2> QED
    BY <2>9, <2>10
<1>3. s \in Q
  <2> HIDE DEF Q
  <2> QED
    BY <1>1, <1>2, SeqInduct
<1> QED
  BY <1>3

LEMMA PrefixIs ==
    ASSUME NEW T, NEW s \in Seq(T), NEW t \in Seq(T)
    PROVE  IsPrefix(s, t) <=> Len(s) <= Len(t) /\ \A i \in 1..Len(s) : s[i] = t[i]
  BY DEF IsPrefix

(* u is the last k elements of s. *)
Lasts(u, T, s, k) == u \in Seq(T) /\ Len(u) = k /\ IsSuffix(u, s)

LEMMA SuffixIs ==
    ASSUME NEW T, NEW s \in Seq(T), NEW k \in Nat, k <= Len(s)
    PROVE  Lasts(From(s, (Len(s) - k) + 1), T, s, k)
<1>1. PICK n, d, u : n = Len(s) /\ d = n - k /\ u = From(s, d + 1)
  OBVIOUS
<1>2. n \in Nat /\ d \in Nat /\ d + k = n /\ d + k <= n
  BY ONLY <1>1, s \in Seq(T), k \in Nat, k <= Len(s), SMT
<1>3. u \in Seq(T) /\ Len(u) = k /\ \A i \in 1..k : u[i] = s[d + i]
  <2>1. IsPart(SubSeq(s, d + 1, d + k), T, s, d, k)
    BY <1>1, <1>2, PartIs
  <2>2. u = SubSeq(s, d + 1, d + k)
    BY <1>1, <1>2 DEF From
  <2> QED
    BY <2>1, <2>2 DEF IsPart
<1>4. k <= n /\ Len(u) = k /\ Len(s) - Len(u) = d
  BY <1>1, <1>3
<1>5. IsSuffix(u, s)
  BY <1>1, <1>3, <1>4 DEF IsSuffix
<1> QED
  BY <1>1, <1>3, <1>5 DEF Lasts

Filter == [since : Nat \cup {None}, until : Nat \cup {None}, tail : Nat \cup {None}]

(* FilteredIs: what container_logs_filtered makes of the entries it read. *)
LEMMA FilteredIs ==
    ASSUME NEW s \in Seq(Entry), NEW f \in Filter, NEW W,
           W = {e \in Range(s) : /\ f.since # None => e.ms >= f.since
                                 /\ f.until # None => e.ms <= f.until}
    PROVE  /\ Filtered(s, f) \in Seq(Entry) /\ IsSuffix(Filtered(s, f), Retain(s, W))
           /\ Distinct(s) =>
                 Len(Filtered(s, f)) = IF f.tail = None \/ Cardinality(W) < f.tail
                                       THEN Cardinality(W) ELSE f.tail
<1>1. PICK r, n, t, u : r = Retain(s, W) /\ n = Len(r) /\ t = f.tail /\ u = Filtered(s, f)
  OBVIOUS
<1>2. r \in Seq(Entry) /\ n \in Nat /\ t \in Nat \cup {None} /\ None \notin Nat
  <2>1. r \in Seq(Entry)
    BY <1>1, RetainType
  <2>2. n \in Nat
    BY <1>1, <2>1, SMT
  <2> QED
    BY <1>1, <2>1, <2>2, CodecAssumption DEF Filter
<1>3. \A i \in 1..Len(s) : s[i] \in Entry /\ s[i] \in Range(s)
  <2>1. DOMAIN s = 1..Len(s) /\ \A i \in 1..Len(s) : s[i] \in Entry
    BY SMT
  <2> QED
    BY <2>1 DEF Range
<1>4. Retain(Retain(s, Since(f)), Until(f)) = r
  <2>1. Retain(Retain(s, Since(f)), Until(f)) = Retain(s, Since(f) \cap Until(f))
    <3>1. PICK A, B, C : A = Since(f) /\ B = Until(f) /\ C = A \cap B
      OBVIOUS
    <3>2. Retain(Retain(s, A), B) = Retain(s, C)
      <4>1. Meet(C, A, B)
        BY <3>1 DEF Meet
      <4>2. Twice(s, A, B, C)
        BY <4>1, RetainTwice
      <4> QED
        BY <4>2 DEF Twice
    <3> QED
      BY <3>1, <3>2
  <2>2. \A i \in 1..Len(s) : s[i] \in Since(f) \cap Until(f) <=> s[i] \in W
    BY <1>3 DEF Since, Until
  <2>3. Retain(s, Since(f) \cap Until(f)) = Retain(s, W)
    BY <2>2, RetainSame
  <2> QED
    BY <1>1, <2>1, <2>3
<1>5. u = IF t # None /\ n > t THEN From(r, (n - t) + 1) ELSE r
  BY <1>1, <1>4 DEF Filtered
<1>6. PICK l : l = IF t # None /\ n > t THEN t ELSE n
  OBVIOUS
<1>7. l \in Nat /\ l <= n
  BY <1>2, <1>6, SMT
<1>8. u = From(r, (n - l) + 1)
  <2>1. CASE t # None /\ n > t
    BY <1>5, <1>6, <2>1
  <2>2. CASE ~(t # None /\ n > t)
    <3>1. (n - n) + 1 = 1 /\ SubSeq(r, 1, n) = r
      BY <1>1, <1>2, SMT
    <3> QED
      BY <1>1, <1>5, <1>6, <2>2, <3>1 DEF From
  <2> QED
    BY <2>1, <2>2
<1>9. u \in Seq(Entry) /\ Len(u) = l /\ IsSuffix(u, r)
  <2>1. Lasts(From(r, (Len(r) - l) + 1), Entry, r, l)
    BY <1>1, <1>2, <1>7, SuffixIs
  <2> QED
    BY <1>1, <1>8, <2>1 DEF Lasts
<1>10. ASSUME Distinct(s) PROVE Cardinality(W) = n
  <2>1. Counted(s, W)
    BY <1>10, RetainCount
  <2>2. W = {x \in W : \E i \in 1..Len(s) : s[i] = x}
    <3>1. DOMAIN s = 1..Len(s)
      BY SMT
    <3> QED
      BY <3>1 DEF Range
  <2> QED
    BY <1>1, <2>1, <2>2 DEF Counted
<1>11. l = IF t = None \/ n < t THEN n ELSE t
  BY <1>2, <1>6, SMT
<1> QED
  BY <1>1, <1>9, <1>10, <1>11

(* Flats: the sequences of s, joined, up to each one. *)
Flats(g, s, T) ==
    /\ g \in [0..Len(s) -> Seq(T)] /\ g[0] = <<>>
    /\ \A i \in 1..Len(s) : g[i] = g[i - 1] \o s[i]

LEMMA FlattenUpTo ==
    ASSUME NEW T, NEW s \in Seq(Seq(T))
    PROVE  \E g : Flats(g, s, T) /\ FlattenSeq(s) = g[Len(s)]
<1>0. PICK n : n = Len(s)
  OBVIOUS
<1> DEFINE step == [i \in 1..n |-> [v \in Seq(T) |-> v \o s[i]]]
           F(f) == [i \in 0..n |-> IF i = 0 THEN <<>> ELSE f[i - 1] \o s[i]]
<1>1. n \in Nat /\ <<>> \in Seq(T) /\ \A i \in 1..n : s[i] \in Seq(T)
  BY <1>0, SMT
<1>2. \A i \in 1..n, v \in Seq(T) : step[i][v] = v \o s[i]
  OBVIOUS
<1> HIDE DEF step
<1>3. Steps(n, Seq(T), step)
  <2>1. ASSUME NEW i \in 1..n, NEW v \in Seq(T) PROVE step[i][v] \in Seq(T)
    <3>1. v \o s[i] \in Seq(T)
      BY <1>1, SMT
    <3> QED
      BY <1>2, <3>1
  <2> QED
    BY <2>1 DEF Steps
<1>4. PICK g : Iterated(g, n, Seq(T), <<>>, step)
  BY <1>1, <1>3, Iterates
<1>5. /\ g \in [0..n -> Seq(T)] /\ g[0] = <<>>
      /\ \A i \in 1..n : g[i] = g[i - 1] \o s[i]
  <2>1. g \in [0..n -> Seq(T)] /\ g[0] = <<>> /\ \A i \in 1..n : g[i] = step[i][g[i - 1]]
    BY <1>4 DEF Iterated
  <2>2. \A i \in 1..n : i - 1 \in 0..n
    BY <1>1, SMT
  <2>3. \A i \in 1..n : g[i - 1] \in Seq(T)
    BY <2>1, <2>2
  <2> QED
    BY <1>2, <2>1, <2>3
<1>6. \A i \in 0..n : i = 0 \/ (i # 0 /\ i \in 1..n)
  BY <1>1, SMT
<1>7. g = F(g)
  <2>1. \A i \in 0..n : g[i] = IF i = 0 THEN <<>> ELSE g[i - 1] \o s[i]
    BY <1>5, <1>6
  <2> QED
    BY <1>5, <2>1
<1> DEFINE h == CHOOSE f : f = F(f)
<1>8. h = F(h)
  <2> HIDE DEF F
  <2> QED
    BY <1>7
<1>9. FlattenSeq(s) = h[n]
  BY <1>0 DEF FlattenSeq
<1> HIDE DEF h
<1>10. \A i \in 0..n : h[i] = IF i = 0 THEN <<>> ELSE h[i - 1] \o s[i]
  BY <1>8
<1> DEFINE Same == {i \in 0..n : h[i] = g[i]}
<1>11. 0..n \subseteq Same
  <2>1. 0 \in Same
    <3>1. 0 \in 0..n
      BY <1>1, SMT
    <3> QED
      BY <1>5, <1>10, <3>1
  <2>2. ASSUME NEW m \in 1..n, m - 1 \in Same PROVE m \in Same
    <3>1. m \in 0..n /\ m # 0
      BY <1>1, SMT
    <3> QED
      BY <1>5, <1>10, <2>2, <3>1
  <2> HIDE DEF Same
  <2> QED
    BY <1>1, <2>1, <2>2, Upwards
<1>12. n \in 0..n
  BY <1>1, SMT
<1>13. FlattenSeq(s) = g[n]
  BY <1>9, <1>11, <1>12
<1>14. Flats(g, s, T)
  BY <1>0, <1>5 DEF Flats
<1> QED
  BY <1>0, <1>13, <1>14

LEMMA FlattenType ==
    ASSUME NEW T, NEW s \in Seq(Seq(T))
    PROVE  FlattenSeq(s) \in Seq(T)
<1>1. PICK g : Flats(g, s, T) /\ FlattenSeq(s) = g[Len(s)]
  BY FlattenUpTo
<1>2. Len(s) \in 0..Len(s)
  BY SMT
<1> QED
  BY <1>1, <1>2 DEF Flats

LEMMA FlattenEmpty == FlattenSeq(<<>>) = <<>>
<1>1. <<>> \in Seq(Seq({})) /\ Len(<<>>) = 0
  BY SMT
<1>2. PICK g : Flats(g, <<>>, {}) /\ FlattenSeq(<<>>) = g[Len(<<>>)]
  BY <1>1, FlattenUpTo
<1> QED
  BY <1>1, <1>2 DEF Flats

(* LastJoined: u has one sequence more than s, its last. *)
LastJoined(u, s, x) == FlattenSeq(u) = FlattenSeq(s) \o x

LEMMA FlattenAppend ==
    ASSUME NEW T, NEW s \in Seq(Seq(T)), NEW x \in Seq(T)
    PROVE  LastJoined(Append(s, x), s, x)
<1>1. PICK u, n : u = Append(s, x) /\ n = Len(s)
  OBVIOUS
<1>2. /\ u \in Seq(Seq(T)) /\ Len(u) = n + 1 /\ u[n + 1] = x /\ n \in Nat
      /\ \A i \in 1..n : u[i] = s[i]
  BY <1>1, SMT
<1>3. PICK g : Flats(g, s, T) /\ FlattenSeq(s) = g[n]
  BY <1>1, FlattenUpTo
<1>4. PICK h : Flats(h, u, T) /\ FlattenSeq(u) = h[Len(u)]
  BY <1>2, FlattenUpTo
<1> DEFINE Same == {i \in 0..n : h[i] = g[i]}
<1>5. 0 \in Same
  <2>1. 0 \in 0..n
    BY <1>2, SMT
  <2> QED
    BY <1>3, <1>4, <2>1 DEF Flats
<1>6. ASSUME NEW m \in 1..n, m - 1 \in Same PROVE m \in Same
  <2>1. m \in 0..n /\ m \in 1..Len(u) /\ m \in 1..Len(s)
    BY <1>1, <1>2, SMT
  <2>2. g[m] = g[m - 1] \o s[m]
    BY <1>3, <2>1 DEF Flats
  <2>3. h[m] = h[m - 1] \o u[m]
    BY <1>4, <2>1 DEF Flats
  <2>4. u[m] = s[m] /\ h[m - 1] = g[m - 1]
    BY <1>2, <1>6
  <2> QED
    BY <2>1, <2>2, <2>3, <2>4
<1>7. h[n] = g[n]
  <2>1. n \in 0..n
    BY <1>2, SMT
  <2>2. 0..n \subseteq Same
    <3> HIDE DEF Same
    <3> QED
      BY <1>2, <1>5, <1>6, Upwards
  <2> QED
    BY <2>1, <2>2
<1>8. n + 1 \in 1..Len(u) /\ (n + 1) - 1 = n
  BY <1>2, SMT
<1>9. h[n + 1] = h[(n + 1) - 1] \o u[n + 1]
  BY <1>4, <1>8 DEF Flats
<1> QED
  BY <1>1, <1>2, <1>3, <1>4, <1>7, <1>8, <1>9 DEF LastJoined

------------------------------------------------------------------------------
(* The tailer *)

LEMMA FileAtType ==
    ASSUME TailerType, NEW n \in 0..MaxRotated
    PROVE  FileAt(n) \in 0..Len(files)
<1>1. n = 0 \/ n \in 1..MaxRotated
  BY QueryAssumption, SMT
<1> QED
  BY <1>1 DEF TailerType, FileAt

------------------------------------------------------------------------------
(* The query *)

(* The names of the files, the oldest first. *)
Decreasing(s) == \A i, j \in 1..Len(s) : i < j => s[j] < s[i]

QueryType ==
    /\ qpc \in {"idle", "list", "read", "done"}
    /\ next \in 0..MaxRotated
    /\ listed \in Seq(0..MaxRotated)
    /\ all \in Seq(Entry) /\ result \in Seq(Entry) \cup {None}
    /\ overlap \in BOOLEAN

(* Where the query is, and what it has. *)
QueryPlace ==
    /\ QueryType
    /\ qpc \in {"idle", "list"} => all = <<>>
    /\ qpc = "idle" => listed = <<>>
    /\ qpc # "done" => result = None
    /\ qpc # "idle" => filter \in Filter
    /\ result # None => result = Filtered(all, filter)
    /\ Decreasing(listed)
    /\ qpc = "list" => \A i \in 1..Len(listed) : next < listed[i]

Increasing(s) == \A i, j \in 1..Len(s) : i < j => s[i].ms < s[j].ms

(* What was read is older than all there is in the files to be read. *)
ReadOld ==
    qpc = "read" /\ listed # <<>> =>
        \A i \in 1..Len(all) : \A n \in 0..Head(listed) :
            FileAt(n) # 0 => \A k \in 1..Len(appended[FileAt(n)]) : all[i].ms < Time(FileAt(n), k)

OrderInv ==
    NothingTorn => /\ Increasing(all) /\ ReadOld
                   /\ \A i \in 1..Len(all) : all[i].ms < Now

(* What the files with names above n hold, the oldest first. *)
Above(n) == FlattenSeq([k \in 1..MaxRotated - n |-> Kept(MaxRotated + 1 - k)])

Existing(m, n) == {k \in m..n : rotated[k] # 0}

Begins(s, t) == s \in Seq(Entry) /\ t \in Seq(Entry) /\ IsPrefix(s, t)

CompleteInv ==
    /\ qpc \in {"list", "read"} /\ ~overlap => ~Rotating
    /\ NothingTorn /\ ~overlap =>
          /\ qpc = "list" =>
                Begins(before, Above(0) \o Kept(0)) /\ Range(listed) = Existing(next + 1, MaxRotated)
          /\ qpc = "read" /\ listed # <<>> =>
                /\ Begins(before, Above(0) \o Kept(0))
                /\ \E h \in 0..MaxRotated :
                      Range(listed) = {0} \cup Existing(1, h) /\ all = Above(h)
          /\ (qpc = "read" /\ listed = <<>>) \/ result # None => Begins(before, all)

Inv == TailerInv /\ QueryPlace /\ OrderInv /\ CompleteInv

(* The tailer's steps leave the query as it is. *)
LEMMA QuerySame ==
    ASSUME UNCHANGED query
    PROVE  /\ qpc' = qpc /\ next' = next /\ listed' = listed /\ all' = all /\ filter' = filter
           /\ result' = result /\ before' = before
BY DEF query

LEMMA TailerOrQuery ==
    ASSUME TailerInv, QueryType, [Next]_vars
    PROVE  \/ UNCHANGED query /\ overlap' \in BOOLEAN
           \/ UNCHANGED tailer /\ (BeginQuery \/ ListNext \/ ReadNext \/ ReadFails \/ Return)
<1>1. CASE BeginAppend \/ Prune \/ Shift \/ RenameLog
  BY <1>1 DEF BeginAppend, Prune, Shift, RenameLog, Sees, QueryType
<1>2. CASE CreateLog \/ OpenFails \/ Write \/ WriteRest
  BY <1>2 DEF CreateLog, OpenFails, Write, WriteRest, AppendFails, Sees, QueryType
<1>3. CASE BeginQuery \/ ListNext \/ ReadNext \/ ReadFails \/ Return
  BY <1>3 DEF BeginQuery, ListNext, ReadNext, ReadFails, Return
<1>4. CASE UNCHANGED vars
  BY <1>4 DEF vars, QueryType
<1> QED
  BY <1>1, <1>2, <1>3, <1>4 DEF Next

LEMMA DecreasingAppend ==
    ASSUME NEW s \in Seq(0..MaxRotated), Decreasing(s), NEW n \in 0..MaxRotated,
           \A i \in 1..Len(s) : n < s[i]
    PROVE  /\ Append(s, n) \in Seq(0..MaxRotated) /\ Decreasing(Append(s, n))
           /\ \A i \in 1..Len(Append(s, n)) : n <= Append(s, n)[i]
<1>1. PICK u, l, m : u = Append(s, n) /\ l = Len(s) /\ m = l + 1
  OBVIOUS
<1>2. /\ u \in Seq(0..MaxRotated) /\ Len(u) = m /\ u[m] = n /\ l \in Nat /\ n \in Nat
      /\ (\A i \in 1..l : u[i] = s[i] /\ s[i] \in Nat) /\ (\A i \in 1..m : i = m \/ i \in 1..l)
      /\ \A i, j \in 1..m : i < j => i \in 1..l
  BY <1>1, QueryAssumption, SMT
<1>3. ASSUME NEW i \in 1..m, NEW j \in 1..m, i < j PROVE u[j] < u[i]
  <2>1. i \in 1..l
    BY <1>2, <1>3
  <2>2. CASE j = m
    BY <1>1, <1>2, <2>1, <2>2
  <2>3. CASE j \in 1..l
    BY <1>1, <1>2, <1>3, <2>1, <2>3 DEF Decreasing
  <2> QED
    BY <1>2, <2>2, <2>3
<1>4. ASSUME NEW i \in 1..m PROVE n <= u[i]
  <2>1. CASE i = m
    BY <1>2, <2>1, SMT
  <2>2. CASE i \in 1..l
    <3>1. n < u[i] /\ u[i] \in Nat
      BY <1>1, <1>2, <2>2
    <3> QED
      BY <1>2, <3>1, SMT
  <2> QED
    BY <1>2, <2>1, <2>2
<1> QED
  BY <1>1, <1>2, <1>3, <1>4 DEF Decreasing

LEMMA DecreasingTail ==
    ASSUME NEW s \in Seq(0..MaxRotated), Decreasing(s), s # <<>>
    PROVE  /\ Tail(s) \in Seq(0..MaxRotated) /\ Decreasing(Tail(s)) /\ Head(s) \in 0..MaxRotated
           /\ Range(s) = {Head(s)} \cup Range(Tail(s))
           /\ \A i \in 1..Len(Tail(s)) : Tail(s)[i] < Head(s)
<1>1. PICK t, l, h : t = Tail(s) /\ l = Len(t) /\ h = Head(s)
  OBVIOUS
<1>2. /\ t \in Seq(0..MaxRotated) /\ l \in Nat /\ Len(s) = l + 1 /\ h = s[1] /\ h \in 0..MaxRotated
      /\ DOMAIN s = 1..l + 1 /\ DOMAIN t = 1..l
      /\ \A i \in 1..l : t[i] = s[i + 1]
  <2>1. t \in Seq(0..MaxRotated) /\ Len(s) \in Nat /\ Len(s) # 0 /\ Len(t) = Len(s) - 1
    BY <1>1, SMT
  <2>2. l \in Nat /\ Len(s) = l + 1
    BY <1>1, <2>1, SMT
  <2>3. h = s[1] /\ h \in 0..MaxRotated
    <3>1. PICK T : T = 0..MaxRotated
      OBVIOUS
    <3>2. s \in Seq(T)
      BY <3>1
    <3>3. Head(s) = s[1] /\ s[1] \in T
      BY ONLY <2>1, <3>2, SMT
    <3> QED
      BY <1>1, <3>1, <3>3
  <2>4. DOMAIN s = 1..Len(s) /\ DOMAIN t = 1..Len(t)
    BY <2>1, SMT
  <2>5. \A i \in 1..Len(s) - 1 : t[i] = s[i + 1]
    BY <1>1, SMT
  <2>6. (l + 1) - 1 = l
    BY <2>2, SMT
  <2> QED
    BY <1>1, <2>1, <2>2, <2>3, <2>4, <2>5, <2>6
<1>3. /\ (\A i \in 1..l : i + 1 \in 1..l + 1 /\ 1 < i + 1 /\ 1 \in 1..l + 1)
      /\ (\A i, j \in 1..l : i < j => i + 1 < j + 1) /\ 1 \in 1..l + 1
      /\ (\A i \in 1..l + 1 : i = 1 \/ (i - 1 \in 1..l /\ (i - 1) + 1 = i))
  BY <1>2, SMT
<1>4. Decreasing(t)
  <2>1. ASSUME NEW i \in 1..l, NEW j \in 1..l, i < j PROVE t[j] < t[i]
    <3>1. s[j + 1] < s[i + 1]
      BY <1>2, <1>3, <2>1 DEF Decreasing
    <3> QED
      BY <1>2, <3>1
  <2> QED
    BY <1>1, <2>1 DEF Decreasing
<1>5. \A i \in 1..l : t[i] < h
  BY <1>2, <1>3 DEF Decreasing
<1>6. Range(s) = {h} \cup Range(t)
  <2>1. ASSUME NEW x \in Range(s) PROVE x \in {h} \cup Range(t)
    <3>1. PICK i \in 1..l + 1 : x = s[i]
      BY <1>2 DEF Range
    <3>2. CASE i = 1
      BY <1>2, <3>1, <3>2
    <3>3. CASE i - 1 \in 1..l /\ (i - 1) + 1 = i
      <4>1. x = t[i - 1]
        BY <1>2, <3>1, <3>3
      <4> QED
        BY <1>2, <3>3, <4>1 DEF Range
    <3> QED
      BY <1>3, <3>2, <3>3
  <2>2. h \in Range(s)
    BY <1>2, <1>3 DEF Range
  <2>3. ASSUME NEW x \in Range(t) PROVE x \in Range(s)
    <3>1. PICK i \in 1..l : x = t[i]
      BY <1>2 DEF Range
    <3> QED
      BY <1>2, <1>3, <3>1 DEF Range
  <2> QED
    BY <2>1, <2>2, <2>3
<1> QED
  BY <1>1, <1>2, <1>4, <1>5, <1>6

LEMMA ContentType ==
    ASSUME TailerType, NEW n \in 0..MaxRotated
    PROVE  ContentAt(n) \in Seq(Byte)
<1>1. FileAt(n) \in 0..Len(files) /\ files \in Seq(Seq(Byte))
  BY FileAtType DEF TailerType
<1>2. FileAt(n) # 0 => FileAt(n) \in 1..Len(files)
  BY <1>1, SMT
<1>3. \A i \in 1..Len(files) : files[i] \in Seq(Byte)
  BY <1>1, SMT
<1> QED
  BY <1>2, <1>3, MarkedEmpty DEF ContentAt

LEMMA PlaceInit ==
    ASSUME Init
    PROVE  QueryPlace
<1>1. /\ <<>> \in Seq(0..MaxRotated) /\ <<>> \in Seq(Entry) /\ 1..Len(<<>>) = {}
      /\ 0 \in 0..MaxRotated
  BY QueryAssumption, SMT
<1>2. /\ qpc = "idle" /\ next = 0 /\ listed = <<>> /\ all = <<>> /\ result = None /\ overlap = FALSE
  BY DEF Init
<1>3. QueryType
  BY <1>1, <1>2 DEF QueryType
<1>4. Decreasing(<<>>)
  BY <1>1 DEF Decreasing
<1> QED
  BY <1>2, <1>3, <1>4 DEF QueryPlace

LEMMA PlaceNext ==
    ASSUME TailerInv, QueryPlace, [Next]_vars
    PROVE  QueryPlace'
<1>0. TailerType /\ QueryType /\ MaxRotated \in Nat /\ MaxRotated # 0
  BY QueryAssumption DEF TailerInv, QueryPlace
<1>1. CASE UNCHANGED query /\ overlap' \in BOOLEAN
  <2>1. /\ qpc' = qpc /\ next' = next /\ listed' = listed /\ all' = all /\ filter' = filter
        /\ result' = result
    BY <1>1, QuerySame
  <2>2. QueryType'
    BY <1>0, <1>1, <2>1 DEF QueryType
  <2> QED
    BY <2>1, <2>2 DEF QueryPlace
<1>2. CASE BeginQuery
  <2>1. /\ qpc = "idle" /\ qpc' = "list" /\ next' = MaxRotated /\ overlap' = Rotating
        /\ listed' = listed /\ all' = all /\ result' = result
    BY <1>2 DEF BeginQuery
  <2>2. PICK f \in setting.filters : filter' = f
    BY <1>2 DEF BeginQuery
  <2>3. filter' \in Filter
    <3>1. setting \in Setting
      BY <1>0, QueryAssumption DEF TailerType
    <3> QED
      BY <2>2, <3>1 DEF Setting, Filter
  <2>4. MaxRotated \in 0..MaxRotated /\ 1..Len(<<>>) = {}
    BY <1>0, SMT
  <2>5. QueryType'
    <3>1. Rotating \in BOOLEAN
      BY SMT DEF Rotating
    <3> QED
      BY <1>0, <2>1, <2>4, <3>1 DEF QueryType
  <2>6. listed = <<>> /\ all = <<>> /\ result = None /\ Decreasing(listed)
    BY <2>1 DEF QueryPlace
  <2> QED
    BY <2>1, <2>3, <2>4, <2>5, <2>6 DEF QueryPlace
<1>3. CASE ListNext
  <2>1. /\ qpc = "list" /\ overlap' = overlap /\ all' = all /\ result' = result /\ filter' = filter
    BY <1>3 DEF ListNext
  <2>2. /\ all = <<>> /\ result = None /\ filter \in Filter /\ Decreasing(listed)
        /\ \A i \in 1..Len(listed) : next < listed[i]
    BY <2>1 DEF QueryPlace
  <2>3. /\ Append(listed, next) \in Seq(0..MaxRotated) /\ Decreasing(Append(listed, next))
        /\ \A i \in 1..Len(Append(listed, next)) : next <= Append(listed, next)[i]
    BY <1>0, <2>2, DecreasingAppend DEF QueryType
  <2>4. listed' \in Seq(0..MaxRotated) /\ Decreasing(listed')
    BY <1>0, <1>3, <2>2, <2>3 DEF ListNext, QueryType
  <2>5. next' \in 0..MaxRotated /\ qpc' \in {"list", "read"}
    <3>1. next' = next \/ (next # 0 /\ next' = next - 1)
      BY <1>3 DEF ListNext
    <3>2. next' \in 0..MaxRotated
      BY <1>0, <3>1, SMT DEF QueryType
    <3> QED
      BY <1>3, <2>1, <3>2 DEF ListNext
  <2>6. QueryType'
    BY <1>0, <2>1, <2>4, <2>5 DEF QueryType
  <2>7. ASSUME qpc' = "list" PROVE \A i \in 1..Len(listed') : next' < listed'[i]
    <3>1. next # 0 /\ next' = next - 1 /\ listed' \in {listed, Append(listed, next)}
      BY <1>3, <2>7 DEF ListNext
    <3>2. PICK T, u : T = 0..MaxRotated /\ u = listed'
      OBVIOUS
    <3>3. u \in Seq(T)
      BY <2>4, <3>2
    <3>4. \A i \in 1..Len(u) : u[i] \in T
      BY ONLY <3>3, SMT
    <3>5. ASSUME NEW i \in 1..Len(u) PROVE next - 1 < u[i]
      <4>1. next < u[i] \/ next <= u[i]
        BY <2>2, <2>3, <3>1, <3>2, <3>5
      <4>2. u[i] \in Nat /\ next \in Nat
        BY <1>0, <3>2, <3>4, <3>5, SMT DEF QueryType
      <4> QED
        BY ONLY <4>1, <4>2, SMT
    <3> QED
      BY <3>1, <3>2, <3>5
  <2> QED
    BY <2>1, <2>2, <2>4, <2>5, <2>6, <2>7 DEF QueryPlace
<1>4. CASE ReadNext
  <2>1. /\ qpc = "read" /\ qpc' = "read" /\ listed # <<>> /\ next' = next /\ filter' = filter
        /\ result' = result /\ overlap' = overlap /\ listed' = Tail(listed)
        /\ all' = all \o Parse(ContentAt(Head(listed)))
    BY <1>4 DEF ReadNext
  <2>2. result = None /\ filter \in Filter /\ Decreasing(listed)
    BY <2>1 DEF QueryPlace
  <2>3. Tail(listed) \in Seq(0..MaxRotated) /\ Decreasing(Tail(listed)) /\ Head(listed) \in 0..MaxRotated
    BY <1>0, <2>1, <2>2, DecreasingTail DEF QueryType
  <2>4. PICK p : p = Parse(ContentAt(Head(listed)))
    OBVIOUS
  <2>5. p \in Seq(Entry)
    BY <1>0, <2>3, <2>4, ContentType, ParseType
  <2>6. all \in Seq(Entry)
    BY <1>0 DEF QueryType
  <2>7. all \o p \in Seq(Entry)
    BY ONLY <2>5, <2>6, SMT
  <2>8. QueryType'
    BY <1>0, <2>1, <2>3, <2>4, <2>7 DEF QueryType
  <2> QED
    BY <2>1, <2>2, <2>3, <2>8 DEF QueryPlace
<1>5. CASE ReadFails
  <2>1. /\ qpc = "read" /\ qpc' = "done" /\ listed' = <<>> /\ next' = next /\ filter' = filter
        /\ result' = result /\ overlap' = overlap /\ all' = all
    BY <1>5 DEF ReadFails
  <2>2. result = None /\ filter \in Filter
    BY <2>1 DEF QueryPlace
  <2>3. <<>> \in Seq(0..MaxRotated) /\ 1..Len(<<>>) = {}
    BY SMT
  <2>4. Decreasing(<<>>)
    BY <2>3 DEF Decreasing
  <2>5. QueryType'
    BY <1>0, <2>1, <2>3 DEF QueryType
  <2> QED
    BY <2>1, <2>2, <2>4, <2>5 DEF QueryPlace
<1>6. CASE Return
  <2>1. /\ qpc = "read" /\ qpc' = "done" /\ listed' = listed /\ next' = next /\ filter' = filter
        /\ result' = Filtered(all, filter) /\ overlap' = overlap /\ all' = all
    BY <1>6 DEF Return
  <2>2. filter \in Filter /\ Decreasing(listed) /\ all \in Seq(Entry)
    BY <1>0, <2>1 DEF QueryPlace, QueryType
  <2>3. Filtered(all, filter) \in Seq(Entry)
    BY <2>2, FilteredIs
  <2>4. QueryType'
    BY <1>0, <2>1, <2>3 DEF QueryType
  <2> QED
    BY <2>1, <2>2, <2>4 DEF QueryPlace
<1> QED
  BY <1>0, <1>1, <1>2, <1>3, <1>4, <1>5, <1>6, TailerOrQuery

(* TypeCorrect: TypeOK in every reachable state. Whatever is in the files,   *)
(* the query's entries are well-formed, and each append that fails leaves    *)
(* the tailer able to begin the next one.                                    *)
THEOREM TypeCorrect == Spec => []TypeOK
<1>1. Init => TailerInv /\ QueryPlace
  BY TailerInit, PlaceInit
<1>2. TailerInv /\ QueryPlace /\ [Next]_vars => (TailerInv /\ QueryPlace)'
  BY TailerNext, PlaceNext
<1>3. TailerInv /\ QueryPlace => TypeOK
  <2>1. ASSUME TailerInv PROVE shift \in 0..MaxRotated /\ clock \in Nat
    BY <2>1, QueryAssumption, SMT DEF TailerInv, TailerType
  <2> QED
    BY <2>1 DEF TailerInv, TailerType, FilesMarked, QueryPlace, QueryType, TypeOK
<1> QED
  BY <1>1, <1>2, <1>3, PTL DEF Spec

------------------------------------------------------------------------------
(* The order *)

LEMMA MarksAre ==
    ASSUME FilesMarked
    PROVE  /\ DOMAIN appended = 1..Len(appended)
           /\ \A i \in 1..Len(appended) : /\ appended[i] \in Seq(Mark) /\ Len(appended[i]) \in Nat
                                          /\ DOMAIN appended[i] = 1..Len(appended[i])
<1>1. appended \in Seq(Seq(Mark))
  BY DEF FilesMarked
<1>2. DOMAIN appended = 1..Len(appended) /\ \A i \in 1..Len(appended) : appended[i] \in Seq(Mark)
  BY <1>1, SMT
<1>3. \A M \in Seq(Mark) : Len(M) \in Nat /\ DOMAIN M = 1..Len(M)
  BY SMT
<1> QED
  BY <1>2, <1>3

(* A record that is whole, or is being written. *)
NotTorn(i, k) ==
    \/ appended[i][k].end = appended[i][k].full
    \/ i = log /\ k = Len(appended[i]) /\ tpc = "rest"

LEMMA TornIs ==
    ASSUME FilesMarked
    PROVE  NothingTorn <=> \A i \in 1..Len(appended) : \A k \in 1..Len(appended[i]) : NotTorn(i, k)
BY MarksAre DEF NothingTorn, NotTorn

LEMMA TornIsNext ==
    ASSUME FilesMarked'
    PROVE  NothingTorn' <=>
              \A i \in 1..Len(appended') : \A k \in 1..Len(appended'[i]) : NotTorn(i, k)'
<1>1. appended' \in Seq(Seq(Mark))
  BY DEF FilesMarked
<1>2. DOMAIN appended' = 1..Len(appended') /\ \A i \in 1..Len(appended') : appended'[i] \in Seq(Mark)
  BY <1>1, SMT
<1>3. \A M \in Seq(Mark) : DOMAIN M = 1..Len(M)
  BY SMT
<1> QED
  BY <1>2, <1>3 DEF NothingTorn, NotTorn

(* TornStays: what is cut off stays so. *)
LEMMA TornStays ==
    ASSUME TailerInv, [Next]_vars, NothingTorn'
    PROVE  NothingTorn
<1>0. FilesMarked /\ FilesMarked'
  BY TailerNext DEF TailerInv
<1>1. \A i \in 1..Len(appended') : \A k \in 1..Len(appended'[i]) : NotTorn(i, k)'
  BY <1>0, TornIsNext
<1> SUFFICES ASSUME NEW i \in 1..Len(appended), NEW k \in 1..Len(appended[i]) PROVE NotTorn(i, k)
  BY <1>0, TornIs
<1>2. CASE appended' = appended /\ (tpc' = "rest" => tpc = "rest" /\ log' = log)
  BY <1>1, <1>2 DEF NotTorn
<1>3. CASE BeginAppend \/ Prune \/ Shift \/ RenameLog \/ OpenFails
  BY <1>2, <1>3 DEF BeginAppend, Prune, Shift, RenameLog, OpenFails, AppendFails
<1>4. CASE UNCHANGED tailer
  BY <1>2, <1>4 DEF tailer
<1>5. CASE CreateLog
  <2>1. CASE appended' = appended
    BY <1>2, <1>5, <2>1 DEF CreateLog, AppendFails
  <2>2. CASE appended' # appended
    <3>1. /\ files' = Append(files, <<>>) /\ appended' = Append(appended, <<>>) /\ tpc' = "open"
      BY <1>5, <2>2 DEF CreateLog, AppendFails
    <3>2. SameMark(i, k)
      BY <3>1, CreateGrows
    <3> QED
      BY <1>1, <3>1, <3>2 DEF SameMark, NotTorn
  <2> QED
    BY <2>1, <2>2
<1>6. CASE Write
  <2>1. SameMark(i, k) /\ ~(i = log' /\ k = Len(appended'[i]))
    BY <1>6, WriteGrows
  <2> QED
    BY <1>1, <2>1 DEF SameMark, NotTorn
<1>7. CASE WriteRest
  <2>1. CASE AppendFails
    BY <1>2, <2>1 DEF AppendFails
  <2>2. CASE ~AppendFails
    <3>1. /\ files' = [files EXCEPT ![log] = @ \o batch] /\ tpc = "rest" /\ tpc' = "idle"
          /\ appended' = [appended EXCEPT ![log][Len(appended[log])].end = @ + Len(batch)]
          /\ log' = log
      BY <1>7, <2>2 DEF WriteRest
    <3>2. SameMark(i, k) \/ (i = log /\ k = Len(appended[i]))
      BY <3>1, RestGrows
    <3> QED
      BY <1>1, <3>1, <3>2 DEF SameMark, NotTorn
  <2> QED
    BY <2>1, <2>2
<1> QED
  BY <1>3, <1>4, <1>5, <1>6, <1>7
     DEF Next, BeginQuery, ListNext, ReadNext, ReadFails, Return, vars

(* The marks of the file with the name n. *)
MarksAt(n) == IF FileAt(n) = 0 THEN <<>> ELSE appended[FileAt(n)]

LEMMA MarkedAt ==
    ASSUME TailerInv, NEW n \in 0..MaxRotated
    PROVE  /\ Marked(ContentAt(n), MarksAt(n)) /\ MarksAt(n) \in Seq(Mark)
           /\ FileAt(n) # 0 => FileAt(n) \in 1..Len(appended)
<1>1. TailerType /\ FilesMarked
  BY DEF TailerInv
<1>2. FileAt(n) \in 0..Len(files)
  BY <1>1, FileAtType
<1>3. FileAt(n) # 0 => FileAt(n) \in 1..Len(files)
  BY <1>1, <1>2, SMT DEF TailerType
<1>4. Marked(ContentAt(n), MarksAt(n))
  BY <1>1, <1>3, MarkedEmpty DEF FilesMarked, ContentAt, MarksAt
<1> QED
  BY <1>1, <1>3, <1>4 DEF FilesMarked, Marked

(* WholeAt: where nothing was cut off, the file with the name n is read as   *)
(* its whole records.                                                        *)
LEMMA WholeAt ==
    ASSUME TailerInv, NothingTorn, NEW n \in 0..MaxRotated
    PROVE  \E m : /\ AllWhole(MarksAt(n), m) /\ Parse(ContentAt(n)) = Entries(MarksAt(n), 0, m)
                  /\ m # Len(MarksAt(n)) => n = 0 /\ tpc = "rest"
<1>1. PICK M, l : M = MarksAt(n) /\ l = Len(M)
  OBVIOUS
<1>2. Marked(ContentAt(n), M) /\ M \in Seq(Mark)
  BY <1>1, MarkedAt
<1>3. l \in Nat
  BY <1>1, <1>2, SMT
<1>4. \A k \in 1..l : M[k].end = M[k].full \/ (FileAt(n) = log /\ FileAt(n) # 0 /\ k = l /\ tpc = "rest")
  <2> TAKE k \in 1..l
  <2>1. FileAt(n) # 0
    <3>1. 1..Len(<<>>) = {}
      BY SMT
    <3> QED
      BY <1>1, <3>1 DEF MarksAt
  <2>2. FileAt(n) \in 1..Len(appended) /\ M = appended[FileAt(n)]
    BY <1>1, <2>1, MarkedAt DEF MarksAt
  <2>3. NotTorn(FileAt(n), k)
    BY <1>1, <2>2, TornIs DEF TailerInv
  <2> QED
    BY <1>1, <2>1, <2>2, <2>3 DEF NotTorn
<1>5. CASE \A k \in 1..l : M[k].end = M[k].full
  <2>1. l \in 0..l
    BY <1>3, SMT
  <2>2. AllWhole(M, l)
    BY <1>1, <1>5, <2>1 DEF AllWhole
  <2> QED
    BY <1>1, <1>2, <2>2, ParseWhole
<1>6. CASE \E k \in 1..l : M[k].end # M[k].full
  <2>1. PICK m : m = l - 1
    OBVIOUS
  <2>2. l \in 1..l /\ M[l].end # M[l].full /\ FileAt(n) = log /\ FileAt(n) # 0 /\ tpc = "rest"
    BY <1>4, <1>6
  <2>3. m \in 0..l /\ m + 1 = l /\ \A k \in 1..m : k \in 1..l /\ k # l
    BY <1>3, <2>1, <2>2, SMT
  <2>4. AllWhole(M, m)
    BY <1>1, <1>4, <2>2, <2>3 DEF AllWhole
  <2>5. n = 0
    <3> SUFFICES ASSUME n # 0 PROVE FALSE
      OBVIOUS
    <3>1. 0 \in 0..n
      BY QueryAssumption, SMT
    <3>2. FileAt(0) = log
      BY DEF FileAt
    <3>3. FileAt(n) < FileAt(0)
      BY <2>2, <3>1, <3>2 DEF TailerInv, NamesInOrder
    <3>4. log \in 0..Len(files) /\ files \in Seq(Seq(Byte))
      BY DEF TailerInv, TailerType
    <3>5. log < log
      BY <2>2, <3>2, <3>3
    <3> QED
      BY ONLY <3>4, <3>5, SMT
  <2> QED
    BY <1>1, <1>2, <2>2, <2>4, <2>5, ParseWhole
<1> QED
  BY <1>5, <1>6

(* NowGrows: time goes on. *)
LEMMA NowGrows ==
    ASSUME TailerInv, [Next]_vars
    PROVE  Now <= Now' /\ Now \in Int /\ Now' \in Int
<1>1. clock \in Nat
  BY QueryAssumption, SMT DEF TailerInv, TailerType
<1>2. Now \in Int /\ Now <= clock /\ (Pending => Now = clock - 1) /\ (~Pending => Now = clock)
  BY <1>1, SMT DEF Now
<1>3. CASE clock' = clock /\ (Pending' => Pending)
  BY <1>1, <1>2, <1>3, SMT DEF Now
<1>4. CASE BeginAppend
  <2>1. clock' = clock + 1 /\ ~Pending
    BY <1>4 DEF BeginAppend, Pending
  <2> QED
    BY <1>1, <1>2, <2>1, SMT DEF Now
<1>5. CASE Prune \/ Shift \/ RenameLog
  BY <1>3, <1>5 DEF Prune, Shift, RenameLog, Pending
<1>6. CASE CreateLog \/ OpenFails \/ Write \/ WriteRest
  BY <1>3, <1>6 DEF CreateLog, OpenFails, Write, WriteRest, AppendFails, Pending
<1>7. CASE UNCHANGED tailer
  BY <1>3, <1>7 DEF tailer, Pending
<1> QED
  BY <1>4, <1>5, <1>6, <1>7 DEF Next, BeginQuery, ListNext, ReadNext, ReadFails, Return, vars

(* A record of time t was the k-th of a file whose name was n or less. *)
WasAt(n, k, t) ==
    \E m \in 0..n : /\ FileAt(m) # 0 /\ k \in 1..Len(appended[FileAt(m)])
                    /\ t = Time(FileAt(m), k)

(* NamesStep: the records in the file that a step leaves at the name n were  *)
(* at that name or at a newer one, or there is one of now.                   *)
LEMMA NamesStep ==
    ASSUME TailerInv, [Next]_vars, NEW n \in 0..MaxRotated, NEW a, a = FileAt(n)', a # 0,
           NEW k \in 1..Len(appended'[a])
    PROVE  WasAt(n, k, Time(a, k)') \/ Time(a, k)' = Now
<1>0. n \in 0..n /\ MaxRotated \in Nat
  BY QueryAssumption, SMT
<1>1. CASE appended' = appended /\ rotated' = rotated /\ log' = log
  <2>1. FileAt(n) = a
    BY <1>1 DEF FileAt
  <2> QED
    BY <1>0, <1>1, <2>1 DEF WasAt, Time
<1>2. CASE Prune \/ Shift \/ RenameLog
  <2>1. PICK o : Moves(o)
    BY <1>2, NamesMove
  <2>2. appended' = appended
    BY <1>2 DEF Prune, Shift, RenameLog
  <2>3. o[n] \in 0..MaxRotated /\ o[n] <= n /\ a = FileAt(o[n])
    BY <2>1 DEF Moves
  <2>4. o[n] \in 0..n
    BY <1>0, <2>3, SMT
  <2> QED
    BY <2>2, <2>3, <2>4 DEF WasAt, Time
<1>3. CASE /\ Grow /\ log' = Len(files') /\ rotated' = rotated
           /\ (log = 0 /\ Len(files') = Len(files) + 1) \/ (log # 0 /\ Len(files') = Len(files))
  <2>1. FilesMarked /\ FilesMarked' /\ Len(appended) = Len(files) /\ Len(appended') = Len(files')
        /\ log \in {0, Len(files)}
    BY TailerNext DEF TailerInv, FilesMarked, NamesInOrder
  <2>2. a \in 1..Len(appended')
    <3>1. TailerType'
      BY TailerNext DEF TailerInv
    <3>2. FileAt(n)' \in 0..Len(files')
      <4>1. n = 0 \/ n \in 1..MaxRotated
        BY <1>0, SMT
      <4> QED
        BY <3>1, <4>1 DEF TailerType, FileAt
    <3>3. PICK b, l : b = FileAt(n)' /\ l = Len(files')
      OBVIOUS
    <3>4. b \in 0..l /\ b # 0 /\ l \in Nat
      <4>1. files' \in Seq(Seq(Byte))
        BY <3>1 DEF TailerType
      <4>2. l \in Nat
        BY <3>3, <4>1, SMT
      <4> QED
        BY <3>2, <3>3, <4>2
    <3>5. b \in 1..l
      BY ONLY <3>4, SMT
    <3> QED
      BY <2>1, <3>3, <3>5
  <2>3. CASE NewMark(a, k)
    BY <2>3 DEF NewMark
  <2>4. CASE OldMark(a, k)
    <3>1. a \in 1..Len(appended) /\ k \in 1..Len(appended[a]) /\ Time(a, k)' = Time(a, k)
      BY <2>4 DEF OldMark
    <3>2. a = FileAt(n)
      <4>1. CASE n # 0
        BY <1>3, <4>1 DEF FileAt
      <4>2. CASE n = 0
        <5>1. a = Len(files')
          BY <1>3, <4>2 DEF FileAt
        <5>2. a # Len(files) + 1
          <6>1. files \in Seq(Seq(Byte)) /\ a \in 1..Len(files)
            BY <2>1, <3>1 DEF TailerInv, TailerType
          <6> QED
            BY ONLY <6>1, SMT
        <5> QED
          BY <1>3, <2>1, <4>2, <5>1, <5>2 DEF FileAt
      <4> QED
        BY <4>1, <4>2
    <3> QED
      BY <1>0, <3>1, <3>2 DEF WasAt
  <2> QED
    BY <1>3, <2>2, <2>3, <2>4, GrowMarks
<1>4. CASE BeginAppend \/ OpenFails \/ AppendFails
  BY <1>1, <1>4 DEF BeginAppend, OpenFails, AppendFails
<1>5. CASE CreateLog
  <2>1. CASE ~AppendFails /\ log # 0
    BY <1>1, <1>5, <2>1 DEF CreateLog
  <2>2. CASE ~AppendFails /\ log = 0
    <3>1. /\ files' = Append(files, <<>>) /\ appended' = Append(appended, <<>>) /\ log = 0
          /\ log' = Len(files) + 1 /\ rotated' = rotated
      BY <1>5, <2>2 DEF CreateLog
    <3> QED
      BY <1>3, <3>1, CreateGrows
  <2> QED
    BY <1>4, <2>1, <2>2
<1>6. CASE Write
  <2>1. rotated' = rotated
    BY <1>6 DEF Write
  <2> QED
    BY <1>3, <1>6, <2>1, WriteGrows
<1>7. CASE WriteRest
  <2>1. CASE ~AppendFails
    <3>1. /\ files' = [files EXCEPT ![log] = @ \o batch] /\ tpc = "rest"
          /\ appended' = [appended EXCEPT ![log][Len(appended[log])].end = @ + Len(batch)]
          /\ log' = log /\ rotated' = rotated
      BY <1>7, <2>1 DEF WriteRest
    <3>2. Grow /\ log' = Len(files') /\ Len(files') = Len(files) /\ log # 0
      BY <3>1, RestGrows
    <3> QED
      BY <1>3, <3>1, <3>2
  <2> QED
    BY <1>4, <2>1
<1>8. CASE UNCHANGED tailer
  BY <1>1, <1>8 DEF tailer
<1> QED
  BY <1>2, <1>4, <1>5, <1>6, <1>7, <1>8
     DEF Next, BeginQuery, ListNext, ReadNext, ReadFails, Return, vars

LEMMA OrderTailer ==
    ASSUME TailerInv, QueryPlace, OrderInv, [Next]_vars, UNCHANGED query
    PROVE  OrderInv'
<1> SUFFICES ASSUME NothingTorn'
             PROVE  Increasing(all') /\ ReadOld' /\ \A i \in 1..Len(all') : all'[i].ms < Now'
  BY DEF OrderInv, Increasing
<1>1. Increasing(all) /\ ReadOld /\ \A i \in 1..Len(all) : all[i].ms < Now
  BY TornStays DEF OrderInv
<1>2. qpc' = qpc /\ listed' = listed /\ all' = all
  BY QuerySame
<1>3. ASSUME NEW i \in 1..Len(all) PROVE all[i].ms \in Nat /\ all[i].ms < Now'
  <2>1. all \in Seq(Entry)
    BY DEF QueryPlace, QueryType
  <2>2. all[i] \in Entry
    BY ONLY <2>1, i \in 1..Len(all), SMT
  <2>3. all[i].ms \in Nat
    BY <2>2 DEF Entry
  <2>4. Now <= Now' /\ Now \in Int /\ Now' \in Int /\ all[i].ms < Now
    BY <1>1, NowGrows
  <2> QED
    BY ONLY <2>3, <2>4, SMT
<1>4. ReadOld'
  <2> SUFFICES ASSUME qpc = "read", listed # <<>>, NEW i \in 1..Len(all), NEW n \in 0..Head(listed),
                      NEW a, a = FileAt(n)', a # 0, NEW k \in 1..Len(appended'[a])
               PROVE  all[i].ms < Time(a, k)'
    BY <1>2 DEF ReadOld
  <2>1. n \in 0..MaxRotated /\ \A m \in 0..n : m \in 0..Head(listed)
    <3>1. Head(listed) \in 0..MaxRotated
      BY DecreasingTail DEF QueryPlace, QueryType
    <3> QED
      BY <3>1, QueryAssumption, SMT
  <2>2. CASE WasAt(n, k, Time(a, k)')
    BY <1>1, <2>1, <2>2 DEF WasAt, ReadOld
  <2>3. CASE Time(a, k)' = Now
    BY <1>1, <2>3
  <2> QED
    BY <2>1, <2>2, <2>3, NamesStep
<1> QED
  BY <1>1, <1>2, <1>3, <1>4

(* Two sequences, the second younger. *)
LEMMA IncreasingJoin ==
    ASSUME NEW s \in Seq(Entry), NEW t \in Seq(Entry), Increasing(s), Increasing(t),
           \A i \in 1..Len(s), j \in 1..Len(t) : s[i].ms < t[j].ms
    PROVE  Increasing(s \o t)
<1>1. PICK u, m, n : u = s \o t /\ m = Len(s) /\ n = Len(t)
  OBVIOUS
<1>2. /\ m \in Nat /\ n \in Nat /\ Len(u) = m + n
      /\ (\A i \in 1..m : u[i] = s[i]) /\ \A i \in 1..n : u[m + i] = t[i]
  <2>1. IsJoin(u, Entry, s, t, m, n)
    BY <1>1, Joined
  <2>2. m \in Nat /\ n \in Nat
    BY <1>1, SMT
  <2> QED
    BY <2>1, <2>2 DEF IsJoin
<1>3. ASSUME NEW i \in 1..m + n, NEW j \in 1..m + n, i < j PROVE u[i].ms < u[j].ms
  <2>1. CASE j \in 1..m
    <3>1. i \in 1..m
      BY ONLY <1>2, <1>3, <2>1, SMT
    <3> QED
      BY <1>1, <1>2, <1>3, <2>1, <3>1 DEF Increasing
  <2>2. CASE j \notin 1..m
    <3>1. PICK y : y = j - m
      OBVIOUS
    <3>2. y \in 1..n /\ m + y = j
      BY ONLY <1>2, <1>3, <2>2, <3>1, SMT
    <3>3. CASE i \in 1..m
      BY <1>1, <1>2, <3>2, <3>3
    <3>4. CASE i \notin 1..m
      <4>1. PICK x : x = i - m
        OBVIOUS
      <4>2. x \in 1..n /\ m + x = i /\ x < y
        BY ONLY <1>2, <1>3, <3>2, <3>4, <4>1, SMTT(30)
      <4> QED
        BY <1>1, <1>2, <3>2, <4>2 DEF Increasing
    <3> QED
      BY <3>3, <3>4
  <2> QED
    BY <2>1, <2>2
<1> QED
  BY <1>1, <1>2, <1>3 DEF Increasing

(* What is read of a file, where nothing was cut off: records of the file.   *)
LEMMA ReadIs ==
    ASSUME TailerInv, NothingTorn, NEW n \in 0..MaxRotated, NEW p, p = Parse(ContentAt(n))
    PROVE  /\ p \in Seq(Entry) /\ Increasing(p)
           /\ \A j \in 1..Len(p) : /\ FileAt(n) \in 1..Len(appended)
                                   /\ j \in 1..Len(appended[FileAt(n)])
                                   /\ p[j].ms = Time(FileAt(n), j)
<1>1. PICK M, f : M = MarksAt(n) /\ f = FileAt(n)
  OBVIOUS
<1>2. PICK m : AllWhole(M, m) /\ p = Entries(M, 0, m)
  BY <1>1, WholeAt
<1>3. M \in Seq(Mark) /\ (f # 0 => f \in 1..Len(appended))
  BY <1>1, MarkedAt
<1>4. m \in 0..Len(M)
  BY <1>2 DEF AllWhole
<1>5. m - 0 = m /\ 0 \in 0..m /\ \A j \in 1..m : 0 + j = j /\ j \in 1..Len(M)
  BY ONLY <1>3, <1>4, SMT
<1>6. p \in Seq(Logged) /\ Len(p) = m /\ \A j \in 1..m : p[j] = M[j].entry
  <2>1. PICK z : z = 0
    OBVIOUS
  <2>2. /\ Entries(M, z, m) \in Seq(Logged) /\ Len(Entries(M, z, m)) = m - z
        /\ \A i \in 1..m - z : Entries(M, z, m)[i] = M[z + i].entry
    <3>1. z \in 0..m
      BY <1>5, <2>1
    <3> QED
      BY <1>3, <1>4, <3>1, EntriesAre
  <2> QED
    BY <1>2, <1>5, <2>1, <2>2
<1>7. p \in Seq(Entry)
  BY ContentType, ParseType DEF TailerInv
<1>8. ASSUME NEW j \in 1..m
      PROVE  f \in 1..Len(appended) /\ j \in 1..Len(appended[f]) /\ p[j].ms = Time(f, j)
  <2>1. f # 0
    <3>1. 1..Len(<<>>) = {}
      BY SMT
    <3> QED
      BY <1>1, <1>5, <3>1 DEF MarksAt
  <2>2. M = appended[f]
    BY <1>1, <2>1 DEF MarksAt
  <2> QED
    BY <1>3, <1>5, <1>6, <2>1, <2>2 DEF Time
<1>9. Increasing(p)
  BY <1>6, <1>8 DEF Increasing, TailerInv, MarksOrdered
<1> QED
  BY <1>1, <1>6, <1>7, <1>8, <1>9

LEMMA OrderRead ==
    ASSUME TailerInv, QueryPlace, OrderInv, ReadNext
    PROVE  OrderInv'
<1>1. /\ qpc = "read" /\ listed # <<>> /\ listed' = Tail(listed) /\ UNCHANGED tailer
      /\ all' = all \o Parse(ContentAt(Head(listed)))
  BY DEF ReadNext
<1>2. /\ files' = files /\ log' = log /\ rotated' = rotated /\ tpc' = tpc /\ clock' = clock
      /\ appended' = appended
  BY <1>1 DEF tailer
<1>3. PICK h, p, t : h = Head(listed) /\ p = Parse(ContentAt(h)) /\ t = Tail(listed)
  OBVIOUS
<1>4. /\ t \in Seq(0..MaxRotated) /\ Decreasing(t) /\ h \in 0..MaxRotated
      /\ \A i \in 1..Len(t) : t[i] < h
  BY <1>1, <1>3, DecreasingTail DEF QueryPlace, QueryType
<1> SUFFICES ASSUME NothingTorn
             PROVE  Increasing(all') /\ ReadOld' /\ \A i \in 1..Len(all') : all'[i].ms < Now'
  BY <1>2 DEF OrderInv, Increasing, NothingTorn
<1>5. /\ Increasing(all) /\ ReadOld /\ (\A i \in 1..Len(all) : all[i].ms < Now)
      /\ all \in Seq(Entry)
  BY DEF OrderInv, QueryPlace, QueryType
<1>6. /\ p \in Seq(Entry) /\ Increasing(p)
      /\ \A j \in 1..Len(p) : /\ FileAt(h) \in 1..Len(appended)
                              /\ j \in 1..Len(appended[FileAt(h)])
                              /\ p[j].ms = Time(FileAt(h), j)
  BY <1>3, <1>4, ReadIs
<1>8. h \in 0..h
  BY <1>4, QueryAssumption, SMT
<1>9. \A j \in 1..Len(p) : FileAt(h) # 0
  <2>1. \A x \in 1..Len(appended) : x # 0
    BY SMT DEF TailerInv, FilesMarked
  <2> QED
    BY <1>6, <2>1
<1>10. \A i \in 1..Len(all), j \in 1..Len(p) : all[i].ms < p[j].ms
  BY <1>1, <1>3, <1>5, <1>6, <1>8, <1>9 DEF ReadOld
<1>11. Increasing(all \o p)
  BY <1>5, <1>6, <1>10, IncreasingJoin
<1>12. PICK u, m, n : u = all \o p /\ m = Len(all) /\ n = Len(p)
  OBVIOUS
<1>13. /\ m \in Nat /\ n \in Nat /\ Len(u) = m + n
       /\ (\A i \in 1..m : u[i] = all[i]) /\ (\A i \in 1..n : u[m + i] = p[i])
  <2>1. IsJoin(u, Entry, all, p, m, n)
    BY <1>5, <1>6, <1>12, Joined
  <2>2. m \in Nat /\ n \in Nat
    BY <1>5, <1>6, <1>12, SMT
  <2> QED
    BY <2>1, <2>2 DEF IsJoin
<1>14. \A i \in 1..m + n : i \in 1..m \/ (i - m \in 1..n /\ m + (i - m) = i)
  BY ONLY <1>13, SMT
<1>15. \A i \in 1..m + n : (\E j \in 1..m : u[i] = all[j]) \/ (\E j \in 1..n : u[i] = p[j])
  <2> TAKE i \in 1..m + n
  <2>1. CASE i \in 1..m
    BY <1>13, <2>1
  <2>2. CASE i - m \in 1..n /\ m + (i - m) = i
    <3>1. u[m + (i - m)] = p[i - m]
      BY <1>13, <2>2
    <3> QED
      BY <2>2, <3>1
  <2> QED
    BY <1>14, <2>1, <2>2
<1>16. \A i \in 1..Len(u) : u[i].ms < Now
  <2>1. \A j \in 1..n : p[j].ms < Now
    BY <1>6, <1>12 DEF TailerInv, MarksOld
  <2> QED
    BY <1>5, <1>12, <1>13, <1>15, <2>1
<1>17. Now' = Now
  BY <1>2 DEF Now, Pending
<1>18. ASSUME t # <<>>, NEW i \in 1..Len(u), NEW x \in 0..Head(t), FileAt(x) # 0,
              NEW k \in 1..Len(appended[FileAt(x)])
       PROVE  u[i].ms < Time(FileAt(x), k)
  <2>1. Head(t) \in 0..MaxRotated /\ Head(t) < h
    <3>1. PICK T : T = 0..MaxRotated
      OBVIOUS
    <3>2. t \in Seq(T)
      BY <1>4, <3>1
    <3>3. Head(t) = t[1] /\ t[1] \in T /\ 1 \in 1..Len(t)
      BY ONLY <1>18, <3>2, SMT
    <3> QED
      BY <1>4, <3>1, <3>3
  <2>2. x \in 0..h /\ x # h /\ x \in 0..MaxRotated
    BY ONLY <1>4, <2>1, QueryAssumption, x \in 0..Head(t), SMT
  <2>3. CASE \E j \in 1..m : u[i] = all[j]
    BY <1>1, <1>3, <1>5, <1>12, <1>18, <2>2, <2>3 DEF ReadOld
  <2>4. CASE \E j \in 1..n : u[i] = p[j]
    <3>1. PICK j \in 1..n : u[i] = p[j]
      BY <2>4
    <3>2. /\ FileAt(h) \in 1..Len(appended) /\ FileAt(h) # 0 /\ j \in 1..Len(appended[FileAt(h)])
          /\ u[i].ms = Time(FileAt(h), j)
      BY <1>6, <1>9, <1>12, <3>1
    <3>3. FileAt(h) < FileAt(x)
      BY <1>4, <1>18, <2>2, <3>2 DEF TailerInv, NamesInOrder
    <3>4. FileAt(x) \in 1..Len(appended)
      BY <1>18, <2>2, MarkedAt
    <3> QED
      BY <1>18, <3>2, <3>3, <3>4 DEF TailerInv, MarksOrdered
  <2> QED
    BY <1>12, <1>13, <1>15, <2>3, <2>4
<1>19. ReadOld'
  <2>1. all' = u /\ listed' = t
    BY <1>1, <1>3, <1>12
  <2> QED
    BY <1>2, <1>18, <2>1 DEF ReadOld, FileAt, Time
<1> QED
  BY <1>1, <1>3, <1>11, <1>12, <1>16, <1>17, <1>19

LEMMA OrderNext ==
    ASSUME TailerInv, QueryPlace, OrderInv, [Next]_vars
    PROVE  OrderInv'
<1>1. CASE UNCHANGED query
  BY <1>1, OrderTailer
<1>2. CASE ReadNext
  BY <1>2, OrderRead
<1>3. ASSUME UNCHANGED tailer, all' = all, ReadOld' \/ all = <<>> PROVE OrderInv'
  <2>1. NothingTorn' => NothingTorn
    BY TornStays
  <2>2. Now' = Now
    BY <1>3 DEF tailer, Now, Pending
  <2>3. 1..Len(<<>>) = {}
    BY SMT
  <2>4. all = <<>> => ReadOld'
    BY <1>3, <2>3 DEF ReadOld
  <2> QED
    BY <1>3, <2>1, <2>2, <2>4 DEF OrderInv, Increasing
<1>4. CASE BeginQuery \/ ListNext
  BY <1>3, <1>4 DEF BeginQuery, ListNext, QueryPlace
<1>5. CASE ReadFails \/ Return
  <2>1. UNCHANGED tailer /\ all' = all /\ qpc' = "done"
    BY <1>5 DEF ReadFails, Return
  <2>2. ReadOld'
    BY <2>1 DEF ReadOld
  <2> QED
    BY <1>3, <2>1, <2>2
<1> QED
  BY <1>1, <1>2, <1>4, <1>5, TailerOrQuery DEF QueryPlace

LEMMA OrderInit ==
    ASSUME Init
    PROVE  OrderInv
<1>1. all = <<>> /\ qpc = "idle"
  BY DEF Init
<1>2. 1..Len(<<>>) = {}
  BY SMT
<1> QED
  BY <1>1, <1>2 DEF OrderInv, Increasing, ReadOld

(* InOrder: QueryInOrder in every reachable state. container_logs_filtered   *)
(* reads the files by name while rotate_if_needed renames them, and still    *)
(* has each entry at most once and in order, for any number of files, any    *)
(* renames that fail, and any appends between the reads.                     *)
THEOREM InOrder == Spec => []QueryInOrder
<1>1. Init => TailerInv /\ QueryPlace /\ OrderInv
  BY TailerInit, PlaceInit, OrderInit
<1>2. TailerInv /\ QueryPlace /\ OrderInv /\ [Next]_vars => (TailerInv /\ QueryPlace /\ OrderInv)'
  BY TailerNext, PlaceNext, OrderNext
<1>3. TailerInv /\ QueryPlace /\ OrderInv => QueryInOrder
  <2>1. ASSUME QueryPlace PROVE DOMAIN all = 1..Len(all)
    <3>1. all \in Seq(Entry)
      BY <2>1 DEF QueryPlace, QueryType
    <3> QED
      BY ONLY <3>1, SMT
  <2> QED
    BY <2>1 DEF OrderInv, Increasing, QueryInOrder
<1> QED
  BY <1>1, <1>2, <1>3, PTL DEF Spec

------------------------------------------------------------------------------
(* All of it *)

(* KeptIs: what the history says of a file is what is read of it. *)
LEMMA KeptIs ==
    ASSUME TailerInv, NothingTorn, NEW n \in 0..MaxRotated
    PROVE  Kept(n) = Parse(ContentAt(n)) /\ Kept(n) \in Seq(Entry)
<1>1. PICK M : M = MarksAt(n)
  OBVIOUS
<1>2. PICK m : AllWhole(M, m) /\ Parse(ContentAt(n)) = Entries(M, 0, m)
  BY <1>1, WholeAt
<1>3. M \in Seq(Mark)
  BY <1>1, MarkedAt
<1>4. /\ m \in 0..Len(M) /\ (\A k \in 1..m : M[k].end = M[k].full)
      /\ m = Len(M) \/ (m + 1 = Len(M) /\ M[m + 1].end # M[m + 1].full)
  BY <1>2 DEF AllWhole
<1>5. PICK W : W = {x \in Range(M) : x.end = x.full}
  OBVIOUS
<1>6. PICK N : N = SubSeq(M, 1, m)
  OBVIOUS
<1>7. /\ N \in Seq(Mark) /\ Len(N) = m /\ (\A k \in 1..m : N[k] = M[k]) /\ DOMAIN N = 1..m
      /\ m \in Nat /\ Len(M) \in Nat
  BY ONLY <1>3, <1>4, <1>6, SMT
<1>8. DOMAIN M = 1..Len(M) /\ \A k \in 1..m : k \in 1..Len(M)
  BY ONLY <1>3, <1>7, <1>4, SMT
<1>9. \A k \in 1..Len(M) : M[k] \in Range(M)
  BY <1>8 DEF Range
<1>10. Retain(N, W) = N
  <2>1. \A k \in 1..Len(N) : N[k] \in W
    BY <1>4, <1>5, <1>7, <1>8, <1>9
  <2> QED
    BY <1>7, <2>1, RetainAll
<1>11. Retain(M, W) = N
  <2>1. CASE m = Len(M)
    <3>1. N = M
      BY ONLY <1>3, <1>6, <2>1, SMT
    <3> QED
      BY <1>10, <3>1
  <2>2. CASE m + 1 = Len(M) /\ M[m + 1].end # M[m + 1].full
    <3>1. PICK x : x = M[m + 1]
      OBVIOUS
    <3>2. m + 1 = Len(M)
      BY <2>2
    <3>3. M = Append(N, x) /\ x \in Mark
      BY ONLY <1>3, <1>6, <1>7, <3>1, <3>2, SMTT(30)
    <3>4. x \notin W
      BY <1>5, <2>2, <3>1
    <3>5. Retain(Append(N, x), W) = IF x \in W THEN Append(Retain(N, W), x) ELSE Retain(N, W)
      BY <1>7, <3>3, RetainAppend
    <3> QED
      BY <1>10, <3>3, <3>4, <3>5
  <2> QED
    BY <1>4, <2>1, <2>2
<1>12. m - 0 = m /\ \A k \in 1..m : 0 + k = k
  BY <1>7, SMT
<1>13. Entries(M, 0, m) = [k \in DOMAIN N |-> N[k].entry]
  BY <1>7, <1>12 DEF Entries
<1>14. CASE FileAt(n) # 0
  <2>1. M = appended[FileAt(n)]
    BY <1>1, <1>14 DEF MarksAt
  <2>2. Whole(FileAt(n)) = [k \in DOMAIN N |-> N[k].entry]
    BY <1>5, <1>11, <2>1 DEF Whole
  <2>3. Kept(n) = Parse(ContentAt(n))
    BY <1>2, <1>13, <1>14, <2>2 DEF Kept
  <2> QED
    BY <2>3, ContentType, ParseType DEF TailerInv
<1>15. CASE FileAt(n) = 0
  <2>1. M = <<>> /\ Len(<<>>) = 0
    BY <1>1, <1>15, SMT DEF MarksAt
  <2>2. m = 0
    BY <1>4, <2>1, SMT
  <2>3. N = <<>>
    BY <1>7, <2>2, SMT
  <2>4. [k \in DOMAIN <<>> |-> <<>>[k].entry] = <<>>
    BY SMT
  <2>5. Kept(n) = Parse(ContentAt(n))
    BY <1>2, <1>13, <1>15, <2>3, <2>4 DEF Kept
  <2> QED
    BY <2>5, ContentType, ParseType DEF TailerInv
<1> QED
  BY <1>14, <1>15

(* Oldest(n): the n oldest names, and what their files hold. *)
Oldest(n) == [k \in 1..n |-> Kept(MaxRotated + 1 - k)]

LEMMA OldestIs ==
    ASSUME TailerInv, NothingTorn, NEW n \in 0..MaxRotated
    PROVE  /\ Oldest(n) \in Seq(Seq(Entry))
           /\ Oldest(n + 1) = Append(Oldest(n), Kept(MaxRotated - n))
           /\ Kept(MaxRotated - n) \in Seq(Entry)
<1>0. MaxRotated \in Nat /\ n \in Nat
  BY QueryAssumption, SMT
<1>1. /\ \A k \in 1..n + 1 : MaxRotated + 1 - k \in 0..MaxRotated
      /\ MaxRotated - n \in 0..MaxRotated /\ MaxRotated + 1 - (n + 1) = MaxRotated - n
  BY <1>0, SMT
<1>2. \A k \in 1..n + 1 : Kept(MaxRotated + 1 - k) \in Seq(Entry)
  BY <1>1, KeptIs
<1>3. PICK u, v, x, m : /\ u = Oldest(n) /\ v = Oldest(m) /\ x = Kept(MaxRotated - n) /\ m = n + 1
  OBVIOUS
<1>4. /\ m \in Nat /\ (\A k \in 1..n : k \in 1..m /\ k # m) /\ m \in 1..m
      /\ \A k \in 1..m : k = m \/ k \in 1..n
  BY ONLY <1>0, <1>3, SMT
<1>5. u \in [1..n -> Seq(Entry)] /\ \A k \in 1..n : u[k] = Kept(MaxRotated + 1 - k)
  BY <1>2, <1>3, <1>4 DEF Oldest
<1>6. v \in [1..m -> Seq(Entry)] /\ \A k \in 1..m : v[k] = Kept(MaxRotated + 1 - k)
  BY <1>2, <1>3 DEF Oldest
<1>7. x \in Seq(Entry) /\ v[m] = x
  BY <1>1, <1>3, <1>4, <1>6, KeptIs
<1>8. \A k \in 1..n : v[k] = u[k]
  BY <1>4, <1>5, <1>6
<1>9. PICK T : T = Seq(Entry)
  OBVIOUS
<1>10. u \in [1..n -> T] /\ v \in [1..m -> T] /\ x \in T
  BY <1>5, <1>6, <1>7, <1>9
<1>11. u \in Seq(T) /\ Len(u) = n /\ v \in Seq(T) /\ Len(v) = m
  BY ONLY <1>0, <1>4, <1>10, SMT
<1>12. PICK w : w = Append(u, x)
  OBVIOUS
<1>13. w \in Seq(T) /\ Len(w) = m /\ w[m] = x /\ \A k \in 1..n : w[k] = u[k]
  BY ONLY <1>0, <1>3, <1>10, <1>11, <1>12, m = n + 1, SMT
<1>14. v = w
  <2>1. Len(v) = Len(w) /\ Len(v) = m
    BY <1>11, <1>13
  <2>2. \A k \in 1..Len(v) : v[k] = w[k]
    BY <1>4, <1>7, <1>8, <1>13, <2>1
  <2> QED
    BY <1>11, <1>13, <2>1, <2>2, SameSeq
<1> QED
  BY <1>3, <1>7, <1>9, <1>11, <1>12, <1>14

(* AboveNext: the files above a name, one name further. *)
LEMMA AboveNext ==
    ASSUME TailerInv, NothingTorn, NEW n \in 0..MaxRotated
    PROVE  /\ Above(n) \in Seq(Entry) /\ Kept(n) \in Seq(Entry)
           /\ FlattenSeq(Oldest(MaxRotated - n + 1)) = Above(n) \o Kept(n)
<1>1. PICK k : k = MaxRotated - n
  OBVIOUS
<1>2. k \in 0..MaxRotated /\ MaxRotated - k = n
  BY <1>1, QueryAssumption, SMT
<1>3. /\ Oldest(k) \in Seq(Seq(Entry)) /\ Oldest(k + 1) = Append(Oldest(k), Kept(n))
      /\ Kept(n) \in Seq(Entry)
  <2>1. /\ Oldest(k) \in Seq(Seq(Entry)) /\ Oldest(k + 1) = Append(Oldest(k), Kept(MaxRotated - k))
        /\ Kept(MaxRotated - k) \in Seq(Entry)
    BY <1>2, OldestIs
  <2> QED
    BY <1>2, <2>1
<1>4. LastJoined(Append(Oldest(k), Kept(n)), Oldest(k), Kept(n))
  BY <1>3, FlattenAppend
<1>5. FlattenSeq(Oldest(k)) \in Seq(Entry)
  BY <1>3, FlattenType
<1>6. Above(n) = FlattenSeq(Oldest(k))
  BY <1>1 DEF Above, Oldest
<1> QED
  BY <1>1, <1>3, <1>4, <1>5, <1>6 DEF LastJoined

(* AboveTop, AboveStep, AboveSkip: there is nothing above the last name, a   *)
(* name adds what its file holds, and one without a file adds nothing.       *)
LEMMA AboveTop == Above(MaxRotated) = <<>>
<1>1. MaxRotated - MaxRotated = 0 /\ 1..0 = {}
  BY QueryAssumption, SMT
<1>2. PICK f : f = [k \in 1..MaxRotated - MaxRotated |-> Kept(MaxRotated + 1 - k)]
  OBVIOUS
<1>3. f \in [{} -> {}]
  BY <1>1, <1>2
<1>4. f = <<>>
  <2>1. f \in Seq({}) /\ Len(f) = 0
    BY ONLY <1>1, <1>3, SMT
  <2> QED
    BY <2>1, SMT
<1> QED
  BY <1>2, <1>4, FlattenEmpty DEF Above

LEMMA AboveStep ==
    ASSUME TailerInv, NothingTorn, NEW n \in 0..MaxRotated, NEW m \in 0..MaxRotated, n = m + 1
    PROVE  Above(m) = Above(n) \o Kept(n)
<1>1. MaxRotated - n + 1 = MaxRotated - m
  BY QueryAssumption, SMT
<1> QED
  BY <1>1, AboveNext DEF Above, Oldest

LEMMA AboveSkip ==
    ASSUME TailerInv, NothingTorn, NEW g \in 0..MaxRotated, NEW h \in g..MaxRotated,
           Existing(g + 1, h) = {}
    PROVE  Above(g) = Above(h)
<1>0. PICK e : e = h - g
  OBVIOUS
<1>1. MaxRotated \in Nat /\ h \in Nat /\ g \in Nat /\ e \in Nat /\ h - 0 = h /\ h - e = g
      /\ 0 \in 0..e /\ e \in 0..e
  BY <1>0, QueryAssumption, SMT
<1> DEFINE S == {d \in 0..e : Above(h - d) = Above(h)}
<1>2. 0 \in S
  BY <1>1
<1>3. ASSUME NEW d \in 1..e, d - 1 \in S PROVE d \in S
  <2>1. PICK n, m : n = h - (d - 1) /\ m = h - d
    OBVIOUS
  <2>2. /\ n \in 0..MaxRotated /\ m \in 0..MaxRotated /\ n = m + 1 /\ n \in g + 1..h /\ n # 0
        /\ d \in 0..e
    BY ONLY <1>0, <1>1, <2>1, d \in 1..e, h \in g..MaxRotated, SMTT(30)
  <2>3. rotated[n] = 0
    BY <2>2 DEF Existing
  <2>4. Kept(n) = <<>>
    BY <2>2, <2>3 DEF Kept, FileAt
  <2>5. Above(n) \in Seq(Entry)
    BY <2>2, AboveNext
  <2>6. Above(n) \o <<>> = Above(n)
    BY <2>5, SMT
  <2>7. Above(m) = Above(n) \o Kept(n)
    BY <2>2, AboveStep
  <2>8. Above(n) = Above(h)
    BY <1>3, <2>1
  <2> QED
    BY <2>1, <2>2, <2>4, <2>6, <2>7, <2>8
<1>4. 0..e \subseteq S
  <2> HIDE DEF S
  <2> QED
    BY <1>1, <1>2, <1>3, Upwards
<1> QED
  BY <1>1, <1>4

(* KeptWhole: what is kept of the files, and by which marks. *)
KeptWhole ==
    \A n \in 0..MaxRotated : \E m :
        /\ MarksAt(n) \in Seq(Mark) /\ AllWhole(MarksAt(n), m) /\ Kept(n) \in Seq(Entry)
        /\ Kept(n) = Entries(MarksAt(n), 0, m)
        /\ m # Len(MarksAt(n)) => n = 0 /\ tpc = "rest"

LEMMA WholeNow == TailerInv /\ NothingTorn => KeptWhole
BY WholeAt, KeptIs, MarkedAt DEF KeptWhole

(* More marks, more entries. *)
LEMMA EntriesGrow ==
    ASSUME NEW M \in Seq(Mark), NEW N \in Seq(Mark), NEW m \in 0..Len(M), NEW p \in 0..Len(N),
           m <= p, \A k \in 1..m : N[k] = M[k], NEW s \in Seq(Entry), NEW t \in Seq(Entry),
           s = Entries(M, 0, m), t = Entries(N, 0, p)
    PROVE  Begins(s, t)
<1>1. PICK z : z = 0
  OBVIOUS
<1>2. /\ z \in 0..m /\ z \in 0..p /\ m - z = m /\ p - z = p /\ m \in Nat /\ p \in Nat
      /\ \A k \in 1..m : z + k = k /\ k \in 1..p
  BY <1>1, SMT
<1>3. Len(s) = m /\ \A i \in 1..m : s[i] = M[i].entry
  <2>1. /\ Len(Entries(M, z, m)) = m - z
        /\ \A i \in 1..m - z : Entries(M, z, m)[i] = M[z + i].entry
    BY <1>2, EntriesAre
  <2> QED
    BY <1>1, <1>2, <2>1
<1>4. Len(t) = p /\ \A i \in 1..m : t[i] = N[i].entry
  <2>1. /\ Len(Entries(N, z, p)) = p - z
        /\ \A i \in 1..p - z : Entries(N, z, p)[i] = N[z + i].entry
    BY <1>2, EntriesAre
  <2> QED
    BY <1>1, <1>2, <2>1
<1>5. Len(s) <= Len(t) /\ \A i \in 1..Len(s) : s[i] = t[i]
  BY <1>3, <1>4
<1> QED
  BY <1>5, PrefixIs DEF Begins

(* Settled: the rotated files stay, and events.log only grows. *)
Settled ==
    /\ rotated' = rotated /\ (\A n \in 1..MaxRotated : Kept(n)' = Kept(n))
    /\ Begins(Kept(0), Kept(0)')

LEMMA KeptSame ==
    ASSUME TailerInv, NothingTorn, rotated' = rotated, log' = log, appended' = appended
    PROVE  Settled
<1>1. \A n : Kept(n)' = Kept(n)
  BY DEF Kept, FileAt, Whole
<1>2. PICK s : s = Kept(0)
  OBVIOUS
<1>3. s \in Seq(Entry)
  <2>1. 0 \in 0..MaxRotated
    BY QueryAssumption, SMT
  <2> QED
    BY <1>2, <2>1, KeptIs
<1>4. Len(s) <= Len(s) /\ \A i \in 1..Len(s) : s[i] = s[i]
  BY ONLY <1>3, SMT
<1>5. Begins(s, s)
  BY <1>3, <1>4, PrefixIs DEF Begins
<1> QED
  BY <1>1, <1>2, <1>5 DEF Settled

(* Older: N has the whole records of M, and no fewer. *)
Older(M, N) ==
    \A m, p : AllWhole(M, m) /\ AllWhole(N, p) /\ (m # Len(M) => tpc = "rest")
                  => m <= p /\ \A k \in 1..m : N[k] = M[k]

LEMMA KeptGrows ==
    ASSUME TailerInv, [Next]_vars, NothingTorn', Grow, rotated' = rotated, log' = Len(files'),
           (log = 0 /\ Len(files') = Len(files) + 1) \/ (log # 0 /\ Len(files') = Len(files)),
           Older(MarksAt(0), MarksAt(0)')
    PROVE  Settled
<1>1. NothingTorn /\ TailerInv'
  BY TornStays, TailerNext
<1>2. KeptWhole
  BY <1>1, WholeNow
<1>3. KeptWhole'
  BY <1>1, WholeNow, PTL
<1>4. 0 \in 0..MaxRotated
  BY QueryAssumption, SMT
<1>5. Begins(Kept(0), Kept(0)')
  <2>1. PICK M, N, s, t : M = MarksAt(0) /\ N = MarksAt(0)' /\ s = Kept(0) /\ t = Kept(0)'
    OBVIOUS
  <2>2. PICK m : /\ M \in Seq(Mark) /\ AllWhole(M, m) /\ s \in Seq(Entry) /\ s = Entries(M, 0, m)
                 /\ m # Len(M) => tpc = "rest"
    BY <1>2, <1>4, <2>1 DEF KeptWhole
  <2>3. PICK p : N \in Seq(Mark) /\ AllWhole(N, p) /\ t \in Seq(Entry) /\ t = Entries(N, 0, p)
    <3>1. \E p : /\ MarksAt(0)' \in Seq(Mark) /\ AllWhole(MarksAt(0)', p) /\ Kept(0)' \in Seq(Entry)
                 /\ Kept(0)' = Entries(MarksAt(0)', 0, p)
      BY <1>3, <1>4 DEF KeptWhole
    <3> QED
      BY <2>1, <3>1
  <2>4. m <= p /\ \A k \in 1..m : N[k] = M[k]
    BY <2>1, <2>2, <2>3 DEF Older
  <2>5. m \in 0..Len(M) /\ p \in 0..Len(N)
    BY <2>2, <2>3 DEF AllWhole
  <2>6. Begins(s, t)
    BY <2>2, <2>3, <2>4, <2>5, EntriesGrow
  <2> QED
    BY <2>1, <2>6
<1>6. ASSUME NEW n \in 1..MaxRotated PROVE Kept(n)' = Kept(n)
  <2>1. PICK a : a = FileAt(n)
    OBVIOUS
  <2>2. n \in 0..MaxRotated /\ n # 0 /\ 0 \in 0..n
    BY QueryAssumption, SMT
  <2>3. FileAt(n)' = a
    BY <2>1, <2>2 DEF FileAt
  <2>4. CASE a = 0
    BY <2>1, <2>3, <2>4 DEF Kept
  <2>5. CASE a # 0
    <3>1. /\ files \in Seq(Seq(Byte)) /\ files' \in Seq(Seq(Byte)) /\ Len(appended) = Len(files)
          /\ Len(appended') = Len(files') /\ log \in {0, Len(files)}
      BY <1>1 DEF TailerInv, TailerType, FilesMarked, NamesInOrder
    <3>2. a \in 1..Len(files)
      BY <2>1, <2>2, <2>5, <3>1, MarkedAt
    <3>3. log # 0 => a < log
      <4>1. FileAt(0) = log
        BY DEF FileAt
      <4> QED
        BY <2>1, <2>2, <2>5, <4>1 DEF TailerInv, NamesInOrder
    <3>4. PICK l, b : l = Len(files) /\ b = Len(files')
      OBVIOUS
    <3>5. l \in Nat /\ b \in Nat
      BY <3>1, <3>4, SMT
    <3>6. a \in 1..b /\ a # b
      <4>1. CASE log = 0
        <5>1. a \in 1..l /\ b = l + 1
          BY <3>2, <3>4, <4>1
        <5> QED
          BY ONLY <3>5, <5>1, SMT
      <4>2. CASE log # 0
        <5>1. a \in 1..l /\ b = l /\ a < l
          BY <3>1, <3>2, <3>3, <3>4, <4>2
        <5> QED
          BY ONLY <3>5, <5>1, SMT
      <4> QED
        BY <4>1, <4>2
    <3>7. PICK i, M : Put(appended', Seq(Mark), appended, i, M)
      BY DEF Grow
    <3>8. i = b /\ \A j \in 1..i : j # i => appended'[j] = appended[j]
      BY <3>1, <3>4, <3>7 DEF Put
    <3>9. appended'[a] = appended[a]
      BY <3>6, <3>8
    <3>10. Whole(a)' = Whole(a)
      BY <3>9 DEF Whole
    <3> QED
      BY <2>1, <2>3, <3>10 DEF Kept
  <2> QED
    BY <2>4, <2>5
<1> QED
  BY <1>5, <1>6 DEF Settled

LEMMA WriteSettles ==
    ASSUME TailerInv, NothingTorn', Write
    PROVE  Settled
<1>1. /\ Grow /\ log' = Len(files') /\ rotated' = rotated /\ tpc = "open" /\ [Next]_vars
      /\ (log = 0 /\ Len(files') = Len(files) + 1) \/ (log # 0 /\ Len(files') = Len(files))
      /\ \A a \in 1..Len(appended) : \A k \in 1..Len(appended[a]) :
            SameMark(a, k) /\ ~(a = log' /\ k = Len(appended'[a]))
  <2>1. rotated' = rotated /\ tpc = "open"
    BY DEF Write
  <2>2. [Next]_vars
    BY DEF Next
  <2> QED
    BY <2>1, <2>2, WriteGrows
<1>2. TailerInv'
  BY <1>1, TailerNext
<1>3. PICK M, N : M = MarksAt(0) /\ N = MarksAt(0)'
  OBVIOUS
<1>4. Older(M, N)
  <2> SUFFICES ASSUME NEW m, NEW p, AllWhole(M, m), AllWhole(N, p), m = Len(M)
               PROVE  m <= p /\ \A k \in 1..m : N[k] = M[k]
    BY <1>1 DEF Older
  <2>1. m \in 0..Len(M) /\ p \in 0..Len(N) /\ (p = Len(N) \/ p + 1 = Len(N))
    BY DEF AllWhole
  <2>2. CASE log = 0
    <3>1. M = <<>> /\ Len(<<>>) = 0 /\ 1..0 = {}
      BY <1>3, <2>2, SMT DEF MarksAt, FileAt
    <3>2. m = 0
      BY <3>1
    <3>3. 0 <= p
      BY <2>1, SMT
    <3> QED
      BY <3>1, <3>2, <3>3
  <2>3. CASE log # 0
    <3>1. /\ files \in Seq(Seq(Byte)) /\ Len(appended) = Len(files) /\ log = Len(files)
          /\ appended \in Seq(Seq(Mark)) /\ appended' \in Seq(Seq(Mark))
      BY <1>2, <2>3 DEF TailerInv, TailerType, FilesMarked, NamesInOrder
    <3>2. log' = log /\ M = appended[log] /\ N = appended'[log]
      BY <1>1, <1>3, <2>3, <3>1 DEF MarksAt, FileAt
    <3>3. log \in 1..Len(appended)
      BY ONLY <2>3, <3>1, SMT
    <3>4. \A k \in 1..Len(M) : k \in 1..Len(N) /\ N[k] = M[k] /\ k # Len(N)
      BY <1>1, <3>2, <3>3 DEF SameMark
    <3>5. Len(M) \in Nat
      BY ONLY <3>1, <3>2, <3>3, SMT
    <3>6. m <= p
      <4>1. CASE m = 0
        BY <2>1, <4>1, SMT
      <4>2. CASE m # 0
        <5>1. m \in 1..Len(M)
          BY ONLY <3>5, <4>2, m = Len(M), SMT
        <5>2. m \in 1..Len(N) /\ m # Len(N)
          BY <3>4, <5>1
        <5> QED
          BY ONLY <2>1, <5>2, SMT
      <4> QED
        BY <4>1, <4>2
    <3> QED
      BY <3>4, <3>6
  <2> QED
    BY <2>2, <2>3
<1> QED
  BY <1>1, <1>3, <1>4, KeptGrows

LEMMA RestSettles ==
    ASSUME TailerInv, NothingTorn', WriteRest, ~AppendFails
    PROVE  Settled
<1>1. /\ files' = [files EXCEPT ![log] = @ \o batch] /\ tpc = "rest"
      /\ appended' = [appended EXCEPT ![log][Len(appended[log])].end = @ + Len(batch)]
      /\ log' = log /\ rotated' = rotated
  BY DEF WriteRest
<1>2. /\ Grow /\ log' = Len(files') /\ Len(files') = Len(files) /\ log # 0
      /\ Len(appended'[log]) = Len(appended[log])
      /\ \A k \in 1..Len(appended[log]) - 1 : appended'[log][k] = appended[log][k]
      /\ LET m == appended'[log'][Len(appended'[log'])] IN m.end = m.full
  BY <1>1, RestGrows
<1>3. [Next]_vars
  BY DEF Next
<1>4. PICK M, N : M = MarksAt(0) /\ N = MarksAt(0)'
  OBVIOUS
<1>5. M = appended[log] /\ N = appended'[log]
  BY <1>1, <1>2, <1>4 DEF MarksAt, FileAt
<1>6. M[Len(M)].end # M[Len(M)].full
  BY <1>1, <1>5 DEF TailerInv, RestReady
<1>7. Older(M, N)
  <2> SUFFICES ASSUME NEW m, NEW p, AllWhole(M, m), AllWhole(N, p)
               PROVE  m <= p /\ \A k \in 1..m : N[k] = M[k]
    BY DEF Older
  <2>1. /\ m \in 0..Len(M) /\ (\A k \in 1..m : M[k].end = M[k].full) /\ p \in 0..Len(N)
        /\ m = Len(M) \/ m + 1 = Len(M)
        /\ p = Len(N) \/ (p + 1 = Len(N) /\ N[p + 1].end # N[p + 1].full)
    BY DEF AllWhole
  <2>2. p = Len(N)
    BY <1>1, <1>2, <1>5, <2>1
  <2>3. M \in Seq(Mark)
    BY <1>4, MarkedAt, QueryAssumption, SMT
  <2>4. M # <<>>
    BY <1>1, <1>5 DEF TailerInv, RestReady
  <2>5. Len(M) \in Nat /\ Len(M) \in 1..Len(M)
    BY ONLY <2>3, <2>4, SMT
  <2>6. m # Len(M)
    BY <1>6, <2>1, <2>5
  <2>7. m <= Len(M) /\ \A k \in 1..m : k \in 1..Len(M) - 1
    BY ONLY <2>1, <2>5, <2>6, SMT
  <2> QED
    BY <1>2, <1>5, <2>2, <2>7
<1> QED
  BY <1>1, <1>2, <1>3, <1>4, <1>7, KeptGrows

(* TailerSettles: what the tailer does while no rotation runs.               *)
LEMMA TailerSettles ==
    ASSUME TailerInv, NothingTorn', [Next]_vars, UNCHANGED query, qpc \in {"list", "read"},
           ~overlap', ~Rotating
    PROVE  Settled
<1>1. NothingTorn
  BY TornStays
<1>2. CASE Prune \/ Shift \/ RenameLog \/ CreateLog
  BY <1>2 DEF Prune, Shift, RenameLog, CreateLog, Rotating
<1>3. CASE BeginAppend \/ OpenFails \/ AppendFails
  BY <1>1, <1>3, KeptSame DEF BeginAppend, OpenFails, AppendFails
<1>4. CASE Write
  BY <1>4, WriteSettles
<1>5. CASE WriteRest
  BY <1>3, <1>5, RestSettles
<1>6. CASE UNCHANGED tailer
  BY <1>1, <1>6, KeptSame DEF tailer
<1> QED
  BY <1>2, <1>3, <1>4, <1>5, <1>6 DEF Next, BeginQuery, ListNext, ReadNext, ReadFails, Return, vars

LEMMA NoRotation ==
    ASSUME TailerInv, [Next]_vars, UNCHANGED query, ~overlap'
    PROVE  /\ ~overlap
           /\ qpc \in {"list", "read"} /\ ~Rotating => ~Rotating'
<1>1. CASE BeginAppend
  BY <1>1 DEF BeginAppend, Sees, Rotating
<1>2. CASE Prune \/ Shift \/ RenameLog
  BY <1>2 DEF Prune, Shift, RenameLog, Sees, Rotating
<1>3. CASE CreateLog
  BY <1>3 DEF CreateLog, Sees, Rotating
<1>4. CASE OpenFails \/ Write \/ WriteRest
  <2>1. overlap' = overlap /\ tpc' \in {"idle", "rest"}
    BY <1>4 DEF OpenFails, Write, WriteRest, AppendFails
  <2> QED
    BY <2>1 DEF Rotating
<1>5. CASE UNCHANGED vars \/ ListNext \/ ReadNext \/ ReadFails \/ Return
  <2>1. UNCHANGED tailer /\ overlap' = overlap
    BY <1>5 DEF vars, ListNext, ReadNext, ReadFails, Return
  <2>2. tpc' = tpc
    BY <2>1 DEF tailer
  <2> QED
    BY <2>1, <2>2 DEF Rotating
<1>6. CASE BeginQuery
  BY <1>6 DEF BeginQuery, query
<1> QED
  BY <1>1, <1>2, <1>3, <1>4, <1>5, <1>6 DEF Next

Agrees(s, t) == Len(s) <= Len(t) /\ \A i \in 1..Len(s) : s[i] = t[i]

LEMMA BeginsIs ==
    ASSUME NEW s, NEW t, Begins(s, t)
    PROVE  Agrees(s, t)
<1>1. s \in Seq(Entry) /\ t \in Seq(Entry) /\ IsPrefix(s, t)
  BY DEF Begins
<1> QED
  BY ONLY <1>1, SMT DEF IsPrefix, Agrees

LEMMA BeginsLonger ==
    ASSUME NEW s, NEW a \in Seq(Entry), NEW k, NEW l, Begins(s, a \o k), Begins(k, l)
    PROVE  Begins(s, a \o l)
<1>1. PICK u, v, m, n, p : u = a \o k /\ v = a \o l /\ m = Len(a) /\ n = Len(k) /\ p = Len(l)
  OBVIOUS
<1>2. s \in Seq(Entry) /\ k \in Seq(Entry) /\ l \in Seq(Entry) /\ u \in Seq(Entry)
  BY <1>1 DEF Begins
<1>3. v \in Seq(Entry) /\ m \in Nat /\ n \in Nat /\ p \in Nat /\ Len(s) \in Nat
  BY ONLY <1>1, <1>2, a \in Seq(Entry), SMT
<1>4. n <= p /\ \A i \in 1..n : k[i] = l[i]
  BY <1>1, BeginsIs DEF Agrees
<1>5. Len(s) <= Len(u) /\ \A i \in 1..Len(s) : s[i] = u[i]
  BY <1>1, BeginsIs DEF Agrees
<1>6. /\ Len(u) = m + n /\ (\A i \in 1..m : u[i] = a[i]) /\ \A i \in 1..n : u[m + i] = k[i]
  <2>1. IsJoin(u, Entry, a, k, m, n)
    BY <1>1, <1>2, Joined
  <2> QED
    BY <2>1 DEF IsJoin
<1>7. /\ Len(v) = m + p /\ (\A i \in 1..m : v[i] = a[i]) /\ \A i \in 1..p : v[m + i] = l[i]
  <2>1. IsJoin(v, Entry, a, l, m, p)
    BY <1>1, <1>2, Joined
  <2> QED
    BY <2>1 DEF IsJoin
<1>8. Len(s) <= Len(v)
  BY ONLY <1>3, <1>4, <1>5, <1>6, <1>7, SMTT(30)
<1>9. ASSUME NEW i \in 1..Len(s) PROVE s[i] = v[i]
  <2>1. CASE i \in 1..m
    BY <1>5, <1>6, <1>7, <2>1
  <2>2. CASE i \notin 1..m
    <3>1. PICK j : j = i - m
      OBVIOUS
    <3>2. j \in 1..n /\ j \in 1..p /\ m + j = i
      BY ONLY <1>3, <1>4, <1>5, <1>6, <1>9, <2>2, <3>1, SMTT(30)
    <3> QED
      BY <1>4, <1>5, <1>6, <1>7, <3>2
  <2> QED
    BY <2>1, <2>2
<1> QED
  BY <1>1, <1>2, <1>3, <1>8, <1>9, PrefixIs DEF Begins

LEMMA AboveSame ==
    ASSUME \A n \in 1..MaxRotated : Kept(n)' = Kept(n), NEW h \in 0..MaxRotated
    PROVE  Above(h)' = Above(h)
<1>1. \A k \in 1..MaxRotated - h : MaxRotated + 1 - k \in 1..MaxRotated
  BY QueryAssumption, SMT
<1>2. \A k \in 1..MaxRotated - h : Kept(MaxRotated + 1 - k)' = Kept(MaxRotated + 1 - k)
  BY <1>1
<1>3. [k \in 1..MaxRotated - h |-> Kept(MaxRotated + 1 - k)']
         = [k \in 1..MaxRotated - h |-> Kept(MaxRotated + 1 - k)]
  BY <1>2
<1> QED
  BY <1>3 DEF Above

LEMMA CompleteTailer ==
    ASSUME TailerInv, CompleteInv, [Next]_vars, UNCHANGED query
    PROVE  CompleteInv'
<1>1. /\ qpc' = qpc /\ next' = next /\ listed' = listed /\ all' = all /\ result' = result
      /\ before' = before
  BY QuerySame
<1>2. ASSUME qpc \in {"list", "read"}, ~overlap' PROVE ~Rotating' /\ ~Rotating
  BY <1>2, NoRotation DEF CompleteInv
<1>3. ASSUME NothingTorn', ~overlap', qpc \in {"list", "read"},
             Begins(before, Above(0) \o Kept(0))
      PROVE  /\ Begins(before, Above(0)' \o Kept(0)')
             /\ rotated' = rotated /\ \A h \in 0..MaxRotated : Above(h)' = Above(h)
  <2>1. Settled
    BY <1>2, <1>3, TailerSettles
  <2>2. \A h \in 0..MaxRotated : Above(h)' = Above(h)
    BY <2>1, AboveSame DEF Settled
  <2>3. 0 \in 0..MaxRotated
    BY QueryAssumption, SMT
  <2>4. Above(0) \in Seq(Entry)
    BY <1>3, <2>3, TornStays, AboveNext
  <2>5. Begins(before, Above(0) \o Kept(0)')
    BY <1>3, <2>1, <2>4, BeginsLonger DEF Settled
  <2> QED
    BY <2>1, <2>2, <2>3, <2>5 DEF Settled
<1>4. ASSUME NothingTorn', ~overlap' PROVE NothingTorn /\ ~overlap
  BY <1>4, TornStays, NoRotation
<1>5. ASSUME NothingTorn', ~overlap', qpc = "list"
      PROVE  /\ Begins(before, Above(0)' \o Kept(0)')
             /\ Range(listed) = Existing(next + 1, MaxRotated)'
  <2>1. Begins(before, Above(0) \o Kept(0)) /\ Range(listed) = Existing(next + 1, MaxRotated)
    BY <1>4, <1>5 DEF CompleteInv
  <2>2. Begins(before, Above(0)' \o Kept(0)') /\ rotated' = rotated
    BY <1>3, <1>5, <2>1
  <2> QED
    BY <1>1, <2>1, <2>2 DEF Existing
<1>6. ASSUME NothingTorn', ~overlap', qpc = "read", listed # <<>>
      PROVE  /\ Begins(before, Above(0)' \o Kept(0)')
             /\ \E h \in 0..MaxRotated :
                   Range(listed) = {0} \cup Existing(1, h)' /\ all = Above(h)'
  <2>1. Begins(before, Above(0) \o Kept(0))
    BY <1>4, <1>6 DEF CompleteInv
  <2>2. PICK h \in 0..MaxRotated : Range(listed) = {0} \cup Existing(1, h) /\ all = Above(h)
    BY <1>4, <1>6 DEF CompleteInv
  <2>3. Begins(before, Above(0)' \o Kept(0)') /\ rotated' = rotated /\ Above(h)' = Above(h)
    BY <1>3, <1>6, <2>1
  <2>4. Existing(1, h)' = Existing(1, h)
    BY <2>3 DEF Existing
  <2> QED
    BY <2>2, <2>3, <2>4
<1>7. ASSUME NothingTorn', ~overlap', (qpc = "read" /\ listed = <<>>) \/ result # None
      PROVE  Begins(before, all)
  BY <1>4, <1>7 DEF CompleteInv
<1> QED
  BY <1>1, <1>2, <1>5, <1>6, <1>7 DEF CompleteInv

(* The tailer does nothing: the files hold what they held. *)
LEMMA FilesSame ==
    ASSUME UNCHANGED tailer
    PROVE  /\ rotated' = rotated /\ Rotating' = Rotating /\ Kept(0)' = Kept(0)
           /\ (\A h \in 0..MaxRotated : Above(h)' = Above(h)) /\ Above(0)' = Above(0)
           /\ \A m, n : Existing(m, n)' = Existing(m, n)
<1>1. rotated' = rotated /\ log' = log /\ appended' = appended /\ tpc' = tpc
  BY DEF tailer
<1>2. \A n : Kept(n)' = Kept(n)
  BY <1>1 DEF Kept, FileAt, Whole
<1>3. \A h \in 0..MaxRotated : Above(h)' = Above(h)
  BY <1>2, AboveSame
<1>4. 0 \in 0..MaxRotated
  BY QueryAssumption, SMT
<1> QED
  BY <1>1, <1>2, <1>3, <1>4 DEF Rotating, Existing

LEMMA CompleteBegin ==
    ASSUME TailerInv, QueryPlace, [Next]_vars, BeginQuery
    PROVE  CompleteInv'
<1>1. /\ qpc = "idle" /\ qpc' = "list" /\ next' = MaxRotated /\ overlap' = Rotating
      /\ UNCHANGED tailer /\ listed' = listed /\ result' = result
      /\ before' = FlattenSeq([k \in 1..MaxRotated + 1 |-> Kept(MaxRotated + 1 - k)])
  BY DEF BeginQuery
<1>2. listed = <<>> /\ result = None
  BY <1>1 DEF QueryPlace
<1>3. /\ Rotating' = Rotating /\ Kept(0)' = Kept(0) /\ Above(0)' = Above(0)
      /\ \A m, n : Existing(m, n)' = Existing(m, n)
  BY <1>1, FilesSame
<1>4. Range(listed) = Existing(MaxRotated + 1, MaxRotated)
  <2>1. MaxRotated + 1..MaxRotated = {}
    BY QueryAssumption, SMT
  <2>2. DOMAIN <<>> = {}
    BY SMT
  <2>3. Range(<<>>) = {}
    BY <2>2 DEF Range
  <2> QED
    BY <1>2, <2>1, <2>3 DEF Existing
<1>5. ASSUME NothingTorn' PROVE Begins(before', Above(0) \o Kept(0))
  <2>1. NothingTorn
    BY <1>5, TornStays
  <2>2. PICK z : z = 0
    OBVIOUS
  <2>3. z \in 0..MaxRotated /\ MaxRotated - z + 1 = MaxRotated + 1
    BY <2>2, QueryAssumption, SMT
  <2>4. /\ Above(z) \in Seq(Entry) /\ Kept(z) \in Seq(Entry)
        /\ FlattenSeq(Oldest(MaxRotated - z + 1)) = Above(z) \o Kept(z)
    BY <2>1, <2>3, AboveNext
  <2>5. PICK s : s = Above(z) \o Kept(z)
    OBVIOUS
  <2>6. s \in Seq(Entry)
    BY <2>4, <2>5, SMT
  <2>7. Len(s) <= Len(s) /\ \A i \in 1..Len(s) : s[i] = s[i]
    BY ONLY <2>6, SMT
  <2>8. Begins(s, s)
    BY <2>6, <2>7, PrefixIs DEF Begins
  <2>9. before' = FlattenSeq(Oldest(MaxRotated + 1))
    BY <1>1 DEF Oldest
  <2> QED
    BY <2>2, <2>3, <2>4, <2>5, <2>8, <2>9
<1>6. Existing(next + 1, MaxRotated)' = Existing(MaxRotated + 1, MaxRotated)
  BY <1>1, <1>3 DEF Existing
<1> QED
  BY <1>1, <1>2, <1>3, <1>4, <1>5, <1>6 DEF CompleteInv

(* OneMore: u has what s has, and x. *)
OneMore(u, s, x) == Range(u) = Range(s) \cup {x} /\ u # <<>>

LEMMA RangeAppend ==
    ASSUME NEW T, NEW s \in Seq(T), NEW x \in T
    PROVE  OneMore(Append(s, x), s, x)
<1>1. PICK u, l, m : u = Append(s, x) /\ l = Len(s) /\ m = l + 1
  OBVIOUS
<1>2. /\ DOMAIN u = 1..m /\ DOMAIN s = 1..l /\ u[m] = x /\ (\A i \in 1..l : u[i] = s[i])
      /\ (\A i \in 1..m : i = m \/ i \in 1..l) /\ m \in 1..m /\ \A i \in 1..l : i \in 1..m
      /\ u # <<>>
  BY <1>1, SMT
<1>3. Range(u) = {u[i] : i \in 1..m} /\ Range(s) = {s[i] : i \in 1..l}
  BY <1>2 DEF Range
<1>4. Range(u) \subseteq Range(s) \cup {x}
  <2> SUFFICES ASSUME NEW i \in 1..m PROVE u[i] \in Range(s) \cup {x}
    BY <1>3
  <2>1. CASE i = m
    BY <1>2, <2>1
  <2>2. CASE i \in 1..l
    BY <1>2, <1>3, <2>2
  <2> QED
    BY <1>2, <2>1, <2>2
<1>5. ASSUME NEW i \in 1..l PROVE s[i] \in Range(u)
  <2>1. u[i] = s[i] /\ i \in 1..m
    BY <1>2
  <2>2. u[i] \in Range(u)
    BY <1>3, <2>1
  <2> QED
    BY <2>1, <2>2
<1>6. x \in Range(u)
  <2>1. u[m] \in Range(u)
    BY <1>2, <1>3
  <2> QED
    BY <1>2, <2>1
<1>7. Range(s) \subseteq Range(u)
  BY <1>3, <1>5
<1> QED
  BY <1>1, <1>2, <1>4, <1>6, <1>7 DEF OneMore

LEMMA CompleteList ==
    ASSUME TailerInv, QueryPlace, CompleteInv, [Next]_vars, ListNext
    PROVE  CompleteInv'
<1>1. /\ qpc = "list" /\ UNCHANGED tailer /\ all' = all /\ result' = result /\ before' = before
      /\ overlap' = overlap /\ qpc' \in {"list", "read"}
  BY DEF ListNext
<1>2. /\ rotated' = rotated /\ Rotating' = Rotating /\ Kept(0)' = Kept(0)
      /\ (\A h \in 0..MaxRotated : Above(h)' = Above(h)) /\ Above(0)' = Above(0)
      /\ \A m, n : Existing(m, n)' = Existing(m, n)
  BY <1>1, FilesSame
<1>3. all = <<>> /\ result = None /\ listed \in Seq(0..MaxRotated) /\ next \in 0..MaxRotated
  BY <1>1 DEF QueryPlace, QueryType
<1>4. MaxRotated \in Nat /\ 0 \in 0..MaxRotated /\ MaxRotated \in 0..MaxRotated /\ 0 + 1 = 1
  BY QueryAssumption, SMT
<1>5. ~overlap => ~Rotating
  BY <1>1 DEF CompleteInv
<1> SUFFICES ASSUME NothingTorn', ~overlap
             PROVE  /\ qpc' = "list" =>
                          /\ Begins(before, Above(0) \o Kept(0))
                          /\ Range(listed') = Existing(next + 1, MaxRotated)'
                    /\ qpc' = "read" =>
                          /\ Begins(before, Above(0) \o Kept(0)) /\ listed' # <<>>
                          /\ \E h \in 0..MaxRotated :
                                Range(listed') = {0} \cup Existing(1, h) /\ all = Above(h)
  BY <1>1, <1>2, <1>3, <1>5 DEF CompleteInv
<1>6. Begins(before, Above(0) \o Kept(0)) /\ Range(listed) = Existing(next + 1, MaxRotated)
  BY <1>1, TornStays DEF CompleteInv
<1>7. CASE next # 0
  <2>1. /\ listed' = IF rotated[next] # 0 THEN Append(listed, next) ELSE listed
        /\ next' = next - 1 /\ qpc' = "list"
    BY <1>1, <1>7 DEF ListNext
  <2>2. PICK y : y = next
    OBVIOUS
  <2>3. /\ next - 1 + 1 = y /\ y \in y..MaxRotated
        /\ \A k : k \in y..MaxRotated <=> k = y \/ k \in y + 1..MaxRotated
    BY <1>3, <1>4, <2>2, SMT
  <2>4. Existing(next + 1, MaxRotated)' = Existing(y, MaxRotated)
    BY <1>2, <2>1, <2>3 DEF Existing
  <2>5. Range(listed) = Existing(y + 1, MaxRotated)
    BY <1>6, <2>2
  <2>6. CASE rotated[y] # 0
    <3>1. Range(listed') = Range(listed) \cup {y}
      <4>1. OneMore(Append(listed, y), listed, y)
        BY <1>3, <2>2, RangeAppend
      <4> QED
        BY <2>1, <2>2, <2>6, <4>1 DEF OneMore
    <3>2. Existing(y, MaxRotated) = Existing(y + 1, MaxRotated) \cup {y}
      BY <2>3, <2>6 DEF Existing
    <3> QED
      BY <1>6, <2>1, <2>4, <2>5, <3>1, <3>2
  <2>7. CASE rotated[y] = 0
    <3>1. Range(listed') = Range(listed)
      BY <2>1, <2>2, <2>7
    <3>2. Existing(y, MaxRotated) = Existing(y + 1, MaxRotated)
      BY <2>3, <2>7 DEF Existing
    <3> QED
      BY <1>6, <2>1, <2>4, <2>5, <3>1, <3>2
  <2> QED
    BY <2>6, <2>7
<1>8. CASE next = 0
  <2>1. listed' = Append(listed, 0) /\ qpc' = "read"
    BY <1>1, <1>8 DEF ListNext
  <2>2. Range(listed') = Range(listed) \cup {0} /\ listed' # <<>>
    <3>1. OneMore(Append(listed, 0), listed, 0)
      BY <1>3, <1>4, RangeAppend
    <3> QED
      BY <2>1, <3>1 DEF OneMore
  <2>3. Range(listed') = {0} \cup Existing(1, MaxRotated)
    BY <1>4, <1>6, <1>8, <2>2
  <2>4. all = Above(MaxRotated)
    BY <1>3, AboveTop
  <2> QED
    BY <1>4, <1>6, <2>1, <2>2, <2>3, <2>4
<1> QED
  BY <1>7, <1>8

LEMMA CompleteRead ==
    ASSUME TailerInv, QueryPlace, CompleteInv, [Next]_vars, ReadNext
    PROVE  CompleteInv'
<1>1. /\ qpc = "read" /\ qpc' = "read" /\ listed # <<>> /\ UNCHANGED tailer /\ result' = result
      /\ before' = before /\ overlap' = overlap /\ listed' = Tail(listed)
      /\ all' = all \o Parse(ContentAt(Head(listed)))
  BY DEF ReadNext
<1>2. /\ rotated' = rotated /\ Rotating' = Rotating /\ Kept(0)' = Kept(0)
      /\ (\A h \in 0..MaxRotated : Above(h)' = Above(h)) /\ Above(0)' = Above(0)
      /\ \A m, n : Existing(m, n)' = Existing(m, n)
  BY <1>1, FilesSame
<1>3. PICK g, t : g = Head(listed) /\ t = Tail(listed)
  OBVIOUS
<1>4. /\ t \in Seq(0..MaxRotated) /\ g \in 0..MaxRotated /\ Range(listed) = {g} \cup Range(t)
      /\ \A i \in 1..Len(t) : t[i] < g
  BY <1>1, <1>3, DecreasingTail DEF QueryPlace, QueryType
<1>5. ~overlap => ~Rotating
  BY <1>1 DEF CompleteInv
<1>6. result = None
  BY <1>1 DEF QueryPlace
<1> SUFFICES ASSUME NothingTorn', ~overlap
             PROVE  /\ t # <<>> => /\ Begins(before, Above(0) \o Kept(0))
                                   /\ \E h \in 0..MaxRotated :
                                         Range(t) = {0} \cup Existing(1, h) /\ all' = Above(h)
                    /\ t = <<>> => Begins(before, all')
  BY <1>1, <1>2, <1>3, <1>5, <1>6 DEF CompleteInv
<1>7. NothingTorn
  BY TornStays
<1>8. Begins(before, Above(0) \o Kept(0))
  BY <1>1, <1>7 DEF CompleteInv
<1>9. PICK h \in 0..MaxRotated : Range(listed) = {0} \cup Existing(1, h) /\ all = Above(h)
  BY <1>1, <1>7 DEF CompleteInv
<1>10. MaxRotated \in Nat /\ g \in Nat /\ h \in Nat /\ 0 \in 0..MaxRotated /\ 0 + 1 = 1
  BY <1>4, QueryAssumption, SMT
<1>11. all' = Above(h) \o Kept(g)
  BY <1>1, <1>3, <1>4, <1>7, <1>9, KeptIs
<1>12. \A x \in Range(t) : x < g /\ x \in Nat
  <2>1. PICK T : T = 0..MaxRotated
    OBVIOUS
  <2>2. t \in Seq(T)
    BY <1>4, <2>1
  <2>3. DOMAIN t = 1..Len(t) /\ \A i \in 1..Len(t) : t[i] \in T
    BY ONLY <2>2, SMT
  <2>4. \A x \in T : x \in Nat
    BY <1>10, <2>1, SMT
  <2> QED
    BY <1>4, <2>3, <2>4 DEF Range
<1>13. CASE g = 0
  <2>1. Range(t) = {}
    <3>1. \A x \in Nat : ~(x < 0)
      BY SMT
    <3> QED
      BY <1>12, <1>13, <3>1
  <2>2. t = <<>>
    <3>1. PICK T : T = 0..MaxRotated
      OBVIOUS
    <3>2. t \in Seq(T)
      BY <1>4, <3>1
    <3>3. DOMAIN t = {}
      BY <2>1 DEF Range
    <3> QED
      BY ONLY <3>2, <3>3, SMT
  <2>3. Existing(1, h) = {}
    <3>1. \A x \in 1..h : x # 0
      BY SMT
    <3> QED
      BY <1>4, <1>9, <1>13, <2>1, <3>1 DEF Existing
  <2>4. Above(0) = Above(h)
    <3>1. h \in 0..MaxRotated /\ Existing(0 + 1, h) = {}
      BY <1>10, <2>3
    <3> QED
      BY <1>7, <1>10, <3>1, AboveSkip
  <2> QED
    BY <1>8, <1>11, <1>13, <2>2, <2>4
<1>14. CASE g # 0
  <2>1. g \in Existing(1, h)
    BY <1>4, <1>9, <1>14
  <2>2. g \in 1..h /\ rotated[g] # 0
    BY <2>1 DEF Existing
  <2>3. \A x \in Existing(1, h) : x = g \/ (x < g /\ x \in Nat)
    BY <1>4, <1>9, <1>12
  <2>4. Existing(g + 1, h) = {}
    <3>1. \A x \in g + 1..h : x \in 1..h /\ x # g /\ ~(x < g)
      BY <1>10, <2>2, SMT
    <3> QED
      BY <2>3, <3>1 DEF Existing
  <2>5. Above(g) = Above(h)
    <3>1. h \in g..MaxRotated
      BY ONLY <1>10, <2>2, h \in 0..MaxRotated, SMT
    <3> QED
      BY <1>4, <1>7, <2>4, <3>1, AboveSkip
  <2>6. PICK f : f = g - 1
    OBVIOUS
  <2>7. f \in 0..MaxRotated /\ g = f + 1
    BY ONLY <1>4, <1>10, <1>14, <2>6, SMT
  <2>8. all' = Above(f)
    BY <1>4, <1>7, <1>11, <2>5, <2>7, AboveStep
  <2>9. \A x : x \in 1..f <=> x \in 1..h /\ x < g
    BY ONLY <1>10, <2>2, <2>6, SMT
  <2>10. g \notin Range(t) /\ ~(g < g)
    BY <1>10, <1>12, SMT
  <2>11. ASSUME NEW x \in Range(t) PROVE x \in {0} \cup Existing(1, f)
    BY <1>4, <1>9, <1>12, <2>9 DEF Existing
  <2>12. ASSUME NEW x \in {0} \cup Existing(1, f) PROVE x \in Range(t)
    <3>1. x # g /\ x \in {0} \cup Existing(1, h)
      BY <1>14, <2>9, <2>10 DEF Existing
    <3> QED
      BY <1>4, <1>9, <3>1
  <2>13. Range(t) = {0} \cup Existing(1, f)
    BY <2>11, <2>12
  <2>14. t # <<>>
    <3>1. DOMAIN <<>> = {}
      BY SMT
    <3> QED
      BY <2>13, <3>1 DEF Range
  <2> QED
    BY <1>8, <2>7, <2>8, <2>13, <2>14
<1> QED
  BY <1>13, <1>14

LEMMA CompleteNext ==
    ASSUME TailerInv, QueryPlace, CompleteInv, [Next]_vars
    PROVE  CompleteInv'
<1>1. CASE UNCHANGED query
  BY <1>1, CompleteTailer
<1>2. CASE BeginQuery \/ ListNext \/ ReadNext
  BY <1>2, CompleteBegin, CompleteList, CompleteRead
<1>3. CASE ReadFails
  <2>1. qpc' = "done" /\ result' = result /\ qpc = "read"
    BY <1>3 DEF ReadFails
  <2>2. result = None
    BY <2>1 DEF QueryPlace
  <2> QED
    BY <2>1, <2>2 DEF CompleteInv
<1>4. CASE Return
  <2>1. /\ qpc = "read" /\ listed = <<>> /\ qpc' = "done" /\ all' = all /\ before' = before
        /\ overlap' = overlap
    BY <1>4 DEF Return
  <2>2. NothingTorn' /\ ~overlap => Begins(before, all)
    BY <2>1, TornStays DEF CompleteInv
  <2> QED
    BY <2>1, <2>2 DEF CompleteInv
<1> QED
  BY <1>1, <1>2, <1>3, <1>4, TailerOrQuery DEF QueryPlace

LEMMA CompleteInit ==
    ASSUME Init
    PROVE  CompleteInv
<1>1. qpc = "idle" /\ result = None
  BY DEF Init
<1> QED
  BY <1>1 DEF CompleteInv

(* InvComplete: what a query returns is what it read, within the window and  *)
(* no more than the tail.                                                    *)
LEMMA InvComplete ==
    ASSUME Inv
    PROVE  QueryComplete
<1> SUFFICES ASSUME NothingTorn, ~overlap, result # None,
                    NEW W, W = {e \in Range(all) : /\ filter.since # None => e.ms >= filter.since
                                                   /\ filter.until # None => e.ms <= filter.until}
             PROVE  /\ IsPrefix(before, all) /\ IsSuffix(result, Retain(all, W))
                    /\ Len(result) = IF filter.tail = None \/ Cardinality(W) < filter.tail
                                     THEN Cardinality(W) ELSE filter.tail
  BY DEF QueryComplete
<1>1. /\ all \in Seq(Entry) /\ filter \in Filter /\ result = Filtered(all, filter)
  BY DEF Inv, QueryPlace, QueryType
<1>2. IsPrefix(before, all)
  BY DEF Inv, CompleteInv, Begins
<1>3. Distinct(all)
  <2>1. \A i, j \in 1..Len(all) : i < j => all[i].ms < all[j].ms
    BY DEF Inv, OrderInv, Increasing
  <2>2. ASSUME NEW i \in 1..Len(all), NEW j \in 1..Len(all), i < j PROVE all[i] # all[j]
    <3>1. all[i] \in Entry
      BY ONLY <1>1, i \in 1..Len(all), SMT
    <3>2. all[i].ms \in Nat /\ all[i].ms < all[j].ms
      BY <2>1, <2>2, <3>1 DEF Entry
    <3>3. ~(all[i].ms < all[i].ms)
      BY ONLY <3>2, SMT
    <3> QED
      BY <3>2, <3>3
  <2>3. \A i, j \in 1..Len(all) : i # j => i < j \/ j < i
    BY ONLY <1>1, SMT
  <2> QED
    BY <2>2, <2>3 DEF Distinct
<1>4. /\ IsSuffix(Filtered(all, filter), Retain(all, W))
      /\ Len(Filtered(all, filter)) = IF filter.tail = None \/ Cardinality(W) < filter.tail
                                      THEN Cardinality(W) ELSE filter.tail
  BY <1>1, <1>3, FilteredIs
<1> QED
  BY <1>1, <1>2, <1>4

(* Complete: QueryComplete in every reachable state. If nothing was torn and *)
(* no rotation overlapped it, container_logs_filtered returns all that was   *)
(* in the files when it began and a prefix of what was appended since, cut   *)
(* to the window and to the last lines asked for, for any number of files    *)
(* and records, any filter and any failures.                                 *)
THEOREM Complete == Spec => []QueryComplete
<1>1. Init => Inv
  BY TailerInit, PlaceInit, OrderInit, CompleteInit DEF Inv
<1>2. Inv /\ [Next]_vars => Inv'
  BY TailerNext, PlaceNext, OrderNext, CompleteNext DEF Inv
<1>3. Inv => QueryComplete
  BY InvComplete
<1> QED
  BY <1>1, <1>2, <1>3, PTL DEF Spec
=============================================================================
