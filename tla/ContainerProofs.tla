-------------------------- MODULE ContainerProofs ----------------------------
(***************************************************************************)
(* A container from its start to its end, and its log for as long as       *)
(* someone follows it.                                                     *)
(*                                                                         *)
(* LogFollower: type correctness, order and completeness of what is sent,  *)
(* for any number of records, size of the files and number of rotations.   *)
(*                                                                         *)
(* TaskLifecycle: type correctness, StopOkMeansStopped, UptimeIsCurrent    *)
(* and, for callers that do not let a start overlap a stop or a delete,    *)
(* the two promises of delete_container.                                   *)
(***************************************************************************)
EXTENDS LogFollower, TaskLifecycle, SequenceTheorems, WellFoundedInduction, TLAPS

(* Zenon proves the steps that cite no prover; SMT is cited where there are *)
(* numbers, sequences, or much to unfold.                                   *)
USE Zenon

------------------------------------------------------------------------------
(* The follower: LogFollower *)

------------------------------------------------------------------------------
(* Least and greatest *)

(* HasLeast: a set of numbers that is not empty has a least one. *)
LEMMA HasLeast ==
    ASSUME NEW S, S \subseteq Nat, S # {}
    PROVE  \E i \in S : \A j \in S : i <= j
<1> DEFINE Less == {s \in Nat \X Nat : s[1] < s[2]}
<1>1. IsWellFoundedOn(Less, Nat)
  BY NatLessThanWellFounded, Zenon DEF OpToRel
<1>2. \E i \in S : \A j \in S : ~(<<j, i>> \in Less)
  <2> HIDE DEF Less
  <2> QED
    BY <1>1, WFMin
<1>3. \A i, j \in Nat : ~(<<j, i>> \in Less) => i <= j
  BY SMT
<1> HIDE DEF Less
<1> QED
  BY <1>2, <1>3, Zenon

(* HasGreatest: a bounded one has a greatest. *)
LEMMA HasGreatest ==
    ASSUME NEW n \in Nat, NEW S, S \subseteq 0..n, S # {}
    PROVE  \E i \in S : \A j \in S : j <= i
<1> DEFINE gaps == {n - i : i \in S}
<1>1. gaps \subseteq Nat /\ gaps # {}
  <2>1. \A i \in S : i \in 0..n
    OBVIOUS
  <2>2. \A i \in S : n - i \in Nat
    BY <2>1, SMT
  <2> QED
    BY <2>2
<1>2. PICK m \in gaps : \A k \in gaps : m <= k
  BY <1>1, HasLeast
<1>3. PICK i \in S : m = n - i
  BY <1>2
<1>4. ASSUME NEW j \in S PROVE j <= i
  <2>1. n - j \in gaps
    OBVIOUS
  <2>2. n - i <= n - j
    BY <1>2, <1>3, <2>1
  <2> QED
    BY <2>2, SMT
<1> QED
  BY <1>4

------------------------------------------------------------------------------
(* Decode *)

(* One step of the decoder. *)
Extended(c, i, q) == IF RecordAt(c, i) THEN Append(q, c[i].rec) ELSE q

(* DecodeUpTo: the records of the first i cells, for every i. *)
LEMMA DecodeUpTo ==
    ASSUME NEW c \in Seq(Cell)
    PROVE  \E g : /\ g[0] = <<>>
                  /\ \A i \in 1..Len(c) : g[i] = Extended(c, i, g[i - 1])
                  /\ Decode(c) = g[Len(c)]
<1> DEFINE n == Len(c)
           Stage(m) == {g \in [0..m -> Seq(Records)] :
                           g[0] = <<>> /\ \A i \in 1..m : g[i] = Extended(c, i, g[i - 1])}
           Bad == {m \in 0..n : Stage(m) = {}}
<1>1. n \in Nat /\ \A i \in 1..n : c[i] \in Cell
  BY SMT
<1>2. \A i \in 1..n, q \in Seq(Records) : Extended(c, i, q) \in Seq(Records)
  <2>1. \A i \in 1..n : c[i].rec \in Records
    BY <1>1 DEF Cell
  <2> HIDE DEF n
  <2> QED
    BY <2>1, SMT DEF Extended
<1>3. Stage(0) # {}
  <2> DEFINE g == [i \in 0..0 |-> <<>>]
  <2>1. g \in [0..0 -> Seq(Records)] /\ g[0] = <<>> /\ 1..0 = {}
    BY SMT
  <2> HIDE DEF g
  <2>2. g \in Stage(0)
    BY <2>1
  <2> QED
    BY <2>2
<1>4. ASSUME NEW m \in 1..n, Stage(m - 1) # {} PROVE Stage(m) # {}
  <2>1. PICK g \in Stage(m - 1) : TRUE
    BY <1>4
  <2>2. /\ g \in [0..m - 1 -> Seq(Records)] /\ g[0] = <<>>
        /\ \A i \in 1..m - 1 : g[i] = Extended(c, i, g[i - 1])
    BY <2>1
  <2> DEFINE v == Extended(c, m, g[m - 1])
             h == [i \in 0..m |-> IF i = m THEN v ELSE g[i]]
  <2>3. v \in Seq(Records)
    BY <1>1, <1>2, <2>2, SMT
  <2> HIDE DEF v
  <2>4. h \in [0..m -> Seq(Records)] /\ h[0] = <<>>
    BY <1>1, <2>2, <2>3, SMT
  <2>5. ASSUME NEW i \in 1..m PROVE h[i] = Extended(c, i, h[i - 1])
    <3>1. h[i - 1] = g[i - 1]
      BY <1>1, SMT
    <3>2. CASE i = m
      BY <1>1, <3>1, <3>2, SMT DEF v
    <3>3. CASE i # m
      <4>1. i \in 1..m - 1 /\ h[i] = g[i]
        BY <1>1, <3>3, SMT
      <4> QED
        BY <2>2, <3>1, <4>1
    <3> QED
      BY <3>2, <3>3
  <2> HIDE DEF h
  <2>6. h \in Stage(m)
    BY <2>4, <2>5
  <2> QED
    BY <2>6
<1> HIDE DEF Stage
<1>5. Stage(n) # {}
  <2> SUFFICES ASSUME Bad # {} PROVE FALSE
    BY <1>1, SMT
  <2>0. Bad \subseteq Nat
    BY <1>1, SMT
  <2>1. PICK m \in Bad : \A k \in Bad : m <= k
    <3> HIDE DEF Bad
    <3> QED
      BY <2>0, HasLeast
  <2>2. m # 0 /\ m \in 1..n /\ Stage(m) = {}
    BY <1>1, <1>3, <2>1, SMT
  <2>3. m - 1 \in 0..n /\ m - 1 \notin Bad
    BY <1>1, <2>1, <2>2, SMT
  <2> QED
    BY <1>4, <2>2, <2>3
<1> DEFINE IsUpTo(g) == g = [i \in 0..Len(c) |->
               IF i = 0 THEN <<>>
               ELSE IF RecordAt(c, i) THEN Append(g[i - 1], c[i].rec) ELSE g[i - 1]]
<1>6. \E g : IsUpTo(g)
  <2>1. PICK g \in Stage(n) : TRUE
    BY <1>5
  <2>2. /\ g \in [0..n -> Seq(Records)] /\ g[0] = <<>>
        /\ \A i \in 1..n : g[i] = Extended(c, i, g[i - 1])
    BY <2>1 DEF Stage
  <2> DEFINE h == [i \in 0..n |->
               IF i = 0 THEN <<>>
               ELSE IF RecordAt(c, i) THEN Append(g[i - 1], c[i].rec) ELSE g[i - 1]]
  <2>3. ASSUME NEW i \in 0..n PROVE g[i] = h[i]
    <3>1. CASE i = 0
      BY <2>2, <3>1
    <3>2. CASE i # 0
      <4>1. i \in 1..n
        BY <1>1, <3>2, SMT
      <4>2. g[i] = Extended(c, i, g[i - 1])
        BY <2>2, <4>1
      <4>3. h[i] = IF RecordAt(c, i) THEN Append(g[i - 1], c[i].rec) ELSE g[i - 1]
        BY <3>2
      <4> QED
        BY <4>2, <4>3 DEF Extended
    <3> QED
      BY <3>1, <3>2
  <2>4. g = h
    BY <2>2, <2>3
  <2> QED
    BY <2>4
<1> DEFINE u == CHOOSE g : IsUpTo(g)
<1>7. IsUpTo(u)
  BY <1>6
<1>8. Decode(c) = u[Len(c)]
  BY DEF Decode
<1> HIDE DEF u
<1>9. u[0] = <<>> /\ \A i \in 1..n : u[i] = Extended(c, i, u[i - 1])
  <2>1. \A i \in 0..n : u[i] = IF i = 0 THEN <<>>
                                ELSE IF RecordAt(c, i) THEN Append(u[i - 1], c[i].rec) ELSE u[i - 1]
    BY <1>7, Zenon
  <2>2. u[0] = <<>>
    BY <1>1, <2>1, SMT
  <2>3. ASSUME NEW i \in 1..n PROVE u[i] = Extended(c, i, u[i - 1])
    <3>1. i \in 0..n /\ i # 0
      BY <1>1, SMT
    <3> QED
      BY <2>1, <3>1, Zenon DEF Extended
  <2> QED
    BY <2>2, <2>3
<1> QED
  BY <1>8, <1>9

(* What the decoder has found in the first i cells. *)
RisingHeads(c) ==
    \A i, j \in DOMAIN c : i < j /\ RecordAt(c, i) /\ RecordAt(c, j) => c[i].rec < c[j].rec

Found(c, i, q) ==
    /\ q \in Seq(Records)
    /\ \A k \in DOMAIN q : \E j \in 1..i : RecordAt(c, j) /\ q[k] = c[j].rec
    /\ \A j \in 1..i : RecordAt(c, j) => \E k \in DOMAIN q : q[k] = c[j].rec
    /\ RisingHeads(c) => \A k, l \in DOMAIN q : k < l => q[k] < q[l]

(* FoundNext: one more cell. *)
LEMMA FoundNext ==
    ASSUME NEW c \in Seq(Cell), NEW i \in 1..Len(c), NEW q, Found(c, i - 1, q)
    PROVE  Found(c, i, Extended(c, i, q))
<1>0. /\ q \in Seq(Records) /\ i \in Nat /\ i - 1 \in Nat /\ 1..i - 1 \subseteq 1..i
      /\ \A j \in 1..i : j \in 1..i - 1 \/ j = i
  BY SMT DEF Found
<1>1. CASE ~RecordAt(c, i)
  <2>1. Extended(c, i, q) = q
    BY <1>1 DEF Extended
  <2> QED
    BY <1>0, <1>1, <2>1 DEF Found
<1>2. CASE RecordAt(c, i)
  <2> DEFINE r == Append(q, c[i].rec)
  <2>1. Extended(c, i, q) = r
    BY <1>2 DEF Extended
  <2>2. c[i].rec \in Records /\ i \in DOMAIN c
    <3>1. c[i] \in Cell /\ i \in DOMAIN c
      BY SMT
    <3> QED
      BY <3>1 DEF Cell
  <2>3. /\ r \in Seq(Records) /\ DOMAIN r = 1..Len(q) + 1 /\ r[Len(q) + 1] = c[i].rec
        /\ DOMAIN q = 1..Len(q) /\ \A k \in 1..Len(q) : r[k] = q[k]
    BY <1>0, <2>2, SMT
  <2> HIDE DEF r
  <2>4. Len(q) \in Nat
    BY <1>0, SMT
  <2>5. \A k \in DOMAIN r :
            k \in Int /\ ((k \in DOMAIN q /\ r[k] = q[k]) \/ (k = Len(q) + 1 /\ r[k] = c[i].rec))
    BY <2>3, <2>4, SMT
  <2>6. \A k \in DOMAIN r : \E j \in 1..i : RecordAt(c, j) /\ r[k] = c[j].rec
    <3>1. \A k \in DOMAIN q : \E j \in 1..i : RecordAt(c, j) /\ q[k] = c[j].rec
      BY <1>0 DEF Found
    <3>2. i \in 1..i
      BY <1>0, SMT
    <3> QED
      BY <1>2, <2>5, <3>1, <3>2
  <2>7. \A j \in 1..i : RecordAt(c, j) => \E k \in DOMAIN r : r[k] = c[j].rec
    <3>1. Len(q) + 1 \in DOMAIN r /\ DOMAIN q \subseteq DOMAIN r
      BY <2>3, <2>4, SMT
    <3> QED
      BY <1>0, <2>3, <3>1 DEF Found
  <2>8. ASSUME RisingHeads(c), NEW k \in DOMAIN r, NEW l \in DOMAIN r, k < l PROVE r[k] < r[l]
    <3>1. k \in DOMAIN q /\ r[k] = q[k]
      BY <2>3, <2>4, <2>5, <2>8, SMT
    <3>2. CASE l \in DOMAIN q /\ r[l] = q[l]
      BY <2>8, <3>1, <3>2 DEF Found
    <3>3. CASE r[l] = c[i].rec
      <4>1. PICK j \in 1..i - 1 : RecordAt(c, j) /\ q[k] = c[j].rec
        BY <3>1 DEF Found
      <4>2. j \in DOMAIN c /\ j < i
        BY <1>0, <2>2, SMT
      <4> QED
        BY <1>2, <2>2, <2>8, <3>1, <3>3, <4>1, <4>2 DEF RisingHeads
    <3> QED
      BY <2>5, <3>2, <3>3
  <2> QED
    BY <2>1, <2>3, <2>6, <2>7, <2>8 DEF Found
<1> QED
  BY <1>1, <1>2

(* DecodeFinds: the decoder finds the whole records, all of them, once and   *)
(* in order.                                                                 *)
LEMMA DecodeFinds ==
    ASSUME NEW c \in Seq(Cell)
    PROVE  Found(c, Len(c), Decode(c))
<1>1. PICK g : /\ g[0] = <<>>
               /\ \A i \in 1..Len(c) : g[i] = Extended(c, i, g[i - 1])
               /\ Decode(c) = g[Len(c)]
  BY DecodeUpTo
<1> DEFINE Bad == {i \in 0..Len(c) : ~Found(c, i, g[i])}
<1>2. Len(c) \in Nat /\ Bad \subseteq Nat
  BY SMT
<1>3. ASSUME Bad # {} PROVE FALSE
  <2>1. PICK m \in Bad : \A k \in Bad : m <= k
    <3> HIDE DEF Bad
    <3> QED
      BY <1>2, <1>3, HasLeast
  <2>2. Found(c, 0, g[0])
    <3>1. <<>> \in Seq(Records) /\ DOMAIN <<>> = {} /\ 1..0 = {}
      BY SMT
    <3> QED
      BY <1>1, <3>1 DEF Found
  <2>3. m \in 1..Len(c) /\ m - 1 \in 0..Len(c) /\ m - 1 \notin Bad
    BY <1>2, <2>1, <2>2, SMT
  <2>4. Found(c, m - 1, g[m - 1])
    BY <2>3
  <2>5. Found(c, m, g[m])
    BY <1>1, <2>3, <2>4, FoundNext
  <2> QED
    BY <2>1, <2>5
<1>4. Len(c) \in 0..Len(c)
  BY <1>2, SMT
<1> QED
  BY <1>1, <1>3, <1>4

(* RemainderIs: what is kept is what follows the last tail. *)
LEMMA RemainderIs ==
    ASSUME NEW c \in Seq(Cell)
    PROVE  /\ Remainder(c) \in Seq(Cell)
           /\ Closed(c) => Remainder(c) = <<>>
           /\ (/\ c # <<>> /\ c[Len(c)].half # "tail"
               /\ Len(c) = 1 \/ c[Len(c) - 1].half = "tail") => Remainder(c) = <<c[Len(c)]>>
<1> DEFINE tails == {i \in DOMAIN c : c[i].half = "tail"}
           last == IF tails = {} THEN 0 ELSE CHOOSE i \in tails : \A j \in tails : j <= i
           n == Len(c)
<1>1. n \in Nat /\ DOMAIN c = 1..n /\ tails \subseteq 0..n
  BY SMT
<1>2. /\ last \in 0..n /\ \A j \in tails : j <= last
      /\ IF tails = {} THEN last = 0 ELSE last \in tails
  <2>1. CASE tails = {}
    BY <1>1, <2>1, SMT
  <2>2. CASE tails # {}
    <3> HIDE DEF tails, n
    <3>1. \E i \in tails : \A j \in tails : j <= i
      BY <1>1, <2>2, HasGreatest
    <3>2. last \in tails /\ \A j \in tails : j <= last
      BY <2>2, <3>1
    <3> QED
      BY <1>1, <3>2
  <2> QED
    BY <2>1, <2>2
<1> HIDE DEF last
<1>3. Remainder(c) = SubSeq(c, last + 1, n)
  BY DEF Remainder, last
<1>4. SubSeq(c, last + 1, n) \in Seq(Cell)
  BY <1>1, <1>2, SMT
<1>5. ASSUME Closed(c) PROVE last = n
  <2>1. n = 0 \/ n \in tails
    BY <1>1, <1>5, SMT DEF Closed
  <2> HIDE DEF n, tails
  <2> QED
    BY <1>1, <1>2, <2>1, SMT
<1>6. ASSUME c # <<>>, c[n].half # "tail", n = 1 \/ c[n - 1].half = "tail"
      PROVE  last + 1 = n /\ n >= 1
  <2>1. n >= 1
    BY <1>1, <1>6, SMT
  <2>2. n \notin tails /\ (n = 1 \/ n - 1 \in tails)
    BY <1>1, <1>6, <2>1, SMT
  <2> HIDE DEF n, tails
  <2>3. last # n
    BY <1>1, <1>2, <2>1, <2>2, SMT
  <2>4. n - 1 <= last
    <3>1. CASE n = 1
      BY <1>1, <1>2, <3>1, SMT
    <3>2. CASE n - 1 \in tails
      BY <1>2, <3>2
    <3> QED
      BY <2>2, <3>1, <3>2
  <2> QED
    BY <1>1, <1>2, <2>1, <2>3, <2>4, SMT
<1>7. SubSeq(c, n + 1, n) = <<>>
  BY <1>1, SMT
<1>8. ASSUME n >= 1 PROVE SubSeq(c, n, n) = <<c[n]>>
  <2> DEFINE q == SubSeq(c, n, n)
  <2>1. c[n] \in Cell
    BY <1>1, <1>8, SMT
  <2>2. q \in Seq(Cell) /\ Len(q) = 1 /\ q[1] = c[n]
    BY <1>1, <1>8, SMT
  <2> HIDE DEF q, n
  <2>3. <<c[n]>> \in Seq(Cell) /\ Len(<<c[n]>>) = 1 /\ <<c[n]>>[1] = c[n]
    BY <2>1, SMT
  <2>4. \A i \in 1..Len(q) : q[i] = <<c[n]>>[i]
    BY <2>2, <2>3, SMT
  <2>5. q = <<c[n]>>
    BY <2>2, <2>3, <2>4, SeqEqual
  <2> QED
    BY <2>5 DEF q
<1> QED
  BY <1>3, <1>4, <1>5, <1>6, <1>7, <1>8

------------------------------------------------------------------------------
(* What the tailer writes *)

(* Cells: what the provers need to know of a file. *)
LEMMA Cells ==
    ASSUME NEW q \in Seq(Cell)
    PROVE  /\ Len(q) \in Nat /\ DOMAIN q = 1..Len(q)
           /\ \A i \in DOMAIN q : /\ i \in Int /\ q[i] \in Cell /\ q[i].rec \in Int
                                  /\ q[i].half \in {"head", "tail"}
<1>1. Len(q) \in Nat /\ DOMAIN q = 1..Len(q) /\ \A i \in DOMAIN q : i \in Int /\ q[i] \in Cell
  BY SMT
<1>2. \A x \in Cell : x.rec \in Int /\ x.half \in {"head", "tail"}
  BY BoundsAssumption, SMT DEF Cell, Records
<1> QED
  BY <1>1, <1>2

(* Longer: a file with one more cell. *)
LEMMA Longer ==
    ASSUME NEW q \in Seq(Cell), NEW x \in Cell
    PROVE  LET p == Append(q, x) IN
           /\ p \in Seq(Cell) /\ Len(p) = Len(q) + 1 /\ p[Len(q) + 1] = x
           /\ \A i \in DOMAIN q : i \in DOMAIN p /\ p[i] = q[i]
           /\ \A i \in DOMAIN p : i \in DOMAIN q \/ i = Len(q) + 1
<1>1. Append(q, x) \in Seq(Cell) /\ Len(Append(q, x)) = Len(q) + 1
  BY SMT
<1>2. Append(q, x)[Len(q) + 1] = x /\ \A i \in 1..Len(q) : Append(q, x)[i] = q[i]
  BY SMT
<1>3. DOMAIN q = 1..Len(q) /\ Len(q) \in Nat /\ DOMAIN Append(q, x) = 1..Len(q) + 1
  BY SMT
<1> QED
  BY <1>1, <1>2, <1>3, SMT

(* The cells of a file carry records before r. *)
CellsBelow(q, r) == \A i \in DOMAIN q : q[i].rec < r

(* HeadGoesOn: a new record after whole ones. *)
LEMMA HeadGoesOn ==
    ASSUME NEW q \in Seq(Cell), NEW r \in Records, Alternates(q), Rising(q), Closed(q),
           CellsBelow(q, r)
    PROVE  LET p == Append(q, HeadOf(r)) IN
           /\ p \in Seq(Cell) /\ Alternates(p) /\ Rising(p) /\ CellsBelow(p, r + 1)
           /\ Len(p) = Len(q) + 1 /\ p[Len(p)] = HeadOf(r)
           /\ \A i \in DOMAIN q : i \in DOMAIN p /\ p[i] = q[i]
           /\ \A i \in DOMAIN p : i \in DOMAIN q \/ p[i].rec = r
<1> DEFINE x == HeadOf(r)
           p == Append(q, x)
           n == Len(q)
<1>1. x \in Cell /\ x.rec = r /\ x.half = "head" /\ r \in Int
  BY BoundsAssumption, SMT DEF HeadOf, Cell, Records
<1>2. /\ n \in Nat /\ DOMAIN q = 1..n
      /\ \A i \in DOMAIN q : i \in Int /\ q[i].rec \in Int /\ q[i].half \in {"head", "tail"}
  BY Cells
<1> HIDE DEF x
<1>3. /\ p \in Seq(Cell) /\ Len(p) = n + 1 /\ p[n + 1] = x
      /\ \A i \in DOMAIN q : i \in DOMAIN p /\ p[i] = q[i]
      /\ \A i \in DOMAIN p : i \in DOMAIN q \/ i = n + 1
  BY <1>1, Longer
<1>4. n = 0 \/ q[n].half = "tail"
  BY <1>2, SMT DEF Closed
<1> HIDE DEF p, n
<1>5. Alternates(p)
  <2> SUFFICES ASSUME NEW i \in DOMAIN p
               PROVE  \/ /\ p[i].half = "head"
                         /\ i = 1 \/ p[i - 1].half = "tail"
                         /\ i < Len(p) => p[i + 1] = TailOf(p[i].rec)
                      \/ p[i].half = "tail" /\ i > 1 /\ p[i - 1] = HeadOf(p[i].rec)
    BY DEF Alternates
  <2>1. CASE i = n + 1
    <3>1. i = 1 \/ p[i - 1].half = "tail"
      BY <1>2, <1>3, <1>4, <2>1, SMT
    <3> QED
      BY <1>1, <1>2, <1>3, <2>1, <3>1, SMT
  <2>2. CASE i \in DOMAIN q /\ q[i].half = "tail"
    <3>1. i > 1 /\ q[i - 1] = HeadOf(q[i].rec)
      BY <2>2 DEF Alternates
    <3>2. i - 1 \in DOMAIN q
      BY <1>2, <2>2, <3>1, SMT
    <3> QED
      BY <1>3, <2>2, <3>1, <3>2
  <2>3. CASE i \in DOMAIN q /\ q[i].half = "head"
    <3>1. i = 1 \/ q[i - 1].half = "tail"
      BY <2>3 DEF Alternates
    <3>2. i # n
      BY <1>2, <1>4, <2>3, SMT
    <3>3. i + 1 \in DOMAIN q /\ q[i + 1] = TailOf(q[i].rec)
      <4>1. i \in DOMAIN q /\ i < Len(q) /\ i + 1 \in DOMAIN q
        BY <1>2, <2>3, <3>2, SMT DEF n
      <4>2. q[i].half # "tail"
        BY <2>3
      <4> QED
        BY <4>1, <4>2 DEF Alternates
    <3>4. i = 1 \/ i - 1 \in DOMAIN q
      BY <1>2, <2>3, SMT
    <3> QED
      BY <1>3, <2>3, <3>1, <3>3, <3>4
  <2> QED
    BY <1>2, <1>3, <2>1, <2>2, <2>3
<1>6. Rising(p)
  <2> SUFFICES ASSUME NEW i \in DOMAIN p, NEW j \in DOMAIN p, i < j, p[j].half = "head"
               PROVE  p[i].rec < p[j].rec
    BY DEF Rising
  <2>1. i \in DOMAIN q /\ p[i] = q[i]
    BY <1>2, <1>3, SMT
  <2>2. CASE j \in DOMAIN q
    BY <1>3, <2>1, <2>2 DEF Rising
  <2>3. CASE j = n + 1
    BY <1>1, <1>3, <2>1, <2>3 DEF CellsBelow
  <2> QED
    BY <1>3, <2>2, <2>3
<1>7. CellsBelow(p, r + 1)
  BY <1>1, <1>2, <1>3, SMT DEF CellsBelow
<1>8. \A i \in DOMAIN p : i \in DOMAIN q \/ p[i].rec = r
  BY <1>1, <1>3
<1> QED
  BY <1>3, <1>5, <1>6, <1>7, <1>8 DEF p, n, x

(* TailGoesOn: the second half of a record after its first. *)
LEMMA TailGoesOn ==
    ASSUME NEW q \in Seq(Cell), NEW r \in Records, Alternates(q), Rising(q), q # <<>>,
           q[Len(q)] = HeadOf(r), CellsBelow(q, r + 1)
    PROVE  LET p == Append(q, TailOf(r)) IN
           /\ p \in Seq(Cell) /\ Alternates(p) /\ Rising(p) /\ CellsBelow(p, r + 1)
           /\ Len(p) = Len(q) + 1 /\ Closed(p)
           /\ \A i \in DOMAIN q : i \in DOMAIN p /\ p[i] = q[i]
           /\ \A i \in DOMAIN p : i \in DOMAIN q \/ p[i] = TailOf(r)
<1> DEFINE x == TailOf(r)
           p == Append(q, x)
           n == Len(q)
<1>1. x \in Cell /\ x.rec = r /\ x.half = "tail" /\ r \in Int
  BY BoundsAssumption, SMT DEF TailOf, Cell, Records
<1>2. /\ n \in Nat /\ DOMAIN q = 1..n /\ n >= 1
      /\ \A i \in DOMAIN q : i \in Int /\ q[i].rec \in Int /\ q[i].half \in {"head", "tail"}
  BY Cells, SMT
<1>3. q[n] = HeadOf(r) /\ q[n].half = "head" /\ q[n].rec = r
  BY SMT DEF HeadOf
<1>x. x = TailOf(r)
  OBVIOUS
<1> HIDE DEF x
<1>4. /\ p \in Seq(Cell) /\ Len(p) = n + 1 /\ p[n + 1] = x
      /\ \A i \in DOMAIN q : i \in DOMAIN p /\ p[i] = q[i]
      /\ \A i \in DOMAIN p : i \in DOMAIN q \/ i = n + 1
  BY <1>1, Longer
<1> HIDE DEF p, n
<1>5. Alternates(p)
  <2> SUFFICES ASSUME NEW i \in DOMAIN p
               PROVE  \/ /\ p[i].half = "head"
                         /\ i = 1 \/ p[i - 1].half = "tail"
                         /\ i < Len(p) => p[i + 1] = TailOf(p[i].rec)
                      \/ p[i].half = "tail" /\ i > 1 /\ p[i - 1] = HeadOf(p[i].rec)
    BY DEF Alternates
  <2>1. CASE i = n + 1
    <3>1. i > 1 /\ i - 1 = n /\ n \in DOMAIN q
      BY <1>2, <2>1, SMT
    <3> QED
      BY <1>1, <1>3, <1>4, <2>1, <3>1
  <2>2. CASE i \in DOMAIN q /\ q[i].half = "tail"
    <3>1. i > 1 /\ q[i - 1] = HeadOf(q[i].rec)
      BY <2>2 DEF Alternates
    <3>2. i - 1 \in DOMAIN q
      BY <1>2, <2>2, <3>1, SMT
    <3> QED
      BY <1>4, <2>2, <3>1, <3>2
  <2>3. CASE i \in DOMAIN q /\ q[i].half = "head"
    <3>1. i = 1 \/ q[i - 1].half = "tail"
      BY <2>3 DEF Alternates
    <3>2. i = 1 \/ i - 1 \in DOMAIN q
      BY <1>2, <2>3, SMT
    <3>3. p[i + 1] = TailOf(q[i].rec)
      <4>1. CASE i = n
        BY <1>3, <1>4, <1>x, <4>1
      <4>2. CASE i # n
        <5>1. i + 1 \in DOMAIN q /\ q[i + 1] = TailOf(q[i].rec)
          BY <1>2, <2>3, <4>2, SMT DEF Alternates, n
        <5> QED
          BY <1>4, <5>1
      <4> QED
        BY <4>1, <4>2
    <3> QED
      BY <1>4, <2>3, <3>1, <3>2, <3>3
  <2> QED
    BY <1>2, <1>4, <2>1, <2>2, <2>3
<1>6. Rising(p)
  <2> SUFFICES ASSUME NEW i \in DOMAIN p, NEW j \in DOMAIN p, i < j, p[j].half = "head"
               PROVE  p[i].rec < p[j].rec
    BY DEF Rising
  <2>1. j \in DOMAIN q /\ p[j] = q[j]
    BY <1>1, <1>4
  <2>2. i \in DOMAIN q /\ p[i] = q[i]
    BY <1>2, <1>4, <2>1, SMT
  <2> QED
    BY <2>1, <2>2 DEF Rising
<1>7. CellsBelow(p, r + 1)
  BY <1>1, <1>4, SMT DEF CellsBelow
<1>8. Closed(p)
  BY <1>1, <1>4 DEF Closed
<1>9. \A i \in DOMAIN p : i \in DOMAIN q \/ p[i] = TailOf(r)
  BY <1>4, <1>x
<1> QED
  BY <1>4, <1>5, <1>6, <1>7, <1>8, <1>9 DEF p, n, x

(* What was written stays; only the last file goes on. *)
Grown(fs, gs) ==
    /\ Len(fs) <= Len(gs)
    /\ \A f \in DOMAIN fs :
          /\ f \in DOMAIN gs
          /\ f # Len(fs) => gs[f] = fs[f]
          /\ \A i \in DOMAIN fs[f] : i \in DOMAIN gs[f] /\ gs[f][i] = fs[f][i]

(* What the invariant says of the contents of the files. *)
Sound(fs, r) == fs \in Seq(Seq(Cell)) /\ Ordered(fs) /\ Below(fs, r)

(* FilesAre: the files are sequences of cells. *)
LEMMA FilesAre ==
    ASSUME NEW fs \in Seq(Seq(Cell))
    PROVE  /\ Len(fs) \in Nat /\ DOMAIN fs = 1..Len(fs)
           /\ \A f \in DOMAIN fs : f \in Int /\ fs[f] \in Seq(Cell)
BY SMT

(* GrownSame: files that stay as they are. *)
LEMMA GrownSame ==
    ASSUME NEW fs \in Seq(Seq(Cell))
    PROVE  Grown(fs, fs)
BY FilesAre, SMT DEF Grown

(* FileAdded: a new, empty file. *)
LEMMA FileAdded ==
    ASSUME NEW fs, NEW r \in Int, Sound(fs, r)
    PROVE  LET gs == Append(fs, <<>>) IN
           /\ Sound(gs, r) /\ Len(gs) = Len(fs) + 1 /\ gs[Len(gs)] = <<>>
           /\ Grown(fs, gs)
           /\ \A f \in DOMAIN fs : gs[f] = fs[f]
           /\ \A f \in DOMAIN gs : f \in DOMAIN fs \/ f = Len(gs)
<1> DEFINE gs == Append(fs, <<>>)
<1>0. fs \in Seq(Seq(Cell)) /\ Ordered(fs) /\ Below(fs, r)
  BY DEF Sound
<1>1. Len(fs) \in Nat /\ DOMAIN fs = 1..Len(fs) /\ \A f \in DOMAIN fs : f \in Int
  BY <1>0, FilesAre
<1>2. /\ gs \in Seq(Seq(Cell)) /\ Len(gs) = Len(fs) + 1 /\ gs[Len(fs) + 1] = <<>>
      /\ \A f \in DOMAIN fs : gs[f] = fs[f]
      /\ DOMAIN gs = 1..Len(fs) + 1
  BY <1>0, SMT
<1>3. DOMAIN <<>> = {} /\ \A f \in DOMAIN gs : f \in DOMAIN fs \/ f = Len(fs) + 1
  BY <1>1, <1>2, SMT
<1>4. Alternates(<<>>) /\ Rising(<<>>)
  BY SMT DEF Alternates, Rising
<1> HIDE DEF gs
<1>5. \A f \in DOMAIN gs : Alternates(gs[f]) /\ Rising(gs[f])
  BY <1>0, <1>2, <1>3, <1>4 DEF Ordered
<1>6. ASSUME NEW f \in DOMAIN gs, NEW g \in DOMAIN gs, f < g,
             NEW i \in DOMAIN gs[f], NEW j \in DOMAIN gs[g]
      PROVE  gs[f][i].rec < gs[g][j].rec
  <2>1. g \in DOMAIN fs /\ gs[g] = fs[g] /\ f \in DOMAIN fs /\ gs[f] = fs[f]
    BY <1>2, <1>3, <1>6
  <2> QED
    BY <1>0, <1>6, <2>1 DEF Ordered
<1>7. Ordered(gs)
  BY <1>5, <1>6 DEF Ordered
<1>8. Below(gs, r)
  BY <1>0, <1>2, <1>3 DEF Below
<1>9. Grown(fs, gs)
  BY <1>1, <1>2, SMT DEF Grown
<1> QED
  BY <1>1, <1>2, <1>3, <1>7, <1>8, <1>9 DEF Sound, gs

(* FileGoesOn: the last file becomes p, which has more of record r. *)
LEMMA FileGoesOn ==
    ASSUME NEW fs, NEW r \in Records, Sound(fs, r + 1), Len(fs) >= 1,
           NEW p \in Seq(Cell), Alternates(p), Rising(p), CellsBelow(p, r + 1),
           \A f \in DOMAIN fs : f # Len(fs) => CellsBelow(fs[f], r),
           \A i \in DOMAIN fs[Len(fs)] : i \in DOMAIN p /\ p[i] = fs[Len(fs)][i],
           \A i \in DOMAIN p : i \in DOMAIN fs[Len(fs)] \/ p[i].rec = r
    PROVE  LET gs == [fs EXCEPT ![Len(fs)] = p] IN
           /\ Sound(gs, r + 1) /\ Len(gs) = Len(fs) /\ gs[Len(fs)] = p
           /\ Grown(fs, gs)
           /\ \A f \in DOMAIN fs : f # Len(fs) => gs[f] = fs[f]
<1> DEFINE n == Len(fs)
           gs == [fs EXCEPT ![n] = p]
<1>0. fs \in Seq(Seq(Cell)) /\ Ordered(fs) /\ Below(fs, r + 1)
  BY DEF Sound
<1>1. n \in Nat /\ DOMAIN fs = 1..n /\ n \in DOMAIN fs /\ \A f \in DOMAIN fs : f \in Int
  BY <1>0, FilesAre, SMT
<1>2. /\ gs \in Seq(Seq(Cell)) /\ Len(gs) = n /\ DOMAIN gs = DOMAIN fs /\ gs[n] = p
      /\ \A f \in DOMAIN fs : f # n => gs[f] = fs[f]
  BY <1>0, <1>1, SMT
<1>r. r \in Int
  BY BoundsAssumption, SMT DEF Records
<1>p. \A i \in DOMAIN p : p[i].rec \in Int
  BY Cells
<1>f. \A f \in DOMAIN fs : \A i \in DOMAIN fs[f] : fs[f][i].rec \in Int
  BY <1>0, FilesAre, Cells
<1> HIDE DEF gs, n
<1>5. \A f \in DOMAIN gs : Alternates(gs[f]) /\ Rising(gs[f])
  BY <1>0, <1>2 DEF Ordered
<1>6. ASSUME NEW f \in DOMAIN gs, NEW g \in DOMAIN gs, f < g,
             NEW i \in DOMAIN gs[f], NEW j \in DOMAIN gs[g]
      PROVE  gs[f][i].rec < gs[g][j].rec
  <2>1. f # n /\ gs[f] = fs[f] /\ f \in DOMAIN fs
    BY <1>1, <1>2, <1>6, SMT
  <2>2. CASE g # n
    BY <1>0, <1>2, <1>6, <2>1, <2>2 DEF Ordered
  <2>3. CASE g = n /\ j \in DOMAIN fs[n]
    BY <1>0, <1>1, <1>2, <1>6, <2>1, <2>3 DEF Ordered, n
  <2>4. CASE g = n /\ p[j].rec = r
    <3>1. fs[f][i].rec < r
      BY <1>6, <2>1 DEF CellsBelow, n
    <3> QED
      BY <1>2, <2>1, <2>4, <3>1
  <2> QED
    BY <1>2, <1>6, <2>2, <2>3, <2>4 DEF n
<1>7. Ordered(gs)
  BY <1>5, <1>6 DEF Ordered
<1>8. Below(gs, r + 1)
  BY <1>0, <1>2 DEF Below, CellsBelow
<1>9. Grown(fs, gs)
  BY <1>1, <1>2, SMT DEF Grown, n
<1> QED
  BY <1>2, <1>7, <1>8, <1>9 DEF Sound, gs, n

(* GrownTwice: growing is transitive. *)
LEMMA GrownTwice ==
    ASSUME NEW fs \in Seq(Seq(Cell)), NEW gs \in Seq(Seq(Cell)), NEW hs \in Seq(Seq(Cell)),
           Grown(fs, gs), Grown(gs, hs), \A f \in DOMAIN fs : f # Len(fs) => f # Len(gs)
    PROVE  Grown(fs, hs)
<1>1. Len(fs) \in Nat /\ Len(gs) \in Nat /\ Len(hs) \in Nat
  BY SMT
<1>2. Len(fs) <= Len(hs)
  BY <1>1, SMT DEF Grown
<1> QED
  BY <1>2 DEF Grown

------------------------------------------------------------------------------
(* FileInv by groups of variables *)

TailerTypes ==
    /\ files \in Seq(Seq(Cell))
    /\ log \in {0, Len(files)}
    /\ rotated \in [1..MaxRotated -> 0..Len(files)]
    /\ rec \in 0..MaxRecords
    /\ tpc \in {"idle", "shift", "rename", "create", "write", "rest"}

FollowerTypes ==
    /\ fpc \in {"poll", "drain", "read", "sleep", "done"}
    /\ pos \in Nat /\ len \in Nat
    /\ leftover \in Seq(Cell)
    /\ inode \in 0..Len(files) /\ handle \in 0..Len(files)
    /\ first \in 0..Len(files)
    /\ final \in BOOLEAN
    /\ delivered \in Seq(Records)

WatcherTypes ==
    /\ watcher \in {"watching", "sent", "gone"}
    /\ errors \in 0..MaxErrors
    /\ errors < MaxErrors \/ watcher # "watching"

EnvTypes ==
    /\ taskState \in {"running", "stopped", "none"}
    /\ present \in BOOLEAN
    /\ torn \in BOOLEAN /\ overlap \in BOOLEAN /\ fails \in BOOLEAN

Contents ==
    /\ Sound(files, rec + 1)
    /\ tpc \notin {"idle", "rest"} => Below(files, rec)
    /\ \A f \in DOMAIN files :
          \/ Closed(files[f])
          \/ torn /\ f = Len(files) /\ (present => tpc = "rest")

AtWork ==
    /\ tpc # "idle" => rec >= 1
    /\ ~torn => tpc # "rest"
    /\ present /\ tpc \in {"shift", "rename", "rest"} => log # 0
    /\ present /\ tpc = "rest" => LET q == files[log] IN q # <<>> /\ q[Len(q)] = HeadOf(rec)

Parts ==
    TailerTypes /\ FollowerTypes /\ WatcherTypes /\ EnvTypes /\ Contents /\ AtWork

(* FileInvParts: the invariant gives its parts. *)
LEMMA FileInvParts == FileInv => Parts
BY DEF FileInv, TypeOK, Parts, TailerTypes, FollowerTypes, WatcherTypes, EnvTypes, Contents,
       AtWork, Sound

(* PartsFileInv: the parts give the invariant. *)
LEMMA PartsFileInv == Parts' => FileInv'
<1> SUFFICES ASSUME Parts' PROVE FileInv'
  OBVIOUS
<1>1. TailerTypes' /\ Len(files') \in Nat
  BY SMT DEF Parts, TailerTypes
<1>2. log' \in 0..Len(files')
  BY <1>1, SMT DEF TailerTypes
<1> QED
  BY <1>1, <1>2 DEF FileInv, TypeOK, Parts, TailerTypes, FollowerTypes, WatcherTypes, EnvTypes,
                    Contents, AtWork, Sound

(* FileTypes: the types of the files, and of the numbers that point there. *)
LEMMA FileTypes ==
    ASSUME FileInv
    PROVE  /\ files \in Seq(Seq(Cell)) /\ Len(files) \in Nat /\ DOMAIN files = 1..Len(files)
           /\ \A f \in DOMAIN files : /\ files[f] \in Seq(Cell) /\ Len(files[f]) \in Nat
                                      /\ DOMAIN files[f] = 1..Len(files[f])
           /\ {log, inode, handle, first} \subseteq 0..Len(files)
           /\ pos \in Nat /\ len \in Nat /\ rec \in Nat
           /\ delivered \in Seq(Records) /\ leftover \in Seq(Cell)
<1>1. /\ files \in Seq(Seq(Cell)) /\ {log, inode, handle, first} \subseteq 0..Len(files)
      /\ pos \in Nat /\ len \in Nat /\ rec \in 0..MaxRecords
      /\ delivered \in Seq(Records) /\ leftover \in Seq(Cell)
  BY DEF FileInv, TypeOK
<1>2. rec \in Nat
  BY <1>1, BoundsAssumption, SMT
<1>3. Len(files) \in Nat /\ DOMAIN files = 1..Len(files)
  BY <1>1, SMT
<1>4. ASSUME NEW f \in DOMAIN files
      PROVE  files[f] \in Seq(Cell) /\ Len(files[f]) \in Nat /\ DOMAIN files[f] = 1..Len(files[f])
  BY <1>1, <1>3, SMT
<1> QED
  BY <1>1, <1>2, <1>3, <1>4

(* Written: a step that keeps what was written, and adds only cells of *)
(* the record being written.                                                 *)
Written ==
    /\ Grown(files, files')
    /\ \A f \in DOMAIN files' : \A i \in DOMAIN files'[f] :
          \/ f \in DOMAIN files /\ i \in DOMAIN files[f]
          \/ tpc = "rest" /\ files'[f][i] = TailOf(rec)
          \/ tpc = "write" /\ files'[f][i].rec = rec
    /\ ~torn => \A f \in DOMAIN files' : Closed(files'[f])

TailerResult ==
    /\ TailerTypes' /\ Contents' /\ AtWork' /\ Written
    /\ rec' >= rec /\ (rec' # rec => tpc = "idle")
    /\ tpc' \notin {"idle", "rest"} => (tpc \notin {"idle", "rest"} \/ rec' = rec + 1)
    /\ UNCHANGED <<follower, watching, env>>

(* SameFiles: a step that leaves the contents of the files alone. *)
LEMMA SameFiles ==
    ASSUME FileInv, files' = files
    PROVE  Written
<1>1. files \in Seq(Seq(Cell)) /\ Grown(files, files)
  BY GrownSame DEF FileInv, TypeOK
<1>2. ~torn => \A f \in DOMAIN files : Closed(files[f])
  BY DEF FileInv
<1> QED
  BY <1>1, <1>2 DEF Written

(* BelowNext: what is below r is below r + 1. *)
LEMMA BelowNext ==
    ASSUME NEW fs \in Seq(Seq(Cell)), NEW r \in Int, Below(fs, r)
    PROVE  Below(fs, r + 1)
<1>1. \A f \in DOMAIN fs : \A i \in DOMAIN fs[f] : fs[f][i].rec \in Int
  BY FilesAre, Cells
<1> QED
  BY <1>1, SMT DEF Below

(* BeginAppendWrites: append_events decides whether to rotate. *)
LEMMA BeginAppendWrites ==
    ASSUME FileInv, BeginAppend
    PROVE  TailerResult
<1> USE DEF BeginAppend, MayAppend, follower, watching, env, circumstances
<1>0. TailerTypes /\ EnvTypes /\ Contents /\ AtWork
  BY FileInvParts DEF Parts
<1>1. /\ files' = files /\ log' = log /\ rotated' = rotated /\ rec' = rec + 1 /\ tpc = "idle"
      /\ rec < MaxRecords /\ present /\ torn' = torn /\ present' = present
      /\ tpc' = "write" \/ (tpc' = "shift" /\ log # 0)
  OBVIOUS
<1>2. UNCHANGED <<follower, watching, env>>
  OBVIOUS
<1>3. rec \in Int /\ MaxRecords \in Int
  BY <1>0, BoundsAssumption, SMT DEF TailerTypes
<1>4. TailerTypes'
  BY <1>0, <1>1, <1>3, BoundsAssumption, SMT DEF TailerTypes
<1>5. Contents'
  <2>1. Sound(files, rec + 1) /\ files \in Seq(Seq(Cell)) /\ Ordered(files) /\ Below(files, rec + 1)
    BY <1>0 DEF Contents, Sound
  <2>2. Below(files, rec + 1 + 1)
    BY <1>3, <2>1, BelowNext, SMT
  <2>3. \A f \in DOMAIN files : Closed(files[f])
    BY <1>0, <1>1 DEF Contents
  <2> QED
    BY <1>1, <2>1, <2>2, <2>3 DEF Contents, Sound
<1>6. AtWork'
  BY <1>0, <1>1, <1>3, SMT DEF AtWork, TailerTypes
<1>7. Written
  BY <1>1, SameFiles
<1> QED
  BY <1>1, <1>2, <1>3, <1>4, <1>5, <1>6, <1>7, SMT DEF TailerResult

(* ShiftWrites: the rotated files get the next name, and the last is gone. *)
LEMMA ShiftWrites ==
    ASSUME FileInv, Shift
    PROVE  TailerResult
<1> USE DEF Shift, MayAppend, follower, watching, env, circumstances
<1>0. TailerTypes /\ EnvTypes /\ Contents /\ AtWork
  BY FileInvParts DEF Parts
<1>1. /\ files' = files /\ log' = log /\ rec' = rec /\ tpc = "shift" /\ tpc' = "rename"
      /\ present /\ torn' = torn /\ present' = present
  OBVIOUS
<1>2. UNCHANGED <<follower, watching, env>>
  OBVIOUS
<1>3. rec \in Int
  BY <1>0, SMT DEF TailerTypes
<1>4. rotated' \in [1..MaxRotated -> 0..Len(files)]
  BY <1>0, BoundsAssumption, SMT DEF TailerTypes
<1>5. TailerTypes'
  BY <1>0, <1>1, <1>4 DEF TailerTypes
<1>6. Contents' /\ AtWork'
  BY <1>0, <1>1 DEF Contents, AtWork
<1>7. Written
  BY <1>1, SameFiles
<1> QED
  BY <1>1, <1>2, <1>3, <1>5, <1>6, <1>7, SMT DEF TailerResult

(* RenameLogWrites: events.log becomes the first rotated file. *)
LEMMA RenameLogWrites ==
    ASSUME FileInv, RenameLog
    PROVE  TailerResult
<1> USE DEF RenameLog, MayAppend, follower, watching, env, circumstances
<1>0. TailerTypes /\ EnvTypes /\ Contents /\ AtWork
  BY FileInvParts DEF Parts
<1>1. /\ files' = files /\ log' = 0 /\ rec' = rec /\ tpc = "rename" /\ tpc' = "create"
      /\ present /\ torn' = torn /\ present' = present
  OBVIOUS
<1>2. UNCHANGED <<follower, watching, env>>
  OBVIOUS
<1>3. rec \in Int
  BY <1>0, SMT DEF TailerTypes
<1>4. rotated' \in [1..MaxRotated -> 0..Len(files)]
  <2>1. Len(files) \in Nat /\ log \in 0..Len(files)
    BY <1>0, SMT DEF TailerTypes
  <2> QED
    BY <1>0, <2>1, BoundsAssumption DEF TailerTypes
<1>5. TailerTypes'
  BY <1>0, <1>1, <1>4 DEF TailerTypes
<1>6. Contents' /\ AtWork'
  BY <1>0, <1>1 DEF Contents, AtWork
<1>7. Written
  BY <1>1, SameFiles
<1> QED
  BY <1>1, <1>2, <1>3, <1>5, <1>6, <1>7, SMT DEF TailerResult

(* CreateLogWrites: a new, empty events.log. *)
LEMMA CreateLogWrites ==
    ASSUME FileInv, CreateLog
    PROVE  TailerResult
<1> USE DEF CreateLog, MayAppend, follower, watching, env, circumstances
<1>0. TailerTypes /\ EnvTypes /\ Contents /\ AtWork
  BY FileInvParts DEF Parts
<1>1. /\ files' = Append(files, <<>>) /\ log' = Len(files) + 1 /\ rotated' = rotated
      /\ rec' = rec /\ tpc = "create" /\ tpc' = "write"
      /\ present /\ torn' = torn /\ present' = present
  OBVIOUS
<1>2. UNCHANGED <<follower, watching, env>>
  OBVIOUS
<1>3. rec \in Int /\ Len(files) \in Nat /\ Sound(files, rec + 1) /\ Sound(files, rec)
  BY <1>0, <1>1, SMT DEF TailerTypes, Contents, Sound
<1>4. /\ Sound(files', rec + 1) /\ Sound(files', rec) /\ Len(files') = Len(files) + 1
      /\ files'[Len(files')] = <<>> /\ Grown(files, files')
      /\ \A f \in DOMAIN files : files'[f] = files[f]
      /\ \A f \in DOMAIN files' : f \in DOMAIN files \/ f = Len(files')
  BY <1>1, <1>3, FileAdded, SMT
<1>5. TailerTypes'
  <2>1. files' \in Seq(Seq(Cell)) /\ log' = Len(files')
    BY <1>1, <1>4 DEF Sound
  <2>2. rotated' \in [1..MaxRotated -> 0..Len(files')]
    <3>1. 0..Len(files) \subseteq 0..Len(files')
      BY <1>3, <1>4, SMT
    <3> QED
      BY <1>0, <1>1, <3>1 DEF TailerTypes
  <2> QED
    BY <1>0, <1>1, <2>1, <2>2 DEF TailerTypes
<1>6. \A f \in DOMAIN files' : Closed(files'[f])
  <2>1. \A f \in DOMAIN files : Closed(files[f])
    BY <1>0, <1>1 DEF Contents
  <2> QED
    BY <1>4, <2>1 DEF Closed
<1>7. Contents'
  BY <1>1, <1>4, <1>6 DEF Contents, Sound
<1>8. AtWork'
  BY <1>0, <1>1 DEF AtWork
<1>9. Written
  <2>1. \A f \in DOMAIN files' : \A i \in DOMAIN files'[f] : f \in DOMAIN files /\ i \in DOMAIN files[f]
    BY <1>4, SMT
  <2> QED
    BY <1>4, <1>6, <2>1 DEF Written
<1> QED
  BY <1>1, <1>2, <1>3, <1>5, <1>7, <1>8, <1>9, SMT DEF TailerResult

(* HeadWritten: the first half of record r, at the end of the last file. *)
LEMMA HeadWritten ==
    ASSUME NEW fs, NEW r \in Records, Sound(fs, r), Len(fs) >= 1, Closed(fs[Len(fs)])
    PROVE  LET n == Len(fs)
               gs == [fs EXCEPT ![n] = Append(fs[n], HeadOf(r))]
           IN  /\ Sound(gs, r + 1) /\ Len(gs) = n /\ Grown(fs, gs)
               /\ gs[n] = Append(fs[n], HeadOf(r))
               /\ gs[n] # <<>> /\ gs[n][Len(gs[n])] = HeadOf(r)
               /\ \A f \in DOMAIN fs : f # n => gs[f] = fs[f]
               /\ \A f \in DOMAIN gs : \A i \in DOMAIN gs[f] :
                     (f \in DOMAIN fs /\ i \in DOMAIN fs[f]) \/ gs[f][i].rec = r
<1> DEFINE n == Len(fs)
           q == fs[n]
           p == Append(q, HeadOf(r))
           gs == [fs EXCEPT ![n] = p]
<1>0. fs \in Seq(Seq(Cell)) /\ Ordered(fs) /\ Below(fs, r) /\ r \in Int
  BY BoundsAssumption, SMT DEF Sound, Records
<1>1. n \in Nat /\ DOMAIN fs = 1..n /\ n \in DOMAIN fs /\ q \in Seq(Cell)
  BY <1>0, FilesAre, SMT
<1>2. Alternates(q) /\ Rising(q) /\ CellsBelow(q, r)
  BY <1>0, <1>1 DEF Ordered, Below, CellsBelow
<1>3. /\ p \in Seq(Cell) /\ Alternates(p) /\ Rising(p) /\ CellsBelow(p, r + 1)
      /\ Len(p) = Len(q) + 1 /\ p[Len(p)] = HeadOf(r)
      /\ \A i \in DOMAIN q : i \in DOMAIN p /\ p[i] = q[i]
      /\ \A i \in DOMAIN p : i \in DOMAIN q \/ p[i].rec = r
  BY <1>1, <1>2, HeadGoesOn
<1>4. Sound(fs, r + 1) /\ \A f \in DOMAIN fs : f # n => CellsBelow(fs[f], r)
  BY <1>0, BelowNext DEF Sound, Below, CellsBelow
<1>5. p # <<>>
  BY <1>1, <1>3, SMT
<1> HIDE DEF p
<1>6. /\ Sound(gs, r + 1) /\ Len(gs) = n /\ gs[n] = p /\ Grown(fs, gs)
      /\ \A f \in DOMAIN fs : f # n => gs[f] = fs[f]
  BY <1>1, <1>3, <1>4, FileGoesOn
<1>7. DOMAIN gs = DOMAIN fs
  OBVIOUS
<1> HIDE DEF gs
<1>8. \A f \in DOMAIN gs : \A i \in DOMAIN gs[f] :
          (f \in DOMAIN fs /\ i \in DOMAIN fs[f]) \/ gs[f][i].rec = r
  BY <1>3, <1>6, <1>7
<1> QED
  BY <1>3, <1>5, <1>6, <1>8 DEF gs, p

EndsIn(q, x) == q # <<>> /\ q[Len(q)] = x

(* TailWritten: the second half of record r, behind the first. *)
LEMMA TailWritten ==
    ASSUME NEW fs, NEW r \in Records, Sound(fs, r + 1), Len(fs) >= 1,
           EndsIn(fs[Len(fs)], HeadOf(r))
    PROVE  LET n == Len(fs)
               gs == [fs EXCEPT ![n] = Append(fs[n], TailOf(r))]
           IN  /\ Sound(gs, r + 1) /\ Len(gs) = n /\ Grown(fs, gs)
               /\ gs[n] = Append(fs[n], TailOf(r)) /\ Closed(gs[n])
               /\ \A f \in DOMAIN fs : f # n => gs[f] = fs[f]
               /\ \A f \in DOMAIN gs : \A i \in DOMAIN gs[f] :
                     (f \in DOMAIN fs /\ i \in DOMAIN fs[f]) \/ gs[f][i] = TailOf(r)
<1> DEFINE n == Len(fs)
           q == fs[n]
           p == Append(q, TailOf(r))
           gs == [fs EXCEPT ![n] = p]
<1>0. fs \in Seq(Seq(Cell)) /\ Ordered(fs) /\ Below(fs, r + 1) /\ r \in Int
  BY BoundsAssumption, SMT DEF Sound, Records
<1>1. n \in Nat /\ DOMAIN fs = 1..n /\ n \in DOMAIN fs /\ q \in Seq(Cell) /\ q # <<>>
  BY <1>0, FilesAre, SMT DEF EndsIn
<1>2. Alternates(q) /\ Rising(q) /\ CellsBelow(q, r + 1) /\ q[Len(q)] = HeadOf(r)
  BY <1>0, <1>1 DEF Ordered, Below, CellsBelow, EndsIn
<1>3. /\ p \in Seq(Cell) /\ Alternates(p) /\ Rising(p) /\ CellsBelow(p, r + 1)
      /\ Closed(p)
      /\ \A i \in DOMAIN q : i \in DOMAIN p /\ p[i] = q[i]
      /\ \A i \in DOMAIN p : i \in DOMAIN q \/ p[i] = TailOf(r)
  BY <1>1, <1>2, TailGoesOn
<1>4. \A f \in DOMAIN fs : f # n => CellsBelow(fs[f], r)
  <2>1. Len(q) \in DOMAIN q /\ q[Len(q)].rec = r
    BY <1>1, <1>2, SMT DEF HeadOf
  <2>2. \A f \in DOMAIN fs : f # n => f < n
    BY <1>1, SMT
  <2> QED
    BY <1>0, <1>1, <2>1, <2>2 DEF Ordered, CellsBelow
<1>5. \A i \in DOMAIN p : i \in DOMAIN q \/ p[i].rec = r
  BY <1>3, SMT DEF TailOf
<1> HIDE DEF p
<1>e. /\ p \in Seq(Cell) /\ Alternates(p) /\ Rising(p) /\ CellsBelow(p, r + 1)
      /\ \A i \in DOMAIN fs[n] : i \in DOMAIN p /\ p[i] = fs[n][i]
      /\ \A i \in DOMAIN p : i \in DOMAIN fs[n] \/ p[i].rec = r
      /\ \A f \in DOMAIN fs : f # n => CellsBelow(fs[f], r)
      /\ Sound(fs, r + 1) /\ n >= 1 /\ r \in Records
  BY <1>3, <1>4, <1>5
<1>6. /\ Sound(gs, r + 1) /\ Len(gs) = n /\ gs[n] = p /\ Grown(fs, gs)
      /\ \A f \in DOMAIN fs : f # n => gs[f] = fs[f]
  BY ONLY <1>e, FileGoesOn, SMT
<1>7. DOMAIN gs = DOMAIN fs
  OBVIOUS
<1> HIDE DEF gs
<1>8. \A f \in DOMAIN gs : \A i \in DOMAIN gs[f] :
          (f \in DOMAIN fs /\ i \in DOMAIN fs[f]) \/ gs[f][i] = TailOf(r)
  BY <1>3, <1>6, <1>7
<1> QED
  BY <1>3, <1>6, <1>8 DEF gs, p

(* BothWritten: a record seen whole is its halves one after the other. *)
LEMMA BothWritten ==
    ASSUME NEW fs \in Seq(Seq(Cell)), Len(fs) >= 1, NEW h \in Cell, NEW t \in Cell,
           NEW gs, gs = [fs EXCEPT ![Len(fs)] = Append(fs[Len(fs)], h)]
    PROVE  [fs EXCEPT ![Len(fs)] = fs[Len(fs)] \o <<h, t>>]
             = [gs EXCEPT ![Len(fs)] = Append(gs[Len(fs)], t)]
<1> DEFINE n == Len(fs)
           q == fs[n]
<1>1. n \in DOMAIN fs /\ q \in Seq(Cell)
  BY SMT
<1>2. q \o <<h, t>> = Append(Append(q, h), t)
  BY <1>1, SMT
<1>3. gs[n] = Append(q, h) /\ DOMAIN gs = DOMAIN fs
  BY <1>1
<1> HIDE DEF q, n
<1>4. \A p : [fs EXCEPT ![n] = p] = [[fs EXCEPT ![n] = Append(q, h)] EXCEPT ![n] = p]
  OBVIOUS
<1> QED
  BY <1>2, <1>3, <1>4 DEF q, n

(* Room: where the next record is written. *)
Room(fs) ==
    /\ Sound(fs, rec) /\ Len(fs) >= 1 /\ Grown(files, fs)
    /\ \A f \in DOMAIN fs : Closed(fs[f])
    /\ \A f \in DOMAIN fs : \A i \in DOMAIN fs[f] : f \in DOMAIN files /\ i \in DOMAIN files[f]
    /\ \A f \in DOMAIN files : f # Len(files) => f # Len(fs)
    /\ 0..Len(files) \subseteq 0..Len(fs)

(* RoomMade: events.log is there, or is created. *)
LEMMA RoomMade ==
    ASSUME FileInv, tpc = "write", present
    PROVE  LET fs == IF log = 0 THEN Append(files, <<>>) ELSE files IN
           Room(fs) /\ (log = 0 \/ log = Len(fs))
<1> DEFINE fs == IF log = 0 THEN Append(files, <<>>) ELSE files
<1>0. TailerTypes /\ Contents
  BY FileInvParts DEF Parts
<1>1. rec \in Int /\ Len(files) \in Nat /\ Sound(files, rec) /\ DOMAIN files = 1..Len(files)
  BY <1>0, SMT DEF TailerTypes, Contents, Sound
<1>2. \A f \in DOMAIN files : Closed(files[f])
  BY <1>0 DEF Contents
<1>3. CASE log = 0
  <2>1. /\ Sound(fs, rec) /\ Len(fs) = Len(files) + 1 /\ fs[Len(fs)] = <<>> /\ Grown(files, fs)
        /\ \A f \in DOMAIN files : fs[f] = files[f]
        /\ \A f \in DOMAIN fs : f \in DOMAIN files \/ f = Len(fs)
    BY <1>1, <1>3, FileAdded
  <2> HIDE DEF fs
  <2>2. \A f \in DOMAIN fs : Closed(fs[f])
    BY <1>2, <2>1 DEF Closed
  <2>3. \A f \in DOMAIN fs : \A i \in DOMAIN fs[f] : f \in DOMAIN files /\ i \in DOMAIN files[f]
    BY <2>1, SMT
  <2>4. /\ \A f \in DOMAIN files : f # Len(files) => f # Len(fs)
        /\ 0..Len(files) \subseteq 0..Len(fs) /\ Len(fs) >= 1
    BY <1>1, <2>1, SMT
  <2> QED
    BY <1>3, <2>1, <2>2, <2>3, <2>4 DEF Room, fs
<1>4. CASE log # 0
  <2>b. log = Len(files)
    BY <1>0, <1>4 DEF TailerTypes
  <2>a. log = Len(files) /\ Len(files) >= 1
    BY <1>1, <1>4, <2>b, SMT
  <2>1. fs = files /\ log = Len(files) /\ Len(files) >= 1
    BY <1>4, <2>a
  <2>2. Grown(files, files)
    BY <1>0, GrownSame DEF TailerTypes
  <2> HIDE DEF fs
  <2> QED
    BY <1>1, <1>2, <2>1, <2>2 DEF Room, fs
<1> QED
  BY <1>3, <1>4

(* WriteRecordWrites: a record is appended, or a first part of it. *)
LEMMA WriteRecordWrites ==
    ASSUME FileInv, WriteRecord
    PROVE  TailerResult
<1> DEFINE fs == IF log = 0 THEN Append(files, <<>>) ELSE files
           n == Len(fs)
           gs == [fs EXCEPT ![n] = Append(fs[n], HeadOf(rec))]
<1>0. TailerTypes /\ EnvTypes /\ Contents /\ AtWork
  BY FileInvParts DEF Parts
<1>1. /\ rotated' = rotated /\ rec' = rec /\ tpc = "write"
      /\ present /\ torn' = torn /\ present' = present
  BY DEF WriteRecord, MayAppend, env, circumstances
<1>2. UNCHANGED <<follower, watching, env>>
  BY DEF WriteRecord
<1>3. Room(fs) /\ (log = 0 \/ log = n)
  BY <1>1, RoomMade
<1>4. /\ log' = n
      /\ \/ files' = [fs EXCEPT ![n] = fs[n] \o <<HeadOf(rec), TailOf(rec)>>] /\ tpc' = "idle"
         \/ torn /\ files' = gs /\ tpc' = "rest"
  BY <1>3 DEF WriteRecord
<1> HIDE DEF fs
<1>5. rec \in Records /\ rec \in Int /\ HeadOf(rec) \in Cell /\ TailOf(rec) \in Cell
  BY <1>0, <1>1, BoundsAssumption, SMT DEF TailerTypes, AtWork, Records, HeadOf, TailOf, Cell
<1>6. /\ fs \in Seq(Seq(Cell)) /\ n \in Nat /\ n >= 1 /\ n \in DOMAIN fs /\ files \in Seq(Seq(Cell))
      /\ Sound(fs, rec) /\ Closed(fs[n])
  BY <1>0, <1>3, SMT DEF Room, Sound, TailerTypes
<1>7. /\ Sound(gs, rec + 1) /\ Len(gs) = n /\ Grown(fs, gs)
      /\ gs[n] # <<>> /\ gs[n][Len(gs[n])] = HeadOf(rec)
      /\ \A f \in DOMAIN fs : f # n => gs[f] = fs[f]
      /\ \A f \in DOMAIN gs : \A i \in DOMAIN gs[f] :
            (f \in DOMAIN fs /\ i \in DOMAIN fs[f]) \/ gs[f][i].rec = rec
  BY <1>5, <1>6, HeadWritten
<1>8. gs \in Seq(Seq(Cell)) /\ DOMAIN gs = DOMAIN fs
  BY <1>7 DEF Sound
<1>g. gs = [fs EXCEPT ![n] = Append(fs[n], HeadOf(rec))]
  OBVIOUS
<1> HIDE DEF gs
<1>9. /\ Sound(files', rec + 1) /\ Len(files') = n /\ Grown(fs, files')
      /\ \A f \in DOMAIN files' : \A i \in DOMAIN files'[f] :
            (f \in DOMAIN fs /\ i \in DOMAIN fs[f]) \/ files'[f][i].rec = rec
      /\ \A f \in DOMAIN files' :
            Closed(files'[f]) \/ (f = n /\ torn /\ tpc' = "rest")
      /\ tpc' = "rest" => files'[n] # <<>> /\ files'[n][Len(files'[n])] = HeadOf(rec)
      /\ tpc' = "idle" \/ (torn /\ tpc' = "rest")
  <2>1. CASE torn /\ files' = gs /\ tpc' = "rest"
    <3>1. \A f \in DOMAIN gs : f # n => Closed(gs[f])
      BY <1>3, <1>7, <1>8 DEF Room
    <3> QED
      BY <1>7, <2>1, <3>1
  <2>2. CASE /\ files' = [fs EXCEPT ![n] = fs[n] \o <<HeadOf(rec), TailOf(rec)>>]
             /\ tpc' = "idle"
    <3>1. files' = [gs EXCEPT ![n] = Append(gs[n], TailOf(rec))]
      BY <1>5, <1>6, <1>g, <2>2, BothWritten, SMT
    <3>2. /\ Sound(files', rec + 1) /\ Len(files') = n /\ Grown(gs, files')
          /\ Closed(files'[n])
          /\ \A f \in DOMAIN gs : f # n => files'[f] = gs[f]
          /\ \A f \in DOMAIN files' : \A i \in DOMAIN files'[f] :
                (f \in DOMAIN gs /\ i \in DOMAIN gs[f]) \/ files'[f][i] = TailOf(rec)
      <4>1. /\ rec \in Records /\ Sound(gs, rec + 1) /\ Len(gs) >= 1
            /\ EndsIn(gs[Len(gs)], HeadOf(rec))
        BY <1>5, <1>6, <1>7, <3>1 DEF EndsIn
      <4> DEFINE hs == [gs EXCEPT ![Len(gs)] = Append(gs[Len(gs)], TailOf(rec))]
      <4>2. /\ Sound(hs, rec + 1) /\ Len(hs) = Len(gs) /\ Grown(gs, hs)
            /\ Closed(hs[Len(gs)])
            /\ \A f \in DOMAIN gs : f # Len(gs) => hs[f] = gs[f]
            /\ \A f \in DOMAIN hs : \A i \in DOMAIN hs[f] :
                  (f \in DOMAIN gs /\ i \in DOMAIN gs[f]) \/ hs[f][i] = TailOf(rec)
        BY ONLY <4>1, TailWritten
      <4>3. files' = hs
        BY <1>7, <3>1
      <4> HIDE DEF hs
      <4> QED
        BY <1>7, <4>2, <4>3
    <3>3. files' \in Seq(Seq(Cell)) /\ DOMAIN files' = DOMAIN gs
      BY <1>8, <3>1, <3>2 DEF Sound
    <3>4. Grown(fs, files')
      BY <1>6, <1>7, <1>8, <3>2, <3>3, GrownTwice
    <3>5. \A f \in DOMAIN files' : Closed(files'[f])
      BY <1>3, <1>7, <1>8, <3>2, <3>3 DEF Room
    <3>6. ASSUME NEW f \in DOMAIN files', NEW i \in DOMAIN files'[f]
          PROVE  (f \in DOMAIN fs /\ i \in DOMAIN fs[f]) \/ files'[f][i].rec = rec
      <4>1. CASE files'[f][i] = TailOf(rec)
        BY <4>1, SMT DEF TailOf
      <4>2. CASE f \in DOMAIN gs /\ i \in DOMAIN gs[f]
        <5>1. files'[f][i] = gs[f][i]
          BY <3>2, <4>2 DEF Grown
        <5> QED
          BY <1>7, <4>2, <5>1
      <4> QED
        BY <3>2, <3>6, <4>1, <4>2
    <3> QED
      BY <2>2, <3>2, <3>4, <3>5, <3>6
  <2> QED
    BY <1>4, <2>1, <2>2
<1>10. files' \in Seq(Seq(Cell)) /\ Grown(files, files')
  <2>1. files' \in Seq(Seq(Cell))
    BY <1>9 DEF Sound
  <2> QED
    BY <1>3, <1>6, <1>9, <2>1, GrownTwice DEF Room
<1>11. TailerTypes'
  <2>1. rotated' \in [1..MaxRotated -> 0..Len(files')]
    BY <1>0, <1>1, <1>3, <1>9 DEF TailerTypes, Room
  <2> QED
    BY <1>0, <1>1, <1>4, <1>9, <1>10, <2>1 DEF TailerTypes
<1>12. Contents'
  BY <1>1, <1>9 DEF Contents
<1>13. AtWork'
  BY <1>0, <1>1, <1>4, <1>6, <1>9, SMT DEF AtWork
<1>14. Written
  BY <1>1, <1>3, <1>9, <1>10 DEF Written, Room
<1> QED
  BY <1>1, <1>2, <1>5, <1>9, <1>11, <1>12, <1>13, <1>14, SMT DEF TailerResult

(* WriteRestWrites: the rest of a record follows its first part. *)
LEMMA WriteRestWrites ==
    ASSUME FileInv, WriteRest
    PROVE  TailerResult
<1> USE DEF WriteRest, MayAppend, follower, watching, env, circumstances
<1>0. TailerTypes /\ EnvTypes /\ Contents /\ AtWork
  BY FileInvParts DEF Parts
<1>1. /\ files' = [files EXCEPT ![log] = Append(files[log], TailOf(rec))]
      /\ log' = log /\ rotated' = rotated /\ rec' = rec /\ tpc = "rest" /\ tpc' = "idle"
      /\ present /\ torn' = torn /\ present' = present
  OBVIOUS
<1>2. UNCHANGED <<follower, watching, env>>
  OBVIOUS
<1>3. /\ log = Len(files) /\ Len(files) >= 1 /\ files \in Seq(Seq(Cell)) /\ Sound(files, rec + 1)
      /\ files[log] # <<>> /\ files[log][Len(files[log])] = HeadOf(rec)
  BY <1>0, <1>1, SMT DEF TailerTypes, AtWork, Contents
<1>4. rec \in Records /\ rec \in Int
  BY <1>0, <1>1, BoundsAssumption, SMT DEF TailerTypes, AtWork, Records
<1>5. /\ Sound(files', rec + 1) /\ Len(files') = Len(files) /\ Grown(files, files')
      /\ Closed(files'[log])
      /\ \A f \in DOMAIN files : f # log => files'[f] = files[f]
      /\ \A f \in DOMAIN files' : \A i \in DOMAIN files'[f] :
            (f \in DOMAIN files /\ i \in DOMAIN files[f]) \/ files'[f][i] = TailOf(rec)
  <2>1. /\ rec \in Records /\ Sound(files, rec + 1) /\ Len(files) >= 1
        /\ EndsIn(files[Len(files)], HeadOf(rec))
    BY <1>1, <1>3, <1>4 DEF EndsIn
  <2> DEFINE hs == [files EXCEPT ![Len(files)] = Append(files[Len(files)], TailOf(rec))]
  <2>2. /\ Sound(hs, rec + 1) /\ Len(hs) = Len(files) /\ Grown(files, hs)
        /\ Closed(hs[Len(files)])
        /\ \A f \in DOMAIN files : f # Len(files) => hs[f] = files[f]
        /\ \A f \in DOMAIN hs : \A i \in DOMAIN hs[f] :
              (f \in DOMAIN files /\ i \in DOMAIN files[f]) \/ hs[f][i] = TailOf(rec)
    BY ONLY <2>1, TailWritten
  <2>3. files' = hs
    BY <1>1, <1>3
  <2> HIDE DEF hs
  <2> QED
    <3>1. log = Len(files)
      BY <1>3
    <3> QED
      BY ONLY <2>2, <2>3, <3>1
<1>6. files' \in Seq(Seq(Cell)) /\ DOMAIN files' = DOMAIN files
  BY <1>1, <1>5 DEF Sound
<1>7. \A f \in DOMAIN files' : Closed(files'[f])
  BY <1>0, <1>3, <1>5, <1>6 DEF Contents
<1>8. TailerTypes'
  BY <1>0, <1>1, <1>5, <1>6 DEF TailerTypes
<1>9. Contents' /\ AtWork'
  BY <1>0, <1>1, <1>5, <1>7 DEF Contents, AtWork
<1>10. Written
  BY <1>1, <1>5, <1>7 DEF Written
<1> QED
  BY <1>1, <1>2, <1>4, <1>8, <1>9, <1>10, SMT DEF TailerResult

(* TailerWrites: the tailer only adds to the last file, in order. *)
LEMMA TailerWrites ==
    ASSUME FileInv, BeginAppend \/ TailerStep
    PROVE  TailerResult
BY BeginAppendWrites, ShiftWrites, RenameLogWrites, CreateLogWrites, WriteRecordWrites,
   WriteRestWrites
   DEF TailerStep

------------------------------------------------------------------------------
(* FileInv and FollowInv *)

(* GrownTypes: longer files leave the follower's variables in their types. *)
LEMMA GrownTypes ==
    ASSUME FileInv, TailerTypes', Written, UNCHANGED follower
    PROVE  FollowerTypes'
<1>0. FollowerTypes /\ TailerTypes
  BY FileInvParts DEF Parts
<1>1. Len(files) \in Nat /\ Len(files') \in Nat /\ Len(files) <= Len(files')
  BY <1>0, SMT DEF TailerTypes, Written, Grown
<1>2. 0..Len(files) \subseteq 0..Len(files')
  BY <1>1, SMT
<1> QED
  BY <1>0, <1>2 DEF FollowerTypes, follower

(* GrownFollow: and what it has open. *)
LEMMA GrownFollow ==
    ASSUME FileInv, FollowInv, TailerTypes', Written, UNCHANGED follower
    PROVE  FollowInv'
<1>0. FollowerTypes /\ TailerTypes
  BY FileInvParts DEF Parts
<1>1. files \in Seq(Seq(Cell)) /\ files' \in Seq(Seq(Cell)) /\ Grown(files, files')
  BY <1>0 DEF TailerTypes, Written
<1>2. ASSUME NEW f \in 1..Len(files) PROVE Len(files[f]) <= Len(files'[f])
  <2>1. f \in DOMAIN files /\ f \in DOMAIN files' /\ files[f] \in Seq(Cell) /\ files'[f] \in Seq(Cell)
    BY <1>1, FilesAre DEF Grown
  <2>2. DOMAIN files[f] \subseteq DOMAIN files'[f]
    BY <1>1, <2>1 DEF Grown
  <2>3. Len(files[f]) = 0 \/ Len(files[f]) \in DOMAIN files[f]
    BY <2>1, Cells, SMT
  <2>4. Len(files[f]) = 0 \/ Len(files[f]) \in DOMAIN files'[f]
    BY <2>2, <2>3
  <2> QED
    BY <2>1, <2>4, Cells, SMT
<1>3. \A f \in 1..Len(files) : Len(files[f]) \in Nat /\ Len(files'[f]) \in Nat
  BY <1>1, SMT DEF Grown
<1>4. /\ inode # 0 => inode \in 1..Len(files)
      /\ handle # 0 => handle \in 1..Len(files)
      /\ pos \in Nat /\ len \in Nat
  BY <1>0, SMT DEF FollowerTypes, TailerTypes
<1>5. /\ inode # 0 => pos <= Len(files'[inode])
      /\ fpc \in {"drain", "read"} => len <= Len(files'[handle])
  BY <1>2, <1>3, <1>4, SMT DEF FollowInv
<1> QED
  BY <1>5 DEF FollowInv, follower

(* DecodedTypes: what a buffer is decoded into. *)
LEMMA DecodedTypes ==
    ASSUME NEW c \in Seq(Cell)
    PROVE  Decode(c) \in Seq(Records) /\ Remainder(c) \in Seq(Cell)
BY DecodeFinds, RemainderIs DEF Found

(* Suffix: the rest of a file. *)
LEMMA Suffix ==
    ASSUME NEW q \in Seq(Cell), NEW p \in Nat, p <= Len(q)
    PROVE  /\ SubSeq(q, p + 1, Len(q)) \in Seq(Cell)
           /\ Len(SubSeq(q, p + 1, Len(q))) = Len(q) - p
           /\ \A i \in 1..Len(q) - p : SubSeq(q, p + 1, Len(q))[i] = q[p + i]
<1>1. Len(q) \in Nat
  BY SMT
<1>2. \A i \in (p + 1)..Len(q) : q[i] \in Cell
  BY SMT
<1>3. SubSeq(q, p + 1, Len(q)) = [i \in 1..Len(q) - p |-> q[i + p]]
  BY <1>1, SMT
<1>4. /\ SubSeq(q, p + 1, Len(q)) \in Seq(Cell)
      /\ Len(SubSeq(q, p + 1, Len(q))) = Len(q) - p
  BY <1>1, <1>2, SMT
<1> QED
  BY <1>1, <1>3, <1>4, SMT

(* RestTypes: what DrainRotated sends, and what ReadEvents reads. *)
LEMMA RestTypes ==
    ASSUME FileInv, FollowInv
    PROVE  /\ fpc = "drain" => RotatedRemainder \in Seq(Records)
           /\ fpc = "read" =>
                 LET c == leftover \o SubSeq(files[handle], pos + 1, Len(files[handle])) IN
                 Decode(c) \in Seq(Records) /\ Remainder(c) \in Seq(Cell)
<1>0. FollowerTypes /\ TailerTypes
  BY FileInvParts DEF Parts
<1>1. \A f \in 1..Len(files) : files[f] \in Seq(Cell)
  BY <1>0, SMT DEF TailerTypes
<1>2. CASE fpc = "drain"
  <2>1. inode \in 1..Len(files) /\ pos \in Nat /\ pos <= Len(files[inode])
    BY <1>0, <1>2, SMT DEF FollowerTypes, TailerTypes, FollowInv
  <2>2. files[inode] \in Seq(Cell)
    BY <1>1, <2>1
  <2>3. Decode(SubSeq(files[inode], pos + 1, Len(files[inode]))) \in Seq(Records)
    BY <2>1, <2>2, Suffix, DecodedTypes
  <2> QED
    BY <1>2, <2>3, SMT DEF RotatedRemainder
<1>3. CASE fpc = "read"
  <2>1. /\ handle \in 1..Len(files) /\ pos \in Nat /\ pos <= Len(files[handle])
        /\ leftover \in Seq(Cell)
    BY <1>0, <1>3, SMT DEF FollowerTypes, TailerTypes, FollowInv
  <2>2. SubSeq(files[handle], pos + 1, Len(files[handle])) \in Seq(Cell)
    BY <1>1, <2>1, Suffix
  <2>3. leftover \o SubSeq(files[handle], pos + 1, Len(files[handle])) \in Seq(Cell)
    BY <2>1, <2>2, SMT
  <2> QED
    BY <1>3, <2>3, DecodedTypes
<1> QED
  BY <1>2, <1>3

(* FilesStay: the steps of the follower and of the watcher. *)
LEMMA FilesStay ==
    ASSUME FileInv, UNCHANGED <<tailer, env>>, FollowerTypes', WatcherTypes'
    PROVE  FileInv'
<1>0. TailerTypes /\ EnvTypes /\ Contents /\ AtWork
  BY FileInvParts DEF Parts
<1>1. TailerTypes' /\ EnvTypes' /\ Contents' /\ AtWork'
  BY <1>0 DEF TailerTypes, EnvTypes, Contents, AtWork, tailer, env, circumstances
<1> QED
  BY <1>1, PartsFileInv DEF Parts

(* WatcherStays: what the watcher leaves alone stays well typed. *)
LEMMA WatcherStays ==
    ASSUME FileInv, UNCHANGED watching
    PROVE  WatcherTypes'
BY FileInvParts DEF Parts, WatcherTypes, watching

(* OpenFollows: a poll opens events.log and compares inodes. *)
LEMMA OpenFollows ==
    ASSUME FileInv, FollowInv, Open
    PROVE  FileInv' /\ FollowInv'
<1> USE DEF Open, EndPoll
<1>0. FollowerTypes /\ TailerTypes
  BY FileInvParts DEF Parts
<1>1. /\ UNCHANGED <<tailer, env>> /\ UNCHANGED watching
      /\ files' = files /\ pos' = pos /\ leftover' = leftover /\ final' = final
      /\ delivered' = delivered
  BY DEF tailer
<1>2. Len(files) \in Nat /\ \A f \in 1..Len(files) : Len(files[f]) \in Nat
  BY <1>0, SMT DEF TailerTypes
<1>3. CASE log = 0
  <2>1. /\ handle' = handle /\ len' = len /\ first' = first /\ inode' = inode
        /\ fpc' \in {"done", "sleep"}
    BY <1>3
  <2>2. FollowerTypes'
    BY <1>0, <1>1, <2>1 DEF FollowerTypes
  <2>3. FollowInv'
    BY <1>1, <2>1 DEF FollowInv
  <2> QED
    BY <1>1, <2>2, <2>3, FilesStay, WatcherStays
<1>4. CASE log # 0
  <2>1. log = Len(files) /\ log \in 1..Len(files) /\ Len(files[log]) \in Nat
    BY <1>0, <1>2, <1>4, SMT DEF TailerTypes
  <2>2. /\ handle' = log /\ len' = Len(files[log])
        /\ first' = IF first = 0 THEN log ELSE first
        /\ inode' = IF inode = 0 THEN log ELSE inode
        /\ IF inode # 0 /\ inode # log THEN fpc' = "drain"
           ELSE fpc' \in {"done", "sleep", "read"}
    BY <1>4
  <2>3. pos \in Nat /\ inode \in 0..Len(files) /\ first \in 0..Len(files)
    BY <1>0 DEF FollowerTypes
  <2>4. FollowerTypes'
    <3>1. fpc' \in {"poll", "drain", "read", "sleep", "done"}
      BY <2>2
    <3>2. handle' \in 0..Len(files) /\ first' \in 0..Len(files) /\ inode' \in 0..Len(files)
      BY <1>2, <2>1, <2>2, <2>3, SMT
    <3> QED
      BY <1>0, <1>1, <2>1, <2>2, <3>1, <3>2 DEF FollowerTypes
  <2>5. CASE inode = 0
    <3>1. first = 0 /\ pos = 0
      BY <2>5 DEF FollowInv
    <3>2. first' = log /\ inode' = log /\ fpc' \in {"done", "sleep", "read"}
      BY <2>2, <2>5, <3>1
    <3> QED
      BY <1>1, <1>2, <2>1, <2>2, <2>4, <3>1, <3>2, FilesStay, WatcherStays, SMT DEF FollowInv
  <2>6. CASE inode # 0
    <3>1. inode' = inode /\ first \in 1..inode /\ pos <= Len(files[inode]) /\ first # 0
      BY <2>2, <2>3, <2>6, SMT DEF FollowInv
    <3>2. first' = first
      BY <2>2, <3>1
    <3>3. inode = log \/ (inode < log /\ fpc' = "drain")
      BY <1>2, <2>1, <2>2, <2>3, <2>6, SMT
    <3>4. fpc' = "drain" => inode < log
      BY <2>2, <2>6, <3>3
    <3>5. fpc' = "read" => inode = log
      BY <3>3
    <3> QED
      BY <1>1, <2>1, <2>2, <2>4, <2>6, <3>1, <3>2, <3>4, <3>5, FilesStay, WatcherStays, SMT
         DEF FollowInv
  <2> QED
    BY <2>5, <2>6
<1> QED
  BY <1>3, <1>4

(* DrainRotatedFollows: the rest of the rotated file is read. *)
LEMMA DrainRotatedFollows ==
    ASSUME FileInv, FollowInv, DrainRotated
    PROVE  FileInv' /\ FollowInv'
<1> USE DEF DrainRotated, EndPoll
<1>0. FollowerTypes /\ TailerTypes
  BY FileInvParts DEF Parts
<1>1. /\ UNCHANGED <<tailer, env>> /\ UNCHANGED watching
      /\ files' = files /\ pos' = 0 /\ leftover' = <<>> /\ final' = final /\ inode' = handle
      /\ handle' = handle /\ len' = len /\ first' = first /\ fpc = "drain"
      /\ delivered' = delivered \o RotatedRemainder
      /\ fpc' \in {"done", "sleep", "read"}
  BY DEF tailer
<1>2. delivered' \in Seq(Records)
  <2>1. RotatedRemainder \in Seq(Records) /\ delivered \in Seq(Records)
    BY <1>0, <1>1, RestTypes DEF FollowerTypes
  <2> QED
    BY <1>1, <2>1, SMT
<1>3. FollowerTypes'
  BY <1>0, <1>1, <1>2, SMT DEF FollowerTypes
<1>4. /\ first \in 1..inode /\ inode < handle /\ len <= Len(files[handle]) /\ len \in Nat
      /\ inode \in Nat /\ handle \in 1..Len(files)
  BY <1>0, <1>1, SMT DEF FollowInv, FollowerTypes, TailerTypes
<1>5. first \in 1..handle /\ 0 <= Len(files[handle]) /\ 0 <= len
  BY <1>0, <1>4, SMT DEF TailerTypes
<1>6. FollowInv'
  BY <1>1, <1>4, <1>5 DEF FollowInv
<1> QED
  BY <1>1, <1>3, <1>6, FilesStay, WatcherStays

(* ReadEventsFollows: the follower reads to the length it saw. *)
LEMMA ReadEventsFollows ==
    ASSUME FileInv, FollowInv, ReadEvents
    PROVE  FileInv' /\ FollowInv'
<1> DEFINE c == leftover \o SubSeq(files[handle], pos + 1, Len(files[handle]))
<1>0. FollowerTypes /\ TailerTypes
  BY FileInvParts DEF Parts
<1>1. /\ UNCHANGED <<tailer, env>> /\ UNCHANGED watching
      /\ files' = files /\ pos' = len /\ leftover' = Remainder(c) /\ final' = final
      /\ inode' = inode /\ handle' = handle /\ len' = len /\ first' = first /\ fpc = "read"
      /\ delivered' = delivered \o Decode(c)
      /\ fpc' \in {"done", "sleep"}
  BY DEF ReadEvents, EndPoll, tailer
<1>2. Decode(c) \in Seq(Records) /\ Remainder(c) \in Seq(Cell)
  BY <1>1, RestTypes
<1> HIDE DEF c
<1>3. delivered' \in Seq(Records)
  BY <1>0, <1>1, <1>2, SMT DEF FollowerTypes
<1>4. FollowerTypes'
  BY <1>0, <1>1, <1>2, <1>3 DEF FollowerTypes
<1>5. FollowInv'
  BY <1>1 DEF FollowInv
<1> QED
  BY <1>1, <1>4, <1>5, FilesStay, WatcherStays

(* WakeFollows: the follower wakes, is told to stop, or ends. *)
LEMMA WakeFollows ==
    ASSUME FileInv, FollowInv, Wake \/ TakeStop \/ FollowerEnds
    PROVE  FileInv' /\ FollowInv'
<1>0. FollowerTypes
  BY FileInvParts DEF Parts
<1>1. /\ UNCHANGED <<tailer, env>> /\ UNCHANGED watching
      /\ UNCHANGED <<files, pos, leftover, inode, handle, len, first, delivered>>
      /\ final' \in {final, TRUE} /\ fpc' \in {"poll", "done"}
  BY DEF Wake, TakeStop, FollowerEnds, tailer
<1>2. FollowerTypes'
  <2>1. final' \in BOOLEAN /\ fpc' \in {"poll", "drain", "read", "sleep", "done"}
    BY <1>0, <1>1 DEF FollowerTypes
  <2> QED
    BY <1>0, <1>1, <2>1 DEF FollowerTypes
<1>3. FollowInv'
  BY <1>1 DEF FollowInv
<1> QED
  BY <1>1, <1>2, <1>3, FilesStay, WatcherStays

(* WatcherFollows: the watcher and the environment leave the files and the   *)
(* follower alone; a deletion takes the names of the files, not what is open. *)
LEMMA WatcherFollows ==
    ASSUME FileInv, FollowInv, WatchEnds \/ WatchGoesOn \/ WatchFails \/ WatchClosed
    PROVE  FileInv' /\ FollowInv'
<1>0. FollowerTypes /\ WatcherTypes
  BY FileInvParts DEF Parts
<1>1. UNCHANGED <<tailer, env>> /\ UNCHANGED follower /\ files' = files
  BY DEF WatchEnds, WatchGoesOn, WatchFails, WatchClosed, tailer
<1>2. FollowerTypes' /\ FollowInv'
  BY <1>0, <1>1 DEF FollowerTypes, FollowInv, follower
<1>3. WatcherTypes'
  <2>1. CASE WatchEnds
    BY <1>0, <2>1, BoundsAssumption, SMT DEF WatchEnds, WatcherTypes
  <2>2. CASE WatchGoesOn
    BY <1>0, <2>2, BoundsAssumption, SMT DEF WatchGoesOn, WatcherTypes
  <2>3. CASE WatchFails
    BY <1>0, <2>3, BoundsAssumption, SMT DEF WatchFails, WatcherTypes
  <2>4. CASE WatchClosed
    BY <1>0, <2>4, BoundsAssumption DEF WatchClosed, WatcherTypes
  <2> QED
    BY <2>1, <2>2, <2>3, <2>4
<1> QED
  BY <1>1, <1>2, <1>3, FilesStay

(* TaskChangesFollows: the task of the container changes. *)
LEMMA TaskChangesFollows ==
    ASSUME FileInv, FollowInv, TaskChanges
    PROVE  FileInv' /\ FollowInv'
<1>0. Parts
  BY FileInvParts
<1>1. UNCHANGED <<tailer, follower, watching, present, circumstances>>
      /\ taskState' \in {"running", "stopped", "none"}
  BY DEF TaskChanges
<1>2. TailerTypes' /\ FollowerTypes' /\ WatcherTypes' /\ FollowInv'
  BY <1>0, <1>1, SMT DEF Parts, TailerTypes, FollowerTypes, WatcherTypes, FollowInv, tailer, follower,
                    watching
<1>3. EnvTypes' /\ Contents' /\ AtWork'
  BY <1>0, <1>1 DEF Parts, EnvTypes, Contents, AtWork, tailer, circumstances
<1> QED
  BY <1>2, <1>3, PartsFileInv DEF Parts

(* ContainerDeletedFollows: the files lose their names. *)
LEMMA ContainerDeletedFollows ==
    ASSUME FileInv, FollowInv, ContainerDeleted
    PROVE  FileInv' /\ FollowInv'
<1>0. Parts
  BY FileInvParts
<1>1. /\ UNCHANGED <<files, rec, tpc>> /\ UNCHANGED <<follower, watching, taskState, circumstances>>
      /\ log' = 0 /\ rotated' = [n \in 1..MaxRotated |-> 0] /\ present' = FALSE
  BY DEF ContainerDeleted
<1>2. TailerTypes'
  <2>1. Len(files) \in Nat
    BY <1>0, SMT DEF Parts, TailerTypes
  <2>2. rotated' \in [1..MaxRotated -> 0..Len(files)]
    BY <1>1, <2>1, SMT
  <2> QED
    BY <1>0, <1>1, <2>2 DEF Parts, TailerTypes
<1>3. FollowerTypes' /\ WatcherTypes' /\ FollowInv'
  BY <1>0, <1>1 DEF Parts, FollowerTypes, WatcherTypes, FollowInv, follower, watching
<1>4. EnvTypes' /\ Contents' /\ AtWork'
  BY <1>0, <1>1 DEF Parts, EnvTypes, Contents, AtWork, circumstances
<1> QED
  BY <1>2, <1>3, <1>4, PartsFileInv DEF Parts

(* InitFollows: at first there is no file. *)
LEMMA InitFollows ==
    ASSUME Init
    PROVE  FileInv /\ FollowInv
<1>1. TypeOK
  <2>1. files = <<>> /\ files \in Seq(Seq(Cell)) /\ Len(files) = 0
    BY SMT DEF Init
  <2>2. rotated \in [1..MaxRotated -> 0..Len(files)]
    BY <2>1, SMT DEF Init
  <2>3. leftover \in Seq(Cell) /\ delivered \in Seq(Records)
    BY SMT DEF Init
  <2>4. /\ log \in 0..Len(files) /\ rec \in 0..MaxRecords /\ pos \in Nat /\ len \in Nat
        /\ inode \in 0..Len(files) /\ handle \in 0..Len(files) /\ first \in 0..Len(files)
        /\ errors \in 0..MaxErrors
    BY <2>1, BoundsAssumption, SMT DEF Init
  <2>5. /\ final \in BOOLEAN /\ present \in BOOLEAN
        /\ torn \in BOOLEAN /\ overlap \in BOOLEAN /\ fails \in BOOLEAN
    BY DEF Init
  <2>6. /\ tpc \in {"idle", "shift", "rename", "create", "write", "rest"}
        /\ fpc \in {"poll", "drain", "read", "sleep", "done"}
        /\ watcher \in {"watching", "sent", "gone"}
        /\ taskState \in {"running", "stopped", "none"}
    BY DEF Init
  <2> QED
    BY <2>1, <2>2, <2>3, <2>4, <2>5, <2>6 DEF TypeOK
<1>2. files = <<>> /\ Len(files) = 0 /\ DOMAIN files = {}
  BY SMT DEF Init
<1>3. Ordered(files) /\ Below(files, rec + 1) /\ Below(files, rec)
  BY <1>2 DEF Ordered, Below
<1>4. FileInv
  BY <1>1, <1>2, <1>3, BoundsAssumption, SMT DEF Init, FileInv
<1>5. FollowInv
  BY <1>2 DEF Init, FollowInv
<1> QED
  BY <1>4, <1>5

(* NextFollows: every step keeps both. *)
LEMMA NextFollows ==
    ASSUME FileInv, FollowInv, [Next]_vars
    PROVE  FileInv' /\ FollowInv'
<1>1. CASE BeginAppend \/ TailerStep
  <2>1. TailerResult
    BY <1>1, TailerWrites
  <2>2. TailerTypes' /\ Contents' /\ AtWork' /\ Written /\ UNCHANGED <<follower, watching, env>>
    BY <2>1 DEF TailerResult
  <2>3. FollowerTypes' /\ FollowInv'
    BY <2>2, GrownTypes, GrownFollow
  <2>4. WatcherTypes' /\ EnvTypes'
    BY <2>2, FileInvParts DEF Parts, WatcherTypes, EnvTypes, watching, env, circumstances
  <2> QED
    BY <2>2, <2>3, <2>4, PartsFileInv DEF Parts
<1>2. CASE FollowerStep \/ TakeStop \/ FollowerEnds
  BY <1>2, OpenFollows, DrainRotatedFollows, ReadEventsFollows, WakeFollows DEF FollowerStep
<1>3. CASE WatchEnds \/ WatchGoesOn \/ WatchFails \/ WatchClosed
  BY <1>3, WatcherFollows
<1>4. CASE TaskChanges \/ ContainerDeleted
  BY <1>4, TaskChangesFollows, ContainerDeletedFollows
<1>5. CASE UNCHANGED vars
  <2>1. UNCHANGED <<tailer, env>> /\ UNCHANGED follower /\ UNCHANGED watching /\ files' = files
    BY <1>5 DEF vars, tailer
  <2>2. FollowerTypes' /\ FollowInv'
    BY <2>1, FileInvParts DEF Parts, FollowerTypes, FollowInv, follower
  <2> QED
    BY <2>1, <2>2, FilesStay, WatcherStays
<1> QED
  BY <1>1, <1>2, <1>3, <1>4, <1>5 DEF Next

(* FilesAndFollower: FileInv and FollowInv hold. *)
THEOREM FilesAndFollower == Spec => [](FileInv /\ FollowInv)
<1>1. Init => FileInv /\ FollowInv
  BY InitFollows
<1>2. FileInv /\ FollowInv /\ [Next]_vars => (FileInv /\ FollowInv)'
  BY NextFollows
<1> QED
  BY <1>1, <1>2, PTL DEF Spec

(* TypeCorrect: LogFollower is type correct, whatever the tailer, the        *)
(* follower of follow_loop, the watcher and the environment do.              *)
THEOREM TypeCorrect == Spec => []TypeOK
<1>1. FileInv => TypeOK
  BY DEF FileInv
<1> QED
  BY <1>1, FilesAndFollower, PTL

------------------------------------------------------------------------------
(* What a poll reads of a file *)

RisingSeq(s) == \A i, j \in DOMAIN s : i < j => s[i] < s[j]

(* RisingConcat: one sequence that rises behind another. *)
LEMMA RisingConcat ==
    ASSUME NEW a \in Seq(Records), NEW b \in Seq(Records), RisingSeq(a), RisingSeq(b),
           \A i \in DOMAIN a, j \in DOMAIN b : a[i] < b[j]
    PROVE  RisingSeq(a \o b)
<1> DEFINE s == a \o b
<1>1. /\ Len(a) \in Nat /\ Len(b) \in Nat /\ DOMAIN a = 1..Len(a) /\ DOMAIN b = 1..Len(b)
      /\ DOMAIN s = 1..Len(a) + Len(b)
      /\ \A k \in DOMAIN s : s[k] = IF k <= Len(a) THEN a[k] ELSE b[k - Len(a)]
  BY SMT
<1> HIDE DEF s
<1>2. ASSUME NEW i \in DOMAIN s, NEW j \in DOMAIN s, i < j
      PROVE  s[i] < s[j]
  <2>1. CASE j <= Len(a)
    <3>1. i \in DOMAIN a /\ j \in DOMAIN a /\ s[i] = a[i] /\ s[j] = a[j]
      BY <1>1, <1>2, <2>1, SMT
    <3> QED
      BY <1>2, <3>1 DEF RisingSeq
  <2>2. CASE i <= Len(a) /\ ~(j <= Len(a))
    <3>1. i \in DOMAIN a /\ j - Len(a) \in DOMAIN b /\ s[i] = a[i] /\ s[j] = b[j - Len(a)]
      BY <1>1, <1>2, <2>2, SMT
    <3> QED
      BY <3>1
  <2>3. CASE ~(i <= Len(a))
    <3>1. /\ i - Len(a) \in DOMAIN b /\ j - Len(a) \in DOMAIN b /\ i - Len(a) < j - Len(a)
          /\ s[i] = b[i - Len(a)] /\ s[j] = b[j - Len(a)]
      BY <1>1, <1>2, <2>3, SMT
    <3> QED
      BY <3>1 DEF RisingSeq
  <2> QED
    BY <1>1, <2>1, <2>2, <2>3
<1> QED
  BY <1>2 DEF RisingSeq, s

(* ConcatFrom: where the elements of a concatenation come from. *)
LEMMA ConcatFrom ==
    ASSUME NEW a \in Seq(Records), NEW b \in Seq(Records), NEW k \in DOMAIN (a \o b)
    PROVE  \/ \E i \in DOMAIN a : (a \o b)[k] = a[i]
           \/ \E j \in DOMAIN b : (a \o b)[k] = b[j]
<1>1. /\ Len(a) \in Nat /\ Len(b) \in Nat /\ DOMAIN a = 1..Len(a) /\ DOMAIN b = 1..Len(b)
      /\ k \in 1..Len(a) + Len(b)
      /\ (a \o b)[k] = IF k <= Len(a) THEN a[k] ELSE b[k - Len(a)]
  BY SMT
<1>2. CASE k <= Len(a)
  BY <1>1, <1>2, SMT
<1>3. CASE ~(k <= Len(a))
  <2>1. k - Len(a) \in DOMAIN b /\ (a \o b)[k] = b[k - Len(a)]
    BY <1>1, <1>3, SMT
  <2> QED
    BY <2>1
<1> QED
  BY <1>2, <1>3

(* A buffer with the cells of a file behind its first p. *)
IsRest(c, q, p) ==
    /\ c \in Seq(Cell) /\ q \in Seq(Cell) /\ p \in 0..Len(q)
    /\ Len(c) = Len(q) - p
    /\ \A j \in 1..Len(c) : c[j] = q[p + j]

(* RestDecoded: it decodes to records of the file behind p, in order. *)
LEMMA RestDecoded ==
    ASSUME NEW c, NEW q, NEW p, IsRest(c, q, p), Rising(q)
    PROVE  /\ Decode(c) \in Seq(Records)
           /\ RisingSeq(Decode(c))
           /\ \A k \in DOMAIN Decode(c) :
                 \E i \in DOMAIN q : /\ p < i /\ i < Len(q) /\ q[i].half = "head"
                                     /\ Decode(c)[k] = q[i].rec
<1>0. c \in Seq(Cell) /\ q \in Seq(Cell) /\ p \in 0..Len(q) /\ Len(c) = Len(q) - p
  BY DEF IsRest
<1>1. Found(c, Len(c), Decode(c))
  BY <1>0, DecodeFinds
<1> DEFINE b == Decode(c)
<1>2. /\ Len(c) \in Nat /\ Len(q) \in Nat /\ DOMAIN c = 1..Len(c) /\ DOMAIN q = 1..Len(q)
  BY <1>0, SMT
<1>3. \A j \in DOMAIN c : p + j \in DOMAIN q /\ c[j] = q[p + j]
  BY <1>0, <1>2, SMT DEF IsRest
<1>4. RisingHeads(c)
  <2> SUFFICES ASSUME NEW i \in DOMAIN c, NEW j \in DOMAIN c, i < j, RecordAt(c, i), RecordAt(c, j)
               PROVE  c[i].rec < c[j].rec
    BY DEF RisingHeads
  <2>1. p + i < p + j
    BY <1>0, <1>2, SMT
  <2>2. q[p + j].half = "head"
    BY <1>3 DEF RecordAt
  <2> QED
    BY <1>3, <2>1, <2>2 DEF Rising
<1>5. ASSUME NEW k \in DOMAIN b
      PROVE  \E i \in DOMAIN q : p < i /\ i < Len(q) /\ q[i].half = "head" /\ b[k] = q[i].rec
  <2>1. PICK j \in 1..Len(c) : RecordAt(c, j) /\ b[k] = c[j].rec
    BY <1>1 DEF Found
  <2>2. /\ p + j \in DOMAIN q /\ c[j] = q[p + j] /\ c[j].half = "head" /\ j < Len(c)
    BY <1>2, <1>3, <2>1 DEF RecordAt
  <2>3. p < p + j /\ p + j < Len(q)
    BY <1>0, <1>2, <2>2, SMT
  <2> QED
    BY <2>1, <2>2, <2>3
<1> QED
  BY <1>1, <1>4, <1>5 DEF Found, RisingSeq

(* RestComplete: to all of them, when both ends are ends of records. *)
LEMMA RestComplete ==
    ASSUME NEW c, NEW q, NEW p, IsRest(c, q, p), Alternates(q), Closed(q),
           p = 0 \/ q[p].half = "tail",
           NEW i \in DOMAIN q, p < i
    PROVE  \E k \in DOMAIN Decode(c) : Decode(c)[k] = q[i].rec
<1>0. c \in Seq(Cell) /\ q \in Seq(Cell) /\ p \in 0..Len(q) /\ Len(c) = Len(q) - p
  BY DEF IsRest
<1>1. Found(c, Len(c), Decode(c))
  BY <1>0, DecodeFinds
<1>2. /\ Len(c) \in Nat /\ Len(q) \in Nat /\ DOMAIN c = 1..Len(c) /\ DOMAIN q = 1..Len(q)
      /\ \A j \in DOMAIN q : q[j].half \in {"head", "tail"}
  BY <1>0, Cells
<1>3. \A j \in DOMAIN c : p + j \in DOMAIN q /\ c[j] = q[p + j]
  BY <1>0, <1>2, SMT DEF IsRest
<1>4. ASSUME NEW h \in DOMAIN q, p < h, q[h].half = "head"
      PROVE  \E k \in DOMAIN Decode(c) : Decode(c)[k] = q[h].rec
  <2> DEFINE j == h - p
  <2>h. /\ h \in Nat /\ p \in Nat /\ p < h /\ h <= Len(q) /\ Len(q) \in Nat
        /\ Len(c) = Len(q) - p /\ DOMAIN c = 1..Len(c)
    BY <1>0, <1>2, <1>4, SMT
  <2>1. j \in DOMAIN c /\ p + j = h /\ j \in 1..Len(c)
    BY ONLY <2>h, SMT
  <2>2. c[j] = q[h]
    BY <1>3, <2>1
  <2>3. h # Len(q)
    BY <1>2, <1>4, SMT DEF Closed
  <2>4. h < Len(q) /\ q[h + 1] = TailOf(q[h].rec) /\ (h = 1 \/ q[h - 1].half = "tail")
    BY <1>2, <1>4, <2>3, SMT DEF Alternates
  <2>i. h < Len(q)
    BY <2>4
  <2>5. j + 1 \in DOMAIN c /\ p + (j + 1) = h + 1 /\ j < Len(c)
    BY ONLY <2>h, <2>i, SMT
  <2>6. c[j + 1] = TailOf(c[j].rec)
    BY <1>3, <2>2, <2>4, <2>5
  <2>7. j = 1 \/ c[j - 1].half = "tail"
    <3>1. CASE j # 1
      <4>1. j - 1 \in DOMAIN c /\ p + (j - 1) = h - 1 /\ h # 1
        BY ONLY <2>h, <3>1, SMT
      <4> QED
        BY <1>3, <2>4, <4>1
    <3> QED
      BY <3>1
  <2>8. RecordAt(c, j)
    BY <1>4, <2>2, <2>5, <2>6, <2>7 DEF RecordAt
  <2> HIDE DEF j
  <2> QED
    BY <1>1, <2>1, <2>2, <2>8 DEF Found
<1>5. CASE q[i].half = "head"
  BY <1>4, <1>5
<1>6. CASE q[i].half = "tail"
  <2>1. i > 1 /\ q[i - 1] = HeadOf(q[i].rec)
    BY <1>6 DEF Alternates
  <2>2. q[i - 1].half = "head" /\ q[i - 1].rec = q[i].rec
    BY <2>1, SMT DEF HeadOf
  <2>3. i - 1 \in DOMAIN q /\ i - 1 # p
    BY <1>0, <1>2, <2>1, <2>2, SMT
  <2>4. p < i - 1
    BY <1>0, <1>2, <2>3, SMT
  <2> QED
    BY <1>4, <2>2, <2>3, <2>4
<1> QED
  BY <1>2, <1>5, <1>6

(* RestRemainder: what stays for the next poll. *)
LEMMA RestRemainder ==
    ASSUME NEW c, NEW q, NEW p, IsRest(c, q, p), Alternates(q)
    PROVE  /\ p = Len(q) => Remainder(c) = <<>>
           /\ p < Len(q) /\ q[Len(q)].half = "tail" => Remainder(c) = <<>>
           /\ p < Len(q) /\ q[Len(q)].half = "head" => Remainder(c) = <<q[Len(q)]>>
<1>0. c \in Seq(Cell) /\ q \in Seq(Cell) /\ p \in 0..Len(q) /\ Len(c) = Len(q) - p
  BY DEF IsRest
<1>2. /\ Len(c) \in Nat /\ Len(q) \in Nat /\ DOMAIN c = 1..Len(c) /\ DOMAIN q = 1..Len(q)
  BY <1>0, SMT
<1>3. \A j \in DOMAIN c : p + j \in DOMAIN q /\ c[j] = q[p + j]
  BY <1>0, <1>2, SMT DEF IsRest
<1>4. ASSUME p = Len(q) PROVE Remainder(c) = <<>>
  <2>1. c = <<>>
    BY <1>0, <1>4, SMT
  <2> QED
    BY <1>0, <2>1, RemainderIs DEF Closed
<1>5. ASSUME p < Len(q)
      PROVE  c # <<>> /\ Len(c) \in DOMAIN c /\ p + Len(c) = Len(q) /\ c[Len(c)] = q[Len(q)]
  BY <1>0, <1>2, <1>3, <1>5, SMT
<1>6. ASSUME p < Len(q), q[Len(q)].half = "tail" PROVE Remainder(c) = <<>>
  <2>1. Closed(c)
    BY <1>5, <1>6 DEF Closed
  <2> QED
    BY <1>0, <2>1, RemainderIs
<1>7. ASSUME p < Len(q), q[Len(q)].half = "head" PROVE Remainder(c) = <<q[Len(q)]>>
  <2>1. Len(q) = 1 \/ q[Len(q) - 1].half = "tail"
    BY <1>2, <1>5, <1>3, <1>7 DEF Alternates
  <2>2. Len(c) = 1 \/ c[Len(c) - 1].half = "tail"
    <3>1. CASE Len(c) # 1
      <4>1. Len(c) - 1 \in DOMAIN c /\ p + (Len(c) - 1) = Len(q) - 1 /\ Len(q) # 1
        BY <1>0, <1>2, <1>5, <1>7, <3>1, SMT
      <4> QED
        BY <1>3, <2>1, <4>1
    <3> QED
      BY <3>1
  <2>3. c[Len(c)].half # "tail"
    BY <1>5, <1>7
  <2> QED
    BY <1>0, <1>5, <1>7, <2>2, <2>3, RemainderIs
<1> QED
  BY <1>4, <1>6, <1>7

------------------------------------------------------------------------------
(* OrderInv *)

UpTo(s, r) == \A d \in DOMAIN s : s[d] <= r
Under(s, r) == \A d \in DOMAIN s : s[d] < r

LeftoverIs(q, p, l) ==
    \/ l = <<>> /\ (p = 0 \/ q[p].half = "tail")
    \/ p > 0 /\ q[p].half = "head" /\ l = <<q[p]>>

AllAhead(s, fs, n, p, l) ==
    \A d \in DOMAIN s, f \in n..Len(fs) : \A i \in DOMAIN fs[f] :
        fs[f][i].half = "head" /\ (f = n => i + Len(l) > p) => s[d] < fs[f][i].rec

SentOrder ==
    /\ RisingSeq(delivered)
    /\ UpTo(delivered, rec)
    /\ tpc \notin {"idle", "rest"} => Under(delivered, rec)
    /\ fpc \in {"drain", "read"} => len = Len(files[handle])
    /\ inode # 0 => /\ LeftoverIs(files[inode], pos, leftover)
                    /\ AllAhead(delivered, files, inode, pos, leftover)

(* OrderParts: SentOrder is what OrderInv says as long as no poll overlaps. *)
LEMMA OrderParts ==
    /\ OrderInv /\ ~overlap => SentOrder
    /\ (~overlap => SentOrder)' => OrderInv'
<1>1. OrderInv /\ ~overlap => SentOrder
  BY DEF OrderInv, SentOrder, DeliveredInOrder, RisingSeq, UpTo, Under, LeftoverIs, AllAhead, Ahead
<1>2. (~overlap => SentOrder)' => OrderInv'
  BY DEF OrderInv, SentOrder, DeliveredInOrder, RisingSeq, UpTo, Under, LeftoverIs, AllAhead, Ahead
<1> QED
  BY <1>1, <1>2

(* The heads of a file behind its first p come after all that was sent. *)
HeadsAfter(s, q, p) ==
    \A d \in DOMAIN s, i \in DOMAIN q : q[i].half = "head" /\ p < i => s[d] < q[i].rec

(* RestSent: the records of a file behind p are sent after the others. *)
LEMMA RestSent ==
    ASSUME NEW s \in Seq(Records), NEW fs, NEW r \in Nat, Sound(fs, r + 1),
           NEW n \in DOMAIN fs, NEW p, NEW c, IsRest(c, fs[n], p), HeadsAfter(s, fs[n], p),
           RisingSeq(s), UpTo(s, r)
    PROVE  /\ RisingSeq(s \o Decode(c))
           /\ UpTo(s \o Decode(c), r)
           /\ Under(s, r) /\ Below(fs, r) => Under(s \o Decode(c), r)
<1> DEFINE q == fs[n]
           b == Decode(c)
<1>0. fs \in Seq(Seq(Cell)) /\ q \in Seq(Cell) /\ Rising(q)
  BY FilesAre DEF Sound, Ordered
<1>1. /\ b \in Seq(Records) /\ RisingSeq(b)
      /\ \A k \in DOMAIN b : \E i \in DOMAIN q : /\ p < i /\ i < Len(q) /\ q[i].half = "head"
                                                 /\ b[k] = q[i].rec
  BY <1>0, RestDecoded, SMT
<1>2. \A i \in DOMAIN q : q[i].rec \in Int /\ q[i].rec < r + 1
  BY <1>0, Cells DEF Sound, Below
<1> HIDE DEF b, q
<1>3. \A d \in DOMAIN s, k \in DOMAIN b : s[d] < b[k]
  BY <1>1 DEF HeadsAfter, q
<1>4. RisingSeq(s \o b)
  BY <1>1, <1>3, RisingConcat
<1>5. UpTo(b, r)
  BY <1>1, <1>2, SMT DEF UpTo
<1>6. Below(fs, r) => Under(b, r)
  BY <1>1 DEF Below, Under, q
<1>7. UpTo(s \o b, r)
  BY <1>1, <1>5, ConcatFrom DEF UpTo
<1>8. Under(s, r) /\ Under(b, r) => Under(s \o b, r)
  BY <1>1, ConcatFrom DEF Under
<1> QED
  BY <1>4, <1>6, <1>7, <1>8 DEF b

(* SentBefore: what was sent of a file comes before the later files. *)
LEMMA SentBefore ==
    ASSUME NEW s \in Seq(Records), NEW fs, NEW r \in Nat, Sound(fs, r + 1),
           NEW n \in DOMAIN fs, NEW p, NEW c, IsRest(c, fs[n], p),
           NEW f \in DOMAIN fs, n < f, NEW i \in DOMAIN fs[f],
           Under(s, fs[f][i].rec)
    PROVE  Under(s \o Decode(c), fs[f][i].rec)
<1> DEFINE q == fs[n]
           b == Decode(c)
<1>0. fs \in Seq(Seq(Cell)) /\ q \in Seq(Cell) /\ Rising(q)
  BY FilesAre DEF Sound, Ordered
<1>1. /\ b \in Seq(Records)
      /\ \A k \in DOMAIN b : \E j \in DOMAIN q : b[k] = q[j].rec
  BY <1>0, RestDecoded, SMT
<1> HIDE DEF b
<1>2. Under(b, fs[f][i].rec)
  BY <1>1 DEF Under, Sound, Ordered
<1>3. Under(s \o b, fs[f][i].rec)
  BY <1>1, <1>2, ConcatFrom DEF Under
<1> QED
  BY <1>3 DEF b

(* RestIs: the rest of a file is one. *)
LEMMA RestIs ==
    ASSUME NEW q \in Seq(Cell), NEW p \in Nat, p <= Len(q)
    PROVE  IsRest(SubSeq(q, p + 1, Len(q)), q, p)
<1> DEFINE c == SubSeq(q, p + 1, Len(q))
<1>1. c \in Seq(Cell) /\ Len(c) = Len(q) - p /\ \A i \in 1..Len(q) - p : c[i] = q[p + i]
  BY Suffix
<1>2. Len(q) \in Nat
  BY SMT
<1> HIDE DEF c
<1> QED
  BY <1>1, <1>2, SMT DEF IsRest, c

(* ReadBuffer: the leftover and what is read are one piece of the file. *)
LEMMA ReadBuffer ==
    ASSUME NEW q \in Seq(Cell), NEW p \in Nat, p <= Len(q), NEW l, LeftoverIs(q, p, l)
    PROVE  /\ Len(l) \in Nat
           /\ IsRest(l \o SubSeq(q, p + 1, Len(q)), q, p - Len(l))
<1> DEFINE c == SubSeq(q, p + 1, Len(q))
<1>0. IsRest(c, q, p) /\ c \in Seq(Cell) /\ Len(q) \in Nat
  BY RestIs, Suffix, SMT
<1>1. /\ Len(c) = Len(q) - p /\ \A j \in 1..Len(c) : c[j] = q[p + j]
  BY <1>0 DEF IsRest
<1> HIDE DEF c
<1>2. CASE l = <<>>
  <2>1. l \o c = c /\ Len(l) = 0
    BY <1>0, <1>2, SMT
  <2>2. p - Len(l) = p
    BY <2>1, SMT
  <2> QED
    BY <1>0, <2>1, <2>2, SMT DEF c
<1>3. CASE p > 0 /\ l = <<q[p]>>
  <2>1. p \in DOMAIN q /\ q[p] \in Cell
    BY <1>3, SMT
  <2>2. /\ l \in Seq(Cell) /\ Len(l) = 1 /\ l[1] = q[p] /\ l \o c \in Seq(Cell)
        /\ Len(l \o c) = Len(c) + 1
    BY <1>0, <1>3, <2>1, SMT
  <2>3. (l \o c)[1] = q[p] /\ \A j \in 2..Len(c) + 1 : (l \o c)[j] = c[j - 1]
    BY <1>0, <2>2, SMT
  <2>4. \A j \in 1..Len(c) + 1 : (l \o c)[j] = q[p - 1 + j]
    <3> SUFFICES ASSUME NEW j \in 1..Len(c) + 1 PROVE (l \o c)[j] = q[p - 1 + j]
      OBVIOUS
    <3>1. Len(c) \in Nat
      BY <1>0, SMT
    <3>2. CASE j = 1
      <4>1. p - 1 + j = p
        BY <3>2, SMT
      <4> QED
        BY <2>3, <3>2, <4>1
    <3>3. CASE j # 1
      <4>1. j \in 2..Len(c) + 1 /\ j - 1 \in 1..Len(c) /\ p + (j - 1) = p - 1 + j
        BY <3>1, <3>3, SMT
      <4> QED
        BY <1>1, <2>3, <4>1
    <3> QED
      BY <3>2, <3>3
  <2>5. p - 1 \in 0..Len(q) /\ Len(c) + 1 = Len(q) - (p - 1)
    BY <1>0, <1>1, <1>3, SMT
  <2>6. p - Len(l) = p - 1 /\ Len(l) \in Nat
    BY <2>2, SMT
  <2>7. IsRest(l \o c, q, p - 1)
    BY <2>2, <2>4, <2>5 DEF IsRest
  <2> QED
    BY <2>6, <2>7 DEF c
<1> QED
  BY <1>2, <1>3 DEF LeftoverIs

(* TailerOrder: the records that are written come after all that was sent. *)
LEMMA TailerOrder ==
    ASSUME FileInv, FollowInv, OrderInv, BeginAppend \/ TailerStep
    PROVE  OrderInv'
<1>1. TailerResult
  BY TailerWrites
<1>2. /\ Written /\ rec' >= rec /\ (rec' # rec => tpc = "idle")
      /\ tpc' \notin {"idle", "rest"} => (tpc \notin {"idle", "rest"} \/ rec' = rec + 1)
      /\ UNCHANGED follower /\ overlap' = overlap
      /\ rec \in Nat /\ rec' \in Nat
  BY <1>1, SMT DEF TailerResult, env, circumstances, FileInv, TypeOK, TailerTypes
<1> SUFFICES ASSUME ~overlap PROVE SentOrder'
  BY <1>2, OrderParts
<1>3. MayAppend
  BY DEF BeginAppend, TailerStep, Shift, RenameLog, CreateLog, WriteRecord, WriteRest
<1>4. SentOrder /\ fpc \notin {"drain", "read"}
  BY <1>3, OrderParts DEF MayAppend
<1>5. /\ delivered' = delivered /\ fpc' = fpc /\ inode' = inode /\ pos' = pos
      /\ leftover' = leftover
  BY <1>2 DEF follower
<1>6. \A d \in DOMAIN delivered : delivered[d] \in Int
  BY BoundsAssumption, SMT DEF FileInv, TypeOK, Records
<1>7. UpTo(delivered, rec) /\ (tpc \notin {"idle", "rest"} => Under(delivered, rec))
  BY <1>4 DEF SentOrder
<1>8. UpTo(delivered, rec')
  BY <1>2, <1>6, <1>7, SMT DEF UpTo
<1>9. tpc' \notin {"idle", "rest"} => Under(delivered, rec')
  <2>1. CASE rec' = rec + 1
    BY <1>2, <1>6, <1>7, <2>1, SMT DEF UpTo, Under
  <2>2. CASE rec' = rec /\ tpc \notin {"idle", "rest"}
    BY <1>7, <2>2
  <2> QED
    BY <1>2, <2>1, <2>2
<1>10. ASSUME inode # 0
       PROVE  /\ LeftoverIs(files'[inode], pos, leftover)
              /\ AllAhead(delivered, files', inode, pos, leftover)
  <2>1. LeftoverIs(files[inode], pos, leftover) /\ AllAhead(delivered, files, inode, pos, leftover)
    BY <1>4, <1>10 DEF SentOrder
  <2>2. inode \in DOMAIN files /\ files[inode] \in Seq(Cell) /\ pos \in Nat /\ inode \in Nat
        /\ pos <= Len(files[inode]) /\ files \in Seq(Seq(Cell)) /\ files' \in Seq(Seq(Cell))
    <3>1. files' \in Seq(Seq(Cell)) /\ pos <= Len(files[inode])
      BY <1>1, <1>10 DEF FollowInv, TailerResult, TailerTypes
    <3>2. inode \in DOMAIN files /\ inode \in Nat
      BY <1>10, FileTypes, SMT
    <3> QED
      BY <3>1, <3>2, FileTypes
  <2>3. pos = 0 \/ files'[inode][pos] = files[inode][pos]
    <3>1. pos = 0 \/ pos \in DOMAIN files[inode]
      BY <2>2, SMT
    <3> QED
      BY <1>2, <2>2, <3>1 DEF Written, Grown
  <2>4. LeftoverIs(files'[inode], pos, leftover)
    BY <2>1, <2>2, <2>3, SMT DEF LeftoverIs
  <2>5. ASSUME NEW d \in DOMAIN delivered, NEW f \in inode..Len(files'), NEW i \in DOMAIN files'[f],
               files'[f][i].half = "head", f = inode => i + Len(leftover) > pos
        PROVE  delivered[d] < files'[f][i].rec
    <3>1. f \in DOMAIN files'
      BY <2>2, FilesAre, SMT
    <3>2. CASE f \in DOMAIN files /\ i \in DOMAIN files[f]
      <4>1. files'[f][i] = files[f][i] /\ f \in inode..Len(files)
        BY <1>2, <2>2, <3>2, SMT DEF Written, Grown
      <4> QED
        BY <2>1, <2>5, <3>2, <4>1 DEF AllAhead
    <3>3. CASE tpc = "rest" /\ files'[f][i] = TailOf(rec)
      BY <2>5, <3>3, SMT DEF TailOf
    <3>4. CASE tpc = "write" /\ files'[f][i].rec = rec
      BY <1>7, <3>4 DEF Under
    <3> QED
      BY <1>2, <3>1, <3>2, <3>3, <3>4 DEF Written
  <2> QED
    BY <2>4, <2>5 DEF AllAhead
<1> QED
  BY <1>4, <1>5, <1>8, <1>9, <1>10 DEF SentOrder

(* OpenOrder: a new file has only later records. *)
LEMMA OpenOrder ==
    ASSUME FileInv, FollowInv, OrderInv, Open
    PROVE  OrderInv'
<1>1. /\ files' = files /\ rec' = rec /\ tpc' = tpc /\ overlap' = overlap /\ pos' = pos
      /\ leftover' = leftover /\ delivered' = delivered
      /\ \/ inode' = inode /\ fpc' \in {"done", "sleep"}
         \/ /\ handle' = log /\ len' = Len(files[log]) /\ log # 0
            /\ inode' = IF inode = 0 THEN log ELSE inode
  BY DEF Open, EndPoll, tailer, env, circumstances
<1> SUFFICES ASSUME ~overlap PROVE SentOrder'
  BY <1>1, OrderParts
<1>2. SentOrder
  BY OrderParts
<1>3. CASE inode' = inode /\ fpc' \in {"done", "sleep"}
  BY <1>1, <1>2, <1>3 DEF SentOrder
<1>4. CASE /\ handle' = log /\ len' = Len(files[log]) /\ log # 0
           /\ inode' = IF inode = 0 THEN log ELSE inode
  <2>1. CASE inode # 0
    BY <1>1, <1>2, <1>4, <2>1 DEF SentOrder
  <2>2. CASE inode = 0
    <3>1. pos = 0 /\ leftover = <<>> /\ delivered = <<>> /\ DOMAIN delivered = {}
      BY <2>2, SMT DEF FollowInv
    <3>2. LeftoverIs(files[log], pos, leftover) /\ AllAhead(delivered, files, log, pos, leftover)
      BY <3>1 DEF LeftoverIs, AllAhead
    <3>3. inode' = log
      BY <1>4, <2>2
    <3> QED
      BY <1>1, <1>2, <1>4, <3>2, <3>3 DEF SentOrder
  <2> QED
    BY <2>1, <2>2
<1> QED
  BY <1>1, <1>3, <1>4

(* DrainRotatedOrder: what is left of the rotated file comes next. *)
LEMMA DrainRotatedOrder ==
    ASSUME FileInv, FollowInv, OrderInv, DrainRotated
    PROVE  OrderInv'
<1> DEFINE b == RotatedRemainder
           q == files[inode]
           c == SubSeq(q, pos + 1, Len(q))
<1>1. /\ files' = files /\ rec' = rec /\ tpc' = tpc /\ overlap' = overlap /\ pos' = 0
      /\ leftover' = <<>> /\ inode' = handle /\ handle' = handle /\ len' = len
      /\ fpc = "drain" /\ delivered' = delivered \o b
  BY DEF DrainRotated, tailer, env, circumstances
<1> SUFFICES ASSUME ~overlap PROVE SentOrder'
  BY <1>1, OrderParts
<1>2. SentOrder /\ len = Len(files[handle])
  BY <1>1, OrderParts DEF SentOrder
<1>3. /\ files \in Seq(Seq(Cell)) /\ rec \in Nat /\ Sound(files, rec + 1)
      /\ tpc \notin {"idle", "rest"} => Below(files, rec)
      /\ delivered \in Seq(Records) /\ leftover \in Seq(Cell) /\ pos \in Nat
  BY FileTypes DEF FileInv, Sound
<1>4. /\ inode # 0 /\ inode < handle /\ inode \in DOMAIN files /\ handle \in DOMAIN files
      /\ inode \in Nat /\ handle \in Nat /\ pos <= Len(q) /\ q \in Seq(Cell)
  BY <1>1, FileTypes, SMT DEF FollowInv
<1>5. /\ RisingSeq(delivered) /\ UpTo(delivered, rec)
      /\ tpc \notin {"idle", "rest"} => Under(delivered, rec)
      /\ AllAhead(delivered, files, inode, pos, leftover)
  BY <1>2, <1>4 DEF SentOrder
<1>6. IsRest(c, q, pos)
  BY <1>3, <1>4, RestIs
<1>7. b = Decode(c) \/ b = <<>>
  BY DEF RotatedRemainder
<1>8. Len(files) \in Nat /\ DOMAIN files = 1..Len(files) /\ Len(leftover) \in Nat
  BY <1>3, SMT
<1> HIDE DEF b, c
<1>9. ASSUME NEW f \in DOMAIN files, inode < f, NEW i \in DOMAIN files[f],
             files[f][i].half = "head"
      PROVE  Under(delivered, files[f][i].rec)
  <2>1. f \in inode..Len(files) /\ f # inode
    BY <1>4, <1>8, <1>9, SMT
  <2> QED
    BY <1>5, <1>9, <2>1 DEF AllAhead, Under
<1>10. HeadsAfter(delivered, q, pos)
  <2> SUFFICES ASSUME NEW d \in DOMAIN delivered, NEW i \in DOMAIN q, q[i].half = "head", pos < i
               PROVE  delivered[d] < q[i].rec
    BY DEF HeadsAfter
  <2>1. inode \in inode..Len(files) /\ i + Len(leftover) > pos
    BY <1>3, <1>4, <1>8, SMT
  <2> QED
    BY <1>5, <2>1 DEF AllAhead
<1>11. /\ RisingSeq(delivered \o b) /\ UpTo(delivered \o b, rec)
       /\ tpc \notin {"idle", "rest"} => Under(delivered \o b, rec)
       /\ \A f \in DOMAIN files : inode < f => \A i \in DOMAIN files[f] :
             files[f][i].half = "head" => Under(delivered \o b, files[f][i].rec)
  <2>1. CASE b = <<>>
    <3>1. delivered \o b = delivered
      BY <1>3, <2>1, SMT
    <3> QED
      BY <1>5, <1>9, <3>1
  <2>2. CASE b = Decode(c)
    <3>1. /\ RisingSeq(delivered \o b) /\ UpTo(delivered \o b, rec)
          /\ Under(delivered, rec) /\ Below(files, rec) => Under(delivered \o b, rec)
      BY <1>3, <1>4, <1>5, <1>6, <1>10, <2>2, RestSent
    <3>2. ASSUME NEW f \in DOMAIN files, inode < f, NEW i \in DOMAIN files[f],
                 files[f][i].half = "head"
          PROVE  Under(delivered \o b, files[f][i].rec)
      <4>1. Under(delivered, files[f][i].rec)
        BY <1>9, <3>2
      <4> QED
        BY <1>3, <1>4, <1>6, <2>2, <3>2, <4>1, SentBefore
    <3> QED
      BY <1>3, <1>5, <3>1, <3>2
  <2> QED
    BY <1>7, <2>1, <2>2
<1>12. AllAhead(delivered \o b, files, handle, 0, <<>>)
  <2> SUFFICES ASSUME NEW d \in DOMAIN (delivered \o b), NEW f \in handle..Len(files),
                      NEW i \in DOMAIN files[f], files[f][i].half = "head"
               PROVE  (delivered \o b)[d] < files[f][i].rec
    BY DEF AllAhead
  <2>1. f \in DOMAIN files /\ inode < f
    BY <1>4, <1>8, SMT
  <2> QED
    BY <1>11, <2>1 DEF Under
<1>13. LeftoverIs(files[handle], 0, <<>>)
  BY DEF LeftoverIs
<1> QED
  BY <1>1, <1>2, <1>11, <1>12, <1>13 DEF SentOrder

(* ReadEventsOrder: what is read comes after what was sent. *)
LEMMA ReadEventsOrder ==
    ASSUME FileInv, FollowInv, OrderInv, ReadEvents
    PROVE  OrderInv'
<1> DEFINE q == files[handle]
           c == leftover \o SubSeq(q, pos + 1, Len(q))
           p == pos - Len(leftover)
           b == Decode(c)
<1>1. /\ files' = files /\ rec' = rec /\ tpc' = tpc /\ overlap' = overlap /\ pos' = len
      /\ leftover' = Remainder(c) /\ inode' = inode /\ handle' = handle /\ len' = len
      /\ fpc = "read" /\ fpc' \in {"done", "sleep"} /\ delivered' = delivered \o b
  BY DEF ReadEvents, EndPoll, tailer, env, circumstances
<1> SUFFICES ASSUME ~overlap PROVE SentOrder'
  BY <1>1, OrderParts
<1>2. SentOrder /\ len = Len(q)
  BY <1>1, OrderParts DEF SentOrder
<1>3. /\ files \in Seq(Seq(Cell)) /\ rec \in Nat /\ Sound(files, rec + 1)
      /\ tpc \notin {"idle", "rest"} => Below(files, rec)
      /\ delivered \in Seq(Records) /\ pos \in Nat
  BY FileTypes DEF FileInv, Sound
<1>4. /\ inode # 0 /\ inode = handle /\ handle \in DOMAIN files /\ handle \in Nat
      /\ pos <= Len(q) /\ q \in Seq(Cell) /\ Len(q) \in Nat /\ DOMAIN q = 1..Len(q)
  BY <1>1, FileTypes, SMT DEF FollowInv
<1>5. /\ RisingSeq(delivered) /\ UpTo(delivered, rec)
      /\ tpc \notin {"idle", "rest"} => Under(delivered, rec)
      /\ LeftoverIs(q, pos, leftover)
      /\ AllAhead(delivered, files, handle, pos, leftover)
  BY <1>2, <1>4 DEF SentOrder
<1>6. IsRest(c, q, p) /\ Len(leftover) \in Nat
  BY <1>3, <1>4, <1>5, ReadBuffer
<1>7. Alternates(q) /\ Rising(q) /\ p \in 0..Len(q)
  BY <1>3, <1>4, <1>6 DEF Sound, Ordered, IsRest
<1>8. Len(files) \in Nat /\ DOMAIN files = 1..Len(files)
  BY <1>3, SMT
<1>9. \A i \in Nat : (i + Len(leftover) > pos) <=> (p < i)
  BY <1>3, <1>6, SMT
<1>p. p = Len(q) => pos = Len(q) /\ leftover = <<>>
  <2>1. leftover = <<>> \/ Len(leftover) = 1
    BY <1>5, SMT DEF LeftoverIs
  <2>2. /\ Len(leftover) = 0 \/ Len(leftover) = 1
        /\ pos \in Nat /\ pos <= Len(q) /\ Len(q) \in Nat
    BY <1>3, <1>4, <2>1
  <2>3. p = Len(q) => pos = Len(q) /\ Len(leftover) # 1
    BY ONLY <2>2, SMT
  <2> QED
    BY <2>1, <2>3
<1> HIDE DEF b, c, p, q
<1>q. p = Len(q) \/ p < Len(q)
  <2>1. p \in 0..Len(q) /\ Len(q) \in Nat
    BY <1>4, <1>7
  <2> QED
    BY ONLY <2>1, SMT
<1>10. HeadsAfter(delivered, q, p)
  <2> SUFFICES ASSUME NEW d \in DOMAIN delivered, NEW i \in DOMAIN q, q[i].half = "head", p < i
               PROVE  delivered[d] < q[i].rec
    BY DEF HeadsAfter
  <2>a. i \in Nat /\ handle \in handle..Len(files)
    BY <1>4, <1>8, SMT
  <2>1. handle \in handle..Len(files) /\ i + Len(leftover) > pos
    BY <1>9, <2>a
  <2> QED
    BY <1>5, <2>1 DEF AllAhead, q
<1>11. /\ RisingSeq(delivered \o b) /\ UpTo(delivered \o b, rec)
       /\ tpc \notin {"idle", "rest"} => Under(delivered \o b, rec)
  BY <1>3, <1>4, <1>5, <1>6, <1>10, RestSent DEF b, q
<1>12. /\ p = Len(q) => Remainder(c) = <<>>
       /\ p < Len(q) /\ q[Len(q)].half = "tail" => Remainder(c) = <<>>
       /\ p < Len(q) /\ q[Len(q)].half = "head" => Remainder(c) = <<q[Len(q)]>>
  BY <1>6, <1>7, RestRemainder
<1>13. p < Len(q) => Len(q) \in DOMAIN q /\ q[Len(q)].half \in {"head", "tail"}
  BY <1>4, <1>7, Cells, SMT
<1>14. LeftoverIs(q, len, Remainder(c))
  <2>1. CASE p = Len(q)
    BY <1>2, <1>4, <1>5, <1>12, <1>p, <2>1 DEF LeftoverIs
  <2>2. CASE p < Len(q)
    BY <1>2, <1>4, <1>12, <1>13, <2>2, SMT DEF LeftoverIs
  <2> QED
    BY <1>q, <2>1, <2>2
<1>15. AllAhead(delivered \o b, files, handle, len, Remainder(c))
  <2> SUFFICES ASSUME NEW f \in handle..Len(files),
                      NEW i \in DOMAIN files[f], files[f][i].half = "head",
                      f = handle => i + Len(Remainder(c)) > len
               PROVE  Under(delivered \o b, files[f][i].rec)
    BY DEF AllAhead, Under
  <2>1. f \in DOMAIN files /\ (f = handle \/ handle < f)
    BY <1>4, <1>8, SMT
  <2>2. CASE handle < f
    <3>1. Under(delivered, files[f][i].rec)
      BY <1>4, <1>5, <2>2, SMT DEF AllAhead, Under
    <3> QED
      BY <1>3, <1>4, <1>6, <2>1, <2>2, <3>1, SentBefore DEF b, q
  <2>3. CASE f = handle
    <3>0. i \in DOMAIN q /\ i \in Nat /\ i <= Len(q) /\ q[i].half = "head"
      BY <1>4, <2>3, SMT DEF q
    <3>1. i = Len(q) /\ p < Len(q)
      <4>1. Remainder(c) = <<>> => FALSE
        BY <1>2, <1>4, <2>3, <3>0, SMT
      <4>2. p < Len(q) /\ Remainder(c) = <<q[Len(q)]>>
        BY <1>12, <1>13, <1>q, <4>1
      <4>3. Len(Remainder(c)) = 1
        BY <4>2, SMT
      <4> QED
        BY <1>2, <1>4, <2>3, <3>0, <4>2, <4>3, SMT
    <3>2. Under(delivered, q[i].rec)
      BY <1>10, <3>0, <3>1 DEF HeadsAfter, Under
    <3>3. /\ b \in Seq(Records)
          /\ \A k \in DOMAIN b : \E j \in DOMAIN q : /\ p < j /\ j < Len(q) /\ q[j].half = "head"
                                                     /\ b[k] = q[j].rec
      BY <1>6, <1>7, RestDecoded, SMT DEF b
    <3>4. Under(b, q[i].rec)
      BY <3>0, <3>1, <3>3, <1>7 DEF Under, Rising
    <3>5. Under(delivered \o b, q[i].rec)
      BY <1>3, <3>2, <3>3, <3>4, ConcatFrom DEF Under
    <3> QED
      BY <2>3, <3>5 DEF q
  <2> QED
    BY <2>1, <2>2, <2>3
<1> QED
  BY <1>1, <1>2, <1>4, <1>11, <1>14, <1>15 DEF SentOrder, q

(* OthersOrder: the steps that neither write, nor open, nor read. *)
LEMMA OthersOrder ==
    ASSUME OrderInv,
           UNCHANGED <<files, rec, tpc, overlap, pos, leftover, inode, handle, len, delivered>>,
           fpc' = fpc \/ fpc' \in {"poll", "done"}
    PROVE  OrderInv'
<1> SUFFICES ASSUME ~overlap PROVE SentOrder'
  BY OrderParts
<1>1. SentOrder
  BY OrderParts
<1>2. CASE fpc' = fpc
  BY <1>1, <1>2 DEF SentOrder
<1>3. CASE fpc' \in {"poll", "done"}
  BY <1>1, <1>3 DEF SentOrder
<1> QED
  BY <1>2, <1>3

(* NextOrder: every step keeps the order. *)
LEMMA NextOrder ==
    ASSUME FileInv, FollowInv, OrderInv, [Next]_vars
    PROVE  OrderInv'
<1> USE DEF tailer, follower, watching, env, circumstances
<1>1. CASE BeginAppend \/ TailerStep
  BY <1>1, TailerOrder
<1>2. CASE Open \/ DrainRotated \/ ReadEvents
  BY <1>2, OpenOrder, DrainRotatedOrder, ReadEventsOrder
<1>3. CASE Wake \/ TakeStop \/ FollowerEnds
  BY <1>3, OthersOrder DEF Wake, TakeStop, FollowerEnds
<1>4. CASE WatchEnds \/ WatchGoesOn \/ WatchFails \/ WatchClosed
  BY <1>4, OthersOrder DEF WatchEnds, WatchGoesOn, WatchFails, WatchClosed
<1>5. CASE TaskChanges \/ ContainerDeleted
  BY <1>5, OthersOrder DEF TaskChanges, ContainerDeleted
<1>6. CASE UNCHANGED vars
  BY <1>6, OthersOrder DEF vars
<1> QED
  BY <1>1, <1>2, <1>3, <1>4, <1>5, <1>6 DEF Next, FollowerStep

(* OrderSafety: for every number of records and rotations, and whatever is   *)
(* written half done, the follower sends each record at most once and in the *)
(* order of events.log, as long as nothing is appended in the middle of a    *)
(* poll.                                                                     *)
THEOREM OrderSafety == Spec => []DeliveredInOrder
<1>1. Init => OrderInv
  <2> SUFFICES ASSUME Init PROVE OrderInv
    OBVIOUS
  <2>1. DOMAIN delivered = {} /\ inode = 0 /\ fpc = "poll"
    BY SMT DEF Init
  <2> QED
    BY <2>1 DEF OrderInv, DeliveredInOrder
<1>2. FileInv /\ FollowInv /\ OrderInv /\ [Next]_vars => OrderInv'
  BY NextOrder
<1>3. OrderInv => DeliveredInOrder
  BY DEF OrderInv, DeliveredInOrder
<1> QED
  BY <1>1, <1>2, <1>3, FilesAndFollower, PTL DEF Spec

------------------------------------------------------------------------------
(* TwoFiles *)

(* RotatedTypes: what rotated is a function of. *)
LEMMA RotatedTypes ==
    ASSUME FileInv
    PROVE  /\ Len(files) \in Nat /\ MaxRotated \in Nat /\ MaxRotated >= 2
           /\ rotated \in [1..MaxRotated -> Nat] /\ log \in {0, Len(files)}
BY BoundsAssumption, SMT DEF FileInv, TypeOK

(* ShiftTwo: a shift makes no log with one rotation. *)
LEMMA ShiftTwo ==
    ASSUME FileInv, TwoFiles, Shift
    PROVE  TwoFiles' /\ (RotatedOnce' => RotatedOnce)
<1>0. /\ Len(files) \in Nat /\ MaxRotated \in Nat /\ MaxRotated >= 2
      /\ rotated \in [1..MaxRotated -> Nat] /\ log \in {0, Len(files)}
  BY RotatedTypes
<1>1. /\ files' = files /\ log' = log /\ tpc = "shift" /\ tpc' = "rename" /\ present
      /\ rotated' = [n \in 1..MaxRotated |-> IF n = 1 THEN 0 ELSE rotated[n - 1]]
  BY DEF Shift, MayAppend
<1>2. log # 0
  BY <1>1 DEF FileInv
<1>3. /\ rotated'[1] = 0 /\ rotated'[2] = rotated[1]
      /\ \A n \in 2..MaxRotated : rotated'[n] = rotated[n - 1]
  BY <1>0, <1>1, SMT
<1>4. CASE Len(files) = 1
  <2>1. log = 1 /\ rotated[1] = 0 /\ \A n \in 2..MaxRotated : rotated[n] = 0
    BY <1>1, <1>2, <1>4 DEF TwoFiles
  <2>2. \A n \in 2..MaxRotated : rotated[n - 1] = 0
    <3> SUFFICES ASSUME NEW n \in 2..MaxRotated PROVE rotated[n - 1] = 0
      OBVIOUS
    <3>1. n - 1 = 1 \/ n - 1 \in 2..MaxRotated
      BY <1>0, SMT
    <3> QED
      BY <2>1, <3>1
  <2>3. TwoFiles'
    BY <1>1, <1>3, <1>4, <2>1, <2>2 DEF TwoFiles
  <2> QED
    BY <1>4, <2>1, <2>3, SMT DEF RotatedOnce
<1>5. CASE Len(files) = 2
  <2>1. log = 2 /\ rotated[1] = 1
    BY <1>1, <1>5 DEF TwoFiles
  <2>2. TwoFiles'
    BY <1>1, <1>3, <1>5, <2>1, SMT DEF TwoFiles
  <2>3. ~RotatedOnce'
    BY <1>0, <1>3, <2>1, SMT DEF RotatedOnce
  <2> QED
    BY <2>2, <2>3
<1>6. CASE Len(files) > 2
  BY <1>0, <1>1, <1>6, SMT DEF TwoFiles, RotatedOnce
<1>7. PICK n \in Nat : n = Len(files)
  BY <1>0
<1>n. n = 1 \/ n = 2 \/ n > 2
  BY <1>0, <1>2, <1>7, SMT
<1> QED
  BY ONLY <1>4, <1>5, <1>6, <1>7, <1>n

(* RenameLogTwo: nor does the rename. *)
LEMMA RenameLogTwo ==
    ASSUME FileInv, TwoFiles, RenameLog
    PROVE  TwoFiles' /\ (RotatedOnce' => RotatedOnce)
<1>0. /\ Len(files) \in Nat /\ MaxRotated \in Nat /\ MaxRotated >= 2
      /\ rotated \in [1..MaxRotated -> Nat] /\ log \in {0, Len(files)}
  BY RotatedTypes
<1>1. /\ files' = files /\ log' = 0 /\ tpc = "rename" /\ tpc' = "create" /\ present
      /\ rotated' = [rotated EXCEPT ![1] = log]
  BY DEF RenameLog, MayAppend
<1>2. log # 0 /\ log = Len(files)
  BY <1>0, <1>1 DEF FileInv
<1>3. rotated'[1] = log /\ \A n \in 2..MaxRotated : rotated'[n] = rotated[n]
  BY <1>0, <1>1, SMT
<1>4. RotatedOnce' => RotatedOnce
  BY <1>1, <1>3 DEF RotatedOnce
<1>5. 2 \in 2..MaxRotated
  BY <1>0, SMT
<1>6. CASE Len(files) = 1
  BY <1>1, <1>2, <1>3, <1>4, <1>6 DEF TwoFiles
<1>7. CASE Len(files) = 2
  <2>1. rotated[2] = 1
    BY <1>1, <1>7 DEF TwoFiles
  <2> QED
    BY <1>1, <1>3, <1>4, <1>5, <1>7, <2>1, SMT DEF TwoFiles
<1>8. CASE Len(files) > 2
  BY <1>0, <1>1, <1>4, <1>8, SMT DEF TwoFiles
<1>9. PICK n \in Nat : n = Len(files)
  BY <1>0
<1>n. n = 1 \/ n = 2 \/ n > 2
  BY <1>0, <1>2, <1>9, SMT
<1> QED
  BY ONLY <1>6, <1>7, <1>8, <1>9, <1>n

(* CreateLogTwo: nor does a new file after a second rotation. *)
LEMMA CreateLogTwo ==
    ASSUME FileInv, TwoFiles, CreateLog
    PROVE  TwoFiles' /\ (RotatedOnce' => RotatedOnce)
<1>0. Len(files) \in Nat /\ files \in Seq(Seq(Cell))
  BY SMT DEF FileInv, TypeOK
<1>1. /\ files' = Append(files, <<>>) /\ log' = Len(files) + 1 /\ tpc = "create" /\ tpc' = "write"
      /\ present /\ rotated' = rotated
  BY DEF CreateLog, MayAppend
<1>2. Len(files') = Len(files) + 1
  BY <1>0, <1>1, SMT
<1>3. RotatedOnce' => RotatedOnce
  BY <1>0, <1>1, <1>2, SMT DEF RotatedOnce
<1>4. CASE Len(files) = 0
  <2>1. Len(files') = 1 /\ log' = 1 /\ \A n \in 1..MaxRotated : rotated[n] = 0
    BY <1>1, <1>2, <1>4, SMT DEF TwoFiles
  <2>2. rotated[1] = 0 /\ \A n \in 2..MaxRotated : rotated[n] = 0
    BY <2>1, BoundsAssumption, SMT
  <2> QED
    BY <1>1, <1>3, <2>1, <2>2, SMT DEF TwoFiles
<1>5. CASE Len(files) = 1
  <2>1. Len(files') = 2 /\ log' = 2 /\ rotated[1] = 1
    BY <1>1, <1>2, <1>5, SMT DEF TwoFiles
  <2> QED
    BY <1>1, <1>3, <2>1, SMT DEF TwoFiles
<1>6. CASE Len(files) >= 2
  BY <1>0, <1>2, <1>3, <1>6, SMT DEF TwoFiles
<1>7. PICK n \in Nat : n = Len(files)
  BY <1>0
<1>8. n = 0 \/ n = 1 \/ n >= 2
  BY SMT
<1> QED
  BY ONLY <1>4, <1>5, <1>6, <1>7, <1>8

(* WriteTwo: the steps that leave the names as they are, but for the first   *)
(* creation of events.log.                                                   *)
LEMMA WriteTwo ==
    ASSUME FileInv, TwoFiles, BeginAppend \/ WriteRecord \/ WriteRest
    PROVE  TwoFiles' /\ (RotatedOnce' => RotatedOnce)
<1>0. Len(files) \in Nat /\ files \in Seq(Seq(Cell)) /\ log \in {0, Len(files)}
  BY SMT DEF FileInv, TypeOK
<1>1. /\ tpc \in {"idle", "write", "rest"} /\ tpc' \notin {"rename", "create"}
      /\ present /\ rotated' = rotated
  BY DEF BeginAppend, WriteRecord, WriteRest, MayAppend
<1>2. \/ Len(files') = Len(files) /\ log' = log
      \/ Len(files') = Len(files) + 1 /\ log = 0 /\ log' = Len(files')
  <2>1. CASE BeginAppend
    BY <2>1 DEF BeginAppend
  <2>2. CASE WriteRest
    BY <1>0, <2>2, SMT DEF WriteRest
  <2>3. CASE WriteRecord /\ log # 0
    <3>1. log' = log /\ \E q : files' = [files EXCEPT ![log] = q]
      BY <2>3 DEF WriteRecord
    <3> QED
      BY <1>0, <3>1, SMT
  <2>4. CASE WriteRecord /\ log = 0
    <3> DEFINE fs == Append(files, <<>>)
    <3>1. log' = Len(fs) /\ \E q : files' = [fs EXCEPT ![Len(fs)] = q]
      BY <2>4 DEF WriteRecord
    <3>2. Len(fs) = Len(files) + 1 /\ fs \in Seq(Seq(Cell))
      BY <1>0, SMT
    <3> HIDE DEF fs
    <3>3. Len(files') = Len(fs)
      BY <3>1, <3>2, SMT
    <3> QED
      BY <2>4, <3>1, <3>2, <3>3
  <2> QED
    BY <2>1, <2>2, <2>3, <2>4
<1>3. RotatedOnce' => RotatedOnce
  BY <1>0, <1>1, <1>2, SMT DEF RotatedOnce
<1>4. CASE Len(files') = Len(files) /\ log' = log
  <2>1. CASE Len(files) = 1
    BY <1>1, <1>3, <1>4, <2>1 DEF TwoFiles
  <2>2. CASE Len(files) = 2
    BY <1>1, <1>3, <1>4, <2>2 DEF TwoFiles
  <2>3. CASE Len(files) # 1 /\ Len(files) # 2
    BY <1>1, <1>3, <1>4, <2>3 DEF TwoFiles
  <2> QED
    BY <2>1, <2>2, <2>3
<1>5. CASE Len(files') = Len(files) + 1 /\ log = 0 /\ log' = Len(files')
  <2>1. CASE Len(files) = 0
    <3>1. Len(files') = 1 /\ log' = 1 /\ \A n \in 1..MaxRotated : rotated[n] = 0
      BY <1>1, <1>5, <2>1, SMT DEF TwoFiles
    <3>2. rotated[1] = 0 /\ \A n \in 2..MaxRotated : rotated[n] = 0
      BY <3>1, BoundsAssumption, SMT
    <3> QED
      BY <1>1, <1>3, <3>1, <3>2, SMT DEF TwoFiles
  <2>2. CASE Len(files) = 1
    BY <1>1, <1>5, <2>2, SMT DEF TwoFiles
  <2>3. CASE Len(files) > 1
    BY <1>0, <1>3, <1>5, <2>3, SMT DEF TwoFiles
  <2>4. PICK n \in Nat : n = Len(files)
    BY <1>0
  <2>5. n = 0 \/ n = 1 \/ n > 1
    BY SMT
  <2> QED
    BY ONLY <2>1, <2>2, <2>3, <2>4, <2>5
<1> QED
  BY <1>2, <1>4, <1>5

(* TailerTwo: the tailer keeps TwoFiles, and a second rotation is not undone. *)
LEMMA TailerTwo ==
    ASSUME FileInv, TwoFiles, BeginAppend \/ TailerStep
    PROVE  TwoFiles' /\ (RotatedOnce' => RotatedOnce)
BY ShiftTwo, RenameLogTwo, CreateLogTwo, WriteTwo DEF TailerStep

(* OthersTwo: only the tailer renames; a deletion is the end of it. *)
LEMMA OthersTwo ==
    ASSUME TwoFiles,
           UNCHANGED <<tailer, present>> \/ ContainerDeleted
    PROVE  TwoFiles'
<1>1. CASE UNCHANGED <<tailer, present>>
  BY <1>1 DEF TwoFiles, tailer
<1>2. CASE ContainerDeleted
  BY <1>2 DEF TwoFiles, ContainerDeleted
<1> QED
  BY <1>1, <1>2

------------------------------------------------------------------------------
(* LossInv *)

AtTail(q, p) == p = 0 \/ q[p].half = "tail"

SentIn(s, r) == \E d \in DOMAIN s : s[d] = r

Sent(r) == SentIn(delivered, r)

SentAll ==
    \A f \in first..inode : \A i \in DOMAIN files[f] :
        (f < inode \/ i <= pos) => Sent(files[f][i].rec)

WholeSent ==
    /\ leftover = <<>>
    /\ inode # 0 => AtTail(files[inode], pos)
    /\ fpc \in {"drain", "read"} => AtTail(files[handle], len)
    /\ RotatedOnce /\ present /\ inode # 0 => SentAll

(* LossParts: WholeSent is what LossInv says as long as no write is torn. *)
LEMMA LossParts ==
    /\ LossInv /\ ~torn => WholeSent
    /\ (~torn => WholeSent)' => LossInv'
<1>1. DOMAIN <<>> = {}
  BY SMT
<1>2. ASSUME leftover = <<>>, NEW r PROVE Received(r) <=> Sent(r)
  BY <1>1, <1>2 DEF Received, Sent, SentIn, Range
<1>3. LossInv /\ ~torn => WholeSent
  <2> SUFFICES ASSUME LossInv, ~torn PROVE WholeSent
    OBVIOUS
  <2>1. leftover = <<>>
    BY DEF LossInv
  <2>2. \A r : Received(r) <=> Sent(r)
    BY <1>2, <2>1
  <2> QED
    BY <2>1, <2>2 DEF LossInv, WholeSent, SentAll, AtTail
<1>4. ASSUME (leftover = <<>>)', NEW r PROVE Received(r)' <=> Sent(r)'
  BY <1>1, <1>4 DEF Received, Sent, SentIn, Range
<1>5. (~torn => WholeSent)' => LossInv'
  <2> SUFFICES ASSUME (~torn => WholeSent)', ~torn' PROVE LossInv'
    BY DEF LossInv
  <2>1. WholeSent' /\ leftover' = <<>>
    BY DEF WholeSent
  <2>2. \A r : Received(r)' <=> Sent(r)'
    BY <1>4, <2>1
  <2> QED
    BY <2>1, <2>2 DEF LossInv, WholeSent, SentAll, AtTail
<1> QED
  BY <1>3, <1>5

(* TailKept: a position in a file that grows. *)
LEMMA TailKept ==
    ASSUME NEW fs \in Seq(Seq(Cell)), NEW gs, Grown(fs, gs), NEW f \in DOMAIN fs, NEW p \in Nat,
           p <= Len(fs[f]), AtTail(fs[f], p)
    PROVE  AtTail(gs[f], p)
<1>1. p = 0 \/ p \in DOMAIN fs[f]
  BY FilesAre, Cells, SMT
<1> QED
  BY <1>1 DEF AtTail, Grown

(* TailerLoss: what the tailer writes lies ahead of the follower. *)
LEMMA TailerLoss ==
    ASSUME FileInv, FollowInv, TwoFiles, LossInv, BeginAppend \/ TailerStep
    PROVE  LossInv'
<1>1. TailerResult
  BY TailerWrites
<1>2. Grown(files, files') /\ UNCHANGED follower /\ torn' = torn /\ present' = present
  BY <1>1 DEF TailerResult, Written, env, circumstances
<1>3. RotatedOnce' => RotatedOnce
  BY TailerTwo
<1> SUFFICES ASSUME ~torn PROVE WholeSent'
  BY <1>2, LossParts
<1>4. WholeSent
  BY LossParts
<1>5. /\ fpc' = fpc /\ pos' = pos /\ leftover' = leftover /\ inode' = inode /\ handle' = handle
      /\ len' = len /\ first' = first /\ delivered' = delivered
  BY <1>2 DEF follower
<1>6. /\ files \in Seq(Seq(Cell)) /\ DOMAIN files = 1..Len(files) /\ Len(files) \in Nat
      /\ pos \in Nat /\ len \in Nat /\ inode \in Nat /\ first \in Nat
      /\ inode # 0 => inode \in DOMAIN files /\ pos <= Len(files[inode]) /\ first \in 1..inode
      /\ fpc \in {"drain", "read"} => handle \in DOMAIN files /\ len <= Len(files[handle])
  <2>1. files \in Seq(Seq(Cell)) /\ DOMAIN files = 1..Len(files) /\ Len(files) \in Nat
    BY SMT DEF FileInv, TypeOK
  <2>2. /\ pos \in Nat /\ len \in Nat /\ inode \in 0..Len(files) /\ handle \in 0..Len(files)
        /\ first \in 0..Len(files)
    BY DEF FileInv, TypeOK
  <2> QED
    BY <2>1, <2>2, SMT DEF FollowInv
<1>7. inode # 0 => AtTail(files'[inode], pos)
  BY <1>2, <1>4, <1>6, TailKept DEF WholeSent
<1>8. fpc \in {"drain", "read"} => AtTail(files'[handle], len)
  BY <1>2, <1>4, <1>6, TailKept DEF WholeSent
<1>9. ASSUME RotatedOnce', present, inode # 0 PROVE SentAll'
  <2>1. SentAll
    BY <1>3, <1>4, <1>9 DEF WholeSent
  <2> SUFFICES ASSUME NEW f \in first..inode, NEW i \in DOMAIN files'[f], f < inode \/ i <= pos
               PROVE  Sent(files'[f][i].rec)
    BY <1>5 DEF SentAll, Sent
  <2>2. f \in DOMAIN files
    BY <1>6, <1>9, SMT
  <2>3. CASE f < inode
    <3>1. f # Len(files)
      <4>1. inode \in 1..Len(files) /\ Len(files) \in Nat /\ f < inode /\ f \in Int
        BY <1>6, <1>9, <2>3, SMT
      <4> QED
        BY ONLY <4>1, SMT
    <3>2. files'[f] = files[f]
      BY <1>2, <2>2, <3>1 DEF Grown
    <3> QED
      BY <2>1, <2>3, <3>2 DEF SentAll
  <2>4. CASE f = inode /\ i <= pos
    <3>1. files[f] \in Seq(Cell) /\ files'[f] \in Seq(Cell)
      BY <1>1, <1>2, <1>6, <2>2, SMT DEF Grown, TailerResult, TailerTypes
    <3>2. i \in DOMAIN files[f]
      BY <1>6, <1>9, <2>4, <3>1, SMT
    <3>3. files'[f][i] = files[f][i]
      BY <1>2, <2>2, <3>2 DEF Grown
    <3> QED
      BY <2>1, <2>4, <3>2, <3>3 DEF SentAll
  <2>5. f < inode \/ f = inode
    BY <1>6, SMT
  <2> QED
    BY <2>3, <2>4, <2>5
<1> QED
  BY <1>2, <1>4, <1>5, <1>7, <1>8, <1>9 DEF WholeSent

(* OpenLoss: a poll passes nothing by. *)
LEMMA OpenLoss ==
    ASSUME FileInv, FollowInv, LossInv, Open
    PROVE  LossInv'
<1>1. /\ files' = files /\ rotated' = rotated /\ torn' = torn /\ present' = present /\ pos' = pos
      /\ leftover' = leftover /\ delivered' = delivered
      /\ \/ inode' = inode /\ first' = first /\ fpc' \in {"done", "sleep"}
         \/ /\ handle' = log /\ len' = Len(files[log]) /\ log # 0
            /\ first' = IF first = 0 THEN log ELSE first
            /\ inode' = IF inode = 0 THEN log ELSE inode
  BY DEF Open, EndPoll, tailer, env, circumstances
<1> SUFFICES ASSUME ~torn PROVE WholeSent'
  BY <1>1, LossParts
<1>2. WholeSent
  BY LossParts
<1>3. RotatedOnce' <=> RotatedOnce
  BY <1>1 DEF RotatedOnce
<1>4. CASE inode' = inode /\ first' = first /\ fpc' \in {"done", "sleep"}
  BY <1>1, <1>2, <1>3, <1>4 DEF WholeSent, SentAll, Sent
<1>5. CASE /\ handle' = log /\ len' = Len(files[log]) /\ log # 0
           /\ first' = IF first = 0 THEN log ELSE first
           /\ inode' = IF inode = 0 THEN log ELSE inode
  <2>1. log \in DOMAIN files /\ files[log] \in Seq(Cell) /\ log \in Nat
    BY <1>5, FileTypes, SMT
  <2>2. Closed(files[log])
    BY <2>1 DEF FileInv
  <2>3. AtTail(files[log], Len(files[log]))
    BY <2>1, <2>2, SMT DEF Closed, AtTail
  <2>4. CASE inode # 0
    <3>1. inode' = inode /\ first' = first
      BY <1>5, <2>4, FileTypes, SMT DEF FollowInv
    <3> QED
      BY <1>1, <1>2, <1>3, <1>5, <2>3, <3>1 DEF WholeSent, SentAll, Sent
  <2>5. CASE inode = 0
    <3>1. pos = 0 /\ first' = log /\ inode' = log
      BY <1>5, <2>5 DEF FollowInv
    <3>2. SentAll'
      <4> SUFFICES ASSUME NEW f \in log..log, NEW i \in DOMAIN files[f], f < log \/ i <= 0
                   PROVE  FALSE
        BY <1>1, <3>1 DEF SentAll, Sent
      <4>1. f = log
        BY <2>1, SMT
      <4> QED
        BY <2>1, <4>1, SMT
    <3>3. AtTail(files[log], pos)
      BY <3>1 DEF AtTail
    <3> QED
      BY <1>1, <1>2, <1>5, <2>3, <3>1, <3>2, <3>3 DEF WholeSent
  <2> QED
    BY <2>4, <2>5
<1> QED
  BY <1>1, <1>4, <1>5

(* SentMore: what was sent stays sent, and what is decoded is sent. *)
LEMMA SentMore ==
    ASSUME NEW a \in Seq(Records), NEW b \in Seq(Records)
    PROVE  \A r : SentIn(a, r) \/ SentIn(b, r) => SentIn(a \o b, r)
<1> DEFINE s == a \o b
<1>1. /\ Len(a) \in Nat /\ Len(b) \in Nat /\ DOMAIN a = 1..Len(a) /\ DOMAIN b = 1..Len(b)
      /\ DOMAIN s = 1..Len(a) + Len(b)
      /\ \A k \in DOMAIN s : s[k] = IF k <= Len(a) THEN a[k] ELSE b[k - Len(a)]
  BY SMT
<1> HIDE DEF s
<1>2. ASSUME NEW d \in DOMAIN a PROVE \E k \in DOMAIN s : s[k] = a[d]
  <2>1. d \in DOMAIN s /\ d <= Len(a)
    BY <1>1, SMT
  <2> QED
    BY <1>1, <2>1
<1>3. ASSUME NEW d \in DOMAIN b PROVE \E k \in DOMAIN s : s[k] = b[d]
  <2>1. d + Len(a) \in DOMAIN s /\ ~(d + Len(a) <= Len(a)) /\ (d + Len(a)) - Len(a) = d
    BY <1>1, SMT
  <2> QED
    BY <1>1, <2>1
<1> QED
  BY <1>2, <1>3 DEF SentIn, s

(* DrainRotatedLoss: when the follower leaves the file, all of it was sent. *)
LEMMA DrainRotatedLoss ==
    ASSUME FileInv, FollowInv, TwoFiles, LossInv, DrainRotated
    PROVE  LossInv'
<1> DEFINE b == RotatedRemainder
           q == files[inode]
           c == SubSeq(q, pos + 1, Len(q))
<1>1. /\ files' = files /\ rotated' = rotated /\ torn' = torn /\ present' = present /\ pos' = 0
      /\ leftover' = <<>> /\ inode' = handle /\ handle' = handle /\ len' = len /\ first' = first
      /\ fpc = "drain" /\ delivered' = delivered \o b
  BY DEF DrainRotated, tailer, env, circumstances
<1> SUFFICES ASSUME ~torn PROVE WholeSent'
  BY <1>1, LossParts
<1>2. WholeSent
  BY LossParts
<1>3. RotatedOnce' <=> RotatedOnce
  BY <1>1 DEF RotatedOnce
<1>4. /\ inode \in DOMAIN files /\ handle \in DOMAIN files /\ DOMAIN files = 1..Len(files)
      /\ inode < handle /\ first \in 1..inode /\ pos \in Nat /\ pos <= Len(q)
      /\ q \in Seq(Cell) /\ Len(files) \in Nat /\ delivered \in Seq(Records)
  BY <1>1, FileTypes, SMT DEF FollowInv
<1>5. b \in Seq(Records)
  BY <1>1, RestTypes
<1>6. AtTail(q, pos) /\ AtTail(files[handle], len)
  BY <1>1, <1>2 DEF WholeSent, FollowInv
<1>7. Alternates(q) /\ Closed(q)
  BY <1>4 DEF FileInv, Ordered
<1>8. IsRest(c, q, pos)
  BY <1>4, RestIs
<1>9. ASSUME RotatedOnce, present PROVE SentAll'
  <2>1. SentAll
    BY <1>2, <1>4, <1>9, SMT DEF WholeSent
  <2>2. Len(files) = 2 /\ inode = 1 /\ handle = 2 /\ first = 1
    <3>1. Len(files) <= 2
      BY <1>9 DEF RotatedOnce
    <3> QED
      BY <1>4, <3>1, SMT
  <2>3. rotated[1] = 1
    <3>1. 2 \in 2..MaxRotated
      BY BoundsAssumption, SMT
    <3>2. rotated[2] = 0
      BY <1>9, <3>1 DEF RotatedOnce
    <3> QED
      BY <1>9, <2>2, <3>2 DEF TwoFiles
  <2>4. b = Decode(c)
    BY <2>2, <2>3 DEF RotatedRemainder
  <2> HIDE DEF b, c
  <2>5. ASSUME NEW i \in DOMAIN q PROVE SentIn(delivered \o b, q[i].rec)
    <3>1. i \in Nat
      BY <1>4, SMT
    <3>2. CASE i <= pos
      <4>1. inode \in first..inode
        BY <1>4, SMT
      <4>2. Sent(q[i].rec)
        BY <2>1, <3>2, <4>1 DEF SentAll
      <4> QED
        BY <1>4, <1>5, <4>2, SentMore DEF Sent
    <3>3. CASE pos < i
      <4>1. SentIn(b, q[i].rec)
        BY <1>6, <1>7, <1>8, <2>4, <3>3, RestComplete, SMT DEF AtTail, SentIn
      <4> QED
        BY <1>4, <1>5, <4>1, SentMore
    <3> QED
      BY <1>4, <3>1, <3>2, <3>3, SMT
  <2> SUFFICES ASSUME NEW f \in first..handle, NEW i \in DOMAIN files[f], f < handle \/ i <= 0
               PROVE  SentIn(delivered \o b, files[f][i].rec)
    BY <1>1 DEF SentAll, Sent
  <2>6. f \in DOMAIN files /\ i \in 1..Len(files[f])
    <3>1. f \in DOMAIN files
      BY <1>4, SMT
    <3> QED
      BY <3>1, FileTypes
  <2>7. f = inode
    BY <2>2, <2>6, SMT
  <2> QED
    BY <2>5, <2>7
<1>10. AtTail(files[handle], 0)
  BY DEF AtTail
<1> QED
  BY <1>1, <1>3, <1>6, <1>9, <1>10 DEF WholeSent

(* ReadEventsLoss: what the position passes is sent, or is in the leftover. *)
LEMMA ReadEventsLoss ==
    ASSUME FileInv, FollowInv, LossInv, ReadEvents
    PROVE  LossInv'
<1> DEFINE q == files[handle]
           c == SubSeq(q, pos + 1, Len(q))
           b == Decode(leftover \o c)
<1>1. /\ files' = files /\ rotated' = rotated /\ torn' = torn /\ present' = present /\ pos' = len
      /\ leftover' = Remainder(leftover \o c) /\ inode' = inode /\ handle' = handle /\ len' = len
      /\ first' = first /\ fpc = "read" /\ fpc' \in {"done", "sleep"} /\ delivered' = delivered \o b
  BY DEF ReadEvents, EndPoll, tailer, env, circumstances
<1> SUFFICES ASSUME ~torn PROVE WholeSent'
  BY <1>1, LossParts
<1>2. WholeSent /\ leftover = <<>>
  BY LossParts DEF WholeSent
<1>3. RotatedOnce' <=> RotatedOnce
  BY <1>1 DEF RotatedOnce
<1>4. /\ inode = handle /\ inode # 0 /\ handle \in DOMAIN files /\ DOMAIN files = 1..Len(files)
      /\ first \in 1..inode /\ pos \in Nat /\ len \in Nat /\ pos <= len /\ len <= Len(q)
      /\ q \in Seq(Cell) /\ Len(files) \in Nat /\ delivered \in Seq(Records) /\ Len(q) \in Nat
  BY <1>1, FileTypes, SMT DEF FollowInv
<1>5. AtTail(q, pos) /\ AtTail(q, len)
  BY <1>1, <1>2, <1>4 DEF WholeSent
<1>6. Alternates(q) /\ Closed(q)
  BY <1>4 DEF FileInv, Ordered
<1>7. IsRest(c, q, pos)
  BY <1>4, RestIs, SMT
<1>8. c \in Seq(Cell) /\ leftover \o c = c
  BY <1>2, <1>7, SMT DEF IsRest
<1>9. b = Decode(c) /\ leftover' = Remainder(c) /\ b \in Seq(Records)
  BY <1>1, <1>8, DecodedTypes
<1>10. Remainder(c) = <<>>
  <2>1. CASE pos = Len(q)
    BY <1>6, <1>7, <2>1, RestRemainder
  <2>2. CASE pos < Len(q)
    <3>1. q[Len(q)].half = "tail"
      BY <1>4, <1>6, <2>2, SMT DEF Closed
    <3> QED
      BY <1>6, <1>7, <2>2, <3>1, RestRemainder
  <2> QED
    BY <1>4, <2>1, <2>2, SMT
<1> HIDE DEF b, c
<1>11. ASSUME RotatedOnce, present PROVE SentAll'
  <2>1. SentAll
    BY <1>2, <1>4, <1>11 DEF WholeSent
  <2> SUFFICES ASSUME NEW f \in first..inode, NEW i \in DOMAIN files[f], f < inode \/ i <= len
               PROVE  SentIn(delivered \o b, files[f][i].rec)
    BY <1>1 DEF SentAll, Sent
  <2>2. CASE f < inode \/ i <= pos
    <3>1. Sent(files[f][i].rec)
      BY <2>1, <2>2 DEF SentAll
    <3> QED
      BY <1>4, <1>9, <3>1, SentMore DEF Sent
  <2>3. CASE f = inode /\ pos < i
    <3>1. i \in DOMAIN q
      BY <1>4, <2>3
    <3>2. SentIn(b, q[i].rec)
      BY <1>5, <1>6, <1>7, <1>9, <2>3, <3>1, RestComplete, SMT DEF AtTail, SentIn
    <3> QED
      BY <1>4, <1>9, <2>3, <3>2, SentMore
  <2>a. f \in DOMAIN files
    BY <1>4, SMT
  <2>4. f \in DOMAIN files /\ files[f] \in Seq(Cell)
    BY <2>a, SMT DEF FileInv, TypeOK
  <2>5. i \in Nat /\ f \in Nat /\ inode \in Nat
    BY <1>4, <2>4, SMT
  <2>6. (f < inode \/ i <= pos) \/ (f = inode /\ pos < i)
    BY <1>4, <2>5, SMT
  <2> QED
    BY ONLY <2>2, <2>3, <2>6
<1> QED
  BY <1>1, <1>3, <1>4, <1>5, <1>9, <1>10, <1>11 DEF WholeSent

(* OthersLoss: the steps that neither write, nor open, nor read. *)
LEMMA OthersLoss ==
    ASSUME LossInv,
           UNCHANGED <<files, torn, pos, leftover, inode, handle, len, first, delivered>>,
           UNCHANGED <<rotated, present>> \/ present' = FALSE,
           fpc' = fpc \/ fpc' \in {"poll", "done"}
    PROVE  LossInv'
<1> SUFFICES ASSUME ~torn PROVE WholeSent'
  BY LossParts
<1>1. WholeSent
  BY LossParts
<1>2. fpc' \in {"drain", "read"} => fpc' = fpc
  OBVIOUS
<1>3. RotatedOnce' /\ present' => RotatedOnce /\ present
  BY DEF RotatedOnce
<1>4. SentAll' <=> SentAll
  BY DEF SentAll, Sent
<1> QED
  BY <1>1, <1>2, <1>3, <1>4 DEF WholeSent

(* NextLoss: every step keeps what was sent complete. *)
LEMMA NextLoss ==
    ASSUME FileInv, FollowInv, TwoFiles, LossInv, [Next]_vars
    PROVE  TwoFiles' /\ LossInv'
<1> USE DEF tailer, follower, watching, env, circumstances
<1>1. CASE BeginAppend \/ TailerStep
  BY <1>1, TailerTwo, TailerLoss
<1>2. CASE Open \/ DrainRotated \/ ReadEvents
  <2>1. UNCHANGED <<tailer, present>>
    BY <1>2 DEF Open, DrainRotated, ReadEvents
  <2> QED
    BY <1>2, <2>1, OthersTwo, OpenLoss, DrainRotatedLoss, ReadEventsLoss
<1>3. CASE Wake \/ TakeStop \/ FollowerEnds
  BY <1>3, OthersTwo, OthersLoss DEF Wake, TakeStop, FollowerEnds
<1>4. CASE WatchEnds \/ WatchGoesOn \/ WatchFails \/ WatchClosed
  BY <1>4, OthersTwo, OthersLoss DEF WatchEnds, WatchGoesOn, WatchFails, WatchClosed
<1>5. CASE TaskChanges
  BY <1>5, OthersTwo, OthersLoss DEF TaskChanges
<1>6. CASE ContainerDeleted
  <2>1. TwoFiles'
    BY <1>6, OthersTwo
  <2> QED
    BY <1>6, <2>1, OthersLoss DEF ContainerDeleted
<1>7. CASE UNCHANGED vars
  BY <1>7, OthersTwo, OthersLoss DEF vars
<1> QED
  BY <1>1, <1>2, <1>3, <1>4, <1>5, <1>6, <1>7 DEF Next, FollowerStep

(* LossSafety: poll_events_once and drain_rotated_remainder lose nothing: of *)
(* a log that was rotated once and of writes seen whole, the follower has    *)
(* sent all that lies behind it, for every number of records, size of the    *)
(* files and order of the steps, those in the middle of a poll included.     *)
THEOREM LossSafety == Spec => []NothingLost
<1>1. Init => TwoFiles /\ LossInv
  <2> SUFFICES ASSUME Init PROVE TwoFiles /\ LossInv
    OBVIOUS
  <2>1. Len(files) = 0 /\ log = 0 /\ \A n \in 1..MaxRotated : rotated[n] = 0
    BY DEF Init
  <2>2. inode = 0 /\ fpc = "poll" /\ leftover = <<>>
    BY DEF Init
  <2> QED
    BY <2>1, <2>2, SMT DEF TwoFiles, LossInv
<1>2. FileInv /\ FollowInv /\ TwoFiles /\ LossInv /\ [Next]_vars => (TwoFiles /\ LossInv)'
  BY NextLoss
<1>3. LossInv => NothingLost
  BY DEF LossInv, NothingLost
<1> QED
  BY <1>1, <1>2, <1>3, FilesAndFollower, PTL DEF Spec

------------------------------------------------------------------------------
(* The task: TaskLifecycle *)

(* What a setting allows. *)
LEMMA SettingFacts ==
    ASSUME setting \in Settings
    PROVE  setting.ops \subseteq Operations /\ setting.calls \in 0..MaxCalls
  BY SettingAssumption DEF Setting

(* The initial state is well typed. *)
LEMMA TaskInitTypeOK == TaskInit => TaskTypeOK
<1> SUFFICES ASSUME TaskInit PROVE TaskTypeOK
  OBVIOUS
<1>1. "idle" \in Label /\ "none" \in TaskState
  BY DEF Label, TaskState
<1>2. calls \in 0..MaxCalls /\ run \in Nat /\ startTime \in 0..run
  BY CallsAssumption, SMTT(30) DEF TaskInit
<1> QED
  BY <1>1, <1>2 DEF TaskInit, TaskTypeOK

(* Every step keeps the types. *)
LEMMA TaskNextTypeOK == TaskTypeOK /\ [TaskNext]_taskVars => TaskTypeOK'
<1> SUFFICES ASSUME TaskTypeOK, [TaskNext]_taskVars PROVE TaskTypeOK'
  OBVIOUS
<1> USE CallsAssumption
    DEF TaskTypeOK, Label, StartLabel, StopLabel, DeleteLabel, TaskState,
        containerd, client, Goto, Return
<1>1. CASE UNCHANGED taskVars
  BY <1>1 DEF taskVars
<1>2. ASSUME NEW c \in Callers, NEW o \in setting.ops, Begin(c, o) PROVE TaskTypeOK'
  BY <1>2, SettingFacts, SMTT(30) DEF Begin, First, Operations
<1>3. ASSUME NEW c \in Callers, GetRecord(c) PROVE TaskTypeOK'
  BY <1>3 DEF GetRecord
<1>4. ASSUME NEW c \in Callers, Mounts(c) PROVE TaskTypeOK'
  BY <1>4 DEF Mounts
<1>5. ASSUME NEW c \in Callers, PrepareLogs(c) PROVE TaskTypeOK'
  BY <1>5 DEF PrepareLogs
<1>6. ASSUME NEW c \in Callers, CreateTask(c) PROVE TaskTypeOK'
  <2>1. task' \in TaskState /\ run' \in Nat /\ run' >= run
    BY <1>6, SMTT(30) DEF CreateTask
  <2>3. killed' = FALSE \/ killed' = killed
    BY <1>6 DEF CreateTask
  <2>2. /\ pc' \in [Callers -> Label]
        /\ ret' \in [Callers -> {"none", "ok", "err", "cancelled"}]
        /\ UNCHANGED <<setting, op, calls, record, snap, client>>
    BY <1>6 DEF CreateTask
  <2>4. startTime' \in 0..run'
    BY <2>1, <2>2, SMT
  <2> QED
    BY <2>1, <2>2, <2>3, <2>4
<1>7. ASSUME NEW c \in Callers, StartTask(c) PROVE TaskTypeOK'
  BY <1>7 DEF StartTask
<1>8. ASSUME NEW c \in Callers, RecordStart(c) PROVE TaskTypeOK'
  BY <1>8, SMTT(30) DEF RecordStart
<1>9. ASSUME NEW c \in Callers, StartTailer(c) PROVE TaskTypeOK'
  BY <1>9 DEF StartTailer
<1>10. ASSUME NEW c \in Callers, Sigterm(c) PROVE TaskTypeOK'
  BY <1>10 DEF Sigterm
<1>11. ASSUME NEW c \in Callers, WaitTerm(c) PROVE TaskTypeOK'
  BY <1>11 DEF WaitTerm
<1>12. ASSUME NEW c \in Callers, CheckRunning(c) PROVE TaskTypeOK'
  BY <1>12 DEF CheckRunning, StopReturns
<1>13. ASSUME NEW c \in Callers, Sigkill(c) PROVE TaskTypeOK'
  BY <1>13 DEF Sigkill
<1>14. ASSUME NEW c \in Callers, WaitKill(c) PROVE TaskTypeOK'
  BY <1>14 DEF WaitKill, StopReturns
<1>15. ASSUME NEW c \in Callers, DeleteTask(c) PROVE TaskTypeOK'
  BY <1>15 DEF DeleteTask
<1>16. ASSUME NEW c \in Callers, Forget(c) PROVE TaskTypeOK'
  BY <1>16, SMTT(30) DEF Forget
<1>17. ASSUME NEW c \in Callers, TaskGone(c) PROVE TaskTypeOK'
  BY <1>17 DEF TaskGone
<1>18. ASSUME NEW c \in Callers, RmRecord(c) PROVE TaskTypeOK'
  BY <1>18 DEF RmRecord
<1>19. ASSUME NEW c \in Callers, RmSnap(c) PROVE TaskTypeOK'
  BY <1>19 DEF RmSnap
<1>20. ASSUME NEW c \in Callers, RmLogs(c) PROVE TaskTypeOK'
  BY <1>20 DEF RmLogs
<1>21. ASSUME NEW c \in Callers, RecordGone(c) PROVE TaskTypeOK'
  BY <1>21 DEF RecordGone, Decide
<1>22. ASSUME NEW c \in Callers, StopManaged(c) PROVE TaskTypeOK'
  BY <1>22 DEF StopManaged
<1>23. ASSUME NEW c \in Callers, PauseContainer(c) PROVE TaskTypeOK'
  BY <1>23 DEF PauseContainer
<1>24. ASSUME NEW c \in Callers, UnpauseContainer(c) PROVE TaskTypeOK'
  BY <1>24 DEF UnpauseContainer
<1>25. ASSUME NEW c \in Callers, WaitExit(c) PROVE TaskTypeOK'
  BY <1>25 DEF WaitExit
<1>26. ASSUME NEW c \in Callers, Forward(c) PROVE TaskTypeOK'
  BY <1>26 DEF Forward
<1>27. ASSUME NEW c \in Callers, Timeout(c) PROVE TaskTypeOK'
  BY <1>27, SMTT(30) DEF Timeout, Decide, StopReturns
<1>28. ASSUME NEW c \in Callers, Cancel(c) PROVE TaskTypeOK'
  BY <1>28 DEF Cancel
<1>29. CASE TaskExits
  BY <1>29 DEF TaskExits
<1> QED
  BY <1>1, <1>2, <1>3, <1>4, <1>5, <1>6, <1>7, <1>8, <1>9, <1>10, <1>11,
     <1>12, <1>13, <1>14, <1>15, <1>16, <1>17, <1>18, <1>19, <1>20, <1>21,
     <1>22, <1>23, <1>24, <1>25, <1>26, <1>27, <1>28, <1>29
     DEF TaskNext, Step

(* TypeCorrect: every reachable state is well typed. *)
THEOREM TaskTypeCorrect == TaskSpec => []TaskTypeOK
  BY TaskInitTypeOK, TaskNextTypeOK, PTL DEF TaskSpec

------------------------------------------------------------------------------
(* What delete_container promises *)

(* Every step keeps DeleteInv: only a start brings back what a delete takes  *)
(* away, and none is under way while a delete is.                            *)
LEMMA NextDeleteInv ==
    ASSUME TaskTypeOK, DeleteInv, [TaskNext]_taskVars
    PROVE  DeleteInv'
<1> USE DEF TaskTypeOK, DeleteInv, OpOfLabel, PastTask, StartLabel, StopLabel,
        DeleteLabel, Starting, Stopping, InCall, At, containerd, client, Goto,
        Return
<1>1. CASE UNCHANGED taskVars
  BY <1>1 DEF taskVars
<1>2. ASSUME NEW c \in Callers, NEW o \in setting.ops, Begin(c, o) PROVE DeleteInv'
  BY <1>2, SettingFacts, SMTT(30) DEF Begin, First, Operations
<1>3. ASSUME NEW c \in Callers, GetRecord(c) PROVE DeleteInv'
  BY <1>3, SMTT(30) DEF GetRecord
<1>4. ASSUME NEW c \in Callers, Mounts(c) PROVE DeleteInv'
  BY <1>4, SMTT(30) DEF Mounts
<1>5. ASSUME NEW c \in Callers, PrepareLogs(c) PROVE DeleteInv'
  BY <1>5, SMTT(30) DEF PrepareLogs
<1>6. ASSUME NEW c \in Callers, CreateTask(c) PROVE DeleteInv'
  BY <1>6, SMTT(30) DEF CreateTask
<1>7. ASSUME NEW c \in Callers, StartTask(c) PROVE DeleteInv'
  BY <1>7, SMTT(30) DEF StartTask
<1>8. ASSUME NEW c \in Callers, RecordStart(c) PROVE DeleteInv'
  BY <1>8, SMTT(30) DEF RecordStart
<1>9. ASSUME NEW c \in Callers, StartTailer(c) PROVE DeleteInv'
  BY <1>9 DEF StartTailer
<1>10. ASSUME NEW c \in Callers, Sigterm(c) PROVE DeleteInv'
  BY <1>10, SMTT(30) DEF Sigterm
<1>11. ASSUME NEW c \in Callers, WaitTerm(c) PROVE DeleteInv'
  BY <1>11 DEF WaitTerm
<1>12. ASSUME NEW c \in Callers, CheckRunning(c) PROVE DeleteInv'
  BY <1>12, SMTT(30) DEF CheckRunning, StopReturns
<1>13. ASSUME NEW c \in Callers, Sigkill(c) PROVE DeleteInv'
  BY <1>13, SMTT(30) DEF Sigkill
<1>14. ASSUME NEW c \in Callers, WaitKill(c) PROVE DeleteInv'
  BY <1>14, SMTT(30) DEF WaitKill, StopReturns
<1>15. ASSUME NEW c \in Callers, DeleteTask(c) PROVE DeleteInv'
  BY <1>15, SMTT(30) DEF DeleteTask
<1>16. ASSUME NEW c \in Callers, Forget(c) PROVE DeleteInv'
  BY <1>16, SMTT(30) DEF Forget
<1>17. ASSUME NEW c \in Callers, TaskGone(c) PROVE DeleteInv'
  BY <1>17, SMTT(30) DEF TaskGone
<1>18. ASSUME NEW c \in Callers, RmRecord(c) PROVE DeleteInv'
  BY <1>18, SMTT(30) DEF RmRecord
<1>19. ASSUME NEW c \in Callers, RmSnap(c) PROVE DeleteInv'
  BY <1>19, SMTT(30) DEF RmSnap
<1>20. ASSUME NEW c \in Callers, RmLogs(c) PROVE DeleteInv'
  BY <1>20 DEF RmLogs
<1>21. ASSUME NEW c \in Callers, RecordGone(c) PROVE DeleteInv'
  BY <1>21, SMTT(30) DEF RecordGone, Decide
<1>22. ASSUME NEW c \in Callers, StopManaged(c) PROVE DeleteInv'
  BY <1>22 DEF StopManaged
<1>23. ASSUME NEW c \in Callers, PauseContainer(c) PROVE DeleteInv'
  BY <1>23, SMTT(30) DEF PauseContainer
<1>24. ASSUME NEW c \in Callers, UnpauseContainer(c) PROVE DeleteInv'
  BY <1>24, SMTT(30) DEF UnpauseContainer
<1>25. ASSUME NEW c \in Callers, WaitExit(c) PROVE DeleteInv'
  BY <1>25, SMTT(30) DEF WaitExit
<1>26. ASSUME NEW c \in Callers, Forward(c) PROVE DeleteInv'
  BY <1>26, SMTT(30) DEF Forward
<1>27. ASSUME NEW c \in Callers, Timeout(c) PROVE DeleteInv'
  BY <1>27, SMTT(30) DEF Timeout, Decide, StopReturns
<1>28. ASSUME NEW c \in Callers, Cancel(c) PROVE DeleteInv'
  BY <1>28, SMTT(30) DEF Cancel
<1>29. CASE TaskExits
  BY <1>29 DEF TaskExits
<1> QED
  BY <1>1, <1>2, <1>3, <1>4, <1>5, <1>6, <1>7, <1>8, <1>9, <1>10, <1>11,
     <1>12, <1>13, <1>14, <1>15, <1>16, <1>17, <1>18, <1>19, <1>20, <1>21,
     <1>22, <1>23, <1>24, <1>25, <1>26, <1>27, <1>28, <1>29
     DEF TaskNext, Step

(* DeleteInvariant: the inductive invariant holds when starts do not race. *)
THEOREM DeleteInvariant == TaskSpec => []DeleteInv
<1>1. TaskInit => DeleteInv
  BY DEF TaskInit, DeleteInv, OpOfLabel, PastTask, StartLabel, StopLabel,
     DeleteLabel, Starting, Stopping, InCall
<1>2. TaskTypeOK /\ DeleteInv /\ [TaskNext]_taskVars => DeleteInv'
  BY NextDeleteInv
<1> QED
  BY <1>1, <1>2, TaskTypeCorrect, PTL DEF TaskSpec

(* DeleteKeepsOrder: when no start overlaps a delete, remove_container never *)
(* deletes the record of a container that has a task, for any number of      *)
(* callers and calls, with any failures and cancellations.                   *)
THEOREM DeleteKeepsOrder == TaskSpec => RecordOutlivesTask
<1>1. TaskTypeOK /\ DeleteInv /\ [TaskNext]_taskVars
        => [~setting.races /\ record /\ ~record' => task = "none"]_taskVars
  <2> SUFFICES ASSUME TaskTypeOK, DeleteInv, TaskNext, ~setting.races, record, ~record'
               PROVE  task = "none"
    BY DEF taskVars, containerd
  <2>1. ASSUME NEW c \in Callers, RmRecord(c) PROVE task = "none"
    BY <2>1 DEF RmRecord, At, DeleteInv, PastTask
  <2>2. ASSUME NEW c \in Callers, Step(c), ~RmRecord(c) PROVE UNCHANGED record
    BY <2>2 DEF Step, GetRecord, Mounts, PrepareLogs, CreateTask, StartTask,
       RecordStart, StartTailer, Sigterm, WaitTerm, CheckRunning, Sigkill,
       WaitKill, DeleteTask, Forget, TaskGone, RmSnap, RmLogs, RecordGone,
       StopManaged, PauseContainer, UnpauseContainer, WaitExit, Forward,
       containerd
  <2> QED
    BY <2>1, <2>2 DEF TaskNext, Begin, Timeout, Cancel, TaskExits, containerd
<1> QED
  BY <1>1, TaskTypeCorrect, DeleteInvariant, PTL DEF TaskSpec, RecordOutlivesTask

(* DeleteCompleteness: under the same condition, an Ok of delete_container   *)
(* means that nothing of the container is left but a snapshot whose removal  *)
(* failed.                                                                   *)
THEOREM DeleteCompleteness == TaskSpec => DeleteIsComplete
<1> DEFINE Complete(c) ==
        Returns(c, "delete", "ok") =>
          /\ ~record' /\ task' = "none" /\ (snap' => leaked')
          /\ ~logDir' /\ startTime' = 0 /\ managed' = {}
<1>1. TaskTypeOK /\ DeleteInv /\ [TaskNext]_taskVars
        => [~setting.races => \A c \in Callers : Complete(c)]_taskVars
  <2> SUFFICES ASSUME TaskTypeOK, DeleteInv, TaskNext, ~setting.races, NEW c \in Callers,
                      Returns(c, "delete", "ok")
               PROVE  /\ ~record' /\ task' = "none" /\ (snap' => leaked')
                      /\ ~logDir' /\ startTime' = 0 /\ managed' = {}
    OBVIOUS
  <2> USE DEF Returns, InCall, At
  <2>1. ASSUME StopManaged(c)
        PROVE  /\ ~record' /\ task' = "none" /\ (snap' => leaked')
               /\ ~logDir' /\ startTime' = 0 /\ managed' = {}
    BY <2>1 DEF StopManaged, Goto, DeleteInv, containerd
  <2>2. ASSUME NEW d \in Callers, Step(d) PROVE d = c
    BY <2>2 DEF TaskTypeOK, Step, GetRecord, Mounts, PrepareLogs, CreateTask,
       StartTask, RecordStart, StartTailer, Sigterm, WaitTerm, CheckRunning, Sigkill,
       WaitKill, DeleteTask, Forget, TaskGone, RmRecord, RmSnap, RmLogs,
       RecordGone, StopManaged, PauseContainer, UnpauseContainer, WaitExit,
       Forward, Goto, Return, Decide, StopReturns
  <2>3. ASSUME Step(c) PROVE StopManaged(c)
    BY <2>3 DEF TaskTypeOK, DeleteInv, OpOfLabel, StartLabel, StopLabel,
       DeleteLabel, Step, GetRecord, Mounts, PrepareLogs, CreateTask, StartTask,
       RecordStart, StartTailer, Sigterm, WaitTerm, CheckRunning, Sigkill,
       WaitKill, DeleteTask, Forget, TaskGone, RmRecord, RmSnap, RmLogs,
       RecordGone, PauseContainer, UnpauseContainer, WaitExit,
       Forward, Goto, Return, Decide, StopReturns
  <2>4. ASSUME NEW d \in Callers, NEW o \in setting.ops, Begin(d, o) PROVE FALSE
    BY <2>4, SettingFacts DEF TaskTypeOK, Begin, First, Operations
  <2>5. ASSUME NEW d \in Callers, Timeout(d) \/ Cancel(d) PROVE FALSE
    BY <2>5 DEF TaskTypeOK, DeleteInv, OpOfLabel, StartLabel, StopLabel,
       DeleteLabel, Timeout, Cancel, Goto, Return, Decide, StopReturns
  <2> QED
    BY <2>1, <2>2, <2>3, <2>4, <2>5 DEF TaskNext, TaskExits
<1> QED
  BY <1>1, TaskTypeCorrect, DeleteInvariant, PTL DEF TaskSpec, DeleteIsComplete

------------------------------------------------------------------------------
(* The task a start time and a stop are about *)

(* Every step keeps RunInv. *)
LEMMA NextRunInv ==
    ASSUME TaskTypeOK, DeleteInv, RunInv, [TaskNext]_taskVars
    PROVE  RunInv'
<1> USE DEF TaskTypeOK, DeleteInv, RunInv, UptimeIsCurrent, OpOfLabel, PastTask, StartLabel,
        StopLabel, DeleteLabel, Starting, Stopping, InCall, At, containerd, client,
        Goto, Return, Fails, Lost
<1>1. CASE UNCHANGED taskVars
  BY <1>1 DEF taskVars
<1>2. ASSUME NEW c \in Callers, NEW o \in setting.ops, Begin(c, o) PROVE RunInv'
  BY <1>2, SettingFacts, SMTT(30) DEF Begin, First, Operations
<1>3. ASSUME NEW c \in Callers, GetRecord(c) PROVE RunInv'
  BY <1>3, SMTT(30) DEF GetRecord
<1>4. ASSUME NEW c \in Callers, Mounts(c) PROVE RunInv'
  BY <1>4, SMTT(30) DEF Mounts
<1>5. ASSUME NEW c \in Callers, PrepareLogs(c) PROVE RunInv'
  BY <1>5, SMTT(30) DEF PrepareLogs
<1>6. ASSUME NEW c \in Callers, CreateTask(c) PROVE RunInv'
  BY <1>6, SMTT(30) DEF CreateTask
<1>7. ASSUME NEW c \in Callers, StartTask(c) PROVE RunInv'
  BY <1>7 DEF StartTask
<1>8. ASSUME NEW c \in Callers, RecordStart(c) PROVE RunInv'
  BY <1>8 DEF RecordStart
<1>9. ASSUME NEW c \in Callers, StartTailer(c) PROVE RunInv'
  BY <1>9 DEF StartTailer
<1>10. ASSUME NEW c \in Callers, Sigterm(c) PROVE RunInv'
  BY <1>10 DEF Sigterm
<1>11. ASSUME NEW c \in Callers, WaitTerm(c) PROVE RunInv'
  BY <1>11 DEF WaitTerm
<1>12. ASSUME NEW c \in Callers, CheckRunning(c) PROVE RunInv'
  BY <1>12, SMTT(30) DEF CheckRunning, StopReturns
<1>13. ASSUME NEW c \in Callers, Sigkill(c) PROVE RunInv'
  BY <1>13 DEF Sigkill
<1>14. ASSUME NEW c \in Callers, WaitKill(c) PROVE RunInv'
  BY <1>14, SMTT(30) DEF WaitKill, StopReturns
<1>15. ASSUME NEW c \in Callers, DeleteTask(c) PROVE RunInv'
  BY <1>15, SMTT(30) DEF DeleteTask
<1>16. ASSUME NEW c \in Callers, Forget(c) PROVE RunInv'
  BY <1>16 DEF Forget
<1>17. ASSUME NEW c \in Callers, TaskGone(c) PROVE RunInv'
  BY <1>17, SMTT(30) DEF TaskGone
<1>18. ASSUME NEW c \in Callers, RmRecord(c) PROVE RunInv'
  BY <1>18 DEF RmRecord
<1>19. ASSUME NEW c \in Callers, RmSnap(c) PROVE RunInv'
  BY <1>19 DEF RmSnap
<1>20. ASSUME NEW c \in Callers, RmLogs(c) PROVE RunInv'
  BY <1>20 DEF RmLogs
<1>21. ASSUME NEW c \in Callers, RecordGone(c) PROVE RunInv'
  BY <1>21, SMTT(30) DEF RecordGone, Decide
<1>22. ASSUME NEW c \in Callers, StopManaged(c) PROVE RunInv'
  BY <1>22 DEF StopManaged
<1>23. ASSUME NEW c \in Callers, PauseContainer(c) PROVE RunInv'
  BY <1>23 DEF PauseContainer
<1>24. ASSUME NEW c \in Callers, UnpauseContainer(c) PROVE RunInv'
  BY <1>24, SMTT(30) DEF UnpauseContainer
<1>25. ASSUME NEW c \in Callers, WaitExit(c) PROVE RunInv'
  BY <1>25, SMTT(30) DEF WaitExit
<1>26. ASSUME NEW c \in Callers, Forward(c) PROVE RunInv'
  BY <1>26, SMTT(30) DEF Forward
<1>27. ASSUME NEW c \in Callers, Timeout(c) PROVE RunInv'
  BY <1>27, SMTT(30) DEF Timeout, Decide, StopReturns
<1>28. ASSUME NEW c \in Callers, Cancel(c) PROVE RunInv'
  BY <1>28 DEF Cancel
<1>29. CASE TaskExits
  BY <1>29 DEF TaskExits
<1> HIDE DEF TaskTypeOK, DeleteInv, RunInv, UptimeIsCurrent
<1> QED
  BY <1>1, <1>2, <1>3, <1>4, <1>5, <1>6, <1>7, <1>8, <1>9, <1>10, <1>11,
     <1>12, <1>13, <1>14, <1>15, <1>16, <1>17, <1>18, <1>19, <1>20, <1>21,
     <1>22, <1>23, <1>24, <1>25, <1>26, <1>27, <1>28, <1>29
     DEF TaskNext, Step

(* RunInvariant: the inductive invariant holds. *)
LEMMA RunInvariant == TaskSpec => []RunInv
<1>1. TaskInit => RunInv
  BY DEF TaskInit, RunInv, UptimeIsCurrent
<1>2. TaskTypeOK /\ DeleteInv /\ RunInv /\ [TaskNext]_taskVars => RunInv'
  BY NextRunInv
<1> QED
  BY <1>1, <1>2, TaskTypeCorrect, DeleteInvariant, PTL DEF TaskSpec

(* UptimeCorrect: the start time probe_health goes by is that of the task    *)
(* that exists, for any number of callers, starts, stops and deletes.        *)
THEOREM UptimeCorrect == TaskSpec => []UptimeIsCurrent
<1>1. RunInv => UptimeIsCurrent
  BY DEF RunInv, UptimeIsCurrent
<1> QED
  BY <1>1, RunInvariant, PTL

(* StopCorrect: unless somebody pauses the container, stop_container returns *)
(* Ok only when the task is stopped or gone.                                 *)
THEOREM StopCorrect ==
    ASSUME \A s \in Settings : "pause" \notin s.ops
    PROVE  TaskSpec => StopOkMeansStopped
<1> DEFINE Stopped(c) == Returns(c, "stop", "ok") => task \in {"none", "stopped"}
<1>1. TaskTypeOK /\ DeleteInv /\ RunInv /\ [TaskNext]_taskVars
        => [~Fails /\ ~setting.races => \A c \in Callers : Stopped(c)]_taskVars
  <2> SUFFICES ASSUME TaskTypeOK, DeleteInv, RunInv, TaskNext, ~Fails, ~setting.races,
                      NEW c \in Callers, Returns(c, "stop", "ok")
               PROVE  task \in {"none", "stopped"}
    OBVIOUS
  <2> USE DEF Returns, InCall, At
  <2>1. task \in TaskState \ {"paused"} /\ (~record => task = "none")
    BY DEF TaskTypeOK, RunInv
  <2>2. ASSUME CheckRunning(c) \/ WaitKill(c) PROVE task \in {"none", "stopped"}
    BY <2>1, <2>2 DEF CheckRunning, WaitKill, SeesStopped, LooksRunning, TaskState, Goto,
       TaskTypeOK
  <2>3. ASSUME NEW d \in Callers, Step(d) PROVE d = c
    BY <2>3 DEF TaskTypeOK, Step, GetRecord, Mounts, PrepareLogs, CreateTask,
       StartTask, RecordStart, StartTailer, Sigterm, WaitTerm, CheckRunning, Sigkill,
       WaitKill, DeleteTask, Forget, TaskGone, RmRecord, RmSnap, RmLogs,
       RecordGone, StopManaged, PauseContainer, UnpauseContainer, WaitExit,
       Forward, Goto, Return, Decide, StopReturns
  <2>4. ASSUME Step(c) PROVE CheckRunning(c) \/ WaitKill(c)
    BY <2>4 DEF TaskTypeOK, DeleteInv, OpOfLabel, StartLabel, StopLabel,
       DeleteLabel, Step, GetRecord, Mounts, PrepareLogs, CreateTask, StartTask,
       RecordStart, StartTailer, Sigterm, WaitTerm, Sigkill,
       DeleteTask, Forget, TaskGone, RmRecord, RmSnap, RmLogs,
       RecordGone, StopManaged, PauseContainer, UnpauseContainer, WaitExit,
       Forward, Goto, Return, Decide, StopReturns
  <2>5. ASSUME NEW d \in Callers, NEW o \in setting.ops, Begin(d, o) PROVE FALSE
    BY <2>5, SettingFacts DEF TaskTypeOK, Begin, First, Operations
  <2>6. ASSUME NEW d \in Callers, Timeout(d) \/ Cancel(d) PROVE FALSE
    BY <2>6 DEF TaskTypeOK, DeleteInv, OpOfLabel, StartLabel, StopLabel,
       DeleteLabel, Timeout, Cancel, Goto, Return, Decide, StopReturns
  <2> QED
    BY <2>2, <2>3, <2>4, <2>5, <2>6 DEF TaskNext, TaskExits
<1> QED
  BY <1>1, TaskTypeCorrect, DeleteInvariant, RunInvariant, PTL DEF TaskSpec, StopOkMeansStopped
=============================================================================
