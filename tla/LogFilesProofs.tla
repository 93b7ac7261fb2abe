--------------------------- MODULE LogFilesProofs ----------------------------
(***************************************************************************)
(* What is in the events files, beside a tailer that appends, fails half   *)
(* way and rotates: for any lines, limits, failures and number of rotated  *)
(* files.  First the records: numbers, the decoder, the encoder and the    *)
(* parser; then files of records, and the invariant of the tailer.         *)
(***************************************************************************)
EXTENDS LogQuery, WellFoundedInduction, TLAPS

(* Zenon proves the steps that cite no prover; SMT is cited where there are *)
(* numbers, sequences, or much to unfold.                                   *)
USE Zenon

------------------------------------------------------------------------------
(* Induction *)

(* HasLeast: a set of numbers that is not empty has a least one. *)
LEMMA HasLeast ==
    ASSUME NEW S, S \subseteq Nat, S # {}
    PROVE  \E i \in S : \A j \in S : i <= j
<1> DEFINE Less == {s \in Nat \X Nat : s[1] < s[2]}
<1>1. IsWellFoundedOn(Less, Nat)
  BY NatLessThanWellFounded, Zenon DEF OpToRel
<1>2. \E i \in S : \A j \in S : ~(<<j, i>> \in Less)
  <2> HIDE DEF Less
  <2> QED
    BY <1>1, WFMin
<1>3. \A i, j \in Nat : ~(<<j, i>> \in Less) => i <= j
  BY SMT
<1> HIDE DEF Less
<1> QED
  BY <1>2, <1>3, Zenon

(* Upwards: what holds of 0 and of every next number holds of all to n.      *)
LEMMA Upwards ==
    ASSUME NEW n \in Nat, NEW S, 0 \in S, \A m \in 1..n : m - 1 \in S => m \in S
    PROVE  0..n \subseteq S
<1> DEFINE Bad == {m \in 0..n : m \notin S}
<1>1. SUFFICES ASSUME Bad # {} PROVE FALSE
  OBVIOUS
<1>2. Bad \subseteq Nat
  BY SMT
<1>3. PICK m \in Bad : \A k \in Bad : m <= k
  <2> HIDE DEF Bad
  <2> QED
    BY <1>1, <1>2, HasLeast
<1>4. m \in 0..n /\ m \notin S
  OBVIOUS
<1>5. m \in 1..n /\ m - 1 \in 0..n /\ ~(m <= m - 1)
  BY <1>4, SMT
<1>6. m - 1 \in S
  BY <1>3, <1>5
<1> QED
  BY <1>4, <1>5, <1>6

(* Downwards: and what holds of n, and of a number if it holds of all the    *)
(* greater ones, holds of all to n.                                          *)
LEMMA Downwards ==
    ASSUME NEW n \in Nat, NEW S,
           \A m \in 0..n : (\A k \in m + 1..n : k \in S) => m \in S
    PROVE  0..n \subseteq S
<1> DEFINE T == {m \in 0..n : \A k \in n - m..n : k \in S}
<1>1. 0 \in T
  <2>1. n + 1..n = {} /\ n \in 0..n /\ 0 \in 0..n
    BY SMT
  <2>2. n \in S
    BY <2>1
  <2>3. \A k \in n - 0..n : k = n
    BY SMT
  <2> QED
    BY <2>1, <2>2, <2>3
<1>2. ASSUME NEW m \in 1..n, m - 1 \in T PROVE m \in T
  <2>1. \A k \in n - (m - 1)..n : k \in S
    BY <1>2
  <2>2. n - m \in 0..n /\ m \in 0..n /\ (n - m) + 1..n = n - (m - 1)..n
    BY SMT
  <2>3. n - m \in S
    BY <2>1, <2>2
  <2>4. \A k \in n - m..n : k = n - m \/ k \in n - (m - 1)..n
    BY SMT
  <2> QED
    BY <2>1, <2>2, <2>3, <2>4
<1>3. 0..n \subseteq T
  <2> HIDE DEF T
  <2> QED
    BY <1>1, <1>2, Upwards
<1>4. n \in T
  <2>1. n \in 0..n
    BY SMT
  <2> QED
    BY <1>3, <2>1
<1>5. \A k \in 0..n : k \in n - n..n
  BY SMT
<1> QED
  BY <1>4, <1>5

(* The values of T that n steps from a go through. *)
Steps(n, T, step) == \A i \in 1..n : \A v \in T : step[i][v] \in T

Iterated(g, n, T, a, step) ==
    g \in [0..n -> T] /\ g[0] = a /\ \A i \in 1..n : g[i] = step[i][g[i - 1]]

(* Iterates: a function defined step by step exists. *)
LEMMA Iterates ==
    ASSUME NEW n \in Nat, NEW T, NEW a \in T, NEW step, Steps(n, T, step)
    PROVE  \E g : Iterated(g, n, T, a, step)
<1> DEFINE Stage(m) == {g \in [0..m -> T] :
                           g[0] = a /\ \A i \in 1..m : g[i] = step[i][g[i - 1]]}
           S == {m \in 0..n : Stage(m) # {}}
<1>1. 0 \in S
  <2> DEFINE g == [i \in 0..0 |-> a]
  <2>1. g \in [0..0 -> T] /\ g[0] = a /\ 1..0 = {} /\ 0 \in 0..n
    BY SMT
  <2> HIDE DEF g
  <2>2. g \in Stage(0)
    BY <2>1
  <2> QED
    BY <2>1, <2>2
<1>2. ASSUME NEW m \in 1..n, m - 1 \in S PROVE m \in S
  <2>1. PICK g \in Stage(m - 1) : TRUE
    BY <1>2
  <2>2. /\ g \in [0..m - 1 -> T] /\ g[0] = a
        /\ \A i \in 1..m - 1 : g[i] = step[i][g[i - 1]]
    BY <2>1
  <2> DEFINE v == step[m][g[m - 1]]
             h == [i \in 0..m |-> IF i = m THEN v ELSE g[i]]
  <2>3. v \in T
    <3>1. g[m - 1] \in T
      BY <2>2, SMT
    <3> QED
      BY <3>1 DEF Steps
  <2> HIDE DEF v
  <2>4. h \in [0..m -> T] /\ h[0] = a /\ m \in 0..n
    BY <2>2, <2>3, SMT
  <2>5. ASSUME NEW i \in 1..m PROVE h[i] = step[i][h[i - 1]]
    <3>1. h[i - 1] = g[i - 1]
      BY SMT
    <3>2. CASE i = m
      <4>1. h[i] = v
        BY <3>2, SMT
      <4> QED
        BY <3>1, <3>2, <4>1 DEF v
    <3>3. CASE i # m
      <4>1. i \in 1..m - 1 /\ h[i] = g[i]
        BY <3>3, SMT
      <4> QED
        BY <2>2, <3>1, <4>1
    <3> QED
      BY <3>2, <3>3
  <2> HIDE DEF h
  <2>6. h \in Stage(m)
    BY <2>4, <2>5
  <2> QED
    BY <2>4, <2>6
<1>3. n \in S
  <2>1. n \in 0..n
    BY SMT
  <2> HIDE DEF S
  <2> QED
    BY <1>1, <1>2, <2>1, Upwards
<1> QED
  BY <1>3 DEF Iterated

------------------------------------------------------------------------------
(* Numbers *)

Digit == 0..9

(* ValueUpTo: the value of the digits up to each one. *)
LEMMA ValueUpTo ==
    ASSUME NEW s \in Seq(Digit)
    PROVE  \E g \in [0..Len(s) -> Nat] :
              /\ g[0] = 0 /\ \A i \in 1..Len(s) : g[i] = 10 * g[i - 1] + s[i]
              /\ Value(s) = g[Len(s)]
<1> DEFINE n == Len(s)
           step == [i \in 1..n |-> [v \in Nat |-> 10 * v + s[i]]]
           F(f) == [i \in 0..n |-> IF i = 0 THEN 0 ELSE 10 * f[i - 1] + s[i]]
<1>1. n \in Nat /\ \A i \in 1..n : s[i] \in Nat
  BY SMT DEF Digit
<1>2. Steps(n, Nat, step)
  <2>1. ASSUME NEW i \in 1..n, NEW v \in Nat PROVE step[i][v] \in Nat
    <3>1. 10 * v + s[i] \in Nat
      BY <1>1, SMT
    <3> QED
      BY <3>1
  <2> QED
    BY <2>1 DEF Steps
<1>3. \A i \in 1..n, v \in Nat : step[i][v] = 10 * v + s[i]
  OBVIOUS
<1> HIDE DEF step
<1>4. PICK g : Iterated(g, n, Nat, 0, step)
  <2> HIDE DEF n
  <2>1. 0 \in Nat
    BY SMT
  <2> QED
    BY <1>1, <1>2, <2>1, Iterates
<1>5. /\ g \in [0..n -> Nat] /\ g[0] = 0
      /\ \A i \in 1..n : g[i - 1] \in Nat /\ g[i] = 10 * g[i - 1] + s[i]
  <2>1. g \in [0..n -> Nat] /\ g[0] = 0 /\ \A i \in 1..n : g[i] = step[i][g[i - 1]]
    BY <1>4 DEF Iterated
  <2>2. \A i \in 1..n : g[i - 1] \in Nat
    BY <1>1, <2>1, SMT
  <2> QED
    BY <1>3, <2>1, <2>2
<1>6. g = F(g)
  <2> HIDE DEF n
  <2>1. \A i \in 0..n : i = 0 \/ i \in 1..n
    BY <1>1, SMT
  <2>2. \A i \in 0..n : g[i] = IF i = 0 THEN 0 ELSE 10 * g[i - 1] + s[i]
    BY <1>5, <2>1
  <2> QED
    BY <1>5, <2>2
<1> DEFINE h == CHOOSE f : f = F(f)
<1>7. h = F(h)
  <2> HIDE DEF F
  <2> QED
    BY <1>6
<1>8. Value(s) = h[n]
  BY DEF Value
<1> HIDE DEF h
<1>9. \A i \in 0..n : h[i] = IF i = 0 THEN 0 ELSE 10 * h[i - 1] + s[i]
  BY <1>7
<1> DEFINE Same == {i \in 0..n : h[i] = g[i]}
<1>10. 0..n \subseteq Same
  <2>1. 0 \in Same
    <3>1. 0 \in 0..n
      BY <1>1, SMT
    <3> QED
      BY <1>5, <1>9, <3>1
  <2>2. ASSUME NEW m \in 1..n, m - 1 \in Same PROVE m \in Same
    <3>1. m \in 0..n /\ m # 0
      BY <1>1, SMT
    <3> QED
      BY <1>5, <1>9, <2>2, <3>1
  <2> HIDE DEF Same, n
  <2> QED
    BY <1>1, <2>1, <2>2, Upwards
<1>11. n \in 0..n
  BY <1>1, SMT
<1> QED
  BY <1>5, <1>8, <1>10, <1>11

LEMMA ValueType ==
    ASSUME NEW s \in Seq(Digit)
    PROVE  Value(s) \in Nat
<1>1. Len(s) \in 0..Len(s)
  BY SMT
<1> QED
  BY <1>1, ValueUpTo

(* ValueAppend: one more digit. *)
LEMMA ValueAppend ==
    ASSUME NEW s \in Seq(Digit), NEW d \in Digit
    PROVE  Append(s, d) \in Seq(Digit) /\ Value(Append(s, d)) = 10 * Value(s) + d
<1> DEFINE u == Append(s, d)
           n == Len(s)
<1>1. u \in Seq(Digit) /\ Len(u) = n + 1 /\ n \in Nat /\ u[n + 1] = d
  BY SMT
<1>2. \A i \in 1..n : u[i] = s[i]
  BY SMT
<1> HIDE DEF u, n
<1>3. PICK g \in [0..Len(u) -> Nat] :
         /\ g[0] = 0 /\ \A i \in 1..Len(u) : g[i] = 10 * g[i - 1] + u[i]
         /\ Value(u) = g[Len(u)]
  BY <1>1, ValueUpTo
<1>4. PICK h \in [0..n -> Nat] :
         /\ h[0] = 0 /\ \A i \in 1..n : h[i] = 10 * h[i - 1] + s[i]
         /\ Value(s) = h[n]
  BY ValueUpTo DEF n
<1> DEFINE S == {i \in 0..n : g[i] = h[i]}
<1>5. 0 \in S
  <2>1. 0 \in 0..n
    BY <1>1, SMT
  <2> QED
    BY <1>3, <1>4, <2>1
<1>6. ASSUME NEW m \in 1..n, m - 1 \in S PROVE m \in S
  <2>1. m \in 1..Len(u) /\ m \in 0..n
    BY <1>1, SMT
  <2> QED
    BY <1>2, <1>3, <1>4, <1>6, <2>1
<1>7. n \in S
  <2>1. n \in 0..n
    BY <1>1, SMT
  <2> HIDE DEF S
  <2> QED
    BY <1>1, <1>5, <1>6, <2>1, Upwards
<1>8. n + 1 \in 1..Len(u) /\ (n + 1) - 1 = n
  BY <1>1, SMT
<1>9. g[n + 1] = 10 * g[n] + d
  BY <1>1, <1>3, <1>8
<1> QED
  BY <1>1, <1>3, <1>4, <1>7, <1>9 DEF u

(* DivTen: a number is its last digit and the number before that. *)
LEMMA DivTen ==
    ASSUME NEW n \in Nat
    PROVE  /\ n \div 10 \in Nat /\ n % 10 \in Digit /\ n = 10 * (n \div 10) + (n % 10)
           /\ ~(n < 10) => n \div 10 \in 0..n - 1
<1>1. n \div 10 \in Nat
  BY SMT
<1>2. n % 10 \in Digit
  BY SMT DEF Digit
<1>3. n = 10 * (n \div 10) + (n % 10)
  BY SMT
<1>4. ~(n < 10) => n \div 10 \in 0..n - 1
  BY SMT
<1> QED
  BY <1>1, <1>2, <1>3, <1>4

(* One step of to_string. *)
DigitsOf(f, n) == IF n < 10 THEN <<n>> ELSE Append(f[n \div 10], n % 10)

StringStage(m) == {g \in [0..m -> Seq(Digit)] : \A i \in 0..m : g[i] = DigitsOf(g, i)}

LEMMA StringStageNext ==
    ASSUME NEW m \in Nat, NEW g, \A i \in 0..m - 1 : g[i] \in Seq(Digit)
    PROVE  DigitsOf(g, m) \in Seq(Digit)
<1>1. CASE m < 10
  <2>1. m \in Digit
    BY <1>1, SMT DEF Digit
  <2>2. <<m>> \in Seq(Digit)
    BY <2>1, SMT
  <2> QED
    BY <1>1, <2>2 DEF DigitsOf
<1>2. CASE ~(m < 10)
  <2>1. m \div 10 \in 0..m - 1 /\ m % 10 \in Digit
    BY <1>2, DivTen
  <2>2. g[m \div 10] \in Seq(Digit)
    BY <2>1
  <2>3. Append(g[m \div 10], m % 10) \in Seq(Digit)
    BY <2>1, <2>2, SMT
  <2> QED
    BY <1>2, <2>3 DEF DigitsOf
<1> QED
  BY <1>1, <1>2

LEMMA StringSame ==
    ASSUME NEW m \in Nat, NEW f, NEW g, \A i \in 0..m - 1 : f[i] = g[i]
    PROVE  DigitsOf(f, m) = DigitsOf(g, m)
<1>1. CASE m < 10
  BY <1>1 DEF DigitsOf
<1>2. CASE ~(m < 10)
  BY <1>2, DivTen DEF DigitsOf
<1> QED
  BY <1>1, <1>2

LEMMA StringStages == \A n \in Nat : StringStage(n) # {}
<1> SUFFICES ASSUME NEW n \in Nat PROVE StringStage(n) # {}
  OBVIOUS
<1> DEFINE S == {m \in 0..n : StringStage(m) # {}}
<1>1. 0 \in S
  <2> DEFINE g == [i \in 0..0 |-> <<i>>]
  <2>1. g \in [0..0 -> Seq(Digit)] /\ 0 \in 0..n
    BY SMT DEF Digit
  <2>2. \A i \in 0..0 : i < 10 /\ g[i] = <<i>>
    BY SMT
  <2> HIDE DEF g
  <2>3. g \in StringStage(0)
    BY <2>1, <2>2 DEF StringStage, DigitsOf
  <2> QED
    BY <2>1, <2>3
<1>2. ASSUME NEW m \in 1..n, m - 1 \in S PROVE m \in S
  <2>1. PICK g \in StringStage(m - 1) : TRUE
    BY <1>2
  <2>2. g \in [0..m - 1 -> Seq(Digit)] /\ \A i \in 0..m - 1 : g[i] = DigitsOf(g, i)
    BY <2>1 DEF StringStage
  <2> DEFINE v == DigitsOf(g, m)
             h == [i \in 0..m |-> IF i = m THEN v ELSE g[i]]
  <2>3. m \in Nat /\ m \in 0..n
    BY SMT
  <2>4. v \in Seq(Digit)
    BY <2>2, <2>3, StringStageNext
  <2>5. \A i \in 0..m - 1 : h[i] = g[i] /\ i \in Nat /\ 0..i - 1 \subseteq 0..m - 1
    BY <2>3, SMT
  <2>6. h[m] = v /\ \A i \in 0..m : i = m \/ i \in 0..m - 1
    BY <2>3, SMT
  <2>7. h \in [0..m -> Seq(Digit)]
    <3>1. \A i \in 0..m : (IF i = m THEN v ELSE g[i]) \in Seq(Digit)
      BY <2>2, <2>4, <2>6
    <3> QED
      BY <3>1
  <2> HIDE DEF h
  <2>8. v = DigitsOf(h, m)
    BY <2>3, <2>5, StringSame
  <2>9. ASSUME NEW i \in 0..m PROVE h[i] = DigitsOf(h, i)
    <3>1. CASE i = m
      BY <2>6, <2>8, <3>1
    <3>2. CASE i # m
      <4>1. i \in 0..m - 1
        BY <2>6, <3>2
      <4>2. DigitsOf(g, i) = DigitsOf(h, i)
        <5>1. i \in Nat /\ \A k \in 0..i - 1 : g[k] = h[k]
          BY <2>5, <4>1
        <5> QED
          BY <5>1, StringSame
      <4> QED
        BY <2>2, <2>5, <4>1, <4>2
    <3> QED
      BY <3>1, <3>2
  <2>10. h \in StringStage(m)
    BY <2>7, <2>9 DEF StringStage
  <2> QED
    BY <2>3, <2>10
<1>3. n \in S
  <2>1. n \in 0..n
    BY SMT
  <2> HIDE DEF S
  <2> QED
    BY <1>1, <1>2, <2>1, Upwards
<1> QED
  BY <1>3

LEMMA StringAgrees ==
    ASSUME NEW m \in Nat, NEW n \in Nat, m <= n,
           NEW f \in StringStage(m), NEW g \in StringStage(n)
    PROVE  \A i \in 0..m : f[i] = g[i]
<1>1. /\ \A i \in 0..m : f[i] = DigitsOf(f, i)
      /\ \A i \in 0..n : g[i] = DigitsOf(g, i)
  BY DEF StringStage
<1> DEFINE T == {i \in 0..m : \A k \in 0..i : f[k] = g[k]}
<1>2. 0 \in T
  <2>1. 0 \in 0..m /\ 0 \in 0..n /\ 0 < 10 /\ \A k \in 0..0 : k = 0
    BY SMT
  <2>2. f[0] = <<0>> /\ g[0] = <<0>>
    BY <1>1, <2>1 DEF DigitsOf
  <2> QED
    BY <2>1, <2>2
<1>3. ASSUME NEW i \in 1..m, i - 1 \in T PROVE i \in T
  <2>1. i \in Nat /\ i \in 0..m /\ i \in 0..n /\ \A k \in 0..i : k = i \/ k \in 0..i - 1
    BY SMT
  <2>2. \A k \in 0..i - 1 : f[k] = g[k]
    BY <1>3
  <2>3. DigitsOf(f, i) = DigitsOf(g, i)
    BY <2>1, <2>2, StringSame
  <2> QED
    BY <1>1, <2>1, <2>2, <2>3
<1>4. 0..m \subseteq T
  <2> HIDE DEF T
  <2> QED
    BY <1>2, <1>3, Upwards
<1>5. \A i \in 0..m : i \in 0..i
  BY SMT
<1> QED
  BY <1>4, <1>5

(* DecimalDef: Decimal is what its recursion says. *)
LEMMA DecimalDef == \A n \in Nat : Decimal[n] = DigitsOf(Decimal, n)
<1> DEFINE pick(n) == CHOOSE g \in StringStage(n) : TRUE
           d == [n \in Nat |-> pick(n)[n]]
           G(f) == [n \in Nat |-> DigitsOf(f, n)]
<1>1. \A n \in Nat : pick(n) \in StringStage(n)
  BY StringStages
<1> HIDE DEF pick
<1>2. ASSUME NEW n \in Nat PROVE d[n] = DigitsOf(d, n)
  <2>1. n \in 0..n
    BY SMT
  <2>2. d[n] = DigitsOf(pick(n), n)
    BY <1>1, <2>1 DEF StringStage
  <2>3. ASSUME NEW i \in 0..n - 1 PROVE pick(n)[i] = d[i]
    <3>1. i \in Nat /\ i <= n /\ i \in 0..i
      BY SMT
    <3>2. pick(i)[i] = pick(n)[i]
      BY <1>1, <3>1, StringAgrees
    <3> QED
      BY <3>1, <3>2
  <2> HIDE DEF d
  <2>4. DigitsOf(pick(n), n) = DigitsOf(d, n)
    BY <2>3, StringSame
  <2> QED
    BY <2>2, <2>4
<1>3. d = G(d)
  <2>1. d \in [Nat -> {pick(n)[n] : n \in Nat}]
    OBVIOUS
  <2> HIDE DEF d
  <2> QED
    BY <1>2, <2>1
<1>4. Decimal = CHOOSE f : f = G(f)
  BY DEF Decimal, DigitsOf
<1>5. Decimal = G(Decimal)
  <2> HIDE DEF G, d
  <2> QED
    BY <1>3, <1>4
<1> QED
  BY <1>5

(* DecimalIs: to_string gives digits, at least one, and their value is the   *)
(* number.                                                                   *)
LEMMA DecimalIs ==
    ASSUME NEW n \in Nat
    PROVE  /\ Decimal[n] \in Seq(Digit) /\ Len(Decimal[n]) \in Nat \ {0}
           /\ Value(Decimal[n]) = n
<1> DEFINE Good(i) == Decimal[i] \in Seq(Digit) /\ Decimal[i] # <<>> /\ Value(Decimal[i]) = i
           T == {i \in 0..n : \A k \in 0..i : Good(k)}
<1>0. \A i \in Nat : i < 10 => Good(i)
  <2> SUFFICES ASSUME NEW i \in Nat, i < 10 PROVE Good(i)
    OBVIOUS
  <2>1. i \in Digit
    BY SMT DEF Digit
  <2>2. Decimal[i] = <<i>>
    BY DecimalDef DEF DigitsOf
  <2>3. <<i>> \in Seq(Digit) /\ <<i>> # <<>> /\ <<i>> = Append(<<>>, i) /\ <<>> \in Seq(Digit)
    BY <2>1, SMT
  <2>4. Value(<<>>) = 0
    <3>1. Len(<<>>) = 0
      BY SMT
    <3> QED
      BY <2>3, <3>1, ValueUpTo
  <2>5. Value(<<i>>) = 10 * 0 + i
    BY <2>1, <2>3, <2>4, ValueAppend
  <2>6. 10 * 0 + i = i
    BY SMT
  <2> QED
    BY <2>2, <2>3, <2>5, <2>6
<1>1. 0 \in T
  <2>1. 0 \in 0..n /\ 0 < 10 /\ \A k \in 0..0 : k = 0 /\ k \in Nat
    BY SMT
  <2> QED
    BY <1>0, <2>1
<1>2. ASSUME NEW i \in 1..n, i - 1 \in T PROVE i \in T
  <2>1. i \in Nat /\ i \in 0..n /\ \A k \in 0..i : k = i \/ k \in 0..i - 1
    BY SMT
  <2>2. \A k \in 0..i - 1 : Good(k)
    BY <1>2
  <2>3. Good(i)
    <3>1. CASE i < 10
      BY <1>0, <2>1, <3>1
    <3>2. CASE ~(i < 10)
      <4>1. PICK k : k = i \div 10
        OBVIOUS
      <4>2. PICK r : r = i % 10
        OBVIOUS
      <4>3. k \in 0..i - 1 /\ r \in Digit /\ i = 10 * k + r
        <5>1. i \div 10 \in 0..i - 1 /\ i % 10 \in Digit /\ i = 10 * (i \div 10) + (i % 10)
          BY <2>1, <3>2, DivTen
        <5> QED
          BY <4>1, <4>2, <5>1
      <4>4. Decimal[i] = Append(Decimal[k], r)
        BY <2>1, <3>2, <4>1, <4>2, DecimalDef DEF DigitsOf
      <4>5. Good(k)
        BY <2>2, <4>3
      <4>6. Append(Decimal[k], r) \in Seq(Digit) /\ Append(Decimal[k], r) # <<>>
        BY <4>3, <4>5, SMT
      <4>7. Value(Append(Decimal[k], r)) = 10 * k + r
        BY <4>3, <4>5, ValueAppend
      <4> QED
        BY <4>3, <4>4, <4>6, <4>7
    <3> QED
      BY <3>1, <3>2
  <2> HIDE DEF Good
  <2> QED
    BY <2>1, <2>2, <2>3
<1>3. n \in T
  <2>1. n \in 0..n
    BY SMT
  <2> HIDE DEF T
  <2> QED
    BY <1>1, <1>2, <2>1, Upwards
<1>4. Good(n)
  <2>1. n \in 0..n
    BY SMT
  <2> QED
    BY <1>3, <2>1
<1>5. Len(Decimal[n]) \in Nat \ {0}
  <2> PICK q : q = Decimal[n]
    OBVIOUS
  <2>1. q \in Seq(Digit) /\ q # <<>>
    BY <1>4
  <2>2. Len(q) \in Nat \ {0}
    BY <2>1, SMT
  <2> QED
    BY <2>2
<1> QED
  BY <1>4, <1>5

------------------------------------------------------------------------------
(* The decoder *)

LEMMA ByteFacts ==
    /\ Digit \subseteq Byte /\ Space \in Byte /\ Newline \in Byte
    /\ Stream.stdout \in Byte /\ Stream.stderr \in Byte /\ Stream.stdout # Stream.stderr
    /\ \A d \in Digit : d # Space /\ d # Newline /\ d # Stream.stdout /\ d # Stream.stderr
    /\ Space # Newline /\ Space # Stream.stdout /\ Space # Stream.stderr
    /\ Newline # Stream.stdout /\ Newline # Stream.stderr
BY SMT DEF Digit, Byte, Space, Newline, Stream

LEMMA FromIs ==
    ASSUME NEW T, NEW s \in Seq(T), NEW c \in 0..Len(s)
    PROVE  /\ From(s, c + 1) \in Seq(T) /\ Len(From(s, c + 1)) = Len(s) - c
           /\ \A i \in 1..Len(s) - c : From(s, c + 1)[i] = s[c + i]
BY SMT DEF From

(* No byte b in s before p. *)
NoneBefore(s, b, p) == \A i \in 1..p - 1 : s[i] # b

(* FindIs: iter().position finds the first byte, if there is one. *)
LEMMA FindIs ==
    ASSUME NEW T, NEW s \in Seq(T), NEW b
    PROVE  /\ Find(s, b) = 0 => \A i \in 1..Len(s) : s[i] # b
           /\ Find(s, b) # 0 => /\ Find(s, b) \in 1..Len(s) /\ s[Find(s, b)] = b
                                /\ NoneBefore(s, b, Find(s, b))
<1> DEFINE at == {i \in DOMAIN s : s[i] = b}
<1>1. DOMAIN s = 1..Len(s) /\ at \subseteq Nat /\ Len(s) \in Nat
  BY SMT
<1>2. CASE at = {}
  <2>1. Find(s, b) = 0
    BY <1>2 DEF Find
  <2> QED
    BY <1>1, <1>2, <2>1
<1>3. CASE at # {}
  <2>1. \E i \in at : \A j \in at : i <= j
    <3> HIDE DEF at
    <3> QED
      BY <1>1, <1>3, HasLeast
  <2>2. Find(s, b) = CHOOSE i \in at : \A j \in at : i <= j
    BY <1>3 DEF Find
  <2>3. PICK p : p = Find(s, b)
    OBVIOUS
  <2>4. p \in at /\ \A j \in at : p <= j
    <3> HIDE DEF at
    <3> QED
      BY <2>1, <2>2, <2>3
  <2>5. p \in 1..Len(s) /\ s[p] = b /\ p # 0
    <3>1. p \in 1..Len(s) /\ s[p] = b
      BY <1>1, <2>4
    <3> QED
      BY <3>1, SMT
  <2>6. \A i \in 1..p - 1 : i \in 1..Len(s) /\ ~(p <= i)
    BY <1>1, <2>5, SMT
  <2>7. NoneBefore(s, b, p)
    BY <1>1, <2>4, <2>6 DEF NoneBefore
  <2> QED
    BY <2>3, <2>5, <2>7
<1> QED
  BY <1>2, <1>3

LEMMA FindAt ==
    ASSUME NEW T, NEW s \in Seq(T), NEW b, NEW p \in 1..Len(s), s[p] = b, NoneBefore(s, b, p)
    PROVE  Find(s, b) = p /\ Find(s, b) # 0
<1>1. PICK q : q = Find(s, b)
  OBVIOUS
<1>2. q # 0
  BY <1>1, FindIs
<1>3. q \in 1..Len(s) /\ s[q] = b /\ NoneBefore(s, b, q)
  BY <1>1, <1>2, FindIs
<1>4. ~(p \in 1..q - 1) /\ ~(q \in 1..p - 1)
  BY <1>3 DEF NoneBefore
<1>5. Len(s) \in Nat
  BY SMT
<1>6. p = q
  BY <1>3, <1>4, <1>5, SMT
<1> QED
  BY <1>1, <1>2, <1>6

LEMMA FindNone ==
    ASSUME NEW T, NEW s \in Seq(T), NEW b, \A i \in 1..Len(s) : s[i] # b
    PROVE  Find(s, b) = 0
BY FindIs

(* The first space is at p. *)
SpaceAt(s, p) == p \in 1..Len(s) /\ s[p] = Space /\ NoneBefore(s, Space, p)

Letter == {Stream.stdout, Stream.stderr}

LEMMA SpaceFound ==
    ASSUME NEW s \in Seq(Byte), NEW p, SpaceAt(s, p)
    PROVE  Find(s, Space) = p /\ p # 0
BY FindAt DEF SpaceAt

LEMMA DecodeBadTime ==
    ASSUME NEW s \in Seq(Byte), NEW p, SpaceAt(s, p), Number(SubSeq(s, 1, p - 1)) = None
    PROVE  Decode(s) = Malformed
BY SpaceFound DEF Decode

LEMMA DecodeShort ==
    ASSUME NEW s \in Seq(Byte), NEW p, SpaceAt(s, p), Number(SubSeq(s, 1, p - 1)) # None,
           Len(s) < p + 2
    PROVE  Decode(s) = NeedMore
BY SpaceFound DEF Decode

LEMMA DecodeBadStream ==
    ASSUME NEW s \in Seq(Byte), NEW p, SpaceAt(s, p), Number(SubSeq(s, 1, p - 1)) # None,
           ~(Len(s) < p + 2), s[p + 2] # Space \/ s[p + 1] \notin Letter
    PROVE  Decode(s) = Malformed
BY SpaceFound DEF Decode, Letter

(* A header as far as the second space. *)
Stamped(s, p) ==
    /\ SpaceAt(s, p) /\ Number(SubSeq(s, 1, p - 1)) # None
    /\ ~(Len(s) < p + 2) /\ s[p + 2] = Space /\ s[p + 1] \in Letter

LEMMA DecodeWindow ==
    ASSUME NEW s \in Seq(Byte), NEW p, Stamped(s, p)
    PROVE  Decode(s) =
              LET w == Window(s, p) IN
              IF w.kind # "window" THEN w
              ELSE IF Len(s) < w.end + 1 THEN NeedMore
              ELSE IF s[w.end + 1] # Newline THEN Malformed
              ELSE [kind |-> "record", consumed |-> w.end + 1,
                    entry |-> [ms |-> Number(SubSeq(s, 1, p - 1)),
                               stream |-> IF s[p + 1] = Stream.stdout THEN "stdout" ELSE "stderr",
                               data |-> SubSeq(s, w.start + 1, w.end)]]
<1>1. Find(s, Space) = p /\ p # 0
  BY SpaceFound DEF Stamped
<1> QED
  BY <1>1 DEF Decode, Stamped, Letter

(* A header: the second space is at q. *)
Headed(s, p, q) ==
    /\ Stamped(s, p)
    /\ q \in p + 3..Len(s) /\ s[q] = Space /\ \A i \in p + 3..q - 1 : s[i] # Space

LengthOf(s, p, q) == Number(SubSeq(s, p + 3, q - 1))

LEMMA DecodeNoLength ==
    ASSUME NEW s \in Seq(Byte), NEW p, Stamped(s, p), \A i \in p + 3..Len(s) : s[i] # Space
    PROVE  Decode(s) = NeedMore
<1>1. p \in 1..Len(s) /\ ~(Len(s) < p + 2) /\ Len(s) \in Nat
  BY SMT DEF Stamped, SpaceAt
<1>2. p + 2 \in 0..Len(s) /\ p + 3 = (p + 2) + 1
  BY <1>1, SMT
<1>3. /\ From(s, p + 3) \in Seq(Byte) /\ Len(From(s, p + 3)) = Len(s) - (p + 2)
      /\ \A i \in 1..Len(s) - (p + 2) : From(s, p + 3)[i] = s[p + 2 + i]
  <2>1. PICK c \in 0..Len(s) : c = p + 2 /\ c + 1 = p + 3
    BY <1>2
  <2>2. /\ From(s, c + 1) \in Seq(Byte) /\ Len(From(s, c + 1)) = Len(s) - c
        /\ \A i \in 1..Len(s) - c : From(s, c + 1)[i] = s[c + i]
    BY FromIs
  <2> QED
    BY <2>1, <2>2
<1>4. \A i \in 1..Len(s) - (p + 2) : p + 2 + i \in p + 3..Len(s)
  BY <1>1, SMT
<1>5. \A i \in 1..Len(From(s, p + 3)) : From(s, p + 3)[i] # Space
  BY <1>3, <1>4
<1>6. Find(From(s, p + 3), Space) = 0
  BY <1>3, <1>5, FindNone
<1>7. Window(s, p) = NeedMore
  BY <1>6 DEF Window
<1>8. NeedMore.kind # "window"
  BY DEF NeedMore
<1> QED
  BY <1>7, <1>8, DecodeWindow

LEMMA WindowIs ==
    ASSUME NEW s \in Seq(Byte), NEW p, NEW q, Headed(s, p, q)
    PROVE  Window(s, p) =
              IF LengthOf(s, p, q) = None THEN Malformed
              ELSE IF LengthOf(s, p, q) > MaxRecordBytes THEN Malformed
              ELSE [kind |-> "window", start |-> q, end |-> q + LengthOf(s, p, q)]
<1>1. p \in 1..Len(s) /\ ~(Len(s) < p + 2) /\ Len(s) \in Nat /\ q \in p + 3..Len(s)
  BY SMT DEF Headed, Stamped, SpaceAt
<1>2. p + 2 \in 0..Len(s) /\ p + 3 = (p + 2) + 1
  BY <1>1, SMT
<1>3. PICK r : r = From(s, p + 3)
  OBVIOUS
<1>4. /\ r \in Seq(Byte) /\ Len(r) = Len(s) - (p + 2)
      /\ \A i \in 1..Len(s) - (p + 2) : r[i] = s[p + 2 + i]
  <2>1. PICK c \in 0..Len(s) : c = p + 2 /\ c + 1 = p + 3
    BY <1>2
  <2>2. /\ From(s, c + 1) \in Seq(Byte) /\ Len(From(s, c + 1)) = Len(s) - c
        /\ \A i \in 1..Len(s) - c : From(s, c + 1)[i] = s[c + i]
    BY FromIs
  <2> QED
    BY <1>3, <2>1, <2>2
<1>5. PICK k : k = q - (p + 2)
  OBVIOUS
<1>6. k \in 1..Len(r) /\ p + 2 + k = q
  BY <1>1, <1>4, <1>5, SMT
<1>7. r[k] = Space
  BY <1>4, <1>6 DEF Headed
<1>8. NoneBefore(r, Space, k)
  <2>1. \A i \in 1..k - 1 : i \in 1..Len(s) - (p + 2) /\ p + 2 + i \in p + 3..q - 1
    BY <1>1, <1>4, <1>6, SMT
  <2> QED
    BY <1>4, <2>1 DEF NoneBefore, Headed
<1>9. Find(r, Space) = k /\ Find(r, Space) # 0
  BY <1>4, <1>6, <1>7, <1>8, FindAt
<1>10. SubSeq(r, 1, k - 1) = SubSeq(s, p + 3, q - 1)
  BY <1>1, <1>3, <1>4, <1>6, SMT DEF From
<1>11. Window(s, p) =
          LET len == Number(SubSeq(r, 1, k - 1)) IN
          IF len = None THEN Malformed
          ELSE IF len > MaxRecordBytes THEN Malformed
          ELSE [kind |-> "window", start |-> p + 2 + k, end |-> p + 2 + k + len]
  BY <1>3, <1>9 DEF Window
<1> QED
  BY <1>6, <1>10, <1>11 DEF LengthOf

LEMMA DecodeBadLength ==
    ASSUME NEW s \in Seq(Byte), NEW p, NEW q, Headed(s, p, q),
           LengthOf(s, p, q) = None \/ LengthOf(s, p, q) > MaxRecordBytes
    PROVE  Decode(s) = Malformed
<1>1. Window(s, p) = Malformed
  BY WindowIs
<1>2. Malformed.kind # "window"
  BY DEF Malformed
<1> QED
  BY <1>1, <1>2, DecodeWindow DEF Headed

(* The record that a header in order announces. *)
EntryAt(s, p, q) ==
    [ms |-> Number(SubSeq(s, 1, p - 1)),
     stream |-> IF s[p + 1] = Stream.stdout THEN "stdout" ELSE "stderr",
     data |-> SubSeq(s, q + 1, q + LengthOf(s, p, q))]

LEMMA DecodeBody ==
    ASSUME NEW s \in Seq(Byte), NEW p, NEW q, Headed(s, p, q), NEW e,
           LengthOf(s, p, q) # None, ~(LengthOf(s, p, q) > MaxRecordBytes),
           e = q + LengthOf(s, p, q) + 1
    PROVE  /\ Len(s) < e => Decode(s) = NeedMore
           /\ ~(Len(s) < e) /\ s[e] # Newline => Decode(s) = Malformed
           /\ ~(Len(s) < e) /\ s[e] = Newline =>
                 Decode(s) = [kind |-> "record", consumed |-> e, entry |-> EntryAt(s, p, q)]
<1>1. PICK w : w = Window(s, p)
  OBVIOUS
<1>2. w = [kind |-> "window", start |-> q, end |-> q + LengthOf(s, p, q)]
  BY <1>1, WindowIs
<1>3. w.kind = "window" /\ w.start = q /\ w.end = q + LengthOf(s, p, q)
  BY <1>2
<1> QED
  BY <1>1, <1>3, DecodeWindow, ZenonT(30) DEF Headed, EntryAt

LEMMA NumberType ==
    ASSUME NEW s \in Seq(Byte), Number(s) # None
    PROVE  Number(s) \in Nat
<1>1. (\A i \in DOMAIN s : s[i] \in 0..9) /\ Number(s) = Value(s)
  BY DEF Number
<1>2. s \in Seq(Digit)
  BY <1>1, SMT DEF Digit
<1> QED
  BY <1>1, <1>2, ValueType

(* A record that is all there. *)
RecordAt(s, p, q, e) ==
    /\ Headed(s, p, q) /\ LengthOf(s, p, q) # None /\ LengthOf(s, p, q) <= MaxRecordBytes
    /\ e = q + LengthOf(s, p, q) + 1 /\ e \in 1..Len(s) /\ s[e] = Newline
    /\ Decode(s) = [kind |-> "record", consumed |-> e, entry |-> EntryAt(s, p, q)]

LEMMA HeadedTypes ==
    ASSUME NEW s \in Seq(Byte), NEW p, NEW q, Headed(s, p, q)
    PROVE  /\ p \in 1..Len(s) /\ q \in p + 3..Len(s) /\ Len(s) \in Nat /\ p \in Nat /\ q \in Nat
           /\ LengthOf(s, p, q) # None => LengthOf(s, p, q) \in Nat
           /\ Number(SubSeq(s, 1, p - 1)) \in Nat
<1>1. p \in 1..Len(s) /\ q \in p + 3..Len(s) /\ Len(s) \in Nat /\ p \in Nat /\ q \in Nat
  BY SMT DEF Headed, Stamped, SpaceAt
<1>2. SubSeq(s, p + 3, q - 1) \in Seq(Byte) /\ SubSeq(s, 1, p - 1) \in Seq(Byte)
  BY <1>1, SMT
<1>3. LengthOf(s, p, q) # None => LengthOf(s, p, q) \in Nat
  BY <1>2, NumberType DEF LengthOf
<1>4. Number(SubSeq(s, 1, p - 1)) \in Nat
  BY <1>2, NumberType DEF Headed, Stamped
<1> QED
  BY <1>1, <1>3, <1>4

(* DecodeCases: what the decoder makes of any bytes. *)
LEMMA DecodeCases ==
    ASSUME NEW s \in Seq(Byte)
    PROVE  Decode(s) = NeedMore \/ Decode(s) = Malformed \/ \E p, q, e : RecordAt(s, p, q, e)
<1>1. CASE Find(s, Space) = 0
  BY <1>1 DEF Decode
<1>2. CASE Find(s, Space) # 0
  <2>1. PICK p : p = Find(s, Space)
    OBVIOUS
  <2>2. SpaceAt(s, p)
    BY <1>2, <2>1, FindIs DEF SpaceAt
  <2>3. CASE ~Stamped(s, p)
    BY <2>2, <2>3, DecodeBadTime, DecodeShort, DecodeBadStream DEF Stamped
  <2>4. CASE Stamped(s, p)
    <3>1. p \in 1..Len(s) /\ ~(Len(s) < p + 2) /\ Len(s) \in Nat
      BY <2>4, SMT DEF Stamped, SpaceAt
    <3>2. CASE \A i \in p + 3..Len(s) : s[i] # Space
      BY <2>4, <3>2, DecodeNoLength
    <3>3. CASE ~\A i \in p + 3..Len(s) : s[i] # Space
      <4> DEFINE at == {i \in p + 3..Len(s) : s[i] = Space}
      <4>1. at # {} /\ at \subseteq Nat
        BY <3>1, <3>3, SMT
      <4>2. PICK q \in at : \A j \in at : q <= j
        <5> HIDE DEF at
        <5> QED
          BY <4>1, HasLeast
      <4>3. \A i \in p + 3..q - 1 : i \in p + 3..Len(s) /\ ~(q <= i)
        BY <3>1, SMT
      <4>4. Headed(s, p, q)
        BY <2>4, <4>2, <4>3 DEF Headed
      <4>5. PICK len : len = LengthOf(s, p, q)
        OBVIOUS
      <4>6. CASE len = None \/ len > MaxRecordBytes
        BY <4>4, <4>5, <4>6, DecodeBadLength
      <4>7. CASE ~(len = None \/ len > MaxRecordBytes)
        <5>1. PICK e : e = q + len + 1
          OBVIOUS
        <5>2. len \in Nat /\ q \in Nat /\ MaxRecordBytes \in Nat
          BY <4>4, <4>5, <4>7, HeadedTypes, CodecAssumption
        <5>3. len <= MaxRecordBytes /\ (~(Len(s) < e) => e \in 1..Len(s))
          BY <3>1, <4>7, <5>1, <5>2, SMT
        <5>4. /\ Len(s) < e => Decode(s) = NeedMore
              /\ ~(Len(s) < e) /\ s[e] # Newline => Decode(s) = Malformed
              /\ ~(Len(s) < e) /\ s[e] = Newline =>
                 Decode(s) = [kind |-> "record", consumed |-> e, entry |-> EntryAt(s, p, q)]
          BY <4>4, <4>5, <4>7, <5>1, DecodeBody
        <5> QED
          BY <4>4, <4>5, <4>7, <5>1, <5>3, <5>4 DEF RecordAt
      <4> QED
        BY <4>6, <4>7
    <3> QED
      BY <3>2, <3>3
  <2> QED
    BY <2>3, <2>4
<1> QED
  BY <1>1, <1>2

(* DecodeType: a record that is decoded is an entry, and ends with a newline *)
(* among the bytes.                                                          *)
LEMMA DecodeType ==
    ASSUME NEW s \in Seq(Byte)
    PROVE  /\ Decode(s).kind \in {"record", "more", "malformed"}
           /\ Decode(s).kind = "record" =>
                 /\ Decode(s).consumed \in 1..Len(s) /\ s[Decode(s).consumed] = Newline
                 /\ Decode(s).entry \in Entry
<1>0. NeedMore.kind = "more" /\ Malformed.kind = "malformed"
  BY DEF NeedMore, Malformed
<1>1. CASE Decode(s) = NeedMore
  BY <1>0, <1>1, SMT
<1>2. CASE Decode(s) = Malformed
  BY <1>0, <1>2, SMT
<1>3. CASE \E p, q, e : RecordAt(s, p, q, e)
  <2>1. PICK p, q, e : RecordAt(s, p, q, e)
    BY <1>3
  <2>2. /\ Headed(s, p, q) /\ LengthOf(s, p, q) # None
        /\ e = q + LengthOf(s, p, q) + 1 /\ e \in 1..Len(s) /\ s[e] = Newline
        /\ Decode(s) = [kind |-> "record", consumed |-> e, entry |-> EntryAt(s, p, q)]
    BY <2>1 DEF RecordAt
  <2>3. /\ Decode(s).kind = "record" /\ Decode(s).consumed = e
        /\ Decode(s).entry = EntryAt(s, p, q)
    BY <2>2, SMT
  <2>4. /\ p \in Nat /\ q \in Nat /\ LengthOf(s, p, q) \in Nat
        /\ Number(SubSeq(s, 1, p - 1)) \in Nat
    BY <2>2, HeadedTypes
  <2>5. SubSeq(s, q + 1, q + LengthOf(s, p, q)) \in Seq(Byte)
    BY <2>2, <2>4, SMT
  <2>6. EntryAt(s, p, q) \in Entry
    BY <2>4, <2>5 DEF EntryAt, Entry
  <2> QED
    BY <2>2, <2>3, <2>6
<1> QED
  BY <1>1, <1>2, <1>3, DecodeCases

------------------------------------------------------------------------------
(* Encoded records *)

LEMMA SameSeq ==
    ASSUME NEW T, NEW s \in Seq(T), NEW U, NEW t \in Seq(U), Len(s) = Len(t),
           \A i \in 1..Len(s) : s[i] = t[i]
    PROVE  s = t
BY SMT

(* u is the n elements of s after the first m. *)
IsPart(u, T, s, m, n) == u \in Seq(T) /\ Len(u) = n /\ \A i \in 1..n : u[i] = s[m + i]

LEMMA PartIs ==
    ASSUME NEW T, NEW s \in Seq(T), NEW m \in Nat, NEW n \in Nat, m + n <= Len(s)
    PROVE  IsPart(SubSeq(s, m + 1, m + n), T, s, m, n)
BY SMT DEF IsPart

(* What the tailer may log. *)
Logged == [ms : Epoch..MaxU64, stream : {"stdout", "stderr"}, data : LineData]

LEMMA LoggedIs ==
    ASSUME NEW e \in Logged
    PROVE  /\ e \in Entry /\ e.ms \in Nat /\ e.ms <= MaxU64 /\ e.ms > MaxRecordBytes
           /\ e.data \in Seq(Byte) /\ Len(e.data) \in Nat /\ Len(e.data) <= MaxRecordBytes
           /\ Stream[e.stream] \in Letter /\ Stream[e.stream] \in Byte
           /\ \A i \in 1..Len(e.data) - 1 : e.data[i] # Newline
           /\ e = [ms |-> e.ms, stream |-> e.stream, data |-> e.data]
           /\ e.stream = IF Stream[e.stream] = Stream.stdout THEN "stdout" ELSE "stderr"
<1>1. e.ms \in Epoch..MaxU64 /\ e.stream \in {"stdout", "stderr"} /\ e.data \in LineData
  BY DEF Logged
<1>2. e.ms \in Nat /\ e.ms <= MaxU64 /\ e.ms > MaxRecordBytes
  BY <1>1, QueryAssumption, CodecAssumption, SMT
<1>3. /\ e.data \in Seq(Byte) /\ Len(e.data) <= MaxRecordBytes
      /\ \A i \in 1..Len(e.data) - 1 : e.data[i] # Newline
  BY <1>1 DEF LineData
<1>4. Len(e.data) \in Nat
  BY <1>3, SMT
<1>5. e = [ms |-> e.ms, stream |-> e.stream, data |-> e.data]
  BY SMT DEF Logged
<1>6. e \in Entry
  BY <1>1, <1>2, <1>3, <1>5 DEF Entry
<1>7. Stream.stdout \in Letter /\ Stream.stderr \in Letter
  BY DEF Letter
<1>8. /\ Stream[e.stream] \in Letter /\ Stream[e.stream] \in Byte
      /\ e.stream = IF Stream[e.stream] = Stream.stdout THEN "stdout" ELSE "stderr"
  BY <1>1, <1>7, ByteFacts
<1> QED
  BY <1>2, <1>3, <1>4, <1>5, <1>6, <1>8

(* The digits of the time, and of the length. *)
TimeLen(e) == Len(Decimal[e.ms])
SizeLen(e) == Len(Decimal[Len(e.data)])

LEMMA LensAre ==
    ASSUME NEW e \in Logged
    PROVE  /\ TimeLen(e) \in Nat \ {0} /\ SizeLen(e) \in Nat \ {0}
           /\ Decimal[e.ms] \in Seq(Digit) /\ Decimal[Len(e.data)] \in Seq(Digit)
BY LoggedIs, DecimalIs DEF TimeLen, SizeLen

(* u is s, of m elements, and then t, of n. *)
IsJoin(u, T, s, t, m, n) ==
    /\ u \in Seq(T) /\ Len(u) = m + n
    /\ \A i \in 1..m : u[i] = s[i]
    /\ \A i \in 1..n : u[m + i] = t[i]

LEMMA Joined ==
    ASSUME NEW T, NEW s \in Seq(T), NEW t \in Seq(T)
    PROVE  IsJoin(s \o t, T, s, t, Len(s), Len(t))
BY SMT DEF IsJoin

(* The record r of e: a digits of time, b digits of the length n of its data. *)
Laid(r, e, a, b, n) ==
    /\ r \in Seq(Byte) /\ Len(r) = a + b + n + 5
    /\ \A i \in 1..a : r[i] = Decimal[e.ms][i]
    /\ r[a + 1] = Space /\ r[a + 2] = Stream[e.stream] /\ r[a + 3] = Space
    /\ \A i \in 1..b : r[a + 3 + i] = Decimal[n][i]
    /\ r[a + b + 4] = Space
    /\ \A i \in 1..n : r[a + b + 4 + i] = e.data[i]
    /\ r[a + b + n + 5] = Newline

(* EncodeIs: where the parts of an encoded record are. *)
LEMMA EncodeIs ==
    ASSUME NEW e \in Logged
    PROVE  Laid(Encode(e), e, TimeLen(e), SizeLen(e), Len(e.data))
<1>0. PICK r, a, b, n : r = Encode(e) /\ a = TimeLen(e) /\ b = SizeLen(e) /\ n = Len(e.data)
  OBVIOUS
<1>1. PICK da : da = Decimal[e.ms]
  OBVIOUS
<1>2. PICK db : db = Decimal[n]
  OBVIOUS
<1>3. PICK mid : mid = <<Space, Stream[e.stream], Space>>
  OBVIOUS
<1>4. PICK one : one = <<Space>>
  OBVIOUS
<1>5. PICK dt : dt = e.data
  OBVIOUS
<1>6. PICK end : end = <<Newline>>
  OBVIOUS
<1>7. r = da \o mid \o db \o one \o dt \o end
  BY <1>0, <1>1, <1>2, <1>3, <1>4, <1>5, <1>6 DEF Encode
<1>8. da \in Seq(Byte) /\ Len(da) = a /\ db \in Seq(Byte) /\ Len(db) = b
  <2>1. da \in Seq(Digit) /\ db \in Seq(Digit)
    BY <1>0, <1>1, <1>2, LensAre
  <2>2. da \in Seq(Byte) /\ db \in Seq(Byte)
    BY <2>1, ByteFacts, SMT
  <2> QED
    BY <1>0, <1>1, <1>2, <2>2 DEF TimeLen, SizeLen
<1>9. /\ mid \in Seq(Byte) /\ Len(mid) = 3
      /\ mid[1] = Space /\ mid[2] = Stream[e.stream] /\ mid[3] = Space
  BY <1>3, LoggedIs, ByteFacts, SMT
<1>10. one \in Seq(Byte) /\ Len(one) = 1 /\ one[1] = Space
  BY <1>4, ByteFacts, SMT
<1>11. end \in Seq(Byte) /\ Len(end) = 1 /\ end[1] = Newline
  BY <1>6, ByteFacts, SMT
<1>12. dt \in Seq(Byte) /\ Len(dt) = n /\ n \in Nat /\ a \in Nat /\ b \in Nat
  BY <1>0, <1>5, LoggedIs, LensAre
<1>13. PICK x : x = da \o mid
  OBVIOUS
<1>14. /\ x \in Seq(Byte) /\ Len(x) = a + 3 /\ \A i \in 1..a : x[i] = da[i]
       /\ \A i \in 1..3 : x[a + i] = mid[i]
  <2>1. IsJoin(x, Byte, da, mid, a, 3)
    BY <1>8, <1>9, <1>13, Joined
  <2> QED
    BY <2>1 DEF IsJoin
<1>15. PICK y : y = x \o db
  OBVIOUS
<1>16. /\ y \in Seq(Byte) /\ Len(y) = a + 3 + b /\ \A i \in 1..a + 3 : y[i] = x[i]
       /\ \A i \in 1..b : y[a + 3 + i] = db[i]
  <2>1. IsJoin(y, Byte, x, db, a + 3, b)
    BY <1>8, <1>14, <1>15, Joined
  <2> QED
    BY <2>1 DEF IsJoin
<1>17. PICK z : z = y \o one
  OBVIOUS
<1>18. /\ z \in Seq(Byte) /\ Len(z) = a + 3 + b + 1 /\ \A i \in 1..a + 3 + b : z[i] = y[i]
       /\ \A i \in 1..1 : z[a + 3 + b + i] = one[i]
  <2>1. IsJoin(z, Byte, y, one, a + 3 + b, 1)
    BY <1>10, <1>16, <1>17, Joined
  <2> QED
    BY <2>1 DEF IsJoin
<1>19. PICK v : v = z \o dt
  OBVIOUS
<1>20. /\ v \in Seq(Byte) /\ Len(v) = a + 3 + b + 1 + n
       /\ \A i \in 1..a + 3 + b + 1 : v[i] = z[i]
       /\ \A i \in 1..n : v[a + 3 + b + 1 + i] = dt[i]
  <2>1. IsJoin(v, Byte, z, dt, a + 3 + b + 1, n)
    BY <1>12, <1>18, <1>19, Joined
  <2> QED
    BY <2>1 DEF IsJoin
<1>21. r = v \o end
  BY <1>7, <1>13, <1>15, <1>17, <1>19
<1>22. /\ r \in Seq(Byte) /\ Len(r) = a + 3 + b + 1 + n + 1
       /\ \A i \in 1..a + 3 + b + 1 + n : r[i] = v[i]
       /\ \A i \in 1..1 : r[a + 3 + b + 1 + n + i] = end[i]
  <2>1. IsJoin(r, Byte, v, end, a + 3 + b + 1 + n, 1)
    BY <1>11, <1>20, <1>21, Joined
  <2> QED
    BY <2>1 DEF IsJoin
<1>23. r \in Seq(Byte) /\ Len(r) = a + b + n + 5 /\ r[a + b + n + 5] = Newline
  <2>1. a + 3 + b + 1 + n + 1 = a + b + n + 5 /\ 1 \in 1..1
    BY <1>12, SMT
  <2> QED
    BY <1>11, <1>22, <2>1
<1>24. ASSUME NEW i \in 1..n PROVE r[a + b + 4 + i] = e.data[i]
  <2>1. a + 3 + b + 1 + i = a + b + 4 + i /\ a + 3 + b + 1 + i \in 1..a + 3 + b + 1 + n
    BY <1>12, SMT
  <2>2. r[a + 3 + b + 1 + i] = dt[i]
    BY <1>20, <1>22, <2>1
  <2> QED
    BY <1>5, <2>1, <2>2
<1>25. \A i \in 1..a + 3 + b + 1 : r[i] = z[i]
  <2>1. \A i \in 1..a + 3 + b + 1 : i \in 1..a + 3 + b + 1 + n
    BY <1>12, SMT
  <2> QED
    BY <1>20, <1>22, <2>1
<1>26. r[a + b + 4] = Space
  BY <1>10, <1>12, <1>18, <1>25, SMT
<1>27. \A i \in 1..a + 3 + b : r[i] = y[i]
  BY <1>12, <1>18, <1>25, SMT
<1>28. \A i \in 1..b : r[a + 3 + i] = Decimal[n][i]
  BY <1>2, <1>12, <1>16, <1>27, SMT
<1>29. \A i \in 1..a + 3 : r[i] = x[i]
  BY <1>12, <1>16, <1>27, SMT
<1>30. r[a + 1] = Space /\ r[a + 2] = Stream[e.stream] /\ r[a + 3] = Space
  BY <1>9, <1>12, <1>14, <1>29, SMT
<1>31. \A i \in 1..a : r[i] = Decimal[e.ms][i]
  BY <1>1, <1>12, <1>14, <1>29, SMT
<1>32. Laid(r, e, a, b, n)
  BY <1>23, <1>24, <1>26, <1>28, <1>30, <1>31 DEF Laid
<1> QED
  BY <1>0, <1>32

(* After the first c bytes of s come the first w of the record of e. *)
Shows(s, c, e, w) == c + w <= Len(s) /\ \A i \in 1..w : s[c + i] = Encode(e)[i]

(* The first c bytes of s are digits, and then come w of the record of e; *)
(* its first space is at p, and its last at q.                            *)
Placed(s, c, e, w, a, b, p, q) ==
    /\ s \in Seq(Byte) /\ c \in Nat /\ e \in Logged /\ w \in Nat
    /\ Shows(s, c, e, w) /\ \A i \in 1..c : s[i] \in Digit
    /\ a = TimeLen(e) /\ b = SizeLen(e) /\ p = c + a + 1 /\ q = c + a + b + 4

(* DigitsThen: digits, and a record as far as its first space. *)
LEMMA DigitsThen ==
    ASSUME NEW s, NEW c, NEW e, NEW w, NEW a, NEW b, NEW p, NEW q,
           Placed(s, c, e, w, a, b, p, q), w >= a + 1
    PROVE  /\ SpaceAt(s, p) /\ \A i \in 1..p - 1 : s[i] \in Digit
           /\ SubSeq(s, 1, p - 1) \in Seq(Digit) /\ SubSeq(s, 1, p - 1) # <<>>
<1>at. /\ s \in Seq(Byte) /\ c \in Nat /\ e \in Logged /\ w \in Nat
       /\ Shows(s, c, e, w) /\ \A i \in 1..c : s[i] \in Digit
       /\ a = TimeLen(e) /\ b = SizeLen(e) /\ p = c + a + 1 /\ q = c + a + b + 4
  BY DEF Placed
<1> USE <1>at
<1>1. PICK r : r = Encode(e)
  OBVIOUS
<1>0. PICK m : m = Len(e.data)
  OBVIOUS
<1>2. a \in Nat \ {0} /\ Len(s) \in Nat /\ c + w <= Len(s)
  BY LensAre, SMT DEF Shows
<1>3. (\A i \in 1..a : r[i] = Decimal[e.ms][i]) /\ r[a + 1] = Space
  <2>1. Laid(r, e, a, b, m)
    BY <1>0, <1>1, EncodeIs
  <2> QED
    BY <2>1 DEF Laid
<1>4. \A i \in 1..a : Decimal[e.ms][i] \in Digit
  <2>1. PICK d : d = Decimal[e.ms]
    OBVIOUS
  <2>2. d \in Seq(Digit) /\ Len(d) = a
    BY <2>1, LensAre DEF TimeLen
  <2>3. \A i \in 1..a : d[i] \in Digit
    BY <2>2, SMT
  <2> QED
    BY <2>1, <2>3
<1>5. \A i \in 1..w : s[c + i] = r[i]
  BY <1>1 DEF Shows
<1>6. ASSUME NEW i \in 1..c + a PROVE s[i] \in Digit
  <2>1. CASE i \in 1..c
    BY <2>1
  <2>2. CASE i \notin 1..c
    <3>1. PICK k : k = i - c
      OBVIOUS
    <3>2. k \in 1..a /\ k \in 1..w /\ c + k = i
      BY <1>2, <2>2, <3>1, SMT
    <3> QED
      BY <1>3, <1>4, <1>5, <3>2
  <2> QED
    BY <2>1, <2>2
<1>7. c + a + 1 \in 1..Len(s) /\ a + 1 \in 1..w /\ c + (a + 1) = c + a + 1
  BY <1>2, SMT
<1>8. s[c + a + 1] = Space
  BY <1>3, <1>5, <1>7
<1>9. NoneBefore(s, Space, c + a + 1)
  <2>1. \A i \in 1..(c + a + 1) - 1 : i \in 1..c + a
    BY <1>2, SMT
  <2> QED
    BY <1>6, <2>1, ByteFacts DEF NoneBefore
<1>10. SubSeq(s, 1, c + a) \in Seq(Digit) /\ SubSeq(s, 1, c + a) # <<>>
  <2>1. PICK n \in Nat : n = c + a /\ n >= 1 /\ n <= Len(s)
    BY <1>2, SMT
  <2>2. \A i \in 1..n : s[i] \in Digit
    BY <1>6, <2>1
  <2>3. SubSeq(s, 1, n) \in Seq(Digit) /\ SubSeq(s, 1, n) # <<>>
    BY <2>1, <2>2, SMT
  <2> QED
    BY <2>1, <2>3
<1>11. p = c + a + 1 /\ p - 1 = c + a
  BY <1>2, SMT
<1> QED
  BY <1>6, <1>7, <1>8, <1>9, <1>10, <1>11 DEF SpaceAt

LEMMA NumberOfDigits ==
    ASSUME NEW s \in Seq(Digit), s # <<>>
    PROVE  Number(s) = IF Value(s) <= MaxU64 THEN Value(s) ELSE None
<1>1. \A i \in DOMAIN s : s[i] \in 0..9
  BY SMT DEF Digit
<1> QED
  BY <1>1 DEF Number

LEMMA NumberOfDecimal ==
    ASSUME NEW n \in Nat, n <= MaxU64
    PROVE  Number(Decimal[n]) = n
<1>1. PICK d : d = Decimal[n]
  OBVIOUS
<1>2. d \in Seq(Digit) /\ Len(d) \in Nat \ {0} /\ Value(d) = n
  BY <1>1, DecimalIs
<1>3. d # <<>>
  BY <1>2, SMT
<1> QED
  BY <1>1, <1>2, <1>3, NumberOfDigits

(* StampThere: and as far as its stream. *)
LEMMA StampThere ==
    ASSUME NEW s, NEW c, NEW e, NEW w, NEW a, NEW b, NEW p, NEW q,
           Placed(s, c, e, w, a, b, p, q), w >= a + 3,
           Number(SubSeq(s, 1, p - 1)) # None
    PROVE  Stamped(s, p) /\ s[p + 1] = Stream[e.stream]
<1>at. /\ s \in Seq(Byte) /\ c \in Nat /\ e \in Logged /\ w \in Nat
       /\ Shows(s, c, e, w) /\ \A i \in 1..c : s[i] \in Digit
       /\ a = TimeLen(e) /\ b = SizeLen(e) /\ p = c + a + 1 /\ q = c + a + b + 4
  BY DEF Placed
<1> USE <1>at
<1>1. PICK r : r = Encode(e)
  OBVIOUS
<1>0. PICK m : m = Len(e.data)
  OBVIOUS
<1>2. a \in Nat \ {0} /\ Len(s) \in Nat /\ c + w <= Len(s)
  BY LensAre, SMT DEF Shows
<1>3. r[a + 2] = Stream[e.stream] /\ r[a + 3] = Space
  <2>1. Laid(r, e, a, b, m)
    BY <1>0, <1>1, EncodeIs
  <2> QED
    BY <2>1 DEF Laid
<1>4. \A i \in 1..w : s[c + i] = r[i]
  BY <1>1 DEF Shows
<1>5. /\ a + 2 \in 1..w /\ a + 3 \in 1..w /\ c + (a + 2) = c + a + 2 /\ c + (a + 3) = c + a + 3
      /\ p + 1 = c + a + 2 /\ p + 2 = c + a + 3
      /\ ~(Len(s) < p + 2) /\ w >= a + 1
  <2>1. c \in Nat /\ w \in Nat /\ w >= a + 3 /\ p = c + a + 1
    OBVIOUS
  <2> QED
    BY ONLY <1>2, <2>1, SMT
<1>6. s[c + a + 2] = Stream[e.stream] /\ s[c + a + 3] = Space
  BY <1>3, <1>4, <1>5
<1>7. SpaceAt(s, p)
  BY <1>5, DigitsThen
<1>8. Stream[e.stream] \in Letter
  BY LoggedIs
<1> QED
  BY <1>5, <1>6, <1>7, <1>8 DEF Stamped

(* The header announces n bytes of data. *)
Announces(s, p, q, n) == Headed(s, p, q) /\ LengthOf(s, p, q) = n

(* HeaderThere: and as far as the end of its header. *)
LEMMA HeaderThere ==
    ASSUME NEW s, NEW c, NEW e, NEW w, NEW a, NEW b, NEW p, NEW q,
           Placed(s, c, e, w, a, b, p, q), w >= a + b + 4,
           Number(SubSeq(s, 1, p - 1)) # None
    PROVE  Announces(s, p, q, Len(e.data))
<1>at. /\ s \in Seq(Byte) /\ c \in Nat /\ e \in Logged /\ w \in Nat
       /\ Shows(s, c, e, w) /\ \A i \in 1..c : s[i] \in Digit
       /\ a = TimeLen(e) /\ b = SizeLen(e) /\ p = c + a + 1 /\ q = c + a + b + 4
  BY DEF Placed
<1> USE <1>at
<1>1. PICK r : r = Encode(e)
  OBVIOUS
<1>2. /\ a \in Nat \ {0} /\ b \in Nat \ {0} /\ Len(s) \in Nat /\ c + w <= Len(s)
      /\ c \in Nat /\ w \in Nat /\ w >= a + b + 4 /\ s \in Seq(Byte)
  BY LensAre, SMT DEF Shows
<1>3. PICK n : n = Len(e.data)
  OBVIOUS
<1>4. (\A i \in 1..b : r[a + 3 + i] = Decimal[n][i]) /\ r[a + b + 4] = Space
  <2>1. Laid(r, e, a, b, n)
    BY <1>1, <1>3, EncodeIs
  <2> QED
    BY <2>1 DEF Laid
<1>5. \A i \in 1..w : s[c + i] = r[i]
  BY <1>1 DEF Shows
<1>6. Stamped(s, p)
  <2>1. w >= a + 3
    BY ONLY <1>2, SMT
  <2> QED
    BY <2>1, StampThere
<1>7. p = c + a + 1
  OBVIOUS
<1>8. q = c + a + b + 4
  OBVIOUS
<1>9. /\ p \in Nat /\ q \in p + 3..Len(s) /\ a + b + 4 \in 1..w /\ c + (a + b + 4) = q
      /\ q - 1 = p + 3 + b - 1
  BY ONLY <1>2, <1>7, <1>8, SMT
<1>10. s[q] = Space
  BY <1>4, <1>5, <1>9
<1>11. PICK d : d = Decimal[n]
  OBVIOUS
<1>12. d \in Seq(Digit) /\ Len(d) = b /\ n \in Nat /\ n <= MaxU64
  <2>1. n \in Nat /\ n <= MaxRecordBytes
    BY <1>3, LoggedIs
  <2>2. n <= MaxU64
    BY <2>1, CodecAssumption, SMT
  <2> QED
    BY <1>3, <1>11, <2>1, <2>2, LensAre DEF SizeLen
<1>13. ASSUME NEW i \in 1..b PROVE s[p + 2 + i] = d[i]
  <2>0. i \in 1..b
    OBVIOUS
  <2>1. a + 3 + i \in 1..w /\ c + (a + 3 + i) = p + 2 + i
    BY ONLY <1>2, <1>7, <2>0, SMT
  <2>2. r[a + 3 + i] = d[i]
    BY <1>4, <1>11
  <2> QED
    BY <1>5, <2>1, <2>2
<1>14. \A i \in 1..b : d[i] \in Digit
  BY <1>12, SMT
<1>15. ASSUME NEW i \in p + 3..q - 1 PROVE s[i] # Space
  <2>0. i \in p + 3..q - 1
    OBVIOUS
  <2>1. PICK k : k = i - (p + 2)
    OBVIOUS
  <2>2. k \in 1..b /\ p + 2 + k = i
    BY ONLY <1>2, <1>9, <2>0, <2>1, SMT
  <2> QED
    BY <1>13, <1>14, <2>2, ByteFacts
<1>16. Headed(s, p, q)
  BY <1>6, <1>7, <1>9, <1>10, <1>15 DEF Headed
<1>17. SubSeq(s, p + 3, q - 1) = d
  <2>1. PICK t : t = SubSeq(s, p + 3, q - 1)
    OBVIOUS
  <2>2. t \in Seq(Byte) /\ Len(t) = b /\ \A i \in 1..b : t[i] = s[p + 2 + i]
    <3>1. PICK m \in Nat : m = p + 2
      BY <1>9, SMT
    <3>2. m + b <= Len(s) /\ m + 1 = p + 3 /\ m + b = q - 1
      BY ONLY <1>2, <1>7, <1>8, <1>9, <3>1, SMT
    <3>3. IsPart(SubSeq(s, m + 1, m + b), Byte, s, m, b)
      BY <1>2, <3>2, PartIs
    <3> QED
      BY <2>1, <3>1, <3>2, <3>3 DEF IsPart
  <2>3. t \in Seq(Byte) /\ Len(t) = Len(d) /\ \A i \in 1..Len(t) : t[i] = d[i]
    BY <1>12, <1>13, <2>2
  <2> QED
    BY <1>12, <2>1, <2>3, SameSeq
<1>18. LengthOf(s, p, q) = n
  BY <1>11, <1>12, <1>17, NumberOfDecimal DEF LengthOf
<1>19. Announces(s, p, q, n)
  BY <1>16, <1>18 DEF Announces
<1> QED
  BY <1>3, <1>19

LEMMA EncodeLen ==
    ASSUME NEW e \in Logged
    PROVE  /\ Encode(e) \in Seq(Byte)
           /\ Len(Encode(e)) = TimeLen(e) + SizeLen(e) + Len(e.data) + 5
           /\ TimeLen(e) \in Nat \ {0} /\ SizeLen(e) \in Nat \ {0} /\ Len(e.data) \in Nat
           /\ Len(Encode(e)) \in Nat
<1>1. PICK r, a, b, n : r = Encode(e) /\ a = TimeLen(e) /\ b = SizeLen(e) /\ n = Len(e.data)
  OBVIOUS
<1>2. r \in Seq(Byte) /\ Len(r) = a + b + n + 5
  <2>1. Laid(r, e, a, b, n)
    BY <1>1, EncodeIs
  <2> QED
    BY <2>1 DEF Laid
<1>3. a \in Nat \ {0} /\ b \in Nat \ {0} /\ n \in Nat
  BY <1>1, LensAre, LoggedIs
<1>4. Len(r) \in Nat
  BY <1>2, SMT
<1> QED
  BY <1>1, <1>2, <1>3, <1>4

(* TimeThere: the digits of the time are read back. *)
LEMMA TimeThere ==
    ASSUME NEW s, NEW c, NEW e, NEW w, NEW a, NEW b, NEW p, NEW q,
           Placed(s, c, e, w, a, b, p, q), c = 0, w >= a + 1
    PROVE  Number(SubSeq(s, 1, p - 1)) = e.ms
<1>at. /\ s \in Seq(Byte) /\ c \in Nat /\ e \in Logged /\ w \in Nat
       /\ Shows(s, c, e, w) /\ \A i \in 1..c : s[i] \in Digit
       /\ a = TimeLen(e) /\ b = SizeLen(e) /\ p = c + a + 1 /\ q = c + a + b + 4
  BY DEF Placed
<1> USE <1>at
<1>1. PICK r, m : r = Encode(e) /\ m = Len(e.data)
  OBVIOUS
<1>2. a \in Nat \ {0} /\ Len(s) \in Nat /\ 0 + w <= Len(s) /\ p - 1 = a
  BY LensAre, SMT DEF Shows
<1>3. \A i \in 1..a : r[i] = Decimal[e.ms][i]
  <2>1. Laid(r, e, a, b, m)
    BY <1>1, EncodeIs
  <2> QED
    BY <2>1 DEF Laid
<1>4. PICK d : d = Decimal[e.ms]
  OBVIOUS
<1>5. d \in Seq(Digit) /\ Len(d) = a
  BY <1>4, LensAre DEF TimeLen
<1>6. PICK t : t = SubSeq(s, 1, a)
  OBVIOUS
<1>7. IsPart(t, Byte, s, 0, a)
  <2>1. 0 + 1 = 1 /\ 0 + a = a /\ 0 + a <= Len(s) /\ 0 \in Nat
    BY <1>2, SMT
  <2> QED
    BY <1>2, <1>6, <2>1, PartIs
<1>8. ASSUME NEW i \in 1..a PROVE t[i] = d[i]
  <2>1. i \in 1..w /\ 0 + i = i
    BY <1>2, SMT
  <2>2. s[i] = r[i]
    BY <1>1, <2>1 DEF Shows
  <2>3. t[i] = s[0 + i]
    BY <1>7 DEF IsPart
  <2> QED
    BY <1>3, <1>4, <2>1, <2>2, <2>3
<1>9. t = d
  <2>1. t \in Seq(Byte) /\ Len(t) = a
    BY <1>7 DEF IsPart
  <2> QED
    BY <1>5, <1>8, <2>1, SameSeq
<1> QED
  BY <1>2, <1>4, <1>6, <1>9, LoggedIs, NumberOfDecimal

(* BodyThere: after a header in order the newline decides. *)
LEMMA BodyThere ==
    ASSUME NEW s, NEW c, NEW e, NEW w, NEW a, NEW b, NEW p, NEW q,
           Placed(s, c, e, w, a, b, p, q), w >= a + b + 4,
           Number(SubSeq(s, 1, p - 1)) # None, NEW x, x = c + Len(Encode(e))
    PROVE  /\ Len(s) < x => Decode(s) = NeedMore
           /\ ~(Len(s) < x) /\ s[x] # Newline => Decode(s) = Malformed
           /\ ~(Len(s) < x) /\ s[x] = Newline =>
                 Decode(s) = [kind |-> "record", consumed |-> x, entry |-> EntryAt(s, p, q)]
<1>0. Announces(s, p, q, Len(e.data))
  BY HeaderThere
<1>at. /\ s \in Seq(Byte) /\ c \in Nat /\ e \in Logged /\ w \in Nat
       /\ Shows(s, c, e, w) /\ \A i \in 1..c : s[i] \in Digit
       /\ a = TimeLen(e) /\ b = SizeLen(e) /\ p = c + a + 1 /\ q = c + a + b + 4
  BY DEF Placed
<1> USE <1>at
<1>1. PICK n : n = Len(e.data)
  OBVIOUS
<1>2. Headed(s, p, q) /\ LengthOf(s, p, q) = n
  BY <1>0, <1>1 DEF Announces
<1>3. /\ Len(Encode(e)) = a + b + n + 5 /\ c \in Nat /\ a \in Nat /\ b \in Nat /\ n \in Nat
      /\ n <= MaxRecordBytes /\ MaxRecordBytes \in Nat /\ None \notin Nat
  BY <1>1, EncodeLen, LoggedIs, CodecAssumption
<1>5. q = c + a + b + 4
  OBVIOUS
<1>4. x = q + n + 1 /\ ~(n > MaxRecordBytes) /\ n # None
  <2>1. x = c + (a + b + n + 5)
    BY <1>3
  <2>2. x = q + n + 1 /\ ~(n > MaxRecordBytes)
    BY ONLY <1>3, <1>5, <2>1, SMT
  <2> QED
    BY <1>3, <2>2
<1> QED
  BY <1>1, <1>2, <1>4, DecodeBody

(* RoundTrip: decode_event_with_len of what encode_record_into wrote for the *)
(* tailer, a line or a piece of one, is the event, and takes up just its     *)
(* bytes, whatever follows it.                                               *)
THEOREM RoundTrip ==
    ASSUME NEW s \in Seq(Byte), NEW e \in Logged, Shows(s, 0, e, Len(Encode(e)))
    PROVE  Decode(s) = [kind |-> "record", consumed |-> Len(Encode(e)), entry |-> e]
<1>1. PICK r, a, b, n : r = Encode(e) /\ a = TimeLen(e) /\ b = SizeLen(e) /\ n = Len(e.data)
  OBVIOUS
<1>2. PICK w : w = Len(r)
  OBVIOUS
<1>3. /\ w = a + b + n + 5 /\ a \in Nat \ {0} /\ b \in Nat \ {0} /\ n \in Nat /\ w \in Nat
      /\ Len(s) \in Nat
  <2>1. Len(s) \in Nat
    BY SMT
  <2> QED
    BY <1>1, <1>2, <2>1, EncodeLen
<1>4. Shows(s, 0, e, w) /\ w >= a + b + 4 /\ w >= a + 1 /\ 0 \in Nat /\ 0 + a = a /\ 0 + w = w
  <2>1. w >= a + b + 4 /\ w >= a + 1 /\ 0 \in Nat /\ 0 + a = a /\ 0 + w = w
    BY <1>3, SMT
  <2> QED
    BY <1>1, <1>2, <2>1
<1>5. ~(Len(s) < w) /\ \A i \in 1..w : s[i] = r[i]
  <2>1. 0 + w <= Len(s) /\ \A i \in 1..w : s[0 + i] = r[i]
    BY <1>1, <1>4 DEF Shows
  <2>2. \A i \in 1..w : 0 + i = i
    BY SMT
  <2>3. ~(Len(s) < w)
    BY <1>3, <2>1, SMT
  <2> QED
    BY <2>1, <2>2, <2>3
<1>6. Laid(r, e, a, b, n)
  BY <1>1, EncodeIs
<1>9. PICK p, q : p = 0 + a + 1 /\ q = 0 + a + b + 4
  OBVIOUS
<1>at. Placed(s, 0, e, w, a, b, p, q)
  <2>1. \A i \in 1..0 : s[i] \in Digit
    BY SMT
  <2> QED
    BY <1>1, <1>3, <1>4, <1>9, <2>1 DEF Placed
<1>7. Number(SubSeq(s, 1, p - 1)) = e.ms /\ e.ms # None
  <2>1. e.ms # None
    BY LoggedIs, CodecAssumption
  <2> QED
    BY <1>4, <1>at, <2>1, TimeThere
<1>8. s[w] = Newline
  <2>1. w \in 1..w
    BY <1>3, SMT
  <2> QED
    BY <1>3, <1>5, <1>6, <2>1 DEF Laid
<1>10. Decode(s) = [kind |-> "record", consumed |-> w, entry |-> EntryAt(s, p, q)]
  <2>1. w = 0 + Len(Encode(e))
    BY <1>1, <1>2, <1>4
  <2> QED
    BY <1>4, <1>at, <1>5, <1>7, <1>8, <2>1, BodyThere
<1>11. p - 1 = a /\ p + 1 = a + 2 /\ q = a + b + 4 /\ a + 2 \in 1..w
  BY ONLY <1>3, <1>9, SMT
<1>12. s[p + 1] = Stream[e.stream]
  BY <1>5, <1>6, <1>11 DEF Laid
<1>wide. w >= a + b + 4
  BY <1>4
<1>13. LengthOf(s, p, q) = n
  <2>1. Announces(s, p, q, Len(e.data))
    BY <1>at, <1>wide, <1>7, HeaderThere
  <2> QED
    BY <1>1, <2>1 DEF Announces
<1>14. SubSeq(s, q + 1, q + n) = e.data
  <2>1. PICK t : t = SubSeq(s, q + 1, q + n)
    OBVIOUS
  <2>2. q \in Nat /\ q + n <= Len(s)
    BY <1>3, <1>5, <1>11, SMT
  <2>3. IsPart(t, Byte, s, q, n)
    BY <1>3, <2>1, <2>2, PartIs
  <2>4. ASSUME NEW i \in 1..n PROVE t[i] = e.data[i]
    <3>1. q + i \in 1..w /\ q + i = a + b + 4 + i
      BY <1>3, <1>11, SMT
    <3>2. t[i] = s[q + i]
      BY <2>3 DEF IsPart
    <3>3. r[a + b + 4 + i] = e.data[i]
      BY <1>6 DEF Laid
    <3> QED
      BY <1>5, <3>1, <3>2, <3>3
  <2>5. t \in Seq(Byte) /\ Len(t) = n /\ e.data \in Seq(Byte)
    BY <2>3, LoggedIs DEF IsPart
  <2> QED
    BY <1>1, <2>1, <2>4, <2>5, SameSeq
<1>15. EntryAt(s, p, q) = e
  <2>1. EntryAt(s, p, q) = [ms |-> e.ms, stream |-> e.stream, data |-> e.data]
    BY <1>7, <1>11, <1>12, <1>13, <1>14, LoggedIs DEF EntryAt
  <2> QED
    BY <2>1, LoggedIs
<1> QED
  BY <1>1, <1>2, <1>10, <1>15

------------------------------------------------------------------------------
(* The parser *)

(* One step of parse_events_file, after the first c bytes. *)
ParseFrom(s, f, c) ==
    LET d == Decode(From(s, c + 1))
        skip == Find(From(s, c + 1), Newline)
    IN  CASE d.kind = "record" -> <<d.entry>> \o f[c + d.consumed]
          [] d.kind = "malformed" /\ skip # 0 -> f[c + skip]
          [] OTHER -> <<>>

(* What the step comes to: an entry and the position to go on from, a        *)
(* position, or the end.                                                     *)
TakesRecord(s, c, e, x) ==
    /\ Decode(From(s, c + 1)).kind = "record" /\ e = Decode(From(s, c + 1)).entry
    /\ x = c + Decode(From(s, c + 1)).consumed
SkipsLine(s, c, x) ==
    /\ Decode(From(s, c + 1)).kind = "malformed"
    /\ Find(From(s, c + 1), Newline) # 0 /\ x = c + Find(From(s, c + 1), Newline)
Stops(s, c) ==
    \/ Decode(From(s, c + 1)).kind = "more"
    \/ Decode(From(s, c + 1)).kind = "malformed" /\ Find(From(s, c + 1), Newline) = 0

LEMMA ParseRecord ==
    ASSUME NEW s, NEW f, NEW c, NEW e, NEW x, TakesRecord(s, c, e, x)
    PROVE  ParseFrom(s, f, c) = <<e>> \o f[x]
BY DEF ParseFrom, TakesRecord

LEMMA ParseSkip ==
    ASSUME NEW s, NEW f, NEW c, NEW x, SkipsLine(s, c, x)
    PROVE  ParseFrom(s, f, c) = f[x]
BY SMT DEF ParseFrom, SkipsLine

LEMMA ParseStop ==
    ASSUME NEW s, NEW f, NEW c, Stops(s, c)
    PROVE  ParseFrom(s, f, c) = <<>>
BY SMT DEF ParseFrom, Stops

(* ParseSteps: every position is one of the three, and the parser moves on. *)
LEMMA ParseSteps ==
    ASSUME NEW s \in Seq(Byte), NEW c \in 0..Len(s)
    PROVE  \/ \E e \in Entry, x \in c + 1..Len(s) : TakesRecord(s, c, e, x)
           \/ \E x \in c + 1..Len(s) : SkipsLine(s, c, x)
           \/ Stops(s, c)
<1>1. PICK r, d, k : r = From(s, c + 1) /\ d = Decode(r) /\ k = Find(r, Newline)
  OBVIOUS
<1>2. r \in Seq(Byte) /\ Len(r) = Len(s) - c
  BY <1>1, FromIs
<1>3. Len(s) \in Nat /\ c \in 0..Len(s)
  BY SMT
<1>4. /\ d.kind \in {"record", "more", "malformed"}
      /\ d.kind = "record" => d.consumed \in 1..Len(r) /\ d.entry \in Entry
  BY <1>1, <1>2, DecodeType
<1>5. CASE d.kind = "record"
  <2>1. PICK x, e : x = c + d.consumed /\ e = d.entry
    OBVIOUS
  <2>2. PICK y : y = d.consumed
    OBVIOUS
  <2>3. x \in c + 1..Len(s)
    <3>1. y \in 1..Len(r) /\ x = c + y
      BY <1>4, <1>5, <2>1, <2>2
    <3> QED
      BY ONLY <1>2, <1>3, <3>1, SMT
  <2>4. TakesRecord(s, c, e, x)
    BY <1>1, <1>5, <2>1 DEF TakesRecord
  <2> QED
    BY <1>4, <1>5, <2>1, <2>3, <2>4
<1>6. CASE d.kind = "malformed" /\ k # 0
  <2>1. PICK x : x = c + k
    OBVIOUS
  <2>2. k \in 1..Len(r)
    BY <1>1, <1>2, <1>6, FindIs
  <2>3. x \in c + 1..Len(s)
    BY ONLY <1>2, <1>3, <2>1, <2>2, SMT
  <2>4. SkipsLine(s, c, x)
    BY <1>1, <1>6, <2>1 DEF SkipsLine
  <2> QED
    BY <2>3, <2>4
<1>7. CASE d.kind = "more" \/ (d.kind = "malformed" /\ k = 0)
  BY <1>1, <1>7 DEF Stops
<1>8. \/ d.kind = "record" \/ (d.kind = "malformed" /\ k # 0)
      \/ d.kind = "more" \/ (d.kind = "malformed" /\ k = 0)
  BY <1>4
<1> QED
  BY <1>5, <1>6, <1>7, <1>8

LEMMA ParseFromType ==
    ASSUME NEW s \in Seq(Byte), NEW c \in 0..Len(s), NEW f,
           \A k \in c + 1..Len(s) : f[k] \in Seq(Entry)
    PROVE  ParseFrom(s, f, c) \in Seq(Entry)
<1>1. ASSUME NEW e \in Entry, NEW x \in c + 1..Len(s), TakesRecord(s, c, e, x)
      PROVE  ParseFrom(s, f, c) \in Seq(Entry)
  <2>1. ParseFrom(s, f, c) = <<e>> \o f[x]
    BY <1>1, ParseRecord, SMT
  <2>2. f[x] \in Seq(Entry)
    OBVIOUS
  <2>3. PICK g : g = f[x]
    OBVIOUS
  <2>4. <<e>> \o g \in Seq(Entry)
    BY <2>2, <2>3, SMT
  <2> QED
    BY <2>1, <2>3, <2>4
<1>2. ASSUME NEW x \in c + 1..Len(s), SkipsLine(s, c, x)
      PROVE  ParseFrom(s, f, c) \in Seq(Entry)
  BY <1>2, ParseSkip, ZenonT(30)
<1>3. CASE Stops(s, c)
  <2>1. <<>> \in Seq(Entry)
    BY SMT
  <2> QED
    BY <1>3, <2>1, ParseStop
<1> QED
  BY <1>1, <1>2, <1>3, ParseSteps

LEMMA ParseFromSame ==
    ASSUME NEW s \in Seq(Byte), NEW c \in 0..Len(s), NEW f, NEW g,
           \A k \in c + 1..Len(s) : f[k] = g[k]
    PROVE  ParseFrom(s, f, c) = ParseFrom(s, g, c)
<1>1. ASSUME NEW e \in Entry, NEW x \in c + 1..Len(s), TakesRecord(s, c, e, x)
      PROVE  ParseFrom(s, f, c) = ParseFrom(s, g, c)
  <2>1. ParseFrom(s, f, c) = <<e>> \o f[x] /\ ParseFrom(s, g, c) = <<e>> \o g[x]
    BY <1>1, ParseRecord, SMT
  <2> QED
    BY <2>1
<1>2. ASSUME NEW x \in c + 1..Len(s), SkipsLine(s, c, x)
      PROVE  ParseFrom(s, f, c) = ParseFrom(s, g, c)
  <2>1. ParseFrom(s, f, c) = f[x] /\ ParseFrom(s, g, c) = g[x]
    BY <1>2, ParseSkip, ZenonT(30)
  <2> QED
    BY <2>1
<1>3. CASE Stops(s, c)
  BY <1>3, ParseStop
<1> QED
  BY <1>1, <1>2, <1>3, ParseSteps

(* What is parsed after the first c bytes, for every c. *)
Parsed(s, g) ==
    g \in [0..Len(s) -> Seq(Entry)] /\ \A c \in 0..Len(s) : g[c] = ParseFrom(s, g, c)

LEMMA ParseExists ==
    ASSUME NEW s \in Seq(Byte)
    PROVE  \E g : Parsed(s, g)
<1>1. PICK n : n = Len(s)
  OBVIOUS
<1>2. n \in Nat
  BY <1>1, SMT
<1> DEFINE Stage(m) == {g \in [n - m..n -> Seq(Entry)] :
                           \A c \in n - m..n : g[c] = ParseFrom(s, g, c)}
           S == {m \in 0..n : Stage(m) # {}}
<1>3. 0 \in S
  <2> DEFINE v == ParseFrom(s, <<>>, n)
             g == [c \in n - 0..n |-> v]
  <2>1. n \in 0..n /\ n + 1..n = {} /\ 0 \in 0..n /\ \A c \in n - 0..n : c = n
    BY <1>2, SMT
  <2>2. v \in Seq(Entry)
    <3>1. \A k \in n + 1..n : <<>>[k] \in Seq(Entry)
      BY <2>1
    <3> QED
      BY <1>1, <2>1, <3>1, ParseFromType
  <2>3. v = ParseFrom(s, g, n)
    <3>1. \A k \in n + 1..n : <<>>[k] = g[k]
      BY <2>1
    <3> HIDE DEF g
    <3> QED
      BY <1>1, <2>1, <3>1, ParseFromSame
  <2>4. g \in [n - 0..n -> Seq(Entry)] /\ \A c \in n - 0..n : g[c] = v
    <3> HIDE DEF v
    <3> QED
      BY <2>2
  <2> HIDE DEF v, g
  <2>5. g \in Stage(0)
    BY <2>1, <2>3, <2>4
  <2> QED
    BY <2>1, <2>5
<1>4. ASSUME NEW m \in 1..n, m - 1 \in S PROVE m \in S
  <2>1. PICK g \in Stage(m - 1) : TRUE
    BY <1>4
  <2>2. PICK c : c = n - m
    OBVIOUS
  <2>3. /\ n - (m - 1) = c + 1 /\ c \in 0..n /\ m \in 0..n /\ c \in c..n /\ c \notin c + 1..n
        /\ \A k \in c..n : k = c \/ k \in c + 1..n
        /\ \A k \in c + 1..n : k \in c..n /\ k \in 0..n /\ k # c /\ k + 1..n \subseteq c + 1..n
    BY <1>2, <2>2, SMT
  <2>4. g \in [c + 1..n -> Seq(Entry)] /\ \A k \in c + 1..n : g[k] = ParseFrom(s, g, k)
    BY <2>1, <2>3
  <2> DEFINE v == ParseFrom(s, g, c)
             h == [k \in c..n |-> IF k = c THEN v ELSE g[k]]
  <2>5. v \in Seq(Entry)
    BY <1>1, <2>3, <2>4, ParseFromType
  <2>6. (\A k \in c + 1..n : h[k] = g[k]) /\ h[c] = v
    BY <2>3
  <2>7. h \in [c..n -> Seq(Entry)]
    <3>1. \A k \in c..n : (IF k = c THEN v ELSE g[k]) \in Seq(Entry)
      BY <2>3, <2>4, <2>5
    <3> HIDE DEF v
    <3> QED
      BY <3>1
  <2> HIDE DEF h
  <2>8. v = ParseFrom(s, h, c)
    BY <1>1, <2>3, <2>6, ParseFromSame, ZenonT(30)
  <2> HIDE DEF v
  <2>9. ASSUME NEW k \in c..n PROVE h[k] = ParseFrom(s, h, k)
    <3>1. CASE k = c
      BY <2>6, <2>8, <3>1
    <3>2. CASE k # c
      <4>1. k \in c + 1..n /\ k \in 0..n /\ \A i \in k + 1..n : g[i] = h[i]
        BY <2>3, <2>6, <3>2
      <4>2. ParseFrom(s, g, k) = ParseFrom(s, h, k)
        BY <1>1, <4>1, ParseFromSame
      <4> QED
        BY <2>4, <2>6, <4>1, <4>2
    <3> QED
      BY <3>1, <3>2
  <2>10. h \in Stage(m)
    BY <2>2, <2>7, <2>9
  <2> QED
    BY <2>3, <2>10
<1>5. n \in S
  <2>1. n \in 0..n
    BY <1>2, SMT
  <2> HIDE DEF S
  <2> QED
    BY <1>2, <1>3, <1>4, <2>1, Upwards
<1>6. n - n = 0
  BY <1>2, SMT
<1>7. PICK g \in Stage(n) : TRUE
  BY <1>5
<1>8. Parsed(s, g)
  BY <1>1, <1>6, <1>7 DEF Parsed
<1> QED
  BY <1>8

(* ParseIs: Parse is what its recursion says. *)
LEMMA ParseIs ==
    ASSUME NEW s \in Seq(Byte)
    PROVE  \E g : Parsed(s, g) /\ Parse(s) = g[0]
<1> DEFINE F(f) == [c \in 0..Len(s) |-> ParseFrom(s, f, c)]
           h == CHOOSE f : f = F(f)
<1>1. PICK g : Parsed(s, g)
  BY ParseExists
<1>2. g = F(g)
  <2>1. g \in [0..Len(s) -> Seq(Entry)] /\ \A c \in 0..Len(s) : g[c] = ParseFrom(s, g, c)
    BY <1>1 DEF Parsed
  <2> QED
    BY <2>1
<1>3. h = F(h)
  <2> HIDE DEF F
  <2> QED
    BY <1>2
<1>4. Parse(s) = h[0]
  BY DEF Parse, ParseFrom
<1> HIDE DEF h
<1>5. \A c \in 0..Len(s) : h[c] = ParseFrom(s, h, c)
  BY <1>3
<1>6. Len(s) \in Nat
  BY SMT
<1> DEFINE S == {c \in 0..Len(s) : h[c] \in Seq(Entry)}
<1>7. 0..Len(s) \subseteq S
  <2>1. ASSUME NEW m \in 0..Len(s), \A k \in m + 1..Len(s) : k \in S PROVE m \in S
    <3>1. ParseFrom(s, h, m) \in Seq(Entry)
      BY <2>1, ParseFromType
    <3> QED
      BY <1>5, <3>1
  <2> HIDE DEF S
  <2> QED
    BY <1>6, <2>1, Downwards
<1>8. h \in [0..Len(s) -> Seq(Entry)]
  <2>1. h = [c \in 0..Len(s) |-> h[c]]
    BY <1>3, <1>5
  <2> QED
    BY <1>7, <2>1
<1> QED
  BY <1>4, <1>5, <1>8 DEF Parsed

LEMMA ParseType ==
    ASSUME NEW s \in Seq(Byte)
    PROVE  Parse(s) \in Seq(Entry)
<1>1. PICK g : Parsed(s, g) /\ Parse(s) = g[0]
  BY ParseIs
<1>2. 0 \in 0..Len(s)
  BY SMT
<1> QED
  BY <1>1, <1>2 DEF Parsed

------------------------------------------------------------------------------
(* Files of records *)

Mark == [entry : Logged, start : Nat, end : Nat, full : Nat]

(* Where the k-th mark ends. *)
End(M, k) == IF k = 0 THEN 0 ELSE M[k].end

(* The k-th mark is where the one before it ends, and what it says is there. *)
MarkAt(s, M, k) ==
    /\ M[k].start = End(M, k - 1) /\ M[k].start < M[k].end /\ M[k].end <= M[k].full
    /\ M[k].full = M[k].start + Len(Encode(M[k].entry))
    /\ Shows(s, M[k].start, M[k].entry, M[k].end - M[k].start)

(* The bytes of s are those of the records that M says. *)
Marked(s, M) ==
    /\ s \in Seq(Byte) /\ M \in Seq(Mark)
    /\ \A k \in 1..Len(M) : MarkAt(s, M, k)
    /\ Len(s) = End(M, Len(M))

LEMMA MarkIs ==
    ASSUME NEW M \in Seq(Mark), NEW k \in 1..Len(M)
    PROVE  /\ M[k] \in Mark /\ M[k].entry \in Logged /\ M[k].start \in Nat /\ M[k].end \in Nat
           /\ M[k].full \in Nat /\ End(M, k) = M[k].end
<1>1. M[k] \in Mark /\ k # 0
  BY SMT
<1>2. \A x \in Mark : x.entry \in Logged /\ x.start \in Nat /\ x.end \in Nat /\ x.full \in Nat
  BY DEF Mark
<1>3. End(M, k) = M[k].end
  BY <1>1 DEF End
<1> QED
  BY <1>1, <1>2, <1>3

LEMMA EndType ==
    ASSUME NEW M \in Seq(Mark), NEW k \in 0..Len(M)
    PROVE  End(M, k) \in Nat
<1>1. k = 0 \/ k \in 1..Len(M)
  BY SMT
<1>2. 0 \in Nat
  BY SMT
<1> QED
  BY <1>1, <1>2, MarkIs DEF End

(* MarksGrow: the marks follow one another. *)
LEMMA MarksGrow ==
    ASSUME NEW s, NEW M, Marked(s, M), NEW k \in 0..Len(M), NEW j \in 0..k
    PROVE  End(M, j) <= End(M, k) /\ (j # k => End(M, j) < End(M, k))
<1>0. M \in Seq(Mark) /\ \A i \in 1..Len(M) : MarkAt(s, M, i)
  BY DEF Marked
<1>1. Len(M) \in Nat
  BY <1>0, SMT
<1> DEFINE S == {m \in 0..k : \A i \in 0..m : End(M, i) <= End(M, m) /\ (i # m => End(M, i) < End(M, m))}
<1>2. \A i \in 0..k : i \in 0..Len(M) /\ End(M, i) \in Nat
  <2>1. \A i \in 0..k : i \in 0..Len(M)
    BY <1>1, SMT
  <2> QED
    BY <1>0, <2>1, EndType
<1>3. 0 \in S
  <2>1. 0 \in 0..k /\ \A i \in 0..0 : i = 0
    BY <1>1, SMT
  <2>2. End(M, 0) <= End(M, 0)
    BY <1>2, <2>1, SMT
  <2> QED
    BY <2>1, <2>2
<1>4. ASSUME NEW m \in 1..k, m - 1 \in S PROVE m \in S
  <2>1. m \in 1..Len(M) /\ m \in 0..k /\ m - 1 \in 0..k
    BY <1>1, SMT
  <2>2. End(M, m - 1) < End(M, m)
    <3>1. M[m].start = End(M, m - 1) /\ M[m].start < M[m].end
      BY <1>0, <2>1 DEF MarkAt
    <3>2. End(M, m) = M[m].end
      BY <1>0, <2>1, MarkIs
    <3> QED
      BY <3>1, <3>2
  <2>3. ASSUME NEW i \in 0..m PROVE End(M, i) <= End(M, m) /\ (i # m => End(M, i) < End(M, m))
    <3>1. CASE i = m
      <4>1. End(M, m) \in Nat
        BY <1>2, <2>1
      <4>2. End(M, m) <= End(M, m)
        BY <4>1, SMT
      <4> QED
        BY <3>1, <4>2
    <3>2. CASE i # m
      <4>1. i \in 0..m - 1 /\ i \in 0..k
        BY <1>1, <3>2, SMT
      <4>2. End(M, i) <= End(M, m - 1)
        BY <1>4, <4>1
      <4>3. End(M, i) \in Nat /\ End(M, m - 1) \in Nat /\ End(M, m) \in Nat
        BY <1>2, <2>1, <4>1
      <4>4. End(M, i) < End(M, m) /\ End(M, i) <= End(M, m)
        BY <2>2, <4>2, <4>3, SMT
      <4> QED
        BY <4>4
    <3> QED
      BY <3>1, <3>2
  <2> QED
    BY <2>1, <2>3
<1>5. k \in S
  <2>1. k \in 0..k /\ k \in Nat
    BY <1>1, SMT
  <2> HIDE DEF S
  <2> QED
    BY <1>3, <1>4, <2>1, Upwards
<1> QED
  BY <1>5

(* FromShows: what a file shows, seen from c. *)
LEMMA FromShows ==
    ASSUME NEW s \in Seq(Byte), NEW c \in 0..Len(s), NEW d \in Nat, NEW e, NEW w \in Nat,
           NEW x, x = c + d, Shows(s, x, e, w)
    PROVE  From(s, c + 1) \in Seq(Byte) /\ Shows(From(s, c + 1), d, e, w)
<1>1. PICK r : r = From(s, c + 1)
  OBVIOUS
<1>2. r \in Seq(Byte) /\ Len(r) = Len(s) - c /\ \A i \in 1..Len(s) - c : r[i] = s[c + i]
  BY <1>1, FromIs
<1>3. x + w <= Len(s) /\ \A i \in 1..w : s[x + i] = Encode(e)[i]
  BY DEF Shows
<1>4. Len(s) \in Nat
  BY SMT
<1>5. /\ d + w <= Len(r)
      /\ \A i \in 1..w : d + i \in 1..Len(s) - c /\ c + (d + i) = x + i
  <2>1. x = c + d /\ c \in 0..Len(s) /\ d \in Nat /\ w \in Nat /\ x + w <= Len(s)
    BY <1>3
  <2>2. Len(r) = Len(s) - c
    BY <1>2
  <2> QED
    BY ONLY <1>4, <2>1, <2>2, SMT
<1>6. \A i \in 1..w : r[d + i] = Encode(e)[i]
  <2> SUFFICES ASSUME NEW i \in 1..w PROVE r[d + i] = Encode(e)[i]
    OBVIOUS
  <2>1. PICK j : j = d + i
    OBVIOUS
  <2>2. j \in 1..Len(s) - c /\ c + j = x + i
    BY <1>5, <2>1
  <2>3. r[j] = s[c + j]
    BY <1>2, <2>2
  <2> QED
    BY <1>3, <2>1, <2>2, <2>3
<1> QED
  BY <1>1, <1>2, <1>5, <1>6 DEF Shows

(* WholeTaken: the parser in step takes a record that was written whole. *)
LEMMA WholeTaken ==
    ASSUME NEW s, NEW M, Marked(s, M), NEW k \in 1..Len(M), M[k].end = M[k].full,
           NEW c, c = End(M, k - 1), NEW x, x = End(M, k)
    PROVE  c \in 0..Len(s) /\ x \in 0..Len(s) /\ TakesRecord(s, c, M[k].entry, x)
<1>1. PICK e, r : e = M[k].entry /\ r = From(s, c + 1)
  OBVIOUS
<1>2. s \in Seq(Byte) /\ M \in Seq(Mark) /\ MarkAt(s, M, k) /\ Len(s) = End(M, Len(M))
  BY DEF Marked
<1>3. e \in Logged /\ x = M[k].end /\ M[k].start = c /\ c \in Nat /\ x \in Nat
  BY <1>1, <1>2, MarkIs DEF MarkAt
<1>4. x = c + Len(Encode(e)) /\ Shows(s, c, e, x - c)
  BY <1>1, <1>2, <1>3 DEF MarkAt
<1>5. Len(Encode(e)) \in Nat /\ Len(s) \in Nat
  <2>1. Len(s) \in Nat
    BY <1>2, SMT
  <2> QED
    BY <1>3, <2>1, EncodeLen
<1>6. PICK n \in Nat : n = Len(Encode(e))
  BY <1>5
<1>7. x - c = n
  <2>1. x = c + n
    BY <1>4, <1>6
  <2> QED
    BY ONLY <1>3, <1>6, <2>1, SMT
<1>8. Shows(s, c, e, n)
  BY <1>4, <1>7
<1>9. c + n <= Len(s)
  BY <1>8 DEF Shows
<1>10. c \in 0..Len(s) /\ x \in 0..Len(s) /\ c = c + 0 /\ 0 \in Nat
  <2>1. x = c + n
    BY <1>4, <1>6
  <2> QED
    BY ONLY <1>3, <1>5, <1>6, <1>9, <2>1, SMT
<1>11. r \in Seq(Byte) /\ Shows(r, 0, e, n)
  BY <1>1, <1>2, <1>6, <1>8, <1>10, FromShows
<1>12. Decode(r) = [kind |-> "record", consumed |-> Len(Encode(e)), entry |-> e]
  BY <1>3, <1>6, <1>11, RoundTrip
<1>13. Decode(r).kind = "record" /\ Decode(r).consumed = Len(Encode(e)) /\ Decode(r).entry = e
  BY <1>12, SMT
<1> QED
  BY <1>1, <1>4, <1>10, <1>13 DEF TakesRecord

------------------------------------------------------------------------------
(* Files that grow *)

Extends(s, t) ==
    s \in Seq(Byte) /\ t \in Seq(Byte) /\ Len(s) <= Len(t) /\ \A i \in 1..Len(s) : t[i] = s[i]

LEMMA ShowsLonger ==
    ASSUME NEW s, NEW t, Extends(s, t), NEW c \in Nat, NEW e, NEW w \in Nat, Shows(s, c, e, w)
    PROVE  Shows(t, c, e, w)
<1>1. s \in Seq(Byte) /\ t \in Seq(Byte) /\ Len(s) <= Len(t) /\ \A i \in 1..Len(s) : t[i] = s[i]
  BY DEF Extends
<1>2. c + w <= Len(s) /\ \A i \in 1..w : s[c + i] = Encode(e)[i]
  BY DEF Shows
<1>3. Len(s) \in Nat /\ Len(t) \in Nat
  BY <1>1, SMT
<1>4. c + w <= Len(t) /\ \A i \in 1..w : c + i \in 1..Len(s)
  BY <1>1, <1>2, <1>3, SMT
<1> QED
  BY <1>1, <1>2, <1>4 DEF Shows

LEMMA MarkAtLonger ==
    ASSUME NEW s, NEW t, Extends(s, t), NEW M \in Seq(Mark), NEW k \in 1..Len(M), NEW N,
           N[k] = M[k], End(N, k - 1) = End(M, k - 1), MarkAt(s, M, k)
    PROVE  MarkAt(t, N, k)
<1>1. /\ M[k].start = End(M, k - 1) /\ M[k].start < M[k].end /\ M[k].end <= M[k].full
      /\ M[k].full = M[k].start + Len(Encode(M[k].entry))
      /\ Shows(s, M[k].start, M[k].entry, M[k].end - M[k].start)
  BY DEF MarkAt
<1>2. PICK c, w : c = M[k].start /\ w = M[k].end - M[k].start
  OBVIOUS
<1>3. c \in Nat /\ w \in Nat
  <2>1. M[k].start \in Nat /\ M[k].end \in Nat
    BY MarkIs
  <2> QED
    BY <1>1, <1>2, <2>1, SMT
<1>4. Shows(t, c, M[k].entry, w)
  BY <1>1, <1>2, <1>3, ShowsLonger
<1> QED
  BY <1>1, <1>2, <1>4 DEF MarkAt

(* MarkedAppend: the first k bytes of the record of e are written after s.   *)
LEMMA MarkedAppend ==
    ASSUME NEW s, NEW M, Marked(s, M), NEW e \in Logged, NEW k \in 1..Len(Encode(e))
    PROVE  LET m == [entry |-> e, start |-> Len(s), end |-> Len(s) + k,
                     full |-> Len(s) + Len(Encode(e))]
           IN  m \in Mark /\ Marked(s \o SubSeq(Encode(e), 1, k), Append(M, m))
<1>1. PICK r, p, t, l, n, x, m, N :
          /\ r = Encode(e) /\ p = SubSeq(r, 1, k) /\ t = s \o p /\ l = Len(s) /\ n = Len(M)
          /\ x = n + 1 /\ N = Append(M, m)
          /\ m = [entry |-> e, start |-> l, end |-> l + k, full |-> l + Len(r)]
  OBVIOUS
<1>2. /\ s \in Seq(Byte) /\ M \in Seq(Mark) /\ (\A j \in 1..n : MarkAt(s, M, j))
      /\ l = End(M, n)
  BY <1>1 DEF Marked
<1>3. r \in Seq(Byte) /\ Len(r) \in Nat /\ k \in 1..Len(r)
  BY <1>1, EncodeLen
<1>4. l \in Nat /\ n \in Nat /\ k \in Nat /\ x \in Nat /\ x # 0 /\ x - 1 = n
  <2>1. l = Len(s) /\ n = Len(M) /\ x = n + 1
    BY <1>1
  <2> QED
    BY ONLY <1>2, <1>3, <2>1, SMT
<1>5. p \in Seq(Byte) /\ Len(p) = k /\ \A i \in 1..k : p[i] = r[i]
  BY <1>1, <1>3, SMT
<1>6. /\ t \in Seq(Byte) /\ Len(t) = l + k /\ (\A i \in 1..l : t[i] = s[i])
      /\ \A i \in 1..k : t[l + i] = p[i]
  <2>1. t = s \o p /\ l = Len(s)
    BY <1>1
  <2>2. IsJoin(t, Byte, s, p, Len(s), Len(p))
    BY <1>2, <1>5, <2>1, Joined
  <2> QED
    BY <1>5, <2>1, <2>2 DEF IsJoin
<1>7. /\ m \in Mark /\ m.entry = e /\ m.start = l /\ m.end = l + k /\ m.full = l + Len(r)
      /\ m.start < m.end /\ m.end <= m.full /\ m.end - m.start = k
  <2>1. m.entry = e /\ m.start = l /\ m.end = l + k /\ m.full = l + Len(r)
    BY <1>1, SMT
  <2>2. l + k \in Nat /\ l + Len(r) \in Nat
    BY <1>3, <1>4, SMT
  <2>3. m \in Mark
    BY <1>1, <1>4, <2>2 DEF Mark
  <2>4. m.start < m.end /\ m.end <= m.full /\ m.end - m.start = k
    BY <1>3, <1>4, <2>1, SMT
  <2> QED
    BY <2>1, <2>3, <2>4
<1>8. /\ N \in Seq(Mark) /\ Len(N) = x /\ N[x] = m
      /\ (\A j \in 1..n : N[j] = M[j])
  BY <1>1, <1>2, <1>7, SMT
<1>9. Extends(s, t)
  <2>1. l <= l + k
    BY <1>4, SMT
  <2> QED
    BY <1>1, <1>2, <1>6, <2>1 DEF Extends
<1>10. \A j \in 0..n : End(N, j) = End(M, j)
  <2>1. \A j \in 0..n : j = 0 \/ j \in 1..n
    BY <1>4, SMT
  <2> QED
    BY <1>8, <2>1 DEF End
<1>11. \A j \in 1..n : MarkAt(t, N, j)
  <2> TAKE j \in 1..n
  <2>1. j - 1 \in 0..n /\ j \in 1..Len(M)
    BY <1>1, <1>4, SMT
  <2> QED
    BY <1>2, <1>8, <1>9, <1>10, <2>1, MarkAtLonger
<1>12. MarkAt(t, N, x)
  <2>1. n \in 0..n /\ l + k <= l + k
    BY <1>4, SMT
  <2>2. Shows(t, l, e, k)
    BY <1>1, <1>5, <1>6, <2>1 DEF Shows
  <2>3. End(N, x - 1) = l
    BY <1>2, <1>4, <1>10, <2>1
  <2> QED
    BY <1>1, <1>7, <1>8, <2>2, <2>3 DEF MarkAt
<1>13. \A j \in 1..x : j \in 1..n \/ j = x
  BY <1>1, <1>4, SMT
<1>14. Len(t) = End(N, Len(N))
  BY <1>4, <1>6, <1>7, <1>8 DEF End
<1>15. Marked(t, N)
  BY <1>6, <1>8, <1>11, <1>12, <1>13, <1>14 DEF Marked
<1> QED
  BY <1>1, <1>7, <1>15

(* M with its last record written to its end. *)
Completed(M, d) == [M EXCEPT ![Len(M)].end = @ + d]

(* k bytes of the last record, that of e, are there, but not the bytes p.    *)
LastCut(M, e, k, p) ==
    /\ M # <<>> /\ e = M[Len(M)].entry /\ k \in 1..Len(Encode(e)) - 1
    /\ M[Len(M)].end = M[Len(M)].start + k /\ p = From(Encode(e), k + 1)

(* N is M, but for its last record, which is whole. *)
LastWhole(N, M) ==
    /\ Len(N) = Len(M) /\ N[Len(M)].end = N[Len(M)].full
    /\ \A j \in 1..Len(M) : N[j].entry = M[j].entry
    /\ \A j \in 1..Len(M) - 1 : N[j] = M[j]

(* MarkedRest: the rest of the last record is written. *)
LEMMA MarkedRest ==
    ASSUME NEW s, NEW M, Marked(s, M), NEW e, NEW k, NEW p, LastCut(M, e, k, p)
    PROVE  Marked(s \o p, Completed(M, Len(p))) /\ LastWhole(Completed(M, Len(p)), M)
<1>0. /\ M # <<>> /\ e = M[Len(M)].entry /\ k \in 1..Len(Encode(e)) - 1
      /\ M[Len(M)].end = M[Len(M)].start + k /\ p = From(Encode(e), k + 1)
  BY DEF LastCut
<1>1. PICK r, t, l, n, d, m, b, N :
          /\ r = Encode(e) /\ t = s \o p /\ l = Len(s) /\ n = Len(M) /\ d = Len(p)
          /\ m = M[n] /\ b = m.start /\ N = Completed(M, d)
  OBVIOUS
<1>2. /\ s \in Seq(Byte) /\ M \in Seq(Mark) /\ (\A j \in 1..n : MarkAt(s, M, j))
      /\ l = End(M, n)
  BY <1>1 DEF Marked
<1>3. n \in Nat /\ n # 0 /\ n \in 1..n /\ n - 1 \in Nat
  BY <1>0, <1>1, <1>2, SMT
<1>4. m \in Mark /\ e \in Logged /\ b \in Nat /\ m.end \in Nat /\ m.full \in Nat /\ l = m.end
  BY <1>0, <1>1, <1>2, <1>3, MarkIs DEF End
<1>5. r \in Seq(Byte) /\ Len(r) \in Nat /\ k \in 1..Len(r) - 1
  BY <1>0, <1>1, <1>4, EncodeLen
<1>6. /\ p \in Seq(Byte) /\ d = Len(r) - k /\ d \in Nat /\ \A i \in 1..d : p[i] = r[k + i]
  <2>1. p = SubSeq(r, k + 1, k + (Len(r) - k)) /\ k \in Nat /\ Len(r) - k \in Nat
        /\ k + (Len(r) - k) = Len(r)
    <3>1. p = SubSeq(r, k + 1, Len(r))
      BY <1>0, <1>1 DEF From
    <3>2. k \in Nat /\ Len(r) - k \in Nat /\ k + (Len(r) - k) = Len(r)
      BY ONLY <1>5, SMT
    <3> QED
      BY <3>1, <3>2
  <2>2. PICK z : z = Len(r) - k
    OBVIOUS
  <2>3. p = SubSeq(r, k + 1, k + z) /\ k \in Nat /\ z \in Nat /\ k + z <= Len(r)
    <3>1. k + z <= Len(r)
      BY <1>5, <2>1, <2>2, SMT
    <3> QED
      BY <2>1, <2>2, <3>1
  <2>4. IsPart(SubSeq(r, k + 1, k + z), Byte, r, k, z)
    BY <1>5, <2>3, PartIs
  <2> QED
    BY <1>1, <2>2, <2>3, <2>4 DEF IsPart
<1>7. /\ m.start = End(M, n - 1) /\ m.full = b + Len(r) /\ Shows(s, b, e, m.end - b)
      /\ m.end = b + k
  BY <1>0, <1>1, <1>2, <1>3 DEF MarkAt
<1>8. m.end - b = k /\ k \in Nat /\ l = b + k /\ l + d = b + Len(r) /\ m.end + d = m.full
  BY <1>4, <1>5, <1>6, <1>7, SMT
<1>9. /\ t \in Seq(Byte) /\ Len(t) = l + d /\ (\A i \in 1..l : t[i] = s[i])
      /\ \A i \in 1..d : t[l + i] = p[i]
  <2>1. t = s \o p /\ l = Len(s) /\ d = Len(p)
    BY <1>1
  <2>2. IsJoin(t, Byte, s, p, Len(s), Len(p))
    BY <1>2, <1>6, <2>1, Joined
  <2> QED
    BY <2>1, <2>2 DEF IsJoin
<1>10. PICK x : x = [m EXCEPT !.end = m.end + d]
  OBVIOUS
<1>11. /\ x \in Mark /\ x.entry = e /\ x.start = b /\ x.end = m.full /\ x.full = m.full
  <2>1. m.entry = e /\ m.start = b
    BY <1>0, <1>1
  <2>2. x = [m EXCEPT !.end = m.full]
    BY <1>8, <1>10
  <2>3. \A y \in Mark, f \in Nat : LET z == [y EXCEPT !.end = f] IN
            z \in Mark /\ z.entry = y.entry /\ z.start = y.start /\ z.end = f /\ z.full = y.full
    BY ONLY SMT DEF Mark
  <2> QED
    BY <1>4, <2>1, <2>2, <2>3
<1>12. /\ N \in Seq(Mark) /\ Len(N) = n /\ N[n] = x
       /\ \A j \in 1..n - 1 : N[j] = M[j]
  <2>1. N = [M EXCEPT ![n] = x]
    BY <1>1, <1>10 DEF Completed
  <2> QED
    BY <1>1, <1>2, <1>3, <1>11, <2>1, SMT
<1>13. \A j \in 1..n : N[j].entry = M[j].entry
  <2>1. \A j \in 1..n : j = n \/ j \in 1..n - 1
    BY <1>3, SMT
  <2> QED
    BY <1>0, <1>1, <1>11, <1>12, <2>1
<1>14. Extends(s, t)
  <2>1. l <= l + d
    BY <1>4, <1>6, SMT
  <2> QED
    BY <1>1, <1>2, <1>9, <2>1 DEF Extends
<1>15. \A j \in 0..n - 1 : End(N, j) = End(M, j)
  <2>1. \A j \in 0..n - 1 : j = 0 \/ j \in 1..n - 1
    BY <1>3, SMT
  <2> QED
    BY <1>12, <2>1 DEF End
<1>16. \A j \in 1..n - 1 : MarkAt(t, N, j)
  <2> TAKE j \in 1..n - 1
  <2>1. j - 1 \in 0..n - 1 /\ j \in 1..Len(M) /\ j \in 1..n
    BY <1>1, <1>3, SMT
  <2> QED
    BY <1>2, <1>12, <1>14, <1>15, <2>1, MarkAtLonger
<1>17. MarkAt(t, N, n)
  <2>1. Shows(t, b, e, k)
    BY <1>4, <1>7, <1>8, <1>14, ShowsLonger
  <2>2. PICK w : w = m.full - b
    OBVIOUS
  <2>3. /\ w = Len(r) /\ b + w <= Len(t) /\ b < m.full /\ m.full <= m.full
        /\ \A i \in 1..w : i \in 1..k \/ (i - k \in 1..d /\ l + (i - k) = b + i /\ k + (i - k) = i)
    BY ONLY <1>4, <1>5, <1>6, <1>7, <1>8, <1>9, <2>2, SMT
  <2>4. Shows(t, b, e, w)
    <3>1. \A i \in 1..k : t[b + i] = r[i]
      BY <1>1, <2>1 DEF Shows
    <3>2. ASSUME NEW i \in 1..w PROVE t[b + i] = r[i]
      <4>1. CASE i \in 1..k
        BY <3>1, <4>1
      <4>2. CASE i - k \in 1..d /\ l + (i - k) = b + i /\ k + (i - k) = i
        <5>1. t[l + (i - k)] = p[i - k] /\ p[i - k] = r[k + (i - k)]
          BY <1>6, <1>9, <4>2
        <5> QED
          BY <4>2, <5>1
      <4> QED
        BY <2>3, <4>1, <4>2
    <3> QED
      BY <1>1, <2>3, <3>2 DEF Shows
  <2>5. End(N, n - 1) = b
    <3>1. n - 1 \in 0..n - 1
      BY <1>3, SMT
    <3> QED
      BY <1>1, <1>7, <1>15, <3>1
  <2> QED
    BY <1>1, <1>7, <1>11, <1>12, <2>2, <2>3, <2>4, <2>5 DEF MarkAt
<1>18. \A j \in 1..n : j \in 1..n - 1 \/ j = n
  BY <1>3, SMT
<1>19. Len(t) = End(N, Len(N))
  BY <1>3, <1>7, <1>8, <1>9, <1>11, <1>12 DEF End
<1>20. Marked(t, N)
  BY <1>9, <1>12, <1>16, <1>17, <1>18, <1>19 DEF Marked
<1> QED
  BY <1>1, <1>11, <1>12, <1>13, <1>20 DEF LastWhole

------------------------------------------------------------------------------
(* The tailer *)

(* A record is about to be written, but nothing of it has been. *)
Pending == tpc \in {"prune", "shift", "rename", "create", "open"}

(* The records in the files are older than this. *)
Now == IF Pending THEN clock - 1 ELSE clock

Time(i, k) == appended[i][k].entry.ms

FilesMarked ==
    /\ appended \in Seq(Seq(Mark)) /\ Len(appended) = Len(files)
    /\ \A i \in 1..Len(files) : Marked(files[i], appended[i])

MarksOrdered ==
    \A i, j \in 1..Len(appended) :
        \A k \in 1..Len(appended[i]), l \in 1..Len(appended[j]) :
            i < j \/ (i = j /\ k < l) => Time(i, k) < Time(j, l)

MarksOld == \A i \in 1..Len(appended) : \A k \in 1..Len(appended[i]) : Time(i, k) < Now

(* events.log is the newest file, and names are in the order of the files. *)
NamesInOrder ==
    /\ log \in {0, Len(files)}
    /\ \A m \in 0..MaxRotated : \A n \in 0..m :
          m # n /\ FileAt(m) # 0 /\ FileAt(n) # 0 => FileAt(m) < FileAt(n)

BatchReady == Pending => \E e \in Logged : batch = Encode(e) /\ e.ms = clock - 1

(* What is still to be written is the rest of the last record. *)
RestReady ==
    tpc = "rest" =>
        /\ log # 0 /\ appended[log] # <<>>
        /\ LET m == appended[log][Len(appended[log])] IN
           /\ m.end # m.full
           /\ \E k \in 1..Len(Encode(m.entry)) - 1 :
                 m.end = m.start + k /\ batch = From(Encode(m.entry), k + 1)

TailerType ==
    /\ setting \in Settings
    /\ files \in Seq(Seq(Byte))
    /\ log \in 0..Len(files)
    /\ rotated \in [1..MaxRotated -> 0..Len(files)]
    /\ tpc \in {"idle", "prune", "shift", "rename", "create", "open", "rest"}
    /\ shift \in 0..MaxRotated - 1
    /\ batch \in Seq(Byte)
    /\ clock \in Epoch..Epoch + MaxRecords /\ failures \in 0..MaxFailures

TailerInv ==
    /\ TailerType
    /\ FilesMarked /\ MarksOrdered /\ MarksOld /\ NamesInOrder /\ BatchReady /\ RestReady

(* TailerSame: nothing of the tailer changes. *)
LEMMA TailerSame ==
    ASSUME TailerInv, UNCHANGED tailer
    PROVE  TailerInv'
<1>1. /\ setting' = setting /\ files' = files /\ log' = log /\ rotated' = rotated /\ tpc' = tpc
      /\ shift' = shift /\ batch' = batch /\ clock' = clock /\ failures' = failures
      /\ appended' = appended
  BY DEF tailer
<1>2. TailerType'
  BY <1>1 DEF TailerInv, TailerType
<1>3. FilesMarked' /\ MarksOrdered' /\ MarksOld' /\ NamesInOrder' /\ BatchReady' /\ RestReady'
  BY <1>1, ZenonT(30) DEF TailerInv, FilesMarked, MarksOrdered, MarksOld, NamesInOrder, BatchReady, RestReady,
              Pending, Now, Time, FileAt
<1> QED
  BY <1>2, <1>3 DEF TailerInv

(* A rotation moves the file that has the name o[n] to the name n. *)
Moves(o) ==
    /\ o \in [0..MaxRotated -> 0..MaxRotated]
    /\ \A n \in 0..MaxRotated : o[n] <= n /\ (FileAt(n)' # 0 => FileAt(n)' = FileAt(o[n]))
    /\ \A m \in 0..MaxRotated : \A n \in 0..m :
          m # n /\ FileAt(m)' # 0 /\ FileAt(n)' # 0 => o[n] < o[m]

(* NamesMove: in a step of a rotation, files move to older names. *)
LEMMA NamesMove ==
    ASSUME TailerInv, Prune \/ Shift \/ RenameLog
    PROVE  \E o : Moves(o)
<1>0. MaxRotated \in Nat /\ MaxRotated # 0 /\ TailerType
  BY QueryAssumption DEF TailerInv
<1> DEFINE id == [n \in 0..MaxRotated |-> n]
<1>1. ASSUME log' = log, \A n \in 1..MaxRotated : rotated'[n] = rotated[n] \/ rotated'[n] = 0
      PROVE  Moves(id)
  <2>1. id \in [0..MaxRotated -> 0..MaxRotated] /\ \A n \in 0..MaxRotated : id[n] = n
    OBVIOUS
  <2> HIDE DEF id
  <2>2. \A n \in 0..MaxRotated : n <= n /\ (n = 0 \/ n \in 1..MaxRotated)
    BY <1>0, SMT
  <2>3. \A m \in 0..MaxRotated : \A n \in 0..m : m # n => n < m /\ n \in 0..MaxRotated
    BY <1>0, SMT
  <2>4. \A n \in 0..MaxRotated : FileAt(n)' # 0 => FileAt(n)' = FileAt(n)
    BY <1>1, <2>2 DEF FileAt
  <2> QED
    BY <2>1, <2>2, <2>3, <2>4 DEF Moves
<1>2. CASE Prune
  <2>1. log' = log /\ (rotated' = [rotated EXCEPT ![MaxRotated] = 0] \/ rotated' = rotated)
    BY <1>2 DEF Prune
  <2>2. \A n \in 1..MaxRotated : rotated'[n] = rotated[n] \/ rotated'[n] = 0
    BY <1>0, <2>1 DEF TailerType
  <2> QED
    BY <1>1, <2>1, <2>2
<1>3. CASE Shift
  <2>1. log' = log
    BY <1>3 DEF Shift
  <2>2. CASE rotated' = rotated
    BY <1>1, <2>1, <2>2
  <2>3. CASE /\ shift # 0 /\ rotated[shift] # 0
             /\ rotated' = [rotated EXCEPT ![shift + 1] = rotated[shift], ![shift] = 0]
    <3>0. PICK s, t, R : s = shift /\ t = s + 1 /\ R = rotated'
      OBVIOUS
    <3>1. s \in 1..MaxRotated /\ t \in 1..MaxRotated /\ s # t /\ s \in Nat /\ t \in Nat /\ s < t
          /\ s \in 0..MaxRotated /\ t \in 0..MaxRotated /\ s # 0 /\ t # 0 /\ s <= t
      BY <1>0, <2>3, <3>0, SMT DEF TailerType
    <3>2. /\ R[t] = rotated[s] /\ R[s] = 0
          /\ \A n \in 1..MaxRotated : n # s /\ n # t => R[n] = rotated[n]
      BY <1>0, <2>3, <3>0, <3>1 DEF TailerType
    <3> DEFINE o == [n \in 0..MaxRotated |-> IF n = t THEN s ELSE n]
    <3>3. /\ o \in [0..MaxRotated -> 0..MaxRotated] /\ o[t] = s
          /\ \A n \in 0..MaxRotated : n # t => o[n] = n
      BY <3>1
    <3> HIDE DEF o
    <3>4. /\ FileAt(s)' = 0 /\ FileAt(t)' = FileAt(s)
          /\ \A n \in 0..MaxRotated : n # s /\ n # t => FileAt(n)' = FileAt(n)
      <4>1. \A n \in 0..MaxRotated : n = 0 \/ n \in 1..MaxRotated
        BY <1>0, SMT
      <4> QED
        BY <2>1, <3>0, <3>1, <3>2, <4>1 DEF FileAt
    <3>5. \A n \in 0..MaxRotated : n <= n
      BY <1>0, SMT
    <3>6. \A n \in 0..MaxRotated : o[n] <= n /\ (FileAt(n)' # 0 => FileAt(n)' = FileAt(o[n]))
      BY <3>1, <3>3, <3>4, <3>5
    <3>7. ASSUME NEW m \in 0..MaxRotated, NEW n \in 0..m, m # n, m # s, n # s
          PROVE  o[n] < o[m]
      <4>1. /\ n \in 0..MaxRotated /\ n < m /\ (m = t => n # t /\ n < s) /\ (n = t => m # t /\ s < m)
        BY <1>0, <3>0, <3>1, <3>7, SMT
      <4> QED
        BY <3>3, <4>1
    <3> QED
      BY <3>3, <3>4, <3>6, <3>7 DEF Moves
  <2> QED
    BY <1>3, <2>2, <2>3 DEF Shift
<1>4. CASE RenameLog
  <2>1. CASE rotated' = rotated /\ log' = log
    BY <1>1, <2>1
  <2>2. CASE rotated' = [rotated EXCEPT ![1] = log] /\ log' = 0
    <3> DEFINE o == [n \in 0..MaxRotated |-> IF n = 1 THEN 0 ELSE n]
    <3>1. /\ 1 \in 1..MaxRotated /\ 0 # 1 /\ 0 \in 0..MaxRotated /\ 0 <= 1 /\ 1 \in 0..MaxRotated
          /\ \A n \in 0..MaxRotated : n <= n /\ (n = 0 \/ n = 1 \/ (n \in 1..MaxRotated /\ n # 1))
      BY <1>0, SMT
    <3>2. /\ o \in [0..MaxRotated -> 0..MaxRotated] /\ o[1] = 0
          /\ \A n \in 0..MaxRotated : n # 1 => o[n] = n
      BY <3>1
    <3> HIDE DEF o
    <3>3. rotated'[1] = log /\ \A n \in 1..MaxRotated : n # 1 => rotated'[n] = rotated[n]
      BY <1>0, <2>2, <3>1 DEF TailerType
    <3>4. /\ FileAt(0)' = 0 /\ FileAt(1)' = FileAt(0)
          /\ \A n \in 0..MaxRotated : n # 0 /\ n # 1 => FileAt(n)' = FileAt(n)
      BY <2>2, <3>1, <3>3 DEF FileAt
    <3>5. \A n \in 0..MaxRotated : o[n] <= n /\ (FileAt(n)' # 0 => FileAt(n)' = FileAt(o[n]))
      BY <3>1, <3>2, <3>4
    <3>6. ASSUME NEW m \in 0..MaxRotated, NEW n \in 0..m, m # n, m # 0, n # 0
          PROVE  o[n] < o[m]
      <4>1. n \in 0..MaxRotated /\ n < m /\ m # 1 /\ 0 < m
        BY <1>0, <3>6, SMT
      <4> QED
        BY <3>2, <4>1
    <3> QED
      BY <3>2, <3>4, <3>5, <3>6 DEF Moves
  <2> QED
    BY <1>4, <2>1, <2>2 DEF RenameLog
<1> QED
  BY <1>2, <1>3, <1>4

(* MovesKeep: and their order stays. *)
LEMMA MovesKeep ==
    ASSUME TailerInv, NEW o, Moves(o), files' = files, log' \in {0, log}
    PROVE  NamesInOrder'
<1>1. log' \in {0, Len(files')}
  BY DEF TailerInv, NamesInOrder
<1>2. ASSUME NEW m \in 0..MaxRotated, NEW n \in 0..m, m # n, FileAt(m)' # 0, FileAt(n)' # 0
      PROVE  FileAt(m)' < FileAt(n)'
  <2>1. n \in 0..MaxRotated
    BY QueryAssumption, SMT
  <2>2. PICK x, y : x = o[m] /\ y = o[n]
    OBVIOUS
  <2>3. x \in 0..MaxRotated /\ y \in 0..MaxRotated /\ y < x
        /\ FileAt(m)' = FileAt(x) /\ FileAt(n)' = FileAt(y)
    BY <1>2, <2>1, <2>2 DEF Moves
  <2>4. y \in 0..x /\ x # y
    BY <2>3, SMT
  <2> QED
    BY <1>2, <2>3, <2>4 DEF TailerInv, NamesInOrder
<1> QED
  BY <1>1, <1>2 DEF NamesInOrder

LEMMA OrderedSame ==
    ASSUME MarksOrdered, appended' = appended
    PROVE  MarksOrdered'
BY SMTT(30) DEF MarksOrdered, Time

(* RotationKeeps: a step of a rotation. *)
LEMMA RotationKeeps ==
    ASSUME TailerInv, Prune \/ Shift \/ RenameLog
    PROVE  TailerInv'
<1>0. MaxRotated \in Nat /\ MaxRotated # 0 /\ TailerType
  BY QueryAssumption DEF TailerInv
<1>1. /\ setting' = setting /\ files' = files /\ batch' = batch /\ clock' = clock
      /\ appended' = appended
  BY DEF Prune, Shift, RenameLog
<1>2. Pending /\ Pending' /\ tpc' # "rest" /\ tpc' \in {"shift", "rename", "create"}
  BY DEF Prune, Shift, RenameLog, Pending
<1>3. log' \in {0, log}
  BY DEF Prune, Shift, RenameLog
<1>4. NamesInOrder'
  BY <1>1, <1>3, NamesMove, MovesKeep
<1>5. TailerType'
  <2>1. 0 \in 0..Len(files) /\ MaxRotated - 1 \in 0..MaxRotated - 1
        /\ (shift # 0 => shift - 1 \in 0..MaxRotated - 1)
    BY <1>0, SMT DEF TailerType
  <2>2. log' \in 0..Len(files)
    BY <1>0, <1>3, <2>1 DEF TailerType
  <2>3. shift' \in 0..MaxRotated - 1
    BY <1>0, <2>1 DEF Prune, Shift, RenameLog, TailerType
  <2>4. failures' \in 0..MaxFailures
    <3>1. failures' = failures \/ (failures < MaxFailures /\ failures' = failures + 1)
      BY DEF Prune, Shift, RenameLog, Fails, NoFailure
    <3> QED
      BY <1>0, <3>1, QueryAssumption, SMT DEF TailerType
  <2>5. rotated' \in [1..MaxRotated -> 0..Len(files)]
    <3>1. CASE shift # 0 /\ rotated' = [rotated EXCEPT ![shift + 1] = rotated[shift], ![shift] = 0]
      <4>1. shift \in 1..MaxRotated
        BY <1>0, <3>1, SMT DEF TailerType
      <4>2. rotated[shift] \in 0..Len(files)
        BY <1>0, <4>1 DEF TailerType
      <4> QED
        BY <1>0, <2>1, <3>1, <4>2 DEF TailerType
    <3>2. CASE rotated' = rotated \/ rotated' = [rotated EXCEPT ![MaxRotated] = 0]
               \/ rotated' = [rotated EXCEPT ![1] = log]
      BY <1>0, <2>1, <3>2 DEF TailerType
    <3> QED
      BY <3>1, <3>2 DEF Prune, Shift, RenameLog
  <2> QED
    BY <1>0, <1>1, <1>2, <2>2, <2>3, <2>4, <2>5 DEF TailerType
<1>6. FilesMarked' /\ MarksOrdered' /\ MarksOld' /\ BatchReady'
  <2>1. FilesMarked'
    BY <1>1 DEF TailerInv, FilesMarked
  <2>2. MarksOrdered'
    BY <1>1, OrderedSame DEF TailerInv
  <2>3. MarksOld'
    BY <1>1, <1>2 DEF TailerInv, MarksOld, Time, Now
  <2>4. BatchReady'
    BY <1>1, <1>2 DEF TailerInv, BatchReady
  <2> QED
    BY <2>1, <2>2, <2>3, <2>4
<1>7. RestReady'
  BY <1>2 DEF RestReady
<1> QED
  BY <1>4, <1>5, <1>6, <1>7 DEF TailerInv

LEMMA TimeType ==
    ASSUME FilesMarked, NEW i \in 1..Len(appended), NEW k \in 1..Len(appended[i])
    PROVE  Time(i, k) \in Nat
<1>1. appended[i] \in Seq(Mark)
  BY SMT DEF FilesMarked
<1>2. appended[i][k].entry \in Logged
  BY <1>1, MarkIs
<1> QED
  BY <1>2, LoggedIs DEF Time

(* FailKeeps: an append that fails. *)
LEMMA FailKeeps ==
    ASSUME TailerInv, AppendFails
    PROVE  TailerInv'
<1>1. /\ setting' = setting /\ files' = files /\ log' = log /\ rotated' = rotated
      /\ shift' = shift /\ clock' = clock /\ appended' = appended /\ tpc' = "idle" /\ batch' = <<>>
  BY DEF AppendFails
<1>2. TailerType'
  <2>1. failures' \in 0..MaxFailures /\ <<>> \in Seq(Byte)
    BY QueryAssumption, SMT DEF AppendFails, Fails, TailerInv, TailerType
  <2> QED
    BY <1>1, <2>1 DEF TailerInv, TailerType
<1>3. ~Pending' /\ Now' = clock
  BY <1>1 DEF Pending, Now
<1>4. \A i \in 1..Len(appended) : \A k \in 1..Len(appended[i]) : Time(i, k) < clock
  <2> TAKE i \in 1..Len(appended)
  <2> TAKE k \in 1..Len(appended[i])
  <2>1. Time(i, k) \in Nat /\ Time(i, k) < Now
    BY TimeType DEF TailerInv, MarksOld
  <2>2. clock \in Nat
    BY QueryAssumption, SMT DEF TailerInv, TailerType
  <2> QED
    BY <2>1, <2>2, SMT DEF Now
<1>5. FilesMarked' /\ MarksOrdered' /\ NamesInOrder'
  <2>1. FilesMarked'
    BY <1>1 DEF TailerInv, FilesMarked
  <2>2. MarksOrdered'
    BY <1>1, OrderedSame DEF TailerInv
  <2>3. NamesInOrder'
    BY <1>1 DEF TailerInv, NamesInOrder, FileAt
  <2> QED
    BY <2>1, <2>2, <2>3
<1>6. MarksOld'
  BY <1>1, <1>3, <1>4 DEF MarksOld, Time
<1>7. BatchReady' /\ RestReady'
  BY <1>1, <1>3 DEF BatchReady, RestReady
<1> QED
  BY <1>2, <1>5, <1>6, <1>7 DEF TailerInv

(* BeginKeeps: the batch is a record, with the time it is. *)
LEMMA BeginKeeps ==
    ASSUME TailerInv, BeginAppend
    PROVE  TailerInv'
<1>1. /\ setting' = setting /\ files' = files /\ log' = log /\ rotated' = rotated
      /\ shift' = shift /\ appended' = appended /\ failures' = failures
      /\ tpc' \in {"prune", "open"} /\ clock' = clock + 1 /\ clock < Epoch + MaxRecords
      /\ tpc = "idle"
  BY DEF BeginAppend
<1>2. PICK l \in setting.lines :
          batch' = Encode([ms |-> clock, stream |-> l.stream, data |-> l.data])
  BY DEF BeginAppend
<1>3. PICK e : e = [ms |-> clock, stream |-> l.stream, data |-> l.data]
  OBVIOUS
<1>4. e \in Logged /\ e.ms = clock
  <2>1. setting \in Setting
    BY QueryAssumption DEF TailerInv, TailerType
  <2>2. l \in [stream : {"stdout", "stderr"}, data : LineData]
    BY <2>1 DEF Setting
  <2>3. l.stream \in {"stdout", "stderr"} /\ l.data \in LineData
    BY <2>2
  <2>4. clock \in Epoch..MaxU64
    BY <1>1, QueryAssumption, CodecAssumption, SMT DEF TailerInv, TailerType
  <2> QED
    BY <1>3, <2>3, <2>4 DEF Logged
<1>5. batch' = Encode(e) /\ batch' \in Seq(Byte)
  BY <1>2, <1>3, <1>4, EncodeLen
<1>6. clock' \in Epoch..Epoch + MaxRecords /\ clock' - 1 = clock
  BY <1>1, QueryAssumption, SMT DEF TailerInv, TailerType
<1>7. TailerType'
  BY <1>1, <1>5, <1>6 DEF TailerInv, TailerType
<1>8. Pending' /\ Now' = clock /\ Now = clock
  BY <1>1, <1>6 DEF Pending, Now
<1>9. FilesMarked' /\ MarksOrdered' /\ NamesInOrder' /\ MarksOld'
  <2>1. FilesMarked'
    BY <1>1 DEF TailerInv, FilesMarked
  <2>2. MarksOrdered'
    BY <1>1, OrderedSame DEF TailerInv
  <2>3. NamesInOrder'
    BY <1>1 DEF TailerInv, NamesInOrder, FileAt
  <2>4. MarksOld'
    BY <1>1, <1>8 DEF TailerInv, MarksOld, Time
  <2> QED
    BY <2>1, <2>2, <2>3, <2>4
<1>10. BatchReady' /\ RestReady'
  BY <1>1, <1>4, <1>5, <1>6 DEF BatchReady, RestReady
<1> QED
  BY <1>7, <1>9, <1>10 DEF TailerInv

(* g is f with x as its i-th element, which may be a new one. *)
Put(g, T, f, i, x) ==
    /\ g \in Seq(T) /\ i = Len(g) /\ g[i] = x /\ i \in 1..Len(f) + 1 /\ Len(f) <= i
    /\ \A j \in 1..i : j # i => j \in 1..Len(f) /\ g[j] = f[j]

LEMMA PutNew ==
    ASSUME NEW T, NEW f \in Seq(T), NEW x \in T
    PROVE  Put(Append(f, x), T, f, Len(f) + 1, x)
BY SMT DEF Put

LEMMA PutLast ==
    ASSUME NEW T, NEW f \in Seq(T), NEW x \in T, NEW i, i = Len(f), i # 0
    PROVE  Put([f EXCEPT ![i] = x], T, f, i, x)
<1>1. i \in 1..Len(f) /\ i \in Nat
  BY SMT
<1>2. PICK g : g = [f EXCEPT ![i] = x]
  OBVIOUS
<1>3. g \in Seq(T) /\ Len(g) = i /\ g[i] = x /\ \A j \in 1..Len(f) : j # i => g[j] = f[j]
  BY <1>1, <1>2, SMT
<1>4. i \in 1..Len(f) + 1 /\ Len(f) <= i /\ \A j \in 1..i : j # i => j \in 1..Len(f)
  BY <1>1, SMT
<1> QED
  BY <1>2, <1>3, <1>4 DEF Put

(* The marks M of the newest file: those it had, and maybe one of now. *)
Grown(i, M) ==
    \A k \in 1..Len(M) :
        \/ i \in 1..Len(appended) /\ k \in 1..Len(appended[i]) /\ M[k].entry = appended[i][k].entry
        \/ k = Len(M) /\ M[k].entry.ms = Now

OldMark(a, k) ==
    a \in 1..Len(appended) /\ k \in 1..Len(appended[a]) /\ Time(a, k)' = Time(a, k)

SameMark(a, k) ==
    a \in 1..Len(appended') /\ k \in 1..Len(appended'[a]) /\ appended'[a][k] = appended[a][k]

NewMark(a, k) == a = Len(appended') /\ k = Len(appended'[a]) /\ Time(a, k)' = Now

(* The newest file grows. *)
Grow ==
    \E i, s, M : /\ Put(files', Seq(Byte), files, i, s) /\ Put(appended', Seq(Mark), appended, i, M)
                 /\ Marked(s, M) /\ Grown(i, M)

LEMMA GrowMarks ==
    ASSUME Grow, NEW a \in 1..Len(appended'), NEW k \in 1..Len(appended'[a])
    PROVE  OldMark(a, k) \/ NewMark(a, k)
<1>1. PICK i, s, M : Put(appended', Seq(Mark), appended, i, M) /\ Grown(i, M)
  BY DEF Grow
<1>2. i = Len(appended') /\ appended'[i] = M
      /\ \A j \in 1..i : j # i => j \in 1..Len(appended) /\ appended'[j] = appended[j]
  BY <1>1 DEF Put
<1>3. CASE a # i
  BY <1>2, <1>3 DEF OldMark, Time
<1>4. CASE a = i
  BY <1>1, <1>2, <1>4 DEF OldMark, NewMark, Grown, Time
<1> QED
  BY <1>3, <1>4

LEMMA GrowFiles ==
    ASSUME FilesMarked, Grow
    PROVE  /\ FilesMarked' /\ Len(files') \in {Len(files), Len(files) + 1} /\ files' \in Seq(Seq(Byte))
           /\ Len(files') # 0 /\ Len(files) \in Nat
<1>1. PICK i, s, M : /\ Put(files', Seq(Byte), files, i, s)
                     /\ Put(appended', Seq(Mark), appended, i, M) /\ Marked(s, M)
  BY DEF Grow
<1>2. /\ files' \in Seq(Seq(Byte)) /\ i = Len(files') /\ files'[i] = s
      /\ i \in 1..Len(files) + 1 /\ Len(files) <= i
      /\ \A j \in 1..i : j # i => j \in 1..Len(files) /\ files'[j] = files[j]
  BY <1>1 DEF Put
<1>3. /\ appended' \in Seq(Seq(Mark)) /\ i = Len(appended') /\ appended'[i] = M
      /\ \A j \in 1..i : j # i => j \in 1..Len(appended) /\ appended'[j] = appended[j]
  BY <1>1 DEF Put
<1>4. Len(files) \in Nat
  BY SMT DEF FilesMarked
<1>5. \A j \in 1..i : Marked(files'[j], appended'[j])
  BY <1>1, <1>2, <1>3 DEF FilesMarked
<1>6. i \in {Len(files), Len(files) + 1} /\ i # 0
  BY <1>2, <1>4, SMT
<1> QED
  BY <1>2, <1>3, <1>4, <1>5, <1>6 DEF FilesMarked

LEMMA GrowOrdered ==
    ASSUME FilesMarked, MarksOrdered, MarksOld, Grow
    PROVE  MarksOrdered'
<1>1. ASSUME NEW a \in 1..Len(appended'), NEW b \in 1..Len(appended'),
             NEW k \in 1..Len(appended'[a]), NEW l \in 1..Len(appended'[b]),
             a < b \/ (a = b /\ k < l)
      PROVE  Time(a, k)' < Time(b, l)'
  <2>1. CASE OldMark(a, k) /\ OldMark(b, l)
    BY <1>1, <2>1 DEF OldMark, MarksOrdered
  <2>2. CASE OldMark(a, k) /\ NewMark(b, l)
    BY <2>2 DEF OldMark, NewMark, MarksOld
  <2>3. CASE NewMark(a, k)
    <3>1. a = Len(appended') /\ k = Len(appended'[a])
      BY <2>3 DEF NewMark
    <3>2. PICK x, y : x = Len(appended') /\ y = Len(appended'[a])
      OBVIOUS
    <3>3. /\ x \in Nat /\ y \in Nat
      <4>1. FilesMarked'
        BY GrowFiles
      <4>2. appended' \in Seq(Seq(Mark))
        BY <4>1 DEF FilesMarked
      <4> QED
        BY <3>2, <4>2, SMT
    <3>4. b \in 1..x /\ a = x /\ k = y /\ (a = b => l \in 1..y)
      BY <3>1, <3>2
    <3> QED
      BY ONLY <1>1, <3>3, <3>4, SMT
  <2> QED
    BY <2>1, <2>2, <2>3, GrowMarks
<1> QED
  BY <1>1 DEF MarksOrdered

(* Names when events.log is made, or is there. *)
LEMMA NamesWithLog ==
    ASSUME NamesInOrder, TailerType, rotated' = rotated, NEW l \in Nat, l = Len(files'), log' = l,
           l # 0, (log = 0 /\ l = Len(files) + 1) \/ (log # 0 /\ l = Len(files))
    PROVE  NamesInOrder' /\ log' \in 0..Len(files') /\ rotated' \in [1..MaxRotated -> 0..Len(files')]
<1>0. MaxRotated \in Nat /\ Len(files) \in Nat
  BY QueryAssumption, SMT DEF TailerType
<1>1. \A j \in 0..Len(files) : j \in 0..l
  BY <1>0, SMT
<1>2. rotated' \in [1..MaxRotated -> 0..l]
  BY <1>1 DEF TailerType
<1>3. log' \in 0..l
  BY SMT
<1>4. ASSUME NEW m \in 0..MaxRotated, NEW n \in 0..m, m # n, FileAt(m)' # 0, FileAt(n)' # 0
      PROVE  FileAt(m)' < FileAt(n)'
  <2>1. n \in 0..MaxRotated /\ m # 0 /\ m \in 1..MaxRotated
    BY <1>0, <1>4, SMT
  <2>2. FileAt(m)' = FileAt(m) /\ FileAt(m) \in 0..Len(files)
    BY <2>1 DEF FileAt, TailerType
  <2>3. CASE n # 0
    <3>1. FileAt(n)' = FileAt(n)
      BY <2>3 DEF FileAt
    <3> QED
      BY <1>4, <2>2, <3>1 DEF NamesInOrder
  <2>4. CASE n = 0
    <3>1. FileAt(n)' = l /\ FileAt(n) = log
      BY <2>4 DEF FileAt
    <3>2. CASE log = 0
      <4>1. l = Len(files) + 1
        BY <3>2
      <4> QED
        BY ONLY <1>0, <2>2, <3>1, <4>1, SMT
    <3>3. CASE log # 0
      <4>1. log = l
        BY <3>3 DEF NamesInOrder
      <4> QED
        BY <1>4, <2>2, <3>1, <3>3, <4>1 DEF NamesInOrder
    <3> QED
      BY <3>2, <3>3
  <2> QED
    BY <2>3, <2>4
<1> QED
  BY <1>2, <1>3, <1>4 DEF NamesInOrder

LEMMA MarkedEmpty == Marked(<<>>, <<>>) /\ <<>> \in Seq(Byte) /\ <<>> \in Seq(Mark)
<1>1. <<>> \in Seq(Byte) /\ <<>> \in Seq(Mark) /\ Len(<<>>) = 0 /\ 1..Len(<<>>) = {}
  BY SMT
<1>2. End(<<>>, Len(<<>>)) = 0
  BY <1>1 DEF End
<1>3. \A k \in 1..Len(<<>>) : MarkAt(<<>>, <<>>, k)
  BY <1>1
<1> QED
  BY <1>1, <1>2, <1>3 DEF Marked

(* CreateGrows: a new and empty events.log. *)
LEMMA CreateGrows ==
    ASSUME TailerInv, files' = Append(files, <<>>), appended' = Append(appended, <<>>)
    PROVE  /\ Grow /\ Len(files') = Len(files) + 1 /\ Len(appended') = Len(appended) + 1
           /\ appended'[Len(appended')] = <<>>
           /\ \A a \in 1..Len(appended) : \A k \in 1..Len(appended[a]) : SameMark(a, k)
<1>1. /\ files \in Seq(Seq(Byte)) /\ appended \in Seq(Seq(Mark)) /\ Len(appended) = Len(files)
  BY DEF TailerInv, TailerType, FilesMarked
<1>2. PICK i : i = Len(files) + 1
  OBVIOUS
<1>3. Put(files', Seq(Byte), files, i, <<>>)
  BY <1>1, <1>2, MarkedEmpty, PutNew
<1>4. Put(appended', Seq(Mark), appended, i, <<>>)
  BY <1>1, <1>2, MarkedEmpty, PutNew
<1>5. Grown(i, <<>>)
  <2>1. 1..Len(<<>>) = {}
    BY SMT
  <2> QED
    BY <2>1 DEF Grown
<1>6. Len(files') = i
  BY <1>3 DEF Put
<1>7. Len(appended') = i /\ appended'[i] = <<>>
  BY <1>4 DEF Put
<1>8. \A a \in 1..Len(appended) : a \in 1..i /\ appended'[a] = appended[a]
  <2>1. \A a \in 1..Len(appended) : a \in 1..i /\ a # i
    BY <1>1, <1>2, SMT
  <2> QED
    BY <1>4, <2>1 DEF Put
<1>9. \A a \in 1..Len(appended) : \A k \in 1..Len(appended[a]) : SameMark(a, k)
  BY <1>7, <1>8 DEF SameMark
<1> QED
  BY <1>1, <1>2, <1>3, <1>4, <1>5, <1>6, <1>7, <1>9, MarkedEmpty DEF Grow

(* WriteGrows: the record of the batch is begun, and maybe written whole.    *)
LEMMA WriteGrows ==
    ASSUME TailerInv, Write
    PROVE  /\ Grow /\ log' = Len(files')
           /\ (log = 0 /\ Len(files') = Len(files) + 1) \/ (log # 0 /\ Len(files') = Len(files))
           /\ RestReady' /\ batch' \in Seq(Byte) /\ tpc' \in {"idle", "rest"}
           /\ appended'[log'] # <<>>
           /\ tpc' = "idle" => LET m == appended'[log'][Len(appended'[log'])] IN m.end = m.full
           /\ \A a \in 1..Len(appended) : \A k \in 1..Len(appended[a]) :
                 SameMark(a, k) /\ ~(a = log' /\ k = Len(appended'[a]))
<1>1. /\ files \in Seq(Seq(Byte)) /\ appended \in Seq(Seq(Mark)) /\ Len(appended) = Len(files)
      /\ log \in {0, Len(files)} /\ tpc = "open" /\ Pending
      /\ \A j \in 1..Len(files) : Marked(files[j], appended[j])
  BY DEF TailerInv, TailerType, FilesMarked, NamesInOrder, Write, Pending
<1>2. PICK e \in Logged : batch = Encode(e) /\ e.ms = clock - 1
  BY <1>1 DEF TailerInv, BatchReady
<1>3. e.ms = Now
  BY <1>1, <1>2 DEF Now
<1>4. batch \in Seq(Byte) /\ Len(batch) \in Nat
  BY <1>2, EncodeLen
<1>5. Decode(batch).entry = e
  <2>1. Shows(batch, 0, e, Len(Encode(e)))
    <3>1. 0 + Len(batch) <= Len(batch) /\ \A i \in 1..Len(batch) : 0 + i = i
      BY <1>4, SMT
    <3> QED
      BY <1>2, <3>1 DEF Shows
  <2>2. PICK d : d = Decode(batch)
    OBVIOUS
  <2>3. d = [kind |-> "record", consumed |-> Len(Encode(e)), entry |-> e]
    BY <1>4, <2>1, <2>2, RoundTrip
  <2>4. d.entry = e
    BY ONLY <2>3, SMT
  <2> QED
    BY <2>2, <2>4
<1>6. PICK old, oldM : /\ old = (IF log = 0 THEN <<>> ELSE files[log])
                       /\ oldM = (IF log = 0 THEN <<>> ELSE appended[log])
  OBVIOUS
<1>7. log # 0 => log \in 1..Len(files) /\ log = Len(files) /\ log = Len(appended)
  BY <1>1, SMT
<1>8. Marked(old, oldM)
  BY <1>1, <1>6, <1>7, MarkedEmpty
<1>9. PICK k, m, p :
          /\ k \in 1..Len(batch)
          /\ m = [entry |-> e, start |-> Len(old), end |-> Len(old) + k,
                  full |-> Len(old) + Len(batch)]
          /\ p = SubSeq(batch, 1, k)
          /\ files' = IF log = 0 THEN Append(files, p) ELSE [files EXCEPT ![log] = @ \o p]
          /\ appended' = IF log = 0 THEN Append(appended, <<m>>)
                         ELSE [appended EXCEPT ![log] = Append(@, m)]
          /\ log' = (IF log = 0 THEN Len(files) + 1 ELSE log)
          /\ batch' = From(batch, k + 1)
          /\ tpc' = IF k = Len(batch) THEN "idle" ELSE "rest"
  BY <1>5, <1>6 DEF Write
<1>10. PICK s, M : s = old \o p /\ M = Append(oldM, m)
  OBVIOUS
<1>11. m \in Mark /\ Marked(s, M)
  BY <1>2, <1>8, <1>9, <1>10, MarkedAppend
<1>12. s \in Seq(Byte) /\ M \in Seq(Mark) /\ p \in Seq(Byte) /\ old \in Seq(Byte) /\ oldM \in Seq(Mark)
  <2>1. old \in Seq(Byte) /\ oldM \in Seq(Mark)
    BY <1>8 DEF Marked
  <2>2. p \in Seq(Byte)
    BY <1>4, <1>9, SMT
  <2> QED
    BY <1>11, <2>1, <2>2 DEF Marked
<1>13. PICK i : i = log'
  OBVIOUS
<1>14. Put(files', Seq(Byte), files, i, s) /\ Put(appended', Seq(Mark), appended, i, M)
  <2>1. CASE log = 0
    <3>1. s = p /\ M = <<m>> /\ i = Len(files) + 1
      <4>1. <<>> \o p = p /\ Append(<<>>, m) = <<m>>
        BY <1>12, SMT
      <4> QED
        BY <1>6, <1>9, <1>10, <1>13, <2>1, <4>1
    <3>2. files' = Append(files, s) /\ appended' = Append(appended, M)
      BY <1>9, <2>1, <3>1
    <3> QED
      BY <1>1, <1>12, <3>1, <3>2, PutNew
  <2>2. CASE log # 0
    <3>1. files' = [files EXCEPT ![i] = s] /\ appended' = [appended EXCEPT ![i] = M] /\ i = log
      BY <1>6, <1>9, <1>10, <1>13, <2>2
    <3> QED
      BY <1>1, <1>7, <1>12, <2>2, <3>1, PutLast
  <2> QED
    BY <2>1, <2>2
<1>15. Len(M) \in Nat /\ Len(M) = Len(oldM) + 1 /\ M[Len(M)] = m
       /\ \A j \in 1..Len(oldM) : M[j] = oldM[j]
  BY <1>10, <1>11, <1>12, SMT
<1>16. m.entry = e /\ m.start = Len(old) /\ m.end = Len(old) + k /\ m.full = Len(old) + Len(batch)
  BY <1>9, SMT
<1>17. Grown(i, M)
  <2> SUFFICES ASSUME NEW j \in 1..Len(M)
               PROVE  \/ i \in 1..Len(appended) /\ j \in 1..Len(appended[i])
                         /\ M[j].entry = appended[i][j].entry
                      \/ j = Len(M) /\ M[j].entry.ms = Now
    BY DEF Grown
  <2>1. j = Len(M) \/ j \in 1..Len(oldM)
    BY <1>12, <1>15, SMT
  <2>2. CASE j = Len(M)
    BY <1>3, <1>15, <1>16, <2>2
  <2>3. CASE j \in 1..Len(oldM)
    <3>1. log # 0
      <4>1. 1..Len(<<>>) = {}
        BY SMT
      <4> QED
        BY <1>6, <2>3, <4>1
    <3>2. i = log /\ oldM = appended[i]
      BY <1>6, <1>9, <1>13, <3>1
    <3> QED
      BY <1>1, <1>7, <1>15, <2>3, <3>1, <3>2
  <2> QED
    BY <2>1, <2>2, <2>3
<1>18. Grow
  BY <1>11, <1>14, <1>17 DEF Grow
<1>19. log' = Len(files') /\ appended'[log'] = M
  BY <1>13, <1>14 DEF Put
<1>20. M # <<>>
  BY <1>12, <1>15, SMT
<1>21. batch' \in Seq(Byte)
  <2>1. k \in 1..Len(batch) /\ batch' = SubSeq(batch, k + 1, Len(batch))
    BY <1>9 DEF From
  <2> QED
    BY ONLY <1>4, <2>1, SMT
<1>22. RestReady'
  <2> SUFFICES ASSUME tpc' = "rest"
               PROVE  /\ log' # 0 /\ m.end # m.full
                      /\ \E j \in 1..Len(Encode(m.entry)) - 1 :
                            m.end = m.start + j /\ batch' = From(Encode(m.entry), j + 1)
    BY <1>15, <1>19, <1>20 DEF RestReady
  <2>1. k # Len(batch)
    BY <1>9
  <2>2. PICK o : o = Len(old)
    OBVIOUS
  <2>3. o \in Nat
    BY <1>12, <2>2, SMT
  <2>4. k \in 1..Len(batch) - 1 /\ o + k # o + Len(batch)
    <3>1. k \in 1..Len(batch)
      BY <1>9
    <3> QED
      BY ONLY <1>4, <2>1, <2>3, <3>1, SMT
  <2>5. log' # 0
    BY <1>1, <1>9, SMT
  <2> QED
    BY <1>2, <1>9, <1>16, <2>2, <2>4, <2>5
<1>23. tpc' = "idle" => m.end = m.full
  BY <1>9, <1>16
<1>24. (log = 0 /\ Len(files') = Len(files) + 1) \/ (log # 0 /\ Len(files') = Len(files))
  BY <1>7, <1>9, <1>19
<1>25. ASSUME NEW a \in 1..Len(appended), NEW j \in 1..Len(appended[a])
       PROVE  SameMark(a, j) /\ ~(a = log' /\ j = Len(appended'[a]))
  <2>1. i = Len(appended') /\ \A b \in 1..i : b # i => appended'[b] = appended[b]
    BY <1>14 DEF Put
  <2>2. a \in 1..i
    <3>1. i \in Nat /\ Len(appended) <= i
      <4>1. appended' \in Seq(Seq(Mark)) /\ Len(appended) <= i
        BY <1>14 DEF Put
      <4> QED
        BY <2>1, <4>1, SMT
    <3>2. Len(appended) \in Nat
      BY <1>1, SMT
    <3> QED
      BY ONLY <3>1, <3>2, a \in 1..Len(appended), SMT
  <2>3. CASE a # i
    BY <1>13, <2>1, <2>2, <2>3 DEF SameMark
  <2>4. CASE a = i
    <3>1. log # 0
      <4>1. log = 0 => i = Len(appended) + 1
        BY <1>1, <1>9, <1>13
      <4>2. a # Len(appended) + 1
        BY <1>1, SMT
      <4> QED
        BY <2>4, <4>1, <4>2
    <3>2. i = log /\ oldM = appended[a]
      BY <1>6, <1>9, <1>13, <2>4, <3>1
    <3>3. PICK l : l = Len(oldM)
      OBVIOUS
    <3>4. l \in Nat /\ Len(M) = l + 1 /\ j \in 1..l
      <4>1. l \in Nat
        BY <1>12, <3>3, SMT
      <4> QED
        BY <1>15, <3>2, <3>3, <4>1
    <3>5. j \in 1..l + 1 /\ j # l + 1
      BY ONLY <3>4, SMT
    <3> QED
      BY <1>13, <1>15, <1>19, <2>1, <2>2, <2>4, <3>2, <3>3, <3>4, <3>5 DEF SameMark
  <2> QED
    BY <2>3, <2>4
<1> QED
  BY <1>9, <1>15, <1>18, <1>19, <1>20, <1>21, <1>22, <1>23, <1>24, <1>25

(* RestGrows: the rest of the record is written. *)
LEMMA RestGrows ==
    ASSUME TailerInv, tpc = "rest", files' = [files EXCEPT ![log] = @ \o batch],
           appended' = [appended EXCEPT ![log][Len(appended[log])].end = @ + Len(batch)],
           log' = log
    PROVE  /\ Grow /\ log' = Len(files') /\ Len(files') = Len(files) /\ log # 0
           /\ appended'[log'] # <<>> /\ Len(appended'[log]) = Len(appended[log])
           /\ \A k \in 1..Len(appended[log]) - 1 : appended'[log][k] = appended[log][k]
           /\ LET m == appended'[log'][Len(appended'[log'])] IN m.end = m.full
           /\ \A a \in 1..Len(appended') : \A k \in 1..Len(appended'[a]) : OldMark(a, k)
           /\ \A a \in 1..Len(appended) : \A k \in 1..Len(appended[a]) :
                 SameMark(a, k) \/ (a = log /\ k = Len(appended[a]))
<1>1. /\ files \in Seq(Seq(Byte)) /\ appended \in Seq(Seq(Mark)) /\ Len(appended) = Len(files)
      /\ log \in {0, Len(files)} /\ log # 0 /\ appended[log] # <<>>
      /\ \A j \in 1..Len(files) : Marked(files[j], appended[j])
  BY DEF TailerInv, TailerType, FilesMarked, NamesInOrder, RestReady
<1>2. log \in 1..Len(files) /\ log = Len(files) /\ log = Len(appended)
  BY <1>1, SMT
<1>3. PICK old, M, n, e, d : /\ old = files[log] /\ M = appended[log] /\ n = Len(M)
                             /\ e = M[n].entry /\ d = Len(batch)
  OBVIOUS
<1>4. PICK k \in 1..Len(Encode(e)) - 1 :
          M[n].end = M[n].start + k /\ batch = From(Encode(e), k + 1)
  BY <1>3 DEF TailerInv, RestReady
<1>5. Marked(old, M) /\ M # <<>>
  BY <1>1, <1>2, <1>3
<1>6. PICK s, N : s = old \o batch /\ N = Completed(M, d)
  OBVIOUS
<1>7. /\ Marked(s, N) /\ Len(N) = n /\ (\A j \in 1..n : N[j].entry = M[j].entry)
      /\ N[n].end = N[n].full /\ (\A j \in 1..n - 1 : N[j] = M[j])
  <2>1. LastCut(M, e, k, batch)
    BY <1>3, <1>4, <1>5 DEF LastCut
  <2>2. Marked(old \o batch, Completed(M, Len(batch))) /\ LastWhole(Completed(M, Len(batch)), M)
    BY <1>5, <2>1, MarkedRest
  <2> QED
    BY <1>3, <1>6, <2>2 DEF LastWhole
<1>8. s \in Seq(Byte) /\ N \in Seq(Mark) /\ M \in Seq(Mark)
  BY <1>5, <1>7 DEF Marked
<1>9. files' = [files EXCEPT ![log] = s] /\ appended' = [appended EXCEPT ![log] = N]
  BY <1>3, <1>6 DEF Completed
<1>10. Put(files', Seq(Byte), files, log, s) /\ Put(appended', Seq(Mark), appended, log, N)
  <2>1. Put([files EXCEPT ![log] = s], Seq(Byte), files, log, s)
    BY <1>1, <1>2, <1>8, PutLast
  <2>2. Put([appended EXCEPT ![log] = N], Seq(Mark), appended, log, N)
    BY <1>1, <1>2, <1>8, PutLast
  <2> QED
    BY <1>9, <2>1, <2>2
<1>11. Grown(log, N)
  BY <1>2, <1>3, <1>7 DEF Grown
<1>12. Grow
  BY <1>7, <1>10, <1>11 DEF Grow
<1>13. log = Len(files') /\ appended'[log] = N
  BY <1>10 DEF Put
<1>14. N # <<>>
  BY <1>3, <1>5, <1>7, <1>8, SMT
<1>15. ASSUME NEW a \in 1..Len(appended'), NEW j \in 1..Len(appended'[a]) PROVE OldMark(a, j)
  <2>1. log = Len(appended') /\ a \in 1..log
        /\ (a # log => a \in 1..Len(appended) /\ appended'[a] = appended[a])
    BY <1>10 DEF Put
  <2>2. CASE a # log
    BY <2>1, <2>2 DEF OldMark, Time
  <2>3. CASE a = log
    BY <1>2, <1>3, <1>7, <1>13, <2>3 DEF OldMark, Time
  <2> QED
    BY <2>2, <2>3
<1>16. ASSUME NEW a \in 1..Len(appended), NEW j \in 1..Len(appended[a])
       PROVE  SameMark(a, j) \/ (a = log /\ j = Len(appended[a]))
  <2>1. log = Len(appended') /\ a \in 1..log /\ (a # log => appended'[a] = appended[a])
    BY <1>2, <1>10 DEF Put
  <2>2. CASE a # log
    BY <2>1, <2>2 DEF SameMark
  <2>3. CASE a = log
    <3>1. n \in Nat /\ j \in 1..n
      <4>1. n \in Nat
        BY <1>3, <1>8, SMT
      <4> QED
        BY <1>3, <2>3, <4>1
    <3>2. j = n \/ j \in 1..n - 1
      BY ONLY <3>1, SMT
    <3> QED
      BY <1>3, <1>7, <1>13, <2>1, <2>3, <3>1, <3>2 DEF SameMark
  <2> QED
    BY <2>2, <2>3
<1> QED
  BY <1>1, <1>2, <1>3, <1>7, <1>12, <1>13, <1>14, <1>15, <1>16

(* What stays of the tailer when events.log grows. *)
LEMMA GrowKeeps ==
    ASSUME TailerInv, Grow, NEW l, l = Len(files'), log' = l, rotated' = rotated,
           (log = 0 /\ l = Len(files) + 1) \/ (log # 0 /\ l = Len(files)),
           setting' = setting, tpc' \in {"idle", "open", "rest"}, shift' = shift,
           batch' \in Seq(Byte), clock' = clock, failures' = failures
    PROVE  TailerType' /\ FilesMarked' /\ MarksOrdered' /\ NamesInOrder'
<1>1. FilesMarked /\ MarksOrdered /\ MarksOld /\ TailerType /\ NamesInOrder
  BY DEF TailerInv
<1>2. /\ FilesMarked' /\ files' \in Seq(Seq(Byte)) /\ l # 0 /\ Len(files) \in Nat
  BY <1>1, GrowFiles
<1>3. l \in Nat
  BY <1>2, SMT
<1>4. NamesInOrder' /\ log' \in 0..Len(files') /\ rotated' \in [1..MaxRotated -> 0..Len(files')]
  BY <1>1, <1>2, <1>3, NamesWithLog
<1>5. MarksOrdered'
  BY <1>1, GrowOrdered
<1>6. TailerType'
  BY <1>1, <1>2, <1>4 DEF TailerType
<1> QED
  BY <1>2, <1>4, <1>5, <1>6

LEMMA CreateKeeps ==
    ASSUME TailerInv, CreateLog
    PROVE  TailerInv'
<1>1. CASE AppendFails
  BY <1>1, FailKeeps
<1>2. CASE /\ IF log # 0 THEN UNCHANGED <<files, log, appended>>
              ELSE /\ files' = Append(files, <<>>)
                   /\ appended' = Append(appended, <<>>)
                   /\ log' = Len(files) + 1
           /\ tpc' = "open"
           /\ NoFailure
           /\ UNCHANGED <<setting, rotated, shift, batch, clock, query>>
  <2>1. /\ tpc' = "open" /\ setting' = setting /\ rotated' = rotated /\ shift' = shift
        /\ batch' = batch /\ clock' = clock /\ failures' = failures /\ tpc = "create"
    BY <1>2 DEF NoFailure, CreateLog
  <2>2. Pending /\ Pending' /\ Now' = Now
    BY <2>1 DEF Pending, Now
  <2>3. BatchReady' /\ RestReady'
    BY <2>1, <2>2 DEF TailerInv, BatchReady, RestReady
  <2>4. CASE log # 0
    <3>1. files' = files /\ log' = log /\ appended' = appended
      BY <1>2, <2>4
    <3>2. FilesMarked'
      BY <3>1 DEF TailerInv, FilesMarked
    <3>3. MarksOrdered'
      BY <3>1, OrderedSame DEF TailerInv
    <3>4. MarksOld'
      BY <2>2, <3>1 DEF TailerInv, MarksOld, Time
    <3>5. NamesInOrder'
      BY <2>1, <3>1 DEF TailerInv, NamesInOrder, FileAt
    <3>6. TailerType'
      BY <2>1, <3>1 DEF TailerInv, TailerType
    <3> QED
      BY <2>3, <3>2, <3>3, <3>4, <3>5, <3>6 DEF TailerInv
  <2>5. CASE log = 0
    <3>1. files' = Append(files, <<>>) /\ appended' = Append(appended, <<>>) /\ log' = Len(files) + 1
      BY <1>2, <2>5
    <3>2. Grow /\ Len(files') = Len(files) + 1
      BY <3>1, CreateGrows
    <3>3. TailerType' /\ FilesMarked' /\ MarksOrdered' /\ NamesInOrder'
      <4>1. batch' \in Seq(Byte)
        BY <2>1 DEF TailerInv, TailerType
      <4> QED
        BY <2>1, <2>5, <3>1, <3>2, <4>1, GrowKeeps
    <3>4. MarksOld'
      <4> SUFFICES ASSUME NEW a \in 1..Len(appended'), NEW k \in 1..Len(appended'[a])
                   PROVE  Time(a, k)' < Now'
        BY DEF MarksOld
      <4>1. a \in 1..Len(appended) /\ appended'[a] = appended[a]
        <5>1. appended \in Seq(Seq(Mark))
          BY DEF TailerInv, FilesMarked
        <5>2. PICK x : x = Append(appended, <<>>)
          OBVIOUS
        <5>3. /\ 1..Len(<<>>) = {} /\ x[Len(appended) + 1] = <<>> /\ Len(x) = Len(appended) + 1
              /\ Len(appended) \in Nat /\ \A j \in 1..Len(appended) : x[j] = appended[j]
          BY <5>1, <5>2, MarkedEmpty, SMT
        <5>4. a # Len(appended) + 1
          BY <3>1, <5>2, <5>3
        <5>5. a \in 1..Len(appended) + 1
          BY <3>1, <5>2, <5>3
        <5>6. a \in 1..Len(appended)
          BY ONLY <5>3, <5>4, <5>5, SMT
        <5> QED
          BY <3>1, <5>2, <5>3, <5>6
      <4> QED
        BY <2>2, <4>1 DEF TailerInv, MarksOld, Time
    <3> QED
      BY <2>3, <3>3, <3>4 DEF TailerInv
  <2> QED
    BY <2>4, <2>5
<1> QED
  BY <1>1, <1>2 DEF CreateLog

LEMMA WriteKeeps ==
    ASSUME TailerInv, Write
    PROVE  TailerInv'
<1>1. /\ Grow /\ log' = Len(files') /\ RestReady' /\ batch' \in Seq(Byte) /\ tpc' \in {"idle", "rest"}
      /\ (log = 0 /\ Len(files') = Len(files) + 1) \/ (log # 0 /\ Len(files') = Len(files))
  BY WriteGrows
<1>2. /\ setting' = setting /\ rotated' = rotated /\ shift' = shift /\ clock' = clock
      /\ failures' = failures /\ tpc = "open"
  BY DEF Write
<1>3. TailerType' /\ FilesMarked' /\ MarksOrdered' /\ NamesInOrder'
  BY <1>1, <1>2, GrowKeeps
<1>4. Pending /\ ~Pending' /\ Now = clock - 1 /\ Now' = clock
  BY <1>1, <1>2 DEF Pending, Now
<1>5. clock \in Nat /\ FilesMarked /\ MarksOld
  BY QueryAssumption, SMT DEF TailerInv, TailerType
<1>6. MarksOld'
  <2> SUFFICES ASSUME NEW a \in 1..Len(appended'), NEW k \in 1..Len(appended'[a])
               PROVE  Time(a, k)' < clock
    BY <1>4 DEF MarksOld
  <2>1. CASE OldMark(a, k)
    <3>1. PICK t : t = Time(a, k)
      OBVIOUS
    <3>2. t \in Nat /\ t < clock - 1 /\ Time(a, k)' = t
      BY <1>4, <1>5, <2>1, <3>1, TimeType DEF OldMark, MarksOld
    <3> QED
      BY ONLY <1>5, <3>2, SMT
  <2>2. CASE NewMark(a, k)
    <3>1. Time(a, k)' = clock - 1
      BY <1>4, <2>2 DEF NewMark
    <3> QED
      BY ONLY <1>5, <3>1, SMT
  <2> QED
    BY <1>1, <2>1, <2>2, GrowMarks
<1>7. BatchReady'
  BY <1>4 DEF BatchReady
<1> QED
  BY <1>1, <1>3, <1>6, <1>7 DEF TailerInv

LEMMA RestKeeps ==
    ASSUME TailerInv, WriteRest
    PROVE  TailerInv'
<1>1. CASE AppendFails
  BY <1>1, FailKeeps
<1>2. CASE ~AppendFails
  <2>1. /\ files' = [files EXCEPT ![log] = @ \o batch] /\ tpc = "rest" /\ tpc' = "idle"
        /\ appended' = [appended EXCEPT ![log][Len(appended[log])].end = @ + Len(batch)]
        /\ batch' = <<>> /\ log' = log /\ setting' = setting /\ rotated' = rotated
        /\ shift' = shift /\ clock' = clock /\ failures' = failures
    BY <1>2 DEF WriteRest, NoFailure
  <2>2. /\ Grow /\ log' = Len(files') /\ Len(files') = Len(files) /\ log # 0
    BY <2>1, RestGrows
  <2>3. TailerType' /\ FilesMarked' /\ MarksOrdered' /\ NamesInOrder'
    BY <2>1, <2>2, GrowKeeps, MarkedEmpty
  <2>4. ~Pending' /\ Now' = clock /\ Now = clock
    BY <2>1 DEF Pending, Now
  <2>5. MarksOld'
    <3> SUFFICES ASSUME NEW a \in 1..Len(appended'), NEW k \in 1..Len(appended'[a])
                 PROVE  Time(a, k)' < clock
      BY <2>4 DEF MarksOld
    <3>1. a \in 1..Len(appended) /\ k \in 1..Len(appended[a]) /\ Time(a, k)' = Time(a, k)
      <4>1. OldMark(a, k)
        BY <2>1, RestGrows
      <4> QED
        BY <4>1 DEF OldMark
    <3> QED
      BY <2>4, <3>1 DEF TailerInv, MarksOld
  <2>6. BatchReady' /\ RestReady'
    BY <2>1, <2>4 DEF BatchReady, RestReady
  <2> QED
    BY <2>3, <2>5, <2>6 DEF TailerInv
<1> QED
  BY <1>1, <1>2

LEMMA TailerInit ==
    ASSUME Init
    PROVE  TailerInv
<1>0. MaxRotated \in Nat /\ MaxRotated # 0 /\ Epoch \in Nat /\ MaxRecords \in Nat /\ MaxFailures \in Nat
  BY QueryAssumption
<1>1. /\ Len(<<>>) = 0 /\ 1..Len(<<>>) = {} /\ <<>> \in Seq(Byte) /\ <<>> \in Seq(Seq(Byte))
      /\ <<>> \in Seq(Seq(Mark)) /\ 0 \in 0..Len(<<>>) /\ 0 \in 0..MaxRotated - 1
      /\ Epoch \in Epoch..Epoch + MaxRecords /\ 0 \in 0..MaxFailures
  BY <1>0, SMT
<1>2. /\ setting \in Settings /\ files = <<>> /\ log = 0 /\ rotated = [n \in 1..MaxRotated |-> 0]
      /\ tpc = "idle" /\ shift = 0 /\ batch = <<>> /\ clock = Epoch /\ failures = 0
      /\ appended = <<>>
  BY DEF Init
<1>3. TailerType
  BY <1>1, <1>2 DEF TailerType
<1>4. FilesMarked /\ MarksOrdered /\ MarksOld
  BY <1>1, <1>2 DEF FilesMarked, MarksOrdered, MarksOld
<1>5. NamesInOrder
  <2>1. \A m \in 0..MaxRotated : m # 0 => m \in 1..MaxRotated
    BY <1>0, SMT
  <2>2. \A m \in 0..MaxRotated : FileAt(m) = 0
    BY <1>2, <2>1 DEF FileAt
  <2> QED
    BY <1>2, <2>2 DEF NamesInOrder
<1>6. BatchReady /\ RestReady
  BY <1>2 DEF BatchReady, RestReady, Pending
<1> QED
  BY <1>3, <1>4, <1>5, <1>6 DEF TailerInv

LEMMA TailerNext ==
    ASSUME TailerInv, [Next]_vars
    PROVE  TailerInv'
<1>1. CASE BeginAppend
  BY <1>1, BeginKeeps
<1>2. CASE Prune \/ Shift \/ RenameLog
  BY <1>2, RotationKeeps
<1>3. CASE CreateLog
  BY <1>3, CreateKeeps
<1>4. CASE OpenFails
  BY <1>4, FailKeeps DEF OpenFails
<1>5. CASE Write
  BY <1>5, WriteKeeps
<1>6. CASE WriteRest
  BY <1>6, RestKeeps
<1>7. CASE BeginQuery \/ ListNext \/ ReadNext \/ ReadFails \/ Return \/ UNCHANGED vars
  BY <1>7, TailerSame DEF BeginQuery, ListNext, ReadNext, ReadFails, Return, vars
<1> QED
  BY <1>1, <1>2, <1>3, <1>4, <1>5, <1>6, <1>7 DEF Next
=============================================================================
