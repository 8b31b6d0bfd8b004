-------------------------- MODULE SerialNodeProofs --------------------------
(***************************************************************************)
(* What the node and the script do with keys of every length, with any     *)
(* number of runs and faults, and at any length of a line.                 *)
(***************************************************************************)
EXTENDS SerialNode, SequenceTheorems, WellFoundedInduction, TLAPS

-----------------------------------------------------------------------------
(* Sequences.                                                              *)

LEMMA FromProperties ==
  ASSUME NEW S, NEW p \in Seq(S), NEW k \in 0 .. Len(p)
  PROVE  /\ From(p, k) \in Seq(S)
         /\ Len(From(p, k)) = Len(p) - k
         /\ \A i \in 1 .. Len(p) - k : From(p, k)[i] = p[i + k]
<1>1. Len(p) \in Nat /\ \A i \in k + 1 .. Len(p) : p[i] \in S
  BY ElementOfSeq, LenProperties
<1> QED
  BY <1>1, SubSeqProperties DEF From

LEMMA FirstProperties ==
  ASSUME NEW S, NEW p \in Seq(S), NEW k \in 0 .. Len(p)
  PROVE  /\ SubSeq(p, 1, k) \in Seq(S)
         /\ Len(SubSeq(p, 1, k)) = k
         /\ \A i \in 1 .. k : SubSeq(p, 1, k)[i] = p[i]
<1>1. Len(p) \in Nat /\ \A i \in 1 .. k : p[i] \in S
  BY ElementOfSeq, LenProperties
<1> QED
  BY <1>1, SubSeqProperties

LEMMA JoinProperties ==
  ASSUME NEW S, NEW p \in Seq(S), NEW q \in Seq(S)
  PROVE  /\ p \o q \in Seq(S)
         /\ Len(p) \in Nat /\ Len(q) \in Nat
         /\ Len(p \o q) = Len(p) + Len(q)
         /\ \A i \in 1 .. Len(p) : (p \o q)[i] = p[i]
         /\ \A i \in 1 .. Len(q) : (p \o q)[Len(p) + i] = q[i]
<1>1. Len(p) \in Nat /\ Len(q) \in Nat
  BY LenProperties
<1>2. /\ p \o q \in Seq(S) /\ Len(p \o q) = Len(p) + Len(q)
      /\ \A i \in 1 .. Len(p) + Len(q) : (p \o q)[i] =
            IF i <= Len(p) THEN p[i] ELSE q[i - Len(p)]
  BY ConcatProperties
<1> DEFINE r == p \o q
<1> HIDE DEF r
<1>3. ASSUME NEW i \in 1 .. Len(q)
      PROVE  r[Len(p) + i] = q[i]
  <2>1. Len(p) + i \in 1 .. Len(p) + Len(q) /\ ~(Len(p) + i <= Len(p))
    BY <1>1
  <2>2. (Len(p) + i) - Len(p) = i
    BY <1>1
  <2> QED
    BY <1>2, <2>1, <2>2 DEF r
<1>4. \A i \in 1 .. Len(p) : r[i] = p[i]
  BY <1>1, <1>2 DEF r
<1> QED
  BY <1>1, <1>2, <1>3, <1>4 DEF r

-----------------------------------------------------------------------------
(* The digits of a number.                                                 *)

(* Induction for a set of numbers: the theorems of the library that have a *)
(* predicate as a parameter are of no use to the provers, the one about    *)
(* minimal elements is.                                                    *)
LEMMA LeastNumber ==
  ASSUME NEW T, T \subseteq Nat, T # {}
  PROVE  \E x \in T : \A y \in T : x <= y
<1> DEFINE R == OpToRel(<, Nat)
<1>1. IsWellFoundedOn(R, Nat)
  BY NatLessThanWellFounded
<1>2. ASSUME NEW x \in Nat, NEW y \in Nat, y < x
      PROVE  <<y, x>> \in R
  BY <1>2 DEF OpToRel
<1> HIDE DEF R
<1>3. PICK x \in T : \A y \in T : ~ (<<y, x>> \in R)
  BY <1>1, WFMin
<1>4. ASSUME NEW y \in T
      PROVE  x <= y
  <2>1. x \in Nat /\ y \in Nat
    OBVIOUS
  <2>2. ~ (y < x)
    BY <1>2, <1>3, <2>1
  <2> QED
    BY <2>1, <2>2
<1> QED
  BY <1>3, <1>4

LEMMA Induction ==
  ASSUME NEW T,
         \A n \in Nat : (\A m \in 0 .. n - 1 : m \in T) => n \in T
  PROVE  \A n \in Nat : n \in T
<1> SUFFICES ASSUME {n \in Nat : n \notin T} # {}
             PROVE  FALSE
  OBVIOUS
<1>1. PICK x \in {n \in Nat : n \notin T} : \A y \in {n \in Nat : n \notin T} : x <= y
  BY LeastNumber
<1>2. ASSUME NEW m \in 0 .. x - 1
      PROVE  m \in T
  BY <1>1
<1> QED
  BY <1>1, <1>2

LEMMA Quotient ==
  ASSUME NEW c \in Nat
  PROVE  /\ c \div Base \in Nat /\ c % Base \in 0 .. Base - 1
         /\ c = Base * (c \div Base) + (c % Base)
         /\ ~(c < Base) => c \div Base \in 0 .. c - 1
<1>1. Base \in Nat /\ Base > 1
  BY SizesAssumption
<1>2. /\ c \div Base \in Int /\ c % Base \in 0 .. Base - 1
      /\ c = Base * (c \div Base) + (c % Base)
  BY <1>1
<1> DEFINE q == c \div Base
           r == c % Base
<1> HIDE DEF q, r
<1>3. q \in Int /\ r \in 0 .. Base - 1 /\ c = Base * q + r
  BY <1>2 DEF q, r
<1>4. q \in Nat
  BY <1>1, <1>3
<1>5. ~(c < Base) => q < c
  BY <1>1, <1>3, <1>4
<1> QED
  BY <1>2, <1>4, <1>5 DEF q

LEMMA QuotientMonotone ==
  ASSUME NEW c \in Nat, NEW d \in 0 .. c
  PROVE  d \div Base <= c \div Base
<1> DEFINE q == c \div Base
           r == c % Base
           p == d \div Base
           s == d % Base
<1>1. Base \in Nat /\ Base > 1
  BY SizesAssumption
<1>2. /\ q \in Nat /\ r \in 0 .. Base - 1 /\ c = Base * q + r
      /\ p \in Nat /\ s \in 0 .. Base - 1 /\ d = Base * p + s
  BY Quotient
<1> HIDE DEF p, q, r, s
<1> SUFFICES ASSUME p >= q + 1
             PROVE  FALSE
  BY <1>2 DEF p, q
<1>3. Base * p >= Base * (q + 1) /\ Base * (q + 1) = Base * q + Base
  BY <1>1, <1>2
<1> QED
  BY <1>1, <1>2, <1>3

(* The equation of Digits, of a function defined up to n.                  *)
Step(g, c) == IF c < Base THEN <<c>> ELSE Append(g[c \div Base], c % Base)
UpTo(n, g) == g = [c \in 0 .. n |-> Step(g, c)]

LEMMA UpToAgree ==
  \A c \in Nat : \A n, m \in Nat : \A g, h :
    UpTo(n, g) /\ UpTo(m, h) /\ c <= n /\ c <= m => g[c] = h[c]
<1> DEFINE T == {c \in Nat : \A n, m \in Nat : \A g, h :
                   UpTo(n, g) /\ UpTo(m, h) /\ c <= n /\ c <= m => g[c] = h[c]}
<1>1. ASSUME NEW c \in Nat, \A b \in 0 .. c - 1 : b \in T
      PROVE  c \in T
  <2> SUFFICES ASSUME NEW n \in Nat, NEW m \in Nat, NEW g, NEW h,
                      UpTo(n, g), UpTo(m, h), c <= n, c <= m
               PROVE  g[c] = h[c]
    OBVIOUS
  <2>1. g[c] = Step(g, c) /\ h[c] = Step(h, c)
    <3>1. c \in 0 .. n /\ c \in 0 .. m
      OBVIOUS
    <3>2. g = [x \in 0 .. n |-> Step(g, x)] /\ h = [x \in 0 .. m |-> Step(h, x)]
      BY DEF UpTo
    <3>3. [x \in 0 .. n |-> Step(g, x)][c] = Step(g, c)
      BY <3>1
    <3>4. [x \in 0 .. m |-> Step(h, x)][c] = Step(h, c)
      BY <3>1
    <3> QED
      BY <3>2, <3>3, <3>4
  <2>2. CASE c < Base
    BY <2>1, <2>2 DEF Step
  <2>3. CASE ~(c < Base)
    <3>1. c \div Base \in 0 .. c - 1
      BY <2>3, Quotient
    <3>2. c \div Base \in T /\ c \div Base <= n /\ c \div Base <= m
      BY <1>1, <3>1
    <3>3. g[c \div Base] = h[c \div Base]
      BY <3>2
    <3> QED
      BY <2>1, <2>3, <3>3 DEF Step
  <2> QED
    BY <2>2, <2>3
<1> HIDE DEF T
<1>2. \A c \in Nat : c \in T
  BY <1>1, Induction
<1> QED
  BY <1>2 DEF T

LEMMA UpToExists == \A n \in Nat : \E g : UpTo(n, g)
<1> DEFINE T == {n \in Nat : \E g : UpTo(n, g)}
<1>1. ASSUME NEW n \in Nat, \A m \in 0 .. n - 1 : m \in T
      PROVE  n \in T
  <2>1. PICK g : n > 0 => UpTo(n - 1, g)
    <3>1. CASE n = 0
      BY <3>1
    <3>2. CASE n > 0
      <4>1. n - 1 \in T
        BY <1>1, <3>2
      <4> QED
        BY <4>1
    <3> QED
      BY <3>1, <3>2
  <2> DEFINE h == [c \in 0 .. n |-> IF c = n THEN Step(g, n) ELSE g[c]]
  <2>2. ASSUME NEW c \in 0 .. n
        PROVE  h[c] = Step(h, c)
    <3>1. h[c] = Step(g, c)
      <4>1. CASE c = n
        BY <4>1
      <4>2. CASE c # n
        <5>1. c \in 0 .. n - 1 /\ n > 0
          BY <4>2
        <5>2. g = [x \in 0 .. n - 1 |-> Step(g, x)]
          BY <2>1, <5>1 DEF UpTo
        <5>3. [x \in 0 .. n - 1 |-> Step(g, x)][c] = Step(g, c)
          BY <5>1
        <5> QED
          BY <4>2, <5>2, <5>3
      <4> QED
        BY <4>1, <4>2
    <3>2. CASE c < Base
      BY <3>1, <3>2 DEF Step
    <3>3. CASE ~(c < Base)
      <4>1. c \div Base \in 0 .. c - 1 /\ c \div Base \in 0 .. n /\ c \div Base # n
        BY <3>3, Quotient
      <4>2. h[c \div Base] = g[c \div Base]
        BY <4>1
      <4> HIDE DEF h
      <4> QED
        BY <3>1, <3>3, <4>2 DEF Step
    <3> QED
      BY <3>2, <3>3
  <2>3. h = [c \in 0 .. n |-> h[c]]
    OBVIOUS
  <2> HIDE DEF h
  <2>4. [c \in 0 .. n |-> h[c]] = [c \in 0 .. n |-> Step(h, c)]
    BY <2>2
  <2>5. UpTo(n, h)
    BY <2>3, <2>4 DEF UpTo
  <2> QED
    BY <2>5
<1> HIDE DEF T
<1>2. \A n \in Nat : n \in T
  BY <1>1, Induction
<1> QED
  BY <1>2 DEF T

(* The recursion is well founded: Digits is what its definition says.      *)
LEMMA DigitsEquation == Digits = [c \in Nat |-> Step(Digits, c)]
<1> DEFINE G(n) == CHOOSE g : UpTo(n, g)
           d == [c \in Nat |-> G(c)[c]]
<1>1. \A n \in Nat : UpTo(n, G(n))
  BY UpToExists
<1> HIDE DEF G
<1>2. ASSUME NEW c \in Nat
      PROVE  d[c] = Step(d, c)
  <2>1. d[c] = Step(G(c), c)
    <3>1. G(c) = [x \in 0 .. c |-> Step(G(c), x)]
      BY <1>1 DEF UpTo
    <3>2. [x \in 0 .. c |-> Step(G(c), x)][c] = Step(G(c), c)
      OBVIOUS
    <3> QED
      BY <3>1, <3>2
  <2>2. CASE c < Base
    BY <2>1, <2>2 DEF Step
  <2>3. CASE ~(c < Base)
    <3> DEFINE q == c \div Base
    <3>1. q \in Nat /\ q \in 0 .. c - 1
      BY <2>3, Quotient
    <3> HIDE DEF q
    <3>2. UpTo(q, G(q)) /\ UpTo(c, G(c)) /\ q <= q /\ q <= c
      BY <1>1, <3>1
    <3>3. G(q)[q] = G(c)[q]
      BY <3>1, <3>2, UpToAgree
    <3>4. d[q] = G(c)[q]
      BY <3>1, <3>3
    <3> HIDE DEF d
    <3> QED
      BY <2>1, <2>3, <3>4 DEF Step, q
  <2> QED
    BY <2>2, <2>3
<1>3. d = [c \in Nat |-> Step(d, c)]
  <2>1. d = [c \in Nat |-> d[c]]
    OBVIOUS
  <2> HIDE DEF d
  <2> QED
    BY <1>2, <2>1
<1> HIDE DEF d
<1>4. Digits = CHOOSE g : g = [c \in Nat |-> Step(g, c)]
  BY DEF Digits, Step
<1> QED
  BY <1>3, <1>4

LEMMA DigitsOf ==
  ASSUME NEW c \in Nat
  PROVE  /\ c < Base => Digits[c] = <<c>>
         /\ ~(c < Base) => Digits[c] = Append(Digits[c \div Base], c % Base)
<1>1. [x \in Nat |-> Step(Digits, x)][c] = Step(Digits, c)
  OBVIOUS
<1>2. Digits[c] = Step(Digits, c)
  BY <1>1, DigitsEquation
<1> QED
  BY <1>2 DEF Step

LEMMA DigitOf ==
  ASSUME NEW c \in Nat, c < Base
  PROVE  Digits[c] \in Seq(0 .. Base - 1) /\ Len(Digits[c]) = 1
<1>1. c \in 0 .. Base - 1
  BY SizesAssumption
<1>2. <<c>> \in Seq(0 .. Base - 1) /\ Len(<<c>>) = 1
  BY <1>1
<1>3. Digits[c] = <<c>>
  BY DigitsOf
<1> QED
  BY <1>2, <1>3

LEMMA DigitsAreDigits ==
  \A c \in Nat : Digits[c] \in Seq(0 .. Base - 1) /\ Len(Digits[c]) \in Nat \ {0}
<1> DEFINE T == {c \in Nat : Digits[c] \in Seq(0 .. Base - 1) /\ Len(Digits[c]) \in Nat \ {0}}
<1>1. ASSUME NEW c \in Nat, \A b \in 0 .. c - 1 : b \in T
      PROVE  c \in T
  <2>1. CASE c < Base
    <3>1. Digits[c] \in Seq(0 .. Base - 1) /\ Len(Digits[c]) = 1
      BY <2>1, DigitOf
    <3>2. Len(Digits[c]) \in Nat \ {0}
      BY <3>1
    <3> QED
      BY <3>1, <3>2
  <2>2. CASE ~(c < Base)
    <3> DEFINE p == Digits[c \div Base]
               r == c % Base
    <3>1. r \in 0 .. Base - 1 /\ c \div Base \in T
      BY <1>1, <2>2, Quotient
    <3>2. p \in Seq(0 .. Base - 1) /\ Len(p) \in Nat /\ Digits[c] = Append(p, r)
      BY <2>2, <3>1, DigitsOf
    <3> HIDE DEF p, r
    <3>3. Append(p, r) \in Seq(0 .. Base - 1) /\ Len(Append(p, r)) = Len(p) + 1
      BY <3>1, <3>2, AppendProperties
    <3>4. Len(Digits[c]) \in Nat \ {0}
      BY <3>2, <3>3
    <3> QED
      BY <3>2, <3>3, <3>4
  <2> QED
    BY <2>1, <2>2
<1> HIDE DEF T
<1>2. \A c \in Nat : c \in T
  BY <1>1, Induction
<1> QED
  BY <1>2 DEF T

(* The last digit and the ones before it.                                  *)
LEMMA DigitsSplit ==
  ASSUME NEW c \in Nat, ~(c < Base)
  PROVE  /\ c \div Base \in 0 .. c - 1
         /\ Len(Digits[c]) = Len(Digits[c \div Base]) + 1
         /\ Digits[c][Len(Digits[c])] = c % Base
         /\ \A i \in 1 .. Len(Digits[c \div Base]) : Digits[c][i] = Digits[c \div Base][i]
<1> DEFINE p == Digits[c \div Base]
           r == c % Base
<1>1. r \in 0 .. Base - 1 /\ c \div Base \in 0 .. c - 1
  BY Quotient
<1>2. p \in Seq(0 .. Base - 1) /\ Digits[c] = Append(p, r) /\ Len(p) \in Nat
  <2>1. c \div Base \in Nat
    BY <1>1
  <2>2. p \in Seq(0 .. Base - 1) /\ Len(p) \in Nat \ {0}
    BY <2>1, DigitsAreDigits
  <2>3. Digits[c] = Append(p, r)
    BY DigitsOf
  <2> QED
    BY <2>2, <2>3
<1> HIDE DEF p, r
<1>3. /\ Len(Append(p, r)) = Len(p) + 1 /\ Append(p, r)[Len(p) + 1] = r
      /\ \A i \in 1 .. Len(p) : Append(p, r)[i] = p[i]
  BY <1>1, <1>2, AppendProperties
<1> QED
  BY <1>1, <1>2, <1>3 DEF p, r

LEMMA DigitsGrow ==
  \A c \in Nat : \A d \in 0 .. c : Len(Digits[d]) <= Len(Digits[c])
<1> DEFINE T == {c \in Nat : \A d \in 0 .. c : Len(Digits[d]) <= Len(Digits[c])}
<1>1. ASSUME NEW c \in Nat, \A b \in 0 .. c - 1 : b \in T
      PROVE  c \in T
  <2> SUFFICES ASSUME NEW d \in 0 .. c
               PROVE  Len(Digits[d]) <= Len(Digits[c])
    OBVIOUS
  <2>1. d \in Nat /\ Len(Digits[c]) \in Nat \ {0} /\ Len(Digits[d]) \in Nat
    BY DigitsAreDigits
  <2>2. CASE d < Base
    <3>1. Len(Digits[d]) = 1
      BY <2>1, <2>2, DigitOf
    <3> QED
      BY <2>1, <3>1
  <2>3. CASE ~(d < Base)
    <3>1. ~(c < Base)
      BY <2>3, SizesAssumption
    <3>2. d \div Base \in Nat /\ c \div Base \in 0 .. c - 1 /\ d \div Base <= c \div Base
      BY <2>1, <3>1, Quotient, QuotientMonotone
    <3>3. Len(Digits[d \div Base]) <= Len(Digits[c \div Base])
      BY <1>1, <3>2
    <3>4. /\ Len(Digits[c]) = Len(Digits[c \div Base]) + 1
          /\ Len(Digits[d]) = Len(Digits[d \div Base]) + 1
      BY <2>1, <2>3, <3>1, DigitsSplit
    <3>5. Len(Digits[d \div Base]) \in Nat /\ Len(Digits[c \div Base]) \in Nat
      <4>1. c \div Base \in Nat
        BY <3>2
      <4>2. /\ Len(Digits[d \div Base]) \in Nat \ {0}
            /\ Len(Digits[c \div Base]) \in Nat \ {0}
        BY <3>2, <4>1, DigitsAreDigits
      <4> QED
        BY <4>2
    <3> QED
      BY <3>3, <3>4, <3>5
  <2> QED
    BY <2>2, <2>3
<1> HIDE DEF T
<1>2. \A c \in Nat : c \in T
  BY <1>1, Induction
<1> QED
  BY <1>2 DEF T

LEMMA DigitsDiffer ==
  \A c \in Nat : \A d \in 0 .. c : Digits[d] = Digits[c] => d = c
<1> DEFINE T == {c \in Nat : \A d \in 0 .. c : Digits[d] = Digits[c] => d = c}
<1>1. ASSUME NEW c \in Nat, \A b \in 0 .. c - 1 : b \in T
      PROVE  c \in T
  <2> SUFFICES ASSUME NEW d \in 0 .. c, Digits[d] = Digits[c]
               PROVE  d = c
    OBVIOUS
  <2>1. d \in Nat
    OBVIOUS
  <2>2. CASE c < Base
    <3>1. d < Base
      BY <2>1, <2>2, SizesAssumption
    <3>2. Digits[c] = <<c>> /\ Digits[d] = <<d>>
      BY <2>1, <2>2, <3>1, DigitsOf
    <3> QED
      BY <3>2
  <2>3. CASE ~(c < Base)
    <3> DEFINE q == c \div Base
               p == d \div Base
    <3>1. /\ q \in 0 .. c - 1 /\ q \in Nat /\ Len(Digits[c]) = Len(Digits[q]) + 1
          /\ Digits[c][Len(Digits[c])] = c % Base
          /\ \A i \in 1 .. Len(Digits[q]) : Digits[c][i] = Digits[q][i]
      BY <2>3, DigitsSplit
    <3>2. Digits[q] \in Seq(0 .. Base - 1) /\ Len(Digits[q]) \in Nat \ {0}
      BY <3>1, DigitsAreDigits
    <3>3. ~(d < Base)
      <4> SUFFICES ASSUME d < Base
                   PROVE  FALSE
        OBVIOUS
      <4>1. Len(Digits[d]) = 1
        BY <2>1, DigitOf
      <4> HIDE DEF q
      <4> QED
        BY <3>1, <3>2, <4>1
    <3>4. /\ p \in Nat /\ Len(Digits[d]) = Len(Digits[p]) + 1
          /\ Digits[d][Len(Digits[d])] = d % Base
          /\ \A i \in 1 .. Len(Digits[p]) : Digits[d][i] = Digits[p][i]
      BY <2>1, <3>3, DigitsSplit
    <3>5. Digits[p] \in Seq(0 .. Base - 1) /\ Len(Digits[p]) \in Nat \ {0}
      BY <3>4, DigitsAreDigits
    <3>6. p <= q
      BY QuotientMonotone
    <3> HIDE DEF p, q
    <3>7. Len(Digits[p]) = Len(Digits[q])
      BY <3>1, <3>2, <3>4, <3>5
    <3>8. Digits[p] = Digits[q]
      BY <3>1, <3>2, <3>4, <3>5, <3>7, SeqEqual
    <3>9. p = q
      BY <1>1, <3>1, <3>4, <3>6, <3>8
    <3>10. c % Base = d % Base
      BY <3>1, <3>4
    <3>11. c = Base * q + (c % Base) /\ d = Base * p + (d % Base)
      BY <2>1, Quotient DEF p, q
    <3> QED
      BY <3>9, <3>10, <3>11
  <2> QED
    BY <2>2, <2>3
<1> HIDE DEF T
<1>2. \A c \in Nat : c \in T
  BY <1>1, Induction
<1> QED
  BY <1>2 DEF T

(* The text of a counter is made of digits, it is no longer than that of   *)
(* the largest counter, and no other counter has the same.                 *)
THEOREM DigitsFit ==
  ASSUME NEW c \in Counters
  PROVE  /\ Digits[c] \in Seq(0 .. Base - 1) /\ Len(Digits[c]) \in 1 .. MsgLen - 1
         /\ \A d \in Counters : Digits[d] = Digits[c] => d = c
<1>1. CounterMod \in Nat \ {0} /\ c \in 0 .. CounterMod - 1 /\ CounterMod - 1 \in Nat
  BY SizesAssumption DEF Counters
<1>2. c \in Nat
  BY <1>1
<1>3. Digits[c] \in Seq(0 .. Base - 1) /\ Len(Digits[c]) \in Nat \ {0}
  BY <1>2, DigitsAreDigits
<1>4. Len(Digits[CounterMod - 1]) \in Nat \ {0}
  BY <1>1, DigitsAreDigits
<1>5. Len(Digits[c]) <= Len(Digits[CounterMod - 1])
  BY <1>1, DigitsGrow
<1>6. Len(Digits[c]) \in 1 .. MsgLen - 1
  BY <1>3, <1>4, <1>5 DEF MsgLen
<1>7. ASSUME NEW d \in Counters, Digits[d] = Digits[c]
      PROVE  d = c
  <2>1. d \in Nat /\ (d \in 0 .. c \/ c \in 0 .. d)
    BY <1>1, <1>2 DEF Counters
  <2> QED
    BY <1>2, <1>7, <2>1, DigitsDiffer
<1> QED
  BY <1>3, <1>6, <1>7

-----------------------------------------------------------------------------
(* The buffer.                                                             *)

LEMMA DigitsType ==
  ASSUME NEW c \in Counters
  PROVE  /\ Len(Digits[c]) \in 1 .. MsgLen - 1
         /\ MsgLen \in Nat
         /\ \A i \in 1 .. Len(Digits[c]) : Digits[c][i] \in 0 .. Base - 1
<1>1. CounterMod - 1 \in Counters /\ \A x \in Counters : Len(Digits[x]) \in Nat
  BY SizesAssumption, DigitsFit, LenProperties DEF Counters
<1>2. MsgLen \in Nat
  BY <1>1 DEF MsgLen
<1>3. Digits[c] \in Seq(0 .. Base - 1) /\ Len(Digits[c]) \in 1 .. MsgLen - 1
  BY DigitsFit
<1>4. \A i \in 1 .. Len(Digits[c]) : Digits[c][i] \in 0 .. Base - 1
  BY <1>3, ElementOfSeq
<1> QED
  BY <1>2, <1>3, <1>4

(* The text of a number is at the beginning of the buffer.                 *)
PrintsAs(b, c) ==
  /\ b \in Buffer /\ c \in Counters
  /\ \A i \in 1 .. Len(Digits[c]) : b[i] = Digits[c][i]
  /\ b[Len(Digits[c]) + 1] = Nul

LEMMA SprintfPrints ==
  ASSUME NEW b \in Buffer, NEW c \in Counters
  PROVE  PrintsAs(Sprintf(b, c), c)
<1> DEFINE d == Digits[c]
<1>1. /\ Len(d) \in 1 .. MsgLen - 1 /\ MsgLen \in Nat
      /\ \A i \in 1 .. Len(d) : d[i] \in 0 .. Base - 1
  BY DigitsType
<1>2. Sprintf(b, c) = [i \in 1 .. MsgLen |->
        IF i <= Len(d) THEN d[i] ELSE IF i = Len(d) + 1 THEN Nul ELSE b[i]]
  BY DEF Sprintf
<1> HIDE DEF d
<1>3. \A i \in 1 .. MsgLen : Sprintf(b, c)[i] \in {Nul} \cup 0 .. Base - 1
  BY <1>1, <1>2 DEF Buffer
<1>4. Sprintf(b, c) \in Buffer
  BY <1>2, <1>3 DEF Buffer
<1>5. /\ \A i \in 1 .. Len(d) : Sprintf(b, c)[i] = d[i]
      /\ Sprintf(b, c)[Len(d) + 1] = Nul
  BY <1>1, <1>2
<1> QED
  BY <1>4, <1>5 DEF PrintsAs, d

(* A buffer shows one number only.                                         *)
LEMMA PrintsOne ==
  ASSUME NEW b, NEW c, NEW d, PrintsAs(b, c), PrintsAs(b, d)
  PROVE  c = d
<1> DEFINE m == Len(Digits[c])
           n == Len(Digits[d])
<1>1. c \in Counters /\ d \in Counters
  BY DEF PrintsAs
<1>2. /\ m \in Nat /\ n \in Nat
      /\ \A i \in 1 .. m : b[i] = Digits[c][i] /\ b[i] \in Nat
      /\ \A i \in 1 .. n : b[i] = Digits[d][i] /\ b[i] \in Nat
      /\ b[m + 1] = Nul /\ b[n + 1] = Nul
  BY <1>1, DigitsType, SizesAssumption DEF PrintsAs
<1> HIDE DEF m, n
<1>3. m = n
  BY <1>2 DEF Nul
<1>4. Digits[c] \in Seq(0 .. Base - 1) /\ Digits[d] \in Seq(0 .. Base - 1)
  BY <1>1, DigitsFit
<1>5. Digits[d] = Digits[c]
  BY <1>2, <1>3, <1>4, SeqEqual DEF m, n
<1> QED
  BY <1>1, <1>5, DigitsFit

(* A text as long as the longest leaves nothing of the one before it.      *)
LEMMA LongestFills ==
  ASSUME NEW b, NEW c, PrintsAs(b, c), Len(Digits[c]) = MsgLen - 1
  PROVE  b = Sprintf(Blank, c)
<1> DEFINE d == Digits[c]
<1>1. b \in [1 .. MsgLen -> {Nul} \cup 0 .. Base - 1] /\ c \in Counters
  BY DEF PrintsAs, Buffer
<1>2. MsgLen \in Nat /\ Len(d) = MsgLen - 1
  BY <1>1, DigitsType
<1>3. (\A i \in 1 .. Len(d) : b[i] = d[i]) /\ b[Len(d) + 1] = Nul
  BY DEF PrintsAs
<1>4. Sprintf(Blank, c) = [i \in 1 .. MsgLen |->
        IF i <= Len(d) THEN d[i] ELSE IF i = Len(d) + 1 THEN Nul ELSE Blank[i]]
  BY DEF Sprintf
<1> HIDE DEF d
<1>5. ASSUME NEW i \in 1 .. MsgLen
      PROVE  b[i] = Sprintf(Blank, c)[i]
  <2>1. i \in 1 .. Len(d) \/ i = Len(d) + 1
    BY <1>2
  <2>2. CASE i \in 1 .. Len(d)
    <3>1. i <= Len(d)
      BY <1>2, <2>2
    <3> QED
      BY <1>3, <1>4, <2>2, <3>1
  <2>3. CASE i = Len(d) + 1
    <3>1. ~(i <= Len(d))
      BY <1>2, <2>3
    <3> QED
      BY <1>3, <1>4, <2>3, <3>1
  <2> QED
    BY <2>1, <2>2, <2>3
<1>6. b = [i \in 1 .. MsgLen |-> b[i]]
  BY <1>1
<1>7. Sprintf(Blank, c) = [i \in 1 .. MsgLen |-> Sprintf(Blank, c)[i]]
  BY <1>4
<1> QED
  BY <1>5, <1>6, <1>7

-----------------------------------------------------------------------------
(* What is printed.                                                        *)

(* The history of a digest and of a signature says what they are of,       *)
(* unless hashing has failed.                                              *)
Genuine(s) == s.fresh => PrintsAs(s.digest, s.at)

Truthful(t) ==
  /\ t.is = "digest" /\ t.fresh => PrintsAs(t.of, t.at)
  /\ t.is = "word" => Genuine(t.sig)

GoodToken == {t \in Token : Truthful(t)}

LEMMA TokenFields ==
  ASSUME NEW t \in Token
  PROVE  /\ t.cut \in BOOLEAN
         /\ t.is \in {"sp", "nl", "text", "msg", "digest", "word"}
  BY DEF Token

LEMMA CutToken ==
  ASSUME NEW t \in GoodToken
  PROVE  /\ [t EXCEPT !.cut = TRUE] \in GoodToken
         /\ [t EXCEPT !.cut = TRUE].cut
         /\ [t EXCEPT !.cut = TRUE].is = t.is
<1> DEFINE u == [t EXCEPT !.cut = TRUE]
<1>1. t \in Token /\ Truthful(t)
  BY DEF GoodToken
<1>2. u \in Token /\ u.cut /\ u.is = t.is
  BY <1>1 DEF Token
<1>3. /\ t.is = "digest" => u.of = t.of /\ u.at = t.at /\ u.fresh = t.fresh
      /\ t.is = "word" => u.sig = t.sig
  BY <1>1 DEF Token
<1> HIDE DEF u
<1>4. Truthful(u)
  BY <1>1, <1>2, <1>3 DEF Truthful
<1> QED
  BY <1>2, <1>4 DEF GoodToken, u

LEMMA CutFirstProperties ==
  ASSUME NEW p \in Seq(GoodToken)
  PROVE  /\ CutFirst(p) \in Seq(GoodToken)
         /\ Len(CutFirst(p)) = Len(p)
         /\ \A i \in 2 .. Len(p) : CutFirst(p)[i] = p[i]
         /\ p # <<>> => CutFirst(p)[1].cut /\ CutFirst(p)[1].is = p[1].is
<1>1. CASE p = <<>>
  BY <1>1 DEF CutFirst
<1>2. CASE p # <<>>
  <2>1. Len(p) \in Nat \ {0} /\ p[1] \in GoodToken
    BY <1>2, EmptySeq, ElementOfSeq
  <2> DEFINE u == [p[1] EXCEPT !.cut = TRUE]
  <2>2. u \in GoodToken /\ u.cut /\ u.is = p[1].is
    BY <2>1, CutToken
  <2>3. CutFirst(p) = [p EXCEPT ![1] = u]
    BY <1>2, <2>1 DEF CutFirst
  <2> HIDE DEF u
  <2>4. /\ CutFirst(p) \in Seq(GoodToken)
        /\ Len(CutFirst(p)) = Len(p)
        /\ \A i \in 1 .. Len(p) : CutFirst(p)[i] = IF i = 1 THEN u ELSE p[i]
    BY <2>1, <2>2, <2>3, ExceptSeq
  <2> QED
    BY <1>2, <2>1, <2>2, <2>4
<1> QED
  BY <1>1, <1>2

LEMMA MarksGood == Sp \in GoodToken /\ Nl \in GoodToken /\ Text \in GoodToken
  BY DEF Sp, Nl, Text, Mark, GoodToken, Token, Truthful

LEMMA BannerProperties ==
  /\ Banner \in Seq(GoodToken) /\ Len(Banner) = 4
  /\ Banner[1] = Text /\ Banner[2] = Sp /\ Banner[3] = Text /\ Banner[4] = Nl
  BY MarksGood DEF Banner

(* How many words printMpi prints.                                         *)
WordCount(s) ==
  IF s = NoSignature THEN 0 ELSE IF s.zero THEN SigWords - 1 ELSE SigWords

LEMMA PrintMpiProperties ==
  ASSUME NEW s \in Signature, Genuine(s)
  PROVE  /\ WordCount(s) \in 0 .. SigWords
         /\ PrintMpi(s) \in Seq(GoodToken)
         /\ Len(PrintMpi(s)) = WordCount(s)
         /\ \A n \in 1 .. WordCount(s) : PrintMpi(s)[n] = Word(s, n)
<1>1. WordCount(s) \in 0 .. SigWords
  BY SizesAssumption DEF WordCount
<1>2. CASE s = NoSignature
  BY <1>1, <1>2 DEF PrintMpi, WordCount
<1>3. CASE s # NoSignature
  <2>1. \A n \in 1 .. WordCount(s) : Word(s, n) \in GoodToken
    <3> SUFFICES ASSUME NEW n \in 1 .. WordCount(s)
                 PROVE  Word(s, n) \in GoodToken
      OBVIOUS
    <3>1. n \in 1 .. SigWords
      BY <1>1, SizesAssumption
    <3>2. Word(s, n) \in Token
      BY <3>1 DEF Word, Token
    <3>3. Truthful(Word(s, n))
      BY <1>3 DEF Word, Truthful, Genuine
    <3> QED
      BY <3>2, <3>3 DEF GoodToken
  <2>2. PrintMpi(s) = [n \in 1 .. WordCount(s) |-> Word(s, n)]
    BY <1>3, SizesAssumption DEF PrintMpi, WordCount
  <2>3. PrintMpi(s) \in [1 .. WordCount(s) -> GoodToken]
    BY <2>1, <2>2
  <2>4. PrintMpi(s) \in Seq(GoodToken) /\ Len(PrintMpi(s)) = WordCount(s)
    BY <1>1, <2>3
  <2> QED
    BY <1>1, <2>2, <2>4
<1> QED
  BY <1>2, <1>3

(* A line that Round prints.                                               *)
IsRoundLine(l, c, b, f, s) ==
  /\ l = RoundLine(c, b, f, s)
  /\ l \in Seq(GoodToken)
  /\ WordCount(s) \in 0 .. SigWords
  /\ Len(l) = WordCount(s) + 5
  /\ l[1] = Message(c) /\ l[2] = Sp /\ l[3] = DigestOf(b, c, f) /\ l[4] = Sp
  /\ \A n \in 1 .. WordCount(s) : l[n + 4] = Word(s, n)
  /\ l[WordCount(s) + 5] = Nl

LEMMA RoundLineProperties ==
  ASSUME NEW c \in Counters, NEW b \in Buffer, NEW f \in BOOLEAN, NEW s \in Signature,
         f => PrintsAs(b, c), Genuine(s)
  PROVE  IsRoundLine(RoundLine(c, b, f, s), c, b, f, s)
<1> DEFINE w == WordCount(s)
           l == RoundLine(c, b, f, s)
           head == <<Message(c), Sp, DigestOf(b, c, f), Sp>>
           mpi == PrintMpi(s)
<1>1. /\ w \in 0 .. SigWords /\ mpi \in Seq(GoodToken) /\ Len(mpi) = w
      /\ \A n \in 1 .. w : mpi[n] = Word(s, n)
  BY PrintMpiProperties
<1>2. Message(c) \in GoodToken /\ DigestOf(b, c, f) \in GoodToken
  BY DEF Message, DigestOf, GoodToken, Token, Truthful
<1>3. head \in Seq(GoodToken) /\ Len(head) = 4
  BY <1>2, MarksGood
<1>4. head[1] = Message(c) /\ head[2] = Sp /\ head[3] = DigestOf(b, c, f) /\ head[4] = Sp
  OBVIOUS
<1>5. <<Nl>> \in Seq(GoodToken) /\ Len(<<Nl>>) = 1 /\ <<Nl>>[1] = Nl
  BY MarksGood
<1>6. l = (head \o mpi) \o <<Nl>>
  BY DEF RoundLine
<1> HIDE DEF w, l, head, mpi
<1>7. w \in Nat
  BY <1>1, SizesAssumption
<1> DEFINE hm == head \o mpi
<1>8. /\ hm \in Seq(GoodToken) /\ Len(hm) = 4 + w
      /\ \A i \in 1 .. 4 : hm[i] = head[i]
      /\ \A n \in 1 .. w : hm[4 + n] = mpi[n]
  <2>1. hm = head \o mpi
    OBVIOUS
  <2> HIDE DEF hm
  <2>2. /\ hm \in Seq(GoodToken) /\ Len(hm) = Len(head) + Len(mpi)
        /\ \A i \in 1 .. Len(head) : hm[i] = head[i]
        /\ \A i \in 1 .. Len(mpi) : hm[Len(head) + i] = mpi[i]
    <3>1. head \in Seq(GoodToken) /\ mpi \in Seq(GoodToken)
      BY <1>1, <1>3
    <3> QED
      BY <2>1, <3>1, JoinProperties
  <2> QED
    BY <1>1, <1>3, <1>7, <2>2
<1>9. /\ l \in Seq(GoodToken) /\ Len(l) = 5 + w
      /\ \A i \in 1 .. 4 + w : l[i] = hm[i]
      /\ l[5 + w] = Nl
  <2>1. l = hm \o <<Nl>>
    BY <1>6
  <2> HIDE DEF hm
  <2>2. /\ l \in Seq(GoodToken) /\ Len(l) = Len(hm) + 1
        /\ \A i \in 1 .. Len(hm) : l[i] = hm[i]
        /\ \A i \in 1 .. 1 : l[Len(hm) + i] = <<Nl>>[i]
    BY <1>5, <1>8, <2>1, JoinProperties
  <2> QED
    BY <1>5, <1>7, <1>8, <2>2
<1> HIDE DEF hm
<1>10. ASSUME NEW n \in 1 .. w
       PROVE  l[n + 4] = Word(s, n)
  <2>1. n + 4 = 4 + n /\ 4 + n \in 1 .. 4 + w
    BY <1>7
  <2> QED
    BY <1>1, <1>8, <1>9, <2>1
<1> QED
  BY <1>1, <1>4, <1>5, <1>7, <1>8, <1>9, <1>10 DEF IsRoundLine, w, l

-----------------------------------------------------------------------------
(* Types.                                                                  *)

PortOK == port \in Seq(GoodToken)

Typed == TypeOK /\ PortOK /\ Genuine(signature)

LEMMA GoodIsToken == \A p \in Seq(GoodToken) : p \in Seq(Token)
<1>1. GoodToken \subseteq Token
  BY DEF GoodToken
<1> QED
  BY <1>1, SeqMonotonic

LEMMA BlankType == Blank \in Buffer
<1>1. MsgLen \in Nat
  BY DigitsType, SizesAssumption DEF Counters
<1> QED
  BY <1>1 DEF Blank, Buffer

LEMMA NoSignatureType == NoSignature \in Signature
<1>1. 0 \in Counters /\ <<>> \in Seq(Byte)
  BY SizesAssumption DEF Counters
<1> QED
  BY <1>1, BlankType DEF NoSignature, Signature

(* What a round that hashes or fails to (f) prints and signs.              *)
Printed(f) ==
  /\ port' = port \o RoundLine(counter, digest', f, signature')
  /\ IsRoundLine(RoundLine(counter, digest', f, signature'), counter, digest', f, signature')

LEMMA RoundFacts ==
  ASSUME Typed, Round
  PROVE  /\ message' \in Buffer /\ digest' \in Buffer
         /\ signature' \in Signature /\ Genuine(signature')
         /\ counter' \in Counters
         /\ \E f \in BOOLEAN : Printed(f)
<1>1. counter \in Counters /\ message \in Buffer /\ key \in Seq(Byte) /\ digest \in Buffer
      /\ signature \in Signature /\ Genuine(signature)
  BY DEF Typed, TypeOK
<1>2. PrintsAs(message', counter) /\ message' \in Buffer
  BY <1>1, SprintfPrints DEF Round, PrintsAs
<1>3. PICK computed \in BOOLEAN, made \in BOOLEAN :
        /\ Compute(computed) /\ Sign(made, computed)
        /\ port' = port \o RoundLine(counter, digest', computed, signature')
  BY DEF Round
<1>4. digest' \in Buffer /\ (computed => PrintsAs(digest', counter))
  BY <1>1, <1>2, <1>3 DEF Compute
<1>5. signature' \in Signature /\ Genuine(signature')
  <2>1. CASE UNCHANGED signature
    BY <1>1, <2>1
  <2>2. ASSUME NEW zero \in BOOLEAN,
               signature' = [key |-> key, digest |-> digest', at |-> counter,
                             fresh |-> computed, zero |-> zero]
        PROVE  signature' \in Signature /\ Genuine(signature')
    BY <1>1, <1>4, <2>2 DEF Signature, Genuine
  <2> QED
    BY <1>3, <2>1, <2>2 DEF Sign
<1>6. counter' \in Counters
  BY <1>1, SizesAssumption DEF Round, NextCounter, Counters
<1>7. Printed(computed)
  BY <1>1, <1>3, <1>4, <1>5, RoundLineProperties DEF Printed
<1> QED
  BY <1>2, <1>4, <1>5, <1>6, <1>7

LEMMA PortStep == Typed /\ [Next]_vars => PortOK'
<1> SUFFICES ASSUME Typed, [Next]_vars
             PROVE  PortOK'
  OBVIOUS
<1>0. port \in Seq(GoodToken) /\ Len(port) \in Nat
  BY LenProperties DEF Typed, PortOK
<1> USE DEF PortOK
<1>1. CASE Start \/ Write \/ UNCHANGED vars
  <2>1. port' = <<>> \/ port' = port
    BY <1>1 DEF Start, Write, vars
  <2> QED
    BY <1>0, <2>1, EmptySeq
<1>2. CASE Reset
  <2>1. PICK k \in 0 .. LineLen : k <= Len(port) /\ port' = SubSeq(port, 1, Len(port) - k)
    BY <1>2 DEF Reset
  <2>2. Len(port) - k \in 0 .. Len(port)
    BY <1>0, <2>1, SizesAssumption DEF LineLen
  <2> QED
    BY <1>0, <2>1, <2>2, FirstProperties
<1>3. CASE Boot \/ Poll
  <2>1. port' = port \/ port' = port \o Banner
    BY <1>3 DEF Boot, Poll, Initialise
  <2>2. port \o Banner \in Seq(GoodToken)
    BY <1>0, BannerProperties, JoinProperties
  <2> QED
    BY <1>0, <2>1, <2>2
<1>4. CASE Round
  <2> PICK f \in BOOLEAN : Printed(f)
    BY <1>4, RoundFacts
  <2>1. RoundLine(counter, digest', f, signature') \in Seq(GoodToken)
    BY DEF Printed, IsRoundLine
  <2>2. port' = port \o RoundLine(counter, digest', f, signature')
    BY DEF Printed
  <2> QED
    BY <1>0, <2>1, <2>2, JoinProperties
<1>5. CASE Lose
  <2>1. PICK i \in DOMAIN port, j \in DOMAIN port :
          \/ i < j /\ port' = SubSeq(port, 1, i - 1) \o CutFirst(From(port, j - 1))
          \/ port' = [port EXCEPT ![i] = [Text EXCEPT !.cut = TRUE]]
    BY <1>5 DEF Lose
  <2>2. i \in 1 .. Len(port) /\ j \in 1 .. Len(port)
    BY <1>0, LenProperties
  <2>3. CASE port' = SubSeq(port, 1, i - 1) \o CutFirst(From(port, j - 1))
    <3>1. i - 1 \in 0 .. Len(port) /\ j - 1 \in 0 .. Len(port)
      BY <1>0, <2>2
    <3>2. SubSeq(port, 1, i - 1) \in Seq(GoodToken)
      BY <1>0, <3>1, FirstProperties
    <3>3. CutFirst(From(port, j - 1)) \in Seq(GoodToken)
      BY <1>0, <3>1, FromProperties, CutFirstProperties
    <3> QED
      BY <2>3, <3>2, <3>3, JoinProperties
  <2>4. CASE port' = [port EXCEPT ![i] = [Text EXCEPT !.cut = TRUE]]
    <3>1. [Text EXCEPT !.cut = TRUE] \in GoodToken
      BY MarksGood, CutToken
    <3> QED
      BY <1>0, <2>2, <2>4, <3>1, ExceptSeq
  <2> QED
    BY <2>1, <2>3, <2>4
<1>6. CASE Read \/ ReadTimeout
  <2>1. PICK k \in DOMAIN port :
          port' = From(port, k) \/ port' = CutFirst(From(port, k))
    BY <1>6 DEF Read, ReadTimeout, NewLines
  <2>2. k \in 0 .. Len(port)
    BY <1>0, LenProperties
  <2> QED
    BY <1>0, <2>1, <2>2, FromProperties, CutFirstProperties
<1> QED
  BY <1>1, <1>2, <1>3, <1>4, <1>5, <1>6 DEF Next

LEMMA VerdictType == \A line : Verdict(line) \in {"nothing", "verified", "rejected", "unparsed"}
  BY DEF Verdict

LEMMA TypeStep == Typed /\ [Next]_vars => Typed'
<1> SUFFICES ASSUME Typed, [Next]_vars
             PROVE  Typed'
  OBVIOUS
<1>0. TypeOK /\ Genuine(signature)
  BY DEF Typed
<1>p. PortOK' /\ port' \in Seq(Token)
  BY PortStep, GoodIsToken DEF PortOK
<1>g. signature' = signature => Genuine(signature')
  BY <1>0 DEF Genuine, PrintsAs
<1> USE SizesAssumption DEF Typed, TypeOK, hostVars, nodeVars
<1>1. CASE Start
  <2>1. /\ run' \in 0 .. Runs /\ written' = 0 /\ missing' = 0 /\ shown' = "nothing"
        /\ UNCHANGED <<nodeVars, faults>>
    BY <1>0, <1>1 DEF Start
  <2> QED
    BY <1>0, <1>g, <1>p, <2>1 DEF Transfer
<1>2. CASE Write
  <2>2. rx' \in Seq(Byte)
    <3>1. Zero \in Byte
      BY DEF Byte
    <3>2. \A x \in Byte : Append(rx, x) \in Seq(Byte)
      BY <1>0
    <3>3. written < KeyLen => <<run, written + 1>> \in Byte
      BY <1>0, <1>2 DEF Write, Byte
    <3> QED
      BY <1>0, <1>2, <3>1, <3>2, <3>3 DEF Write
  <2>3. written' \in 0 .. Transfer /\ missing' \in 0 .. written'
    BY <1>0, <1>2 DEF Write, Transfer
  <2>4. faults' \in 0 .. Faults
    BY <1>0, <1>2 DEF Write, Fault
  <2>5. UNCHANGED <<run, shown, node, key, message, counter, digest, signature>>
    BY <1>2 DEF Write
  <2> QED
    BY <1>0, <1>g, <1>p, <2>2, <2>3, <2>4, <2>5
<1>3. CASE Reset
  <2>1. <<>> \in Seq(Byte) /\ 0 \in Counters
    BY DEF Counters
  <2> QED
    BY <1>0, <1>3, <1>p, <2>1, BlankType, NoSignatureType DEF Reset, Fault, Genuine, NoSignature
<1>4. CASE Boot
  BY <1>0, <1>4, <1>g, <1>p DEF Boot, SystemClock_Config
<1>5. CASE Poll
  <2>1. Len(rx) \in Nat /\ KeyLen \in 0 .. Len(rx)
    BY <1>0, <1>5, LenProperties DEF Poll
  <2>2. SubSeq(rx, 1, KeyLen) \in Seq(Byte) /\ Len(SubSeq(rx, 1, KeyLen)) = KeyLen
    BY <1>0, <2>1, FirstProperties
  <2>3. ZeroKey \in Seq(Byte) /\ Len(ZeroKey) = KeyLen
    BY DEF ZeroKey, Byte
  <2>4. key' \in Seq(Byte) /\ Len(key') = KeyLen /\ rx' \in Seq(Byte)
    BY <1>5, <2>2, <2>3, EmptySeq DEF Poll, Initialise
  <2>5. UNCHANGED <<hostVars, message, counter, digest, signature>> /\ node' = "signing"
        /\ faults' \in 0 .. Faults
    BY <1>0, <1>5 DEF Poll, Initialise, Fault
  <2> QED
    BY <1>0, <1>g, <1>p, <2>4, <2>5
<1>6. CASE Round
  <2>1. message' \in Buffer /\ digest' \in Buffer
        /\ signature' \in Signature /\ counter' \in Counters
        /\ Genuine(signature')
    BY <1>6, RoundFacts
  <2>2. UNCHANGED <<hostVars, node, rx, key>> /\ faults' \in 0 .. Faults
    BY <1>0, <1>6 DEF Round, Fault
  <2> QED
    BY <1>0, <1>p, <2>1, <2>2
<1>7. CASE Lose
  <2>1. Fault(1) /\ UNCHANGED <<hostVars, nodeVars>>
    BY <1>7 DEF Lose
  <2>2. faults' \in 0 .. Faults
    BY <1>0, <2>1 DEF Fault
  <2> QED
    BY <1>0, <1>g, <1>p, <2>1, <2>2
<1>8. CASE Read \/ ReadTimeout
  <2>1. shown' \in {"nothing", "verified", "rejected", "unparsed"}
    BY <1>8, VerdictType DEF Read, ReadTimeout, Take
  <2>2. UNCHANGED <<run, written, missing, nodeVars, faults>>
    BY <1>8 DEF Read, ReadTimeout, Take
  <2> QED
    BY <1>0, <1>g, <1>p, <2>1, <2>2
<1>9. CASE UNCHANGED vars
  BY <1>0, <1>9, <1>g, <1>p DEF vars
<1> QED
  BY <1>1, <1>2, <1>3, <1>4, <1>5, <1>6, <1>7, <1>8, <1>9 DEF Next

LEMMA TypeInit == Init => Typed
<1> SUFFICES ASSUME Init
             PROVE  Typed
  OBVIOUS
<1>1. <<>> \in Seq(Byte) /\ <<>> \in Seq(Token) /\ <<>> \in Seq(GoodToken) /\ 0 \in Counters
  BY SizesAssumption DEF Counters
<1> QED
  BY <1>1, BlankType, NoSignatureType, SizesAssumption
     DEF Init, Typed, TypeOK, PortOK, Genuine, NoSignature, Transfer

(* Types, for keys of every length and any number of runs and faults; a    *)
(* node that signs has a whole key (main.c:82-87, 137).                    *)
THEOREM TypeCorrect == Spec => []TypeOK
<1>1. Typed => TypeOK
  BY DEF Typed
<1> QED
  BY <1>1, TypeInit, TypeStep, PTL DEF Spec

(* How far DigestIsOfMessage holds: the digests of the counters with as    *)
(* many digits as the largest are those of the message alone, unless       *)
(* hashing has failed in their round; what an earlier text has left in the *)
(* buffer can spoil the shorter ones only (main.c:158-159).                *)
THEOREM LongestHashedAlone ==
  Spec => [](\A i \in DOMAIN port :
               port[i].is = "digest" /\ port[i].fresh /\ Len(Digits[port[i].at]) = MsgLen - 1
                 => port[i].of = Sprintf(Blank, port[i].at))
<1>1. Typed =>
        \A i \in DOMAIN port :
          port[i].is = "digest" /\ port[i].fresh /\ Len(Digits[port[i].at]) = MsgLen - 1
            => port[i].of = Sprintf(Blank, port[i].at)
  <2> SUFFICES ASSUME Typed, NEW i \in DOMAIN port, port[i].is = "digest", port[i].fresh,
                      Len(Digits[port[i].at]) = MsgLen - 1
               PROVE  port[i].of = Sprintf(Blank, port[i].at)
    OBVIOUS
  <2>1. port[i] \in GoodToken
    BY ElementOfSeq, LenProperties DEF Typed, PortOK
  <2>2. PrintsAs(port[i].of, port[i].at)
    BY <2>1 DEF GoodToken, Truthful
  <2> QED
    BY <2>2, LongestFills
<1> QED
  BY <1>1, TypeInit, TypeStep, PTL DEF Spec

-----------------------------------------------------------------------------
(* The key.  What the node holds ends with all that this run has written,  *)
(* when nothing is missing, and what is before that is of other runs.      *)

Sent(r, i) == IF i <= KeyLen THEN <<r, i>> ELSE Zero

BytesSoFar == {Zero} \cup ((1 .. run) \X (1 .. KeyLen))

HeldWhole ==
  /\ written <= Len(rx)
  /\ \A i \in 1 .. written : rx[Len(rx) - written + i] = Sent(run, i)
  /\ \A i \in 1 .. Len(rx) - written : rx[i] # <<run, 1>>

KeyOK ==
  /\ node = "boot" => rx = <<>> /\ missing = written
  /\ \A i \in 1 .. Len(rx) : rx[i] \in BytesSoFar
  /\ node = "waiting" /\ missing = 0 => HeldWhole

LEMMA StartKeepsKey ==
  ASSUME Typed, KeyOK, Start
  PROVE  KeyOK'
<1>1. /\ run \in Nat /\ run' = run + 1 /\ written' = 0 /\ missing' = 0
      /\ rx' = rx /\ node' = node /\ Len(rx) \in Nat
  BY LenProperties, SizesAssumption DEF Start, nodeVars, Typed, TypeOK
<1>2. \A x \in BytesSoFar : x \in BytesSoFar' /\ x # <<run', 1>>
  BY <1>1 DEF BytesSoFar, Zero
<1>3. \A i \in 1 .. Len(rx) : rx[i] \in BytesSoFar
  BY DEF KeyOK
<1>4. HeldWhole'
  <2>1. Len(rx') = Len(rx) /\ Len(rx') - written' = Len(rx)
    BY <1>1
  <2>2. \A i \in 1 .. Len(rx) : rx'[i] # <<run', 1>>
    BY <1>1, <1>2, <1>3
  <2> QED
    BY <1>1, <2>1, <2>2 DEF HeldWhole
<1> QED
  BY <1>1, <1>2, <1>3, <1>4 DEF KeyOK

LEMMA WriteKeepsKey ==
  ASSUME Typed, KeyOK, Write
  PROVE  KeyOK'
<1>1. /\ run \in Nat \ {0} /\ run' = run /\ written \in Nat /\ written < Transfer
      /\ written' = written + 1 /\ node' = node /\ missing \in Nat
      /\ rx \in Seq(Byte) /\ Len(rx) \in Nat /\ KeyLen \in Nat
  BY LenProperties, SizesAssumption DEF Write, Typed, TypeOK
<1>2. BytesSoFar' = BytesSoFar
  BY <1>1 DEF BytesSoFar
<1>3. CASE rx' = rx
  <2>1. node = "boot" => missing' = missing + 1
    BY DEF Write
  <2>2. node = "waiting" => missing' = missing + 1
    BY <1>1, <1>3 DEF Write
  <2> QED
    BY <1>1, <1>2, <1>3, <2>1, <2>2 DEF KeyOK
<1>4. CASE rx' # rx
  <2> DEFINE x == IF written < KeyLen THEN <<run, written + 1>> ELSE Zero
  <2>1. node = "waiting" /\ missing' = missing /\ rx' = Append(rx, x)
    BY <1>4 DEF Write
  <2>2. x = Sent(run, written + 1) /\ x \in BytesSoFar /\ x \in Byte
    BY <1>1 DEF Sent, BytesSoFar, Byte, Typed, TypeOK
  <2> HIDE DEF x
  <2>3. /\ Len(rx') = Len(rx) + 1 /\ rx'[Len(rx) + 1] = x
        /\ \A i \in 1 .. Len(rx) : rx'[i] = rx[i]
    BY <1>1, <2>1, <2>2
  <2>4. \A i \in 1 .. Len(rx') : rx'[i] \in BytesSoFar
    BY <1>1, <2>2, <2>3 DEF KeyOK
  <2>5. ASSUME missing = 0
        PROVE  HeldWhole'
    <3>1. HeldWhole
      BY <2>1, <2>5 DEF KeyOK
    <3>2. Len(rx') - written' = Len(rx) - written /\ Len(rx) - written \in Nat
      BY <1>1, <2>3, <3>1 DEF HeldWhole
    <3>3. ASSUME NEW i \in 1 .. Len(rx) - written
          PROVE  rx'[i] # <<run, 1>>
      <4>1. i \in 1 .. Len(rx) /\ rx'[i] = rx[i]
        BY <1>1, <2>3
      <4>2. rx[i] # <<run, 1>>
        BY <3>1 DEF HeldWhole
      <4> QED
        BY <4>1, <4>2
    <3>4. ASSUME NEW i \in 1 .. written + 1
          PROVE  rx'[Len(rx) - written + i] = Sent(run, i)
      <4>1. CASE i = written + 1
        BY <1>1, <2>2, <2>3, <4>1
      <4>2. CASE i \in 1 .. written
        <5>1. Len(rx) - written + i \in 1 .. Len(rx)
          BY <1>1, <3>2, <4>2
        <5>2. rx[Len(rx) - written + i] = Sent(run, i)
          BY <3>1, <4>2 DEF HeldWhole
        <5> QED
          BY <2>3, <5>1, <5>2
      <4> QED
        BY <1>1, <4>1, <4>2
    <3> QED
      <4>1. written' <= Len(rx')
        BY <1>1, <2>3, <3>1 DEF HeldWhole
      <4>2. ASSUME NEW i \in 1 .. written'
            PROVE  rx'[Len(rx') - written' + i] = Sent(run, i)
        BY <1>1, <3>2, <3>4
      <4>3. ASSUME NEW i \in 1 .. Len(rx') - written'
            PROVE  rx'[i] # <<run, 1>>
        BY <3>2, <3>3
      <4>4. \A i : Sent(run, i)' = Sent(run, i)
        BY <1>1 DEF Sent
      <4> QED
        BY <1>1, <4>1, <4>2, <4>3, <4>4 DEF HeldWhole
  <2> QED
    BY <1>1, <1>2, <2>1, <2>4, <2>5 DEF KeyOK
<1> QED
  BY <1>3, <1>4

LEMMA KeyStep == Typed /\ KeyOK /\ [Next]_vars => KeyOK'
<1> SUFFICES ASSUME Typed, KeyOK, [Next]_vars
             PROVE  KeyOK'
  OBVIOUS
<1> USE DEF hostVars, nodeVars
<1>1. CASE Reset \/ Poll
  <2>1. rx' = <<>> /\ Len(rx') = 0 /\ (node' = "boot" => missing' = written')
        /\ node' \in {"boot", "signing"}
    BY <1>1 DEF Reset, Poll, Initialise
  <2> QED
    BY <2>1 DEF KeyOK
<1>2. CASE Boot
  <2>1. /\ rx' = <<>> /\ Len(rx') = 0 /\ written' = written /\ missing' = written
        /\ node' # "boot" /\ written \in Nat /\ run' = run
    BY <1>2 DEF Boot, SystemClock_Config, KeyOK, Typed, TypeOK
  <2> QED
    BY <2>1 DEF KeyOK, HeldWhole
<1>3. CASE Round \/ Lose \/ Read \/ ReadTimeout \/ UNCHANGED vars
  <2>1. UNCHANGED <<run, written, missing, node, rx>>
    BY <1>3 DEF Round, Lose, Read, ReadTimeout, Take, vars
  <2> QED
    BY <2>1 DEF KeyOK, HeldWhole, BytesSoFar
<1> QED
  BY <1>1, <1>2, <1>3, StartKeepsKey, WriteKeepsKey DEF Next

LEMMA PollTakesKey ==
  ASSUME Typed, KeyOK, Poll, missing = 0, rx[1] = <<run, 1>>
  PROVE  key' \in {HostKey(run), ZeroKey}
<1>1. /\ rx \in Seq(Byte) /\ Len(rx) \in Nat /\ KeyLen \in Nat \ {0}
      /\ written \in Nat /\ Len(rx) >= KeyLen /\ HeldWhole
  BY LenProperties, SizesAssumption DEF Poll, KeyOK, Typed, TypeOK
<1>2. Len(rx) = written
  BY <1>1 DEF HeldWhole
<1>3. \A i \in 1 .. KeyLen : rx[i] = <<run, i>>
  BY <1>1, <1>2 DEF HeldWhole, Sent
<1> DEFINE first == SubSeq(rx, 1, KeyLen)
<1>4. /\ first \in Seq(Byte) /\ Len(first) = KeyLen
      /\ \A i \in 1 .. KeyLen : first[i] = <<run, i>>
  BY <1>1, <1>3, FirstProperties
<1>5. key' \in {first, ZeroKey}
  BY DEF Poll, Initialise
<1> HIDE DEF first
<1>6. first \in [1 .. KeyLen -> Byte]
  BY <1>4, LenProperties
<1>7. first = HostKey(run)
  BY <1>4, <1>6 DEF HostKey
<1> QED
  BY <1>5, <1>7

LEMMA KeyInit == Init => KeyOK
  BY DEF Init, KeyOK

(* A node that holds all of one run's bytes and none of another takes that *)
(* run's key or, when it cannot be read, none, for keys of every length    *)
(* (main.c:82-87, 137).                                                    *)
THEOREM WholeKey == Spec => LoadsWholeKey
<1> DEFINE Loads == node = "waiting" /\ node' = "signing" /\ missing = 0 /\ rx[1] = <<run, 1>>
                      => key' \in {HostKey(run), ZeroKey}
<1>1. Typed /\ KeyOK /\ [Next]_vars => [Loads]_vars
  <2>1. Typed /\ KeyOK /\ Poll => Loads
    BY PollTakesKey
  <2>2. Next /\ ~Poll => ~(node = "waiting" /\ node' = "signing")
    BY DEF Next, Start, Write, Reset, Boot, Round, Lose, Read, ReadTimeout, Take, nodeVars
  <2> QED
    BY <2>1, <2>2
<1> QED
  BY <1>1, TypeInit, TypeStep, KeyInit, KeyStep, PTL DEF Spec, LoadsWholeKey

-----------------------------------------------------------------------------
(* Bytes lost.  A node that waits has got what the run has written, but    *)
(* for what is missing.                                                    *)

Held == node = "waiting" => Len(rx) + missing >= written

LEMMA HeldStep == Typed /\ KeyOK /\ Held /\ [Next]_vars => Held'
<1> SUFFICES ASSUME Typed, KeyOK, Held, [Next]_vars
             PROVE  Held'
  OBVIOUS
<1> USE DEF hostVars, nodeVars
<1>1. /\ rx \in Seq(Byte) /\ Len(rx) \in Nat /\ written \in Nat /\ missing \in Nat
  BY LenProperties, SizesAssumption DEF Typed, TypeOK, Transfer
<1>2. CASE Start
  BY <1>1, <1>2 DEF Start, Held
<1>3. CASE Write
  <2>1. CASE rx' = rx
    <3>1. node = "waiting" => missing' = missing + 1
      <4>1. ASSUME NEW x
            PROVE  rx # Append(rx, x)
        <5>1. Len(Append(rx, x)) = Len(rx) + 1
          BY <1>1
        <5> QED
          BY <1>1, <5>1
      <4> QED
        BY <1>3, <2>1, <4>1 DEF Write
    <3> QED
      BY <1>1, <1>3, <2>1, <3>1 DEF Write, Held
  <2>2. CASE rx' # rx
    <3>1. PICK x : rx' = Append(rx, x)
      BY <1>3, <2>2 DEF Write
    <3>2. Len(rx') = Len(rx) + 1
      BY <1>1, <3>1
    <3> QED
      BY <1>1, <1>3, <2>2, <3>2 DEF Write, Held
  <2> QED
    BY <2>1, <2>2
<1>4. CASE Boot
  <2>1. rx' = <<>> /\ missing' = written /\ written' = written
    BY <1>4 DEF Boot, KeyOK
  <2> QED
    BY <1>1, <2>1 DEF Held
<1>5. CASE Reset \/ Poll
  BY <1>5 DEF Reset, Poll, Initialise, Held
<1>6. CASE Round \/ Lose \/ Read \/ ReadTimeout \/ UNCHANGED vars
  <2>1. UNCHANGED <<written, missing, node, rx>>
    BY <1>6 DEF Round, Lose, Read, ReadTimeout, Take, vars
  <2> QED
    BY <2>1 DEF Held
<1> QED
  BY <1>2, <1>3, <1>4, <1>5, <1>6 DEF Next

(* Once a run has written all and at most one of its bytes is missing, the *)
(* node signs, has stopped, or can leave the loop that waits for the key,  *)
(* for keys of every length and wherever runs, resets and losses have      *)
(* struck: what StartsDespiteOneLoss promises is then up to the fairness   *)
(* of Poll alone (main.c:83-87, ECDSA_provideKeyAndVerify.py:32-33).       *)
THEOREM EnoughToStart ==
  Spec => [](Finished /\ missing <= 1 =>
               \/ node \in {"signing", "stopped"}
               \/ node = "waiting" /\ Len(rx) >= KeyLen)
<1>1. Init => Held
  BY DEF Init, Held
<1>2. Typed /\ KeyOK /\ Held =>
        (Finished /\ missing <= 1 =>
           \/ node \in {"signing", "stopped"}
           \/ node = "waiting" /\ Len(rx) >= KeyLen)
  <2> SUFFICES ASSUME Typed, KeyOK, Held, Finished, missing <= 1,
                      node \notin {"signing", "stopped"}
               PROVE  node = "waiting" /\ Len(rx) >= KeyLen
    OBVIOUS
  <2>1. /\ Len(rx) \in Nat /\ missing \in Nat /\ KeyLen \in Nat \ {0}
        /\ written = KeyLen + 1
    BY LenProperties, SizesAssumption DEF Typed, TypeOK, Transfer, Finished
  <2>2. node # "boot"
    BY <2>1 DEF KeyOK
  <2>3. node = "waiting"
    BY <2>2 DEF Typed, TypeOK
  <2>4. Len(rx) >= KeyLen
    BY <2>1, <2>3 DEF Held
  <2> QED
    BY <2>3, <2>4
<1> QED
  BY <1>1, <1>2, TypeInit, TypeStep, KeyInit, KeyStep, HeldStep, PTL DEF Spec

-----------------------------------------------------------------------------
(* What the script reads.                                                  *)

(* The data are the tokens up to the k-th, none before which ends a line.  *)
ReadsUpTo(k) ==
  /\ k \in 1 .. Len(port)
  /\ Data = SubSeq(port, 1, k)
  /\ shown' = Verdict(Data)
  /\ \A i \in 1 .. k - 1 : port[i].is # "nl"

LEMMA ReadsFacts ==
  ASSUME Typed, [Next]_vars, Reads
  PROVE  \E k \in 1 .. Len(port) : ReadsUpTo(k)
<1>0. port \in Seq(GoodToken) /\ Len(port) \in Nat /\ DOMAIN port = 1 .. Len(port)
  BY LenProperties DEF Typed, PortOK
<1>1. Len(port') < Len(port) /\ run' = run /\ faults' = faults
  BY DEF Reads
<1>2. run \in Nat /\ faults \in Nat
  BY SizesAssumption DEF Typed, TypeOK
<1>3. ~Start /\ ~Reset /\ ~Lose
  BY <1>1, <1>2 DEF Start, Reset, Lose, Fault
<1>4. ~Write /\ ~UNCHANGED vars
  BY <1>0, <1>1 DEF Write, vars
<1>5. ~Boot /\ ~Poll
  <2>1. Boot \/ Poll => port' = port \/ port' = port \o Banner
    BY DEF Boot, Poll, Initialise
  <2>2. port \in Seq(GoodToken) /\ Banner \in Seq(GoodToken)
    BY <1>0, BannerProperties
  <2>3. port' = port \o Banner => Len(port') = Len(port) + Len(Banner)
    BY <2>2, JoinProperties
  <2> QED
    BY <1>0, <1>1, <2>1, <2>3, BannerProperties
<1>6. ~Round
  <2> SUFFICES ASSUME Round
               PROVE  FALSE
    OBVIOUS
  <2> PICK f \in BOOLEAN : Printed(f)
    BY RoundFacts
  <2> DEFINE l == RoundLine(counter, digest', f, signature')
  <2>1. l \in Seq(GoodToken)
    BY DEF Printed, IsRoundLine
  <2>2. port' = port \o l
    BY DEF Printed
  <2> HIDE DEF l
  <2>3. Len(port') = Len(port) + Len(l) /\ Len(l) \in Nat
    BY <1>0, <2>1, <2>2, JoinProperties
  <2> QED
    BY <1>0, <1>1, <2>3
<1>7. PICK k \in DOMAIN port :
        /\ shown' = Verdict(SubSeq(port, 1, k))
        /\ port' = From(port, k) \/ port' = CutFirst(From(port, k))
        /\ \A i \in NewLines : k <= i
  <2>1. CASE Read
    BY <2>1 DEF Read, Take, NewLines
  <2>2. CASE ReadTimeout
    <3>1. PICK k \in DOMAIN port :
            /\ shown' = Verdict(SubSeq(port, 1, k))
            /\ port' = CutFirst(From(port, k))
            /\ \A i \in NewLines : k < i
      BY <2>2 DEF ReadTimeout, Take
    <3>2. \A i \in NewLines : k <= i
      BY <1>0, <3>1 DEF NewLines
    <3> QED
      BY <3>1, <3>2
  <2> QED
    BY <1>3, <1>4, <1>5, <1>6, <2>1, <2>2 DEF Next
<1>8. k \in 1 .. Len(port) /\ k \in 0 .. Len(port)
  BY <1>0, <1>7
<1>9. Len(port') = Len(port) - k
  BY <1>0, <1>7, <1>8, FromProperties, CutFirstProperties
<1>10. Data = SubSeq(port, 1, k)
  <2>1. Len(port) - Len(port') = k
    BY <1>0, <1>8, <1>9
  <2> QED
    BY <2>1 DEF Data
<1>11. \A i \in 1 .. k - 1 : port[i].is # "nl"
  BY <1>0, <1>7, <1>8 DEF NewLines
<1> QED
  BY <1>7, <1>8, <1>10, <1>11 DEF ReadsUpTo

LEMMA DataProperties ==
  ASSUME Typed, NEW k, ReadsUpTo(k)
  PROVE  /\ Data \in Seq(GoodToken) /\ Len(Data) = k /\ k \in Nat \ {0}
         /\ \A i \in 1 .. k : Data[i] = port[i]
         /\ \A i \in 1 .. k - 1 : Data[i].is # "nl"
<1>1. port \in Seq(GoodToken) /\ Len(port) \in Nat /\ k \in 1 .. Len(port) /\ k \in 0 .. Len(port)
  BY LenProperties DEF Typed, PortOK, ReadsUpTo
<1>2. /\ Data \in Seq(GoodToken) /\ Len(Data) = k
      /\ \A i \in 1 .. k : Data[i] = port[i]
  BY <1>1, FirstProperties DEF ReadsUpTo
<1> QED
  BY <1>1, <1>2 DEF ReadsUpTo

LEMMA StripProperties ==
  ASSUME NEW p \in Seq(GoodToken), Len(p) > 0
  PROVE  /\ Strip(p) \in Seq(GoodToken)
         /\ Len(Strip(p)) = IF p[Len(p)].is = "nl" THEN Len(p) - 1 ELSE Len(p)
         /\ Len(Strip(p)) \in Nat
         /\ \A i \in 1 .. Len(Strip(p)) : Strip(p)[i] = p[i]
<1>1. Len(p) \in Nat \ {0} /\ Len(p) - 1 \in 0 .. Len(p) /\ p # <<>>
  BY LenProperties
<1> QED
  BY <1>1, FirstProperties DEF Strip

(* Where the parts of a line that is well formed are.                      *)
FormedAt(line, l, j) ==
  /\ l = Strip(line) /\ l \in Seq(GoodToken)
  /\ j \in Nat /\ j > 2 /\ Len(l) = j + SigWords
  /\ Blanks(l) = {j - 2, j}
  /\ l[j - 1].is = "digest" /\ DigestIn(line) = l[j - 1]
  /\ l[j + 1].is = "word" /\ WordsIn(line)[1] = l[j + 1]

LEMMA Formed ==
  ASSUME NEW line \in Seq(GoodToken), Len(line) > 0, WellFormed(line)
  PROVE  FormedAt(line, Strip(line), Len(Strip(line)) - SigWords)
<1> DEFINE l == Strip(line)
           j == Len(l) - SigWords
<1>1. l = Strip(line) /\ l \in Seq(GoodToken) /\ Len(l) \in Nat
  BY StripProperties
<1>2. /\ j > 2 /\ Blanks(l) = {j - 2, j} /\ l[j - 1].is = "digest"
      /\ \A n \in 1 .. SigWords : l[j + n].is = "word"
  BY DEF WellFormed
<1>3. DigestIn(line) = l[j - 1]
  BY DEF DigestIn
<1>4. WordsIn(line) = SubSeq(l, j + 1, Len(l))
  BY DEF WordsIn
<1>5. j = Len(l) - SigWords
  OBVIOUS
<1> HIDE DEF l, j
<1>6. j \in Nat /\ Len(l) = j + SigWords /\ 1 \in 1 .. SigWords
  BY <1>1, <1>2, <1>5, SizesAssumption
<1>7. SubSeq(l, j + 1, Len(l))[1] = l[j + 1]
  <2>1. \A i \in j + 1 .. Len(l) : l[i] \in GoodToken
    BY <1>1, <1>6, ElementOfSeq
  <2>2. j + 1 \in Int /\ Len(l) \in Int /\ 1 \in 1 .. Len(l) - (j + 1) + 1 /\ (j + 1) + 1 - 1 = j + 1
    BY <1>6, SizesAssumption
  <2> QED
    BY <2>1, <2>2, SubSeqProperties
<1> QED
  BY <1>1, <1>2, <1>3, <1>4, <1>5, <1>6, <1>7 DEF FormedAt, l, j

LEMMA VerifiedFacts ==
  ASSUME NEW line \in Seq(GoodToken), Len(line) > 0, Verdict(line) = "verified"
  PROVE  /\ FormedAt(line, Strip(line), Len(Strip(line)) - SigWords)
         /\ WordsIn(line)[1].sig.digest = DigestIn(line).of
<1>1. Verifies(line)
  BY DEF Verdict
<1> QED
  BY <1>1, Formed DEF Verifies

(* A verified signature was made in the round of the digest in its line,   *)
(* or whole cycles of the counter before, at any width of the counter,     *)
(* unless hashing has failed in one of the two (main.c:158-168).           *)
THEOREM SignedThen == Spec => VerifiedWasSigned
<1> DEFINE d == DigestIn(Data)
           s == WordsIn(Data)[1].sig
           Good == Reads /\ shown' = "verified" /\ d.fresh /\ s.fresh => s.at = d.at
<1>1. Typed /\ [Next]_vars => [Good]_vars
  <2> SUFFICES ASSUME Typed, [Next]_vars, Reads, shown' = "verified", d.fresh, s.fresh
               PROVE  s.at = d.at
    OBVIOUS
  <2>1. PICK k \in 1 .. Len(port) : ReadsUpTo(k)
    BY ReadsFacts
  <2>2. Data \in Seq(GoodToken) /\ Len(Data) > 0 /\ Verdict(Data) = "verified"
    BY <2>1, DataProperties DEF ReadsUpTo
  <2> DEFINE l == Strip(Data)
             j == Len(l) - SigWords
  <2>3. FormedAt(Data, l, j) /\ WordsIn(Data)[1].sig.digest = DigestIn(Data).of
    BY <2>2, VerifiedFacts
  <2> HIDE DEF l, j
  <2>4. l[j - 1] \in GoodToken /\ l[j + 1] \in GoodToken
    <3>1. j - 1 \in 1 .. Len(l) /\ j + 1 \in 1 .. Len(l)
      BY <2>3, SizesAssumption DEF FormedAt
    <3> QED
      BY <2>3, <3>1, ElementOfSeq DEF FormedAt
  <2>5. PrintsAs(d.of, d.at) /\ PrintsAs(s.digest, s.at)
    BY <2>3, <2>4 DEF FormedAt, GoodToken, Truthful, Genuine
  <2> QED
    BY <2>3, <2>5, PrintsOne
<1> QED
  BY <1>1, TypeInit, TypeStep, PTL DEF Spec, VerifiedWasSigned

-----------------------------------------------------------------------------
(* The order of the tokens.  A run of tokens without a gap, in which no    *)
(* line begins anew, is part of a line that was printed; and when it is at *)
(* the beginning of a line, it is the beginning of that one.               *)

ALine(l) ==
  \/ l = Banner
  \/ \E c \in Counters, b \in Buffer, f \in BOOLEAN, s \in Signature : IsRoundLine(l, c, b, f, s)

Window(p, a, b) ==
  /\ a \in 1 .. Len(p) /\ b \in a .. Len(p)
  /\ \A k \in a .. b : ~p[k].cut
  /\ \A k \in a + 1 .. b : p[k].is # "text"
  /\ \A k \in a .. b - 1 : p[k].is # "nl"

AtLineStart(p, a) == a = 1 \/ p[a - 1].is = "nl"

PartOf(p, a, b, l, o) ==
  \A k \in a .. b : k - a + 1 + o \in 1 .. Len(l) /\ p[k] = l[k - a + 1 + o]

Explained(p, a, b) ==
  \E l \in Seq(GoodToken), o \in Nat :
    ALine(l) /\ PartOf(p, a, b, l, o) /\ (AtLineStart(p, a) => o = 0)

Orderly(p) == \A a, b \in 1 .. Len(p) : Window(p, a, b) => Explained(p, a, b)

LEMMA LineEnds ==
  ASSUME NEW l, ALine(l)
  PROVE  /\ l \in Seq(GoodToken) /\ Len(l) \in Nat /\ Len(l) >= 4
         /\ \A k \in 1 .. Len(l) - 1 : l[k].is # "nl"
         /\ l[Len(l)].is = "nl"
<1>1. CASE l = Banner
  <2>1. /\ l \in Seq(GoodToken) /\ Len(l) = 4
        /\ l[1] = Text /\ l[2] = Sp /\ l[3] = Text /\ l[4] = Nl
    BY <1>1, BannerProperties
  <2>2. Text.is # "nl" /\ Sp.is # "nl" /\ Nl.is = "nl"
    BY DEF Text, Sp, Nl, Mark
  <2>3. \A k \in 1 .. 3 : k = 1 \/ k = 2 \/ k = 3
    OBVIOUS
  <2> QED
    BY <2>1, <2>2, <2>3
<1>2. ASSUME NEW c \in Counters, NEW b \in Buffer, NEW f \in BOOLEAN,
         NEW s \in Signature, IsRoundLine(l, c, b, f, s)
      PROVE  /\ l \in Seq(GoodToken) /\ Len(l) \in Nat /\ Len(l) >= 4
             /\ \A k \in 1 .. Len(l) - 1 : l[k].is # "nl"
             /\ l[Len(l)].is = "nl"
  <2> DEFINE w == WordCount(s)
  <2>1. w \in Nat /\ Len(l) = w + 5 /\ l \in Seq(GoodToken)
    BY <1>2, SizesAssumption DEF IsRoundLine
  <2>2. /\ l[1].is # "nl" /\ l[2].is # "nl" /\ l[3].is # "nl" /\ l[4].is # "nl"
        /\ \A n \in 1 .. w : l[n + 4].is # "nl"
        /\ l[w + 5].is = "nl"
    <3>1. /\ Message(c).is # "nl" /\ Sp.is # "nl" /\ DigestOf(b, c, f).is # "nl"
          /\ \A n \in 1 .. w : Word(s, n).is # "nl"
          /\ Nl.is = "nl"
      BY DEF Message, Sp, Nl, Mark, DigestOf, Word
    <3>2. /\ l[1] = Message(c) /\ l[2] = Sp /\ l[3] = DigestOf(b, c, f) /\ l[4] = Sp
          /\ \A n \in 1 .. w : l[n + 4] = Word(s, n)
          /\ l[w + 5] = Nl
      BY <1>2 DEF IsRoundLine
    <3> HIDE DEF w
    <3> QED
      BY <3>1, <3>2
  <2> HIDE DEF w
  <2>3. ASSUME NEW k \in 1 .. Len(l) - 1
        PROVE  l[k].is # "nl"
    <3>1. k \in {1, 2, 3, 4} \/ (k - 4 \in 1 .. w /\ (k - 4) + 4 = k)
      BY <2>1
    <3> QED
      BY <2>2, <3>1
  <2> QED
    BY <2>1, <2>2, <2>3
<1> QED
  BY <1>1, <1>2 DEF ALine

(* What was explained stays so when it is moved along with its surroundings. *)
LEMMA Shifted ==
  ASSUME NEW p \in Seq(GoodToken), NEW q \in Seq(GoodToken), Orderly(p),
         NEW a \in Nat, NEW b \in Nat, NEW d \in Int, Window(q, a, b),
         1 <= a + d, b + d <= Len(p),
         \A k \in a .. b : q[k] = p[k + d],
         AtLineStart(q, a) => AtLineStart(p, a + d)
  PROVE  Explained(q, a, b)
<1>1. Len(p) \in Nat /\ Len(q) \in Nat /\ a <= b
  BY LenProperties DEF Window
<1>2. \A k \in a + d .. b + d : k - d \in a .. b /\ p[k] = q[k - d]
  <2> SUFFICES ASSUME NEW k \in a + d .. b + d
               PROVE  k - d \in a .. b /\ p[k] = q[k - d]
    OBVIOUS
  <2>1. k - d \in a .. b /\ (k - d) + d = k
    BY <1>1
  <2> QED
    BY <2>1
<1>3. Window(p, a + d, b + d)
  <2>1. \A k \in a + d .. b + d : ~p[k].cut
    BY <1>2 DEF Window
  <2>2. ASSUME NEW k \in a + d + 1 .. b + d
        PROVE  p[k].is # "text"
    <3>1. k \in a + d .. b + d /\ k - d \in a + 1 .. b
      BY <1>1
    <3> QED
      BY <1>2, <3>1 DEF Window
  <2>3. ASSUME NEW k \in a + d .. b + d - 1
        PROVE  p[k].is # "nl"
    <3>1. k \in a + d .. b + d /\ k - d \in a .. b - 1
      BY <1>1
    <3> QED
      BY <1>2, <3>1 DEF Window
  <2>4. a + d \in 1 .. Len(p) /\ b + d \in a + d .. Len(p)
    <3>1. a + d <= b + d /\ a + d <= Len(p)
      BY <1>1
    <3> QED
      BY <1>1, <3>1
  <2> DEFINE m == a + d
             n == b + d
  <2>5. /\ m \in 1 .. Len(p) /\ n \in m .. Len(p)
        /\ \A k \in m .. n : ~p[k].cut
        /\ \A k \in m + 1 .. n : p[k].is # "text"
        /\ \A k \in m .. n - 1 : p[k].is # "nl"
    BY <2>1, <2>2, <2>3, <2>4
  <2> HIDE DEF m, n
  <2>6. Window(p, m, n)
    BY <2>5, Zenon DEF Window
  <2> QED
    BY <2>6 DEF m, n
<1>4. Explained(p, a + d, b + d)
  <2>1. a + d \in 1 .. Len(p) /\ b + d \in 1 .. Len(p)
    BY <1>1
  <2> QED
    BY <1>3, <2>1 DEF Orderly
<1>5. PICK l \in Seq(GoodToken), o \in Nat :
        /\ ALine(l) /\ PartOf(p, a + d, b + d, l, o)
        /\ AtLineStart(p, a + d) => o = 0
  BY <1>4 DEF Explained
<1>6. ASSUME NEW k \in a .. b
      PROVE  k - a + 1 + o \in 1 .. Len(l) /\ q[k] = l[k - a + 1 + o]
  <2>1. k + d \in a + d .. b + d /\ (k + d) - (a + d) + 1 + o = k - a + 1 + o
    BY <1>1
  <2>2. /\ (k + d) - (a + d) + 1 + o \in 1 .. Len(l)
        /\ p[k + d] = l[(k + d) - (a + d) + 1 + o]
    BY <1>5, <2>1 DEF PartOf
  <2> QED
    BY <2>1, <2>2
<1> QED
  BY <1>5, <1>6 DEF Explained, PartOf

LEMMA OrderlyEmpty == Orderly(<<>>)
  BY DEF Orderly, Window

LEMMA OrderlyFirst ==
  ASSUME NEW p \in Seq(GoodToken), Orderly(p), NEW k \in 0 .. Len(p)
  PROVE  Orderly(SubSeq(p, 1, k))
<1> DEFINE q == SubSeq(p, 1, k)
<1>1. /\ q \in Seq(GoodToken) /\ Len(q) = k /\ Len(p) \in Nat
      /\ \A i \in 1 .. k : q[i] = p[i]
  BY FirstProperties, LenProperties
<1> HIDE DEF q
<1>2. ASSUME NEW a \in 1 .. Len(q), NEW b \in 1 .. Len(q), Window(q, a, b)
      PROVE  Explained(q, a, b)
  <2> DEFINE d == 0
  <2>1. \A i \in a .. b : q[i] = p[i + d]
    BY <1>1
  <2>2. AtLineStart(q, a) => AtLineStart(p, a + d)
    BY <1>1 DEF AtLineStart
  <2>3. /\ a \in Nat /\ b \in Nat /\ d \in Int /\ 1 <= a + d /\ b + d <= Len(p)
        /\ q \in Seq(GoodToken)
    BY <1>1
  <2> HIDE DEF d
  <2> QED
    BY <1>2, <2>1, <2>2, <2>3, Shifted
<1> QED
  BY <1>2 DEF Orderly, q

LEMMA OrderlyFrom ==
  ASSUME NEW p \in Seq(GoodToken), Orderly(p), NEW k \in 1 .. Len(p), p[k].is = "nl"
  PROVE  Orderly(From(p, k))
<1> DEFINE q == From(p, k)
<1>1. /\ q \in Seq(GoodToken) /\ Len(q) = Len(p) - k /\ Len(p) \in Nat
      /\ \A i \in 1 .. Len(q) : q[i] = p[i + k]
  BY FromProperties, LenProperties
<1> HIDE DEF q
<1>2. ASSUME NEW a \in 1 .. Len(q), NEW b \in 1 .. Len(q), Window(q, a, b)
      PROVE  Explained(q, a, b)
  <2>1. ASSUME NEW i \in a .. b
        PROVE  q[i] = p[i + k]
    <3>1. i \in 1 .. Len(q)
      OBVIOUS
    <3> QED
      BY <1>1, <3>1
  <2>2. AtLineStart(q, a) => AtLineStart(p, a + k)
    <3>1. a = 1 => p[(a + k) - 1].is = "nl"
      OBVIOUS
    <3>2. a # 1 => q[a - 1] = p[(a + k) - 1]
      <4>1. a # 1 => a - 1 \in 1 .. Len(q) /\ (a - 1) + k = (a + k) - 1
        BY <1>1
      <4> QED
        BY <1>1, <4>1
    <3> QED
      BY <3>1, <3>2 DEF AtLineStart
  <2>3. /\ a \in Nat /\ b \in Nat /\ k \in Int /\ 1 <= a + k /\ b + k <= Len(p)
        /\ q \in Seq(GoodToken)
    BY <1>1
  <2> QED
    BY <1>2, <2>1, <2>2, <2>3, Shifted
<1> QED
  BY <1>2 DEF Orderly, q

(* Behind a gap, the tokens are as they were, but for the first.           *)
LEMMA CutFromProperties ==
  ASSUME NEW p \in Seq(GoodToken), NEW k \in 0 .. Len(p)
  PROVE  /\ CutFirst(From(p, k)) \in Seq(GoodToken)
         /\ Len(p) \in Nat /\ Len(CutFirst(From(p, k))) = Len(p) - k
         /\ k < Len(p) => CutFirst(From(p, k))[1].cut
         /\ \A i \in 1 .. Len(p) - k : CutFirst(From(p, k))[i].is = p[i + k].is
         /\ \A i \in 2 .. Len(p) - k : CutFirst(From(p, k))[i] = p[i + k]
<1> DEFINE f == From(p, k)
           q == CutFirst(f)
<1>1. /\ f \in Seq(GoodToken) /\ Len(f) = Len(p) - k /\ Len(p) \in Nat
      /\ \A i \in 1 .. Len(p) - k : f[i] = p[i + k]
  BY FromProperties, LenProperties
<1> HIDE DEF f
<1>2. /\ q \in Seq(GoodToken) /\ Len(q) = Len(f)
      /\ \A i \in 2 .. Len(f) : q[i] = f[i]
      /\ f # <<>> => q[1].cut /\ q[1].is = f[1].is
  BY <1>1, CutFirstProperties
<1> HIDE DEF q
<1>3. k < Len(p) => f # <<>>
  BY <1>1, EmptySeq
<1>4. \A i \in 2 .. Len(p) - k : q[i] = p[i + k]
  BY <1>1, <1>2
<1>5. \A i \in 1 .. Len(p) - k : q[i].is = p[i + k].is
  BY <1>1, <1>2, <1>3, <1>4
<1> QED
  BY <1>1, <1>2, <1>3, <1>4, <1>5 DEF q, f

LEMMA OrderlyCutFrom ==
  ASSUME NEW p \in Seq(GoodToken), Orderly(p), NEW k \in 0 .. Len(p)
  PROVE  Orderly(CutFirst(From(p, k)))
<1> DEFINE q == CutFirst(From(p, k))
<1>1. /\ q \in Seq(GoodToken) /\ Len(q) = Len(p) - k /\ Len(p) \in Nat
      /\ k < Len(p) => q[1].cut
      /\ \A i \in 1 .. Len(q) : q[i].is = p[i + k].is
      /\ \A i \in 2 .. Len(q) : q[i] = p[i + k]
  BY CutFromProperties
<1> HIDE DEF q
<1>2. ASSUME NEW a \in 1 .. Len(q), NEW b \in 1 .. Len(q), Window(q, a, b)
      PROVE  Explained(q, a, b)
  <2>1. a # 1
    BY <1>1, <1>2 DEF Window
  <2>2. \A i \in a .. b : q[i] = p[i + k]
    BY <1>1, <2>1
  <2>3. AtLineStart(q, a) => AtLineStart(p, a + k)
    <3>1. a - 1 \in 1 .. Len(q) /\ (a - 1) + k = (a + k) - 1
      BY <1>1, <2>1
    <3> QED
      BY <1>1, <2>1, <3>1 DEF AtLineStart
  <2>4. /\ a \in Nat /\ b \in Nat /\ k \in Int /\ 1 <= a + k /\ b + k <= Len(p)
        /\ q \in Seq(GoodToken)
    BY <1>1
  <2> QED
    BY <1>2, <2>2, <2>3, <2>4, Shifted
<1> QED
  BY <1>2 DEF Orderly, q

LEMMA OrderlyLost ==
  ASSUME NEW p \in Seq(GoodToken), Orderly(p),
         NEW i \in 1 .. Len(p), NEW j \in 1 .. Len(p), i < j
  PROVE  Orderly(SubSeq(p, 1, i - 1) \o CutFirst(From(p, j - 1)))
<1> DEFINE f == SubSeq(p, 1, i - 1)
           r == CutFirst(From(p, j - 1))
           q == f \o r
           d == j - i
<1>0. Len(p) \in Nat /\ i - 1 \in 0 .. Len(p) /\ j - 1 \in 0 .. Len(p) /\ j - 1 < Len(p) /\ d \in Nat
  BY LenProperties
<1>1. /\ f \in Seq(GoodToken) /\ Len(f) = i - 1
      /\ \A m \in 1 .. i - 1 : f[m] = p[m]
  BY <1>0, FirstProperties
<1>2. /\ r \in Seq(GoodToken) /\ Len(r) = Len(p) - (j - 1)
      /\ r[1].cut
      /\ \A m \in 1 .. Len(p) - (j - 1) : r[m].is = p[m + (j - 1)].is
      /\ \A m \in 2 .. Len(p) - (j - 1) : r[m] = p[m + (j - 1)]
  BY <1>0, CutFromProperties
<1>3. q = f \o r /\ j = i + d
  BY <1>0
<1> HIDE DEF f, r, q, d
<1>4. f \in Seq(GoodToken) /\ r \in Seq(GoodToken)
  BY <1>1, <1>2
<1>5. /\ q \in Seq(GoodToken) /\ Len(q) = Len(f) + Len(r)
      /\ \A m \in 1 .. Len(f) : q[m] = f[m]
      /\ \A m \in 1 .. Len(r) : q[Len(f) + m] = r[m]
  BY <1>3, <1>4, JoinProperties
<1>6. Len(q) = Len(p) - d /\ \A m \in 1 .. i - 1 : q[m] = p[m]
  BY <1>0, <1>1, <1>2, <1>3, <1>5
<1>7. ASSUME NEW m \in i .. Len(q)
      PROVE  q[m].is = p[m + d].is /\ (m = i => q[m].cut) /\ (m # i => q[m] = p[m + d])
  <2> DEFINE x == m - (i - 1)
  <2>1. x \in 1 .. Len(p) - (j - 1) /\ (m # i => x \in 2 .. Len(p) - (j - 1))
        /\ (m = i => x = 1) /\ x + (j - 1) = m + d /\ Len(f) + x = m
    BY <1>0, <1>1, <1>3, <1>6
  <2> HIDE DEF x
  <2>2. q[m] = r[x]
    BY <1>2, <1>5, <2>1
  <2> QED
    BY <1>2, <2>1, <2>2
<1>8. ASSUME NEW a \in 1 .. Len(q), NEW b \in 1 .. Len(q), Window(q, a, b)
      PROVE  Explained(q, a, b)
  <2>0. a <= b /\ \A m \in a .. b : ~q[m].cut
    BY <1>8, <1>0, <1>6 DEF Window
  <2>1. CASE b < i
    <3> DEFINE e == 0
    <3>1. \A m \in a .. b : q[m] = p[m + e]
      BY <1>0, <1>6, <2>1
    <3>2. AtLineStart(q, a) => AtLineStart(p, a + e)
      BY <1>0, <1>6, <2>0, <2>1 DEF AtLineStart
    <3>3. a \in Nat /\ b \in Nat /\ e \in Int /\ 1 <= a + e /\ b + e <= Len(p)
          /\ q \in Seq(GoodToken)
      BY <1>0, <1>5, <1>6, <2>1
    <3> HIDE DEF e
    <3> QED
      BY <1>8, <3>1, <3>2, <3>3, Shifted
  <2>2. CASE a > i
    <3>1. ASSUME NEW m \in a .. b
          PROVE  q[m] = p[m + d]
      <4>1. m \in i .. Len(q) /\ m # i
        BY <1>0, <1>6, <2>2
      <4> QED
        BY <1>7, <4>1
    <3>2. AtLineStart(q, a) => AtLineStart(p, a + d)
      <4>1. a - 1 \in i .. Len(q) /\ (a - 1) + d = (a + d) - 1 /\ a # 1
        BY <1>0, <1>6, <2>2
      <4>2. q[a - 1].is = p[(a - 1) + d].is
        BY <1>7, <4>1
      <4> QED
        BY <4>1, <4>2 DEF AtLineStart
    <3>3. a \in Nat /\ b \in Nat /\ d \in Int /\ 1 <= a + d /\ b + d <= Len(p)
          /\ q \in Seq(GoodToken)
      BY <1>0, <1>5, <1>6
    <3> QED
      BY <1>8, <3>1, <3>2, <3>3, Shifted
  <2>3. ~(a <= i /\ i <= b)
    <3> SUFFICES ASSUME a <= i, i <= b
                 PROVE  FALSE
      OBVIOUS
    <3>1. i \in a .. b /\ i \in i .. Len(q)
      BY <1>0, <1>6
    <3> QED
      BY <1>7, <2>0, <3>1
  <2> QED
    BY <1>0, <1>6, <2>1, <2>2, <2>3
<1> QED
  BY <1>8 DEF Orderly, q, f, r

LEMMA OrderlyDamaged ==
  ASSUME NEW p \in Seq(GoodToken), Orderly(p), NEW i \in 1 .. Len(p), NEW t \in GoodToken,
         t.cut, t.is # "nl"
  PROVE  Orderly([p EXCEPT ![i] = t])
<1> DEFINE q == [p EXCEPT ![i] = t]
           e == 0
<1>1. /\ q \in Seq(GoodToken) /\ Len(q) = Len(p) /\ Len(p) \in Nat
      /\ \A m \in 1 .. Len(p) : q[m] = IF m = i THEN t ELSE p[m]
  BY ExceptSeq, LenProperties
<1> HIDE DEF q
<1>2. ASSUME NEW a \in 1 .. Len(q), NEW b \in 1 .. Len(q), Window(q, a, b)
      PROVE  Explained(q, a, b)
  <2>1. \A m \in a .. b : m # i
    BY <1>1, <1>2 DEF Window
  <2>2. \A m \in a .. b : q[m] = p[m + e]
    BY <1>1, <2>1
  <2>3. AtLineStart(q, a) => AtLineStart(p, a + e)
    BY <1>1 DEF AtLineStart
  <2>4. a \in Nat /\ b \in Nat /\ e \in Int /\ 1 <= a + e /\ b + e <= Len(p)
        /\ q \in Seq(GoodToken)
    BY <1>1
  <2> HIDE DEF e
  <2> QED
    BY <1>2, <2>2, <2>3, <2>4, Shifted
<1> QED
  BY <1>2 DEF Orderly, q

(* A line is printed where a line begins, or begins with text.             *)
LEMMA OrderlyPrinted ==
  ASSUME NEW p \in Seq(GoodToken), Orderly(p), NEW l, ALine(l),
         Len(p) > 0 => p[Len(p)].is = "nl" \/ l[1].is = "text"
  PROVE  Orderly(p \o l)
<1> DEFINE q == p \o l
           n == Len(p)
<1>1. /\ l \in Seq(GoodToken) /\ Len(l) \in Nat /\ Len(l) >= 4 /\ n \in Nat
      /\ \A k \in 1 .. Len(l) - 1 : l[k].is # "nl"
  BY LineEnds, LenProperties
<1>2. q = p \o l /\ l \in Seq(GoodToken)
  BY <1>1
<1> HIDE DEF q
<1>3. /\ q \in Seq(GoodToken) /\ Len(q) = Len(p) + Len(l)
      /\ \A m \in 1 .. Len(p) : q[m] = p[m]
      /\ \A m \in 1 .. Len(l) : q[Len(p) + m] = l[m]
  BY <1>2, JoinProperties
<1>4. ASSUME NEW m \in n + 1 .. Len(q)
      PROVE  m - n \in 1 .. Len(l) /\ q[m] = l[m - n]
  <2>1. m - n \in 1 .. Len(l) /\ Len(p) + (m - n) = m
    BY <1>1, <1>3
  <2> QED
    BY <1>3, <2>1
<1>5. ASSUME NEW a \in 1 .. Len(q), NEW b \in 1 .. Len(q), Window(q, a, b)
      PROVE  Explained(q, a, b)
  <2>0. a <= b
    BY <1>5 DEF Window
  <2>1. CASE b <= n
    <3> DEFINE e == 0
    <3>1. \A m \in a .. b : q[m] = p[m + e]
      BY <1>1, <1>3, <2>1
    <3>2. AtLineStart(q, a) => AtLineStart(p, a + e)
      <4>1. a + e = a /\ (a # 1 => a - 1 \in 1 .. Len(p))
        BY <1>1, <2>0, <2>1
      <4>2. a # 1 => q[a - 1] = p[a - 1]
        BY <1>3, <4>1
      <4> QED
        BY <4>1, <4>2 DEF AtLineStart
    <3>3. a \in Nat /\ b \in Nat /\ e \in Int /\ 1 <= a + e /\ b + e <= Len(p)
          /\ q \in Seq(GoodToken)
      BY <1>3, <2>1
    <3> HIDE DEF e
    <3> QED
      BY <1>5, <3>1, <3>2, <3>3, Shifted
  <2>2. CASE n < a
    <3> DEFINE o == a - n - 1
    <3>1. o \in Nat
      BY <1>1, <2>2
    <3>2. ASSUME NEW m \in a .. b
          PROVE  m - a + 1 + o \in 1 .. Len(l) /\ q[m] = l[m - a + 1 + o]
      <4>1. m \in n + 1 .. Len(q) /\ m - a + 1 + o = m - n
        BY <1>1, <1>3, <2>2
      <4> QED
        BY <1>4, <4>1
    <3>3. AtLineStart(q, a) => o = 0
      <4> SUFFICES ASSUME AtLineStart(q, a), o # 0
                   PROVE  FALSE
        OBVIOUS
      <4>1. a # 1 /\ a - 1 \in n + 1 .. Len(q) /\ (a - 1) - n \in 1 .. Len(l) - 1
        BY <1>1, <1>3, <2>2
      <4>2. q[a - 1] = l[(a - 1) - n] /\ l[(a - 1) - n].is # "nl"
        BY <1>1, <1>4, <4>1
      <4> QED
        BY <4>1, <4>2 DEF AtLineStart
    <3> HIDE DEF o
    <3> QED
      BY <1>1, <3>1, <3>2, <3>3 DEF Explained, PartOf
  <2>3. ~(a <= n /\ n < b)
    <3> SUFFICES ASSUME a <= n, n < b
                 PROVE  FALSE
      OBVIOUS
    <3>1. n \in a .. b - 1 /\ n + 1 \in a + 1 .. b /\ n \in 1 .. Len(p) /\ n + 1 \in n + 1 .. Len(q)
      BY <1>1, <1>3
    <3>2. q[n] = p[n] /\ q[n + 1] = l[1]
      BY <1>1, <1>3, <1>4, <3>1
    <3>3. q[n].is # "nl" /\ q[n + 1].is # "text"
      BY <1>5, <3>1 DEF Window
    <3> QED
      BY <3>1, <3>2, <3>3
  <2> QED
    BY <1>1, <2>0, <2>1, <2>2, <2>3
<1> QED
  BY <1>5 DEF Orderly, q

(* And a node that prints lines prints them behind whole ones.             *)
OrderOK ==
  /\ Orderly(port)
  /\ node \in {"waiting", "signing"} /\ Len(port) > 0 => port[Len(port)].is = "nl"

LEMMA PrintedEnds ==
  ASSUME NEW p \in Seq(GoodToken), NEW l, ALine(l)
  PROVE  (p \o l)[Len(p \o l)].is = "nl"
<1> DEFINE q == p \o l
<1>1. q = p \o l /\ p \in Seq(GoodToken) /\ l \in Seq(GoodToken)
  BY LineEnds
<1> HIDE DEF q
<1>2. /\ Len(q) = Len(p) + Len(l)
      /\ \A m \in 1 .. Len(l) : q[Len(p) + m] = l[m]
  BY <1>1, JoinProperties
<1>3. Len(l) \in 1 .. Len(l) /\ l[Len(l)].is = "nl"
  BY LineEnds
<1>4. q[Len(q)] = l[Len(l)]
  BY <1>2, <1>3
<1> QED
  BY <1>3, <1>4 DEF q

LEMMA BootKeepsOrder ==
  ASSUME Typed, OrderOK, Boot \/ Poll
  PROVE  OrderOK'
<1>1. port \in Seq(GoodToken) /\ Orderly(port) /\ ALine(Banner)
  BY DEF Typed, PortOK, OrderOK, ALine
<1>2. CASE port' = port /\ node' = "stopped"
  BY <1>1, <1>2 DEF OrderOK
<1>3. CASE port' = port \o Banner
  <2>1. Banner[1].is = "text"
    BY BannerProperties DEF Text, Mark
  <2>2. Orderly(port')
    BY <1>1, <1>3, <2>1, OrderlyPrinted
  <2>3. port'[Len(port')].is = "nl"
    BY <1>1, <1>3, PrintedEnds
  <2> QED
    BY <2>2, <2>3 DEF OrderOK
<1> QED
  BY <1>2, <1>3 DEF Boot, SystemClock_Config, Poll, Initialise

LEMMA RoundKeepsOrder ==
  ASSUME Typed, OrderOK, Round
  PROVE  OrderOK'
<1> PICK f \in BOOLEAN : Printed(f)
  BY RoundFacts
<1> DEFINE l == RoundLine(counter, digest', f, signature')
<1>1. port \in Seq(GoodToken) /\ Orderly(port) /\ (Len(port) > 0 => port[Len(port)].is = "nl")
  BY DEF Typed, PortOK, OrderOK, Round
<1>2. counter \in Counters
  BY DEF Typed, TypeOK
<1>3. ALine(l)
  BY <1>2, RoundFacts DEF ALine, Printed
<1>4. port' = port \o l
  BY DEF Printed
<1> HIDE DEF l
<1>5. Orderly(port')
  BY <1>1, <1>3, <1>4, OrderlyPrinted
<1>6. port'[Len(port')].is = "nl"
  BY <1>1, <1>3, <1>4, PrintedEnds
<1> QED
  BY <1>5, <1>6 DEF OrderOK

LEMMA LoseKeepsOrder ==
  ASSUME Typed, OrderOK, Lose
  PROVE  OrderOK'
<1>0. /\ port \in Seq(GoodToken) /\ Orderly(port) /\ node' = node
      /\ Len(port) \in Nat /\ DOMAIN port = 1 .. Len(port)
  BY LenProperties DEF Typed, PortOK, OrderOK, Lose, nodeVars
<1>1. PICK i \in 1 .. Len(port), j \in 1 .. Len(port) :
        \/ i < j /\ port' = SubSeq(port, 1, i - 1) \o CutFirst(From(port, j - 1))
        \/ port[i].is # "nl" /\ port' = [port EXCEPT ![i] = [Text EXCEPT !.cut = TRUE]]
  BY <1>0 DEF Lose
<1>2. CASE i < j /\ port' = SubSeq(port, 1, i - 1) \o CutFirst(From(port, j - 1))
  <2>1. Orderly(port')
    BY <1>0, <1>2, OrderlyLost
  <2> DEFINE f == SubSeq(port, 1, i - 1)
             r == CutFirst(From(port, j - 1))
  <2>2. i - 1 \in 0 .. Len(port) /\ j - 1 \in 0 .. Len(port)
    BY <1>0
  <2>3. f \in Seq(GoodToken)
    BY <1>0, <2>2, FirstProperties
  <2>4. /\ r \in Seq(GoodToken) /\ Len(r) = Len(port) - (j - 1)
        /\ \A m \in 1 .. Len(port) - (j - 1) : r[m].is = port[m + (j - 1)].is
    BY <1>0, <2>2, CutFromProperties
  <2>5. port' = f \o r
    BY <1>2
  <2> HIDE DEF f, r
  <2>6. r \in Seq(GoodToken)
    BY <2>4
  <2>7. /\ Len(port') = Len(f) + Len(r)
        /\ \A m \in 1 .. Len(r) : port'[Len(f) + m] = r[m]
    BY <2>3, <2>5, <2>6, JoinProperties
  <2>8. Len(r) \in 1 .. Len(r) /\ Len(r) + (j - 1) = Len(port)
    BY <1>0, <2>4
  <2>9. port'[Len(port')].is = port[Len(port)].is
    BY <2>4, <2>7, <2>8
  <2> QED
    BY <1>0, <2>1, <2>9 DEF OrderOK
<1>3. CASE port[i].is # "nl" /\ port' = [port EXCEPT ![i] = [Text EXCEPT !.cut = TRUE]]
  <2> DEFINE t == [Text EXCEPT !.cut = TRUE]
  <2>1. t \in GoodToken /\ t.cut /\ t.is = Text.is
    BY MarksGood, CutToken
  <2>2. t.is # "nl"
    BY <2>1 DEF Text, Mark
  <2> HIDE DEF t
  <2>3. port' = [port EXCEPT ![i] = t]
    BY <1>3 DEF t
  <2>4. Orderly(port')
    BY <1>0, <2>1, <2>2, <2>3, OrderlyDamaged
  <2>5. Len(port') = Len(port) /\ \A m \in 1 .. Len(port) : m # i => port'[m] = port[m]
    BY <1>0, <2>1, <2>3, ExceptSeq
  <2>6. ASSUME node' \in {"waiting", "signing"}, Len(port') > 0
        PROVE  port'[Len(port')].is = "nl"
    <3>1. port[Len(port)].is = "nl" /\ Len(port) \in 1 .. Len(port)
      BY <1>0, <2>5, <2>6 DEF OrderOK
    <3>2. Len(port) # i
      BY <1>3, <3>1
    <3> QED
      BY <2>5, <3>1, <3>2
  <2> QED
    BY <2>4, <2>6 DEF OrderOK
<1> QED
  BY <1>1, <1>2, <1>3

LEMMA ReadKeepsOrder ==
  ASSUME Typed, OrderOK, Read \/ ReadTimeout
  PROVE  OrderOK'
<1>0. /\ port \in Seq(GoodToken) /\ Orderly(port) /\ node' = node
      /\ Len(port) \in Nat /\ DOMAIN port = 1 .. Len(port)
  BY LenProperties DEF Typed, PortOK, OrderOK, Read, ReadTimeout, Take, nodeVars
<1>1. PICK k \in 1 .. Len(port) :
        \/ port[k].is = "nl" /\ port' = From(port, k)
        \/ port' = CutFirst(From(port, k))
  BY <1>0 DEF Read, ReadTimeout, NewLines
<1>2. k \in 0 .. Len(port)
  OBVIOUS
<1>3. Orderly(port')
  BY <1>0, <1>1, <1>2, OrderlyFrom, OrderlyCutFrom
<1>4. Len(port') = Len(port) - k /\ \A m \in 1 .. Len(port) - k : port'[m].is = port[m + k].is
  <2>1. /\ Len(From(port, k)) = Len(port) - k
        /\ \A m \in 1 .. Len(port) - k : From(port, k)[m] = port[m + k]
    BY <1>0, <1>2, FromProperties
  <2>2. /\ Len(CutFirst(From(port, k))) = Len(port) - k
        /\ \A m \in 1 .. Len(port) - k : CutFirst(From(port, k))[m].is = port[m + k].is
    BY <1>0, <1>2, CutFromProperties
  <2>3. CASE port' = From(port, k)
    BY <2>1, <2>3
  <2>4. CASE port' = CutFirst(From(port, k))
    BY <2>2, <2>4
  <2> QED
    BY <1>1, <2>3, <2>4
<1>5. Len(port') > 0 => port'[Len(port')].is = port[Len(port)].is
  <2>1. Len(port') > 0 => Len(port') \in 1 .. Len(port) - k /\ Len(port') + k = Len(port)
    BY <1>0, <1>4
  <2> QED
    BY <1>4, <2>1
<1>6. Len(port') > 0 => Len(port) > 0
  BY <1>0
<1> QED
  BY <1>0, <1>3, <1>5, <1>6 DEF OrderOK

LEMMA OrderStep == Typed /\ OrderOK /\ [Next]_vars => OrderOK'
<1> SUFFICES ASSUME Typed, OrderOK, [Next]_vars
             PROVE  OrderOK'
  OBVIOUS
<1>1. CASE Start
  <2>1. port' = <<>>
    BY <1>1 DEF Start
  <2> QED
    BY <2>1, OrderlyEmpty DEF OrderOK
<1>2. CASE Write \/ UNCHANGED vars
  BY <1>2 DEF Write, vars, nodeVars, OrderOK
<1>3. CASE Reset
  <2>1. port \in Seq(GoodToken) /\ Len(port) \in Nat
    BY LenProperties DEF Typed, PortOK
  <2>2. PICK k \in 0 .. LineLen : k <= Len(port) /\ port' = SubSeq(port, 1, Len(port) - k)
    BY <1>3 DEF Reset
  <2>3. Len(port) - k \in 0 .. Len(port)
    BY <2>1, <2>2, SizesAssumption DEF LineLen
  <2>4. Orderly(port')
    BY <2>1, <2>2, <2>3, OrderlyFirst DEF OrderOK
  <2> QED
    BY <1>3, <2>4 DEF Reset, OrderOK
<1> QED
  BY <1>1, <1>2, <1>3, BootKeepsOrder, RoundKeepsOrder, LoseKeepsOrder, ReadKeepsOrder
     DEF Next

LEMMA OrderInit == Init => OrderOK
  BY OrderlyEmpty DEF Init, OrderOK

-----------------------------------------------------------------------------
(* What the order of the tokens says of the lines the script reads.        *)

(* A digest is printed third, behind its message.                          *)
LEMMA DigestPlace ==
  ASSUME NEW l, ALine(l), NEW i \in 1 .. Len(l), l[i].is = "digest"
  PROVE  i = 3 /\ l[1] = Message(l[3].at)
<1>0. Text.is # "digest" /\ Sp.is # "digest" /\ Nl.is # "digest"
  BY DEF Text, Sp, Nl, Mark
<1>1. CASE l = Banner
  <2>1. /\ Len(l) = 4
        /\ l[1] = Text /\ l[2] = Sp /\ l[3] = Text /\ l[4] = Nl
    BY <1>1, BannerProperties
  <2>2. i = 1 \/ i = 2 \/ i = 3 \/ i = 4
    BY <2>1
  <2> QED
    BY <1>0, <2>1, <2>2
<1>2. ASSUME NEW c \in Counters, NEW b \in Buffer, NEW f \in BOOLEAN,
         NEW s \in Signature, IsRoundLine(l, c, b, f, s)
      PROVE  i = 3 /\ l[1] = Message(l[3].at)
  <2> DEFINE w == WordCount(s)
  <2>1. /\ w \in Nat /\ Len(l) = w + 5
        /\ l[1] = Message(c) /\ l[2] = Sp /\ l[3] = DigestOf(b, c, f) /\ l[4] = Sp
        /\ \A n \in 1 .. w : l[n + 4] = Word(s, n)
        /\ l[w + 5] = Nl
    BY <1>2, SizesAssumption DEF IsRoundLine
  <2>2. /\ Message(c).is # "digest" /\ DigestOf(b, c, f).at = c
        /\ \A n \in 1 .. w : Word(s, n).is # "digest"
    BY DEF Message, DigestOf, Word
  <2> HIDE DEF w
  <2>3. i \in {1, 2, 3, 4} \/ (i - 4 \in 1 .. w /\ (i - 4) + 4 = i) \/ i = w + 5
    BY <2>1
  <2> QED
    BY <1>0, <2>1, <2>2, <2>3
<1> QED
  BY <1>1, <1>2 DEF ALine

LEMMA FirstIsNoBlank ==
  ASSUME NEW l, ALine(l)
  PROVE  l[1].is # "sp"
<1>1. Text.is # "sp" /\ \A c : Message(c).is # "sp"
  BY DEF Text, Mark, Message
<1> QED
  BY <1>1, BannerProperties DEF ALine, IsRoundLine

(* A window of the data that ends with the digest.                         *)
LEMMA DigestWindow ==
  ASSUME Typed, OrderOK, NEW a \in Nat, NEW b \in Nat, Window(port, a, b),
         port[b].is = "digest"
  PROVE  /\ b - a <= 2
         /\ AtLineStart(port, a) => b - a = 2
         /\ b - a = 2 => port[a] = Message(port[b].at)
<1>1. /\ Len(port) \in Nat /\ a \in 1 .. Len(port) /\ b \in 1 .. Len(port) /\ a <= b
  BY LenProperties DEF Typed, PortOK, Window
<1>2. Explained(port, a, b)
  BY <1>1 DEF OrderOK, Orderly
<1>3. PICK l \in Seq(GoodToken), o \in Nat :
        ALine(l) /\ PartOf(port, a, b, l, o) /\ (AtLineStart(port, a) => o = 0)
  BY <1>2 DEF Explained
<1>4. b \in a .. b /\ a \in a .. b /\ a - a + 1 + o = 1 + o
  BY <1>1
<1>5. b - a + 1 + o \in 1 .. Len(l) /\ port[b] = l[b - a + 1 + o] /\ port[a] = l[1 + o]
  BY <1>3, <1>4 DEF PartOf
<1>6. b - a + 1 + o = 3 /\ l[1] = Message(l[3].at)
  BY <1>3, <1>5, DigestPlace
<1>7. b - a <= 2 /\ (o = 0 => b - a = 2)
  BY <1>1, <1>6
<1>8. b - a = 2 => o = 0
  BY <1>1, <1>6
<1> QED
  BY <1>3, <1>5, <1>6, <1>7, <1>8

LEMMA MessageFirst ==
  ASSUME Typed, OrderOK, NEW k \in Nat, ReadsUpTo(k), shown' = "verified", Intact(Data)
  PROVE  /\ Data[1] = Message(DigestIn(Data).at)
         /\ DigestIn(Data) \in GoodToken /\ DigestIn(Data).is = "digest"
<1>1. /\ Data \in Seq(GoodToken) /\ Len(Data) = k /\ k \in Nat \ {0}
      /\ \A i \in 1 .. k : Data[i] = port[i]
      /\ \A i \in 1 .. k - 1 : port[i].is # "nl"
      /\ k \in 1 .. Len(port) /\ Len(port) \in Nat /\ Len(port) > 0
  BY DataProperties, LenProperties DEF ReadsUpTo, Typed, PortOK
<1>2. \A i \in 1 .. k : ~port[i].cut
  BY <1>1, LenProperties DEF Intact
<1> DEFINE l == Strip(Data)
           j == Len(l) - SigWords
<1>3. FormedAt(Data, l, j)
  <2>1. Data \in Seq(GoodToken) /\ Len(Data) > 0
    BY <1>1
  <2>2. Verdict(Data) = "verified"
    BY DEF ReadsUpTo
  <2> QED
    BY <2>1, <2>2, VerifiedFacts
<1>4. Len(l) \in Nat /\ Len(l) <= k /\ \A i \in 1 .. Len(l) : l[i] = port[i]
  <2>1. /\ Len(l) = IF Data[Len(Data)].is = "nl" THEN Len(Data) - 1 ELSE Len(Data)
        /\ Len(l) \in Nat
        /\ \A i \in 1 .. Len(l) : l[i] = Data[i]
    BY <1>1, StripProperties
  <2> HIDE DEF l, j
  <2> QED
    BY <1>1, <2>1
<1>5. DOMAIN l = 1 .. Len(l)
  BY <1>3, LenProperties DEF FormedAt
<1> HIDE DEF l, j
<1>6. /\ j \in Nat /\ j > 2 /\ j < Len(l)
      /\ Blanks(l) = {j - 2, j}
      /\ l[j - 1].is = "digest" /\ DigestIn(Data) = l[j - 1]
  BY <1>3, SizesAssumption DEF FormedAt
<1>7. /\ j - 1 \in 1 .. Len(l) /\ j - 2 \in 1 .. Len(l)
      /\ port[j - 1].is = "digest" /\ port[j - 2].is = "sp"
      /\ DigestIn(Data) = port[j - 1]
  <2>1. j - 1 \in 1 .. Len(l) /\ j - 2 \in 1 .. Len(l)
    BY <1>4, <1>6
  <2>2. l[j - 2].is = "sp"
    BY <1>6 DEF Blanks
  <2> QED
    BY <1>4, <1>6, <2>1, <2>2
<1>8. ASSUME NEW a \in Nat, a >= 1, a <= j - 2,
             \A i \in a + 1 .. j - 3 : port[i].is # "text"
      PROVE  Window(port, a, j - 1)
  <2>1. a \in 1 .. Len(port) /\ j - 1 \in a .. Len(port)
    BY <1>1, <1>4, <1>6, <1>8
  <2>2. \A i \in a .. j - 1 : i \in 1 .. k
    BY <1>1, <1>4, <1>6, <1>8
  <2>3. \A i \in a .. (j - 1) - 1 : i \in 1 .. k - 1
    BY <1>1, <1>4, <1>6, <1>8
  <2>4. ASSUME NEW i \in a + 1 .. j - 1
        PROVE  port[i].is # "text"
    <3>1. i \in a + 1 .. j - 3 \/ i = j - 2 \/ i = j - 1
      BY <1>6, <1>8
    <3> QED
      BY <1>7, <1>8, <3>1
  <2> QED
    BY <1>1, <1>2, <2>1, <2>2, <2>3, <2>4 DEF Window
<1>9. j - 1 \in Nat
  BY <1>6
<1>10. j # 3
  <2> SUFFICES ASSUME j = 3
               PROVE  FALSE
    OBVIOUS
  <2> DEFINE a == 1
  <2>1. a \in Nat /\ a >= 1 /\ a <= j - 2 /\ (\A i \in a + 1 .. j - 3 : port[i].is # "text")
    BY <1>6
  <2>2. Window(port, a, j - 1)
    BY <1>8, <2>1
  <2>3. AtLineStart(port, a) /\ (j - 1) - a = 1
    BY DEF AtLineStart
  <2> HIDE DEF a
  <2>4. (j - 1) - a = 2
    BY <1>7, <1>9, <2>1, <2>2, <2>3, DigestWindow
  <2> QED
    BY <2>3, <2>4
<1>11. port[j - 3] = Message(port[j - 1].at)
  <2> DEFINE a == j - 3
  <2>1. /\ a \in Nat /\ a >= 1 /\ a <= j - 2 /\ (j - 1) - a = 2
        /\ \A i \in a + 1 .. j - 3 : port[i].is # "text"
    BY <1>6, <1>10
  <2>2. Window(port, a, j - 1)
    BY <1>8, <2>1
  <2> HIDE DEF a
  <2>3. port[a] = Message(port[j - 1].at)
    BY <1>7, <1>9, <2>1, <2>2, DigestWindow
  <2> QED
    BY <2>3 DEF a
<1>12. j = 4
  <2> SUFFICES ASSUME j # 4
               PROVE  FALSE
    OBVIOUS
  <2> DEFINE a == j - 4
  <2>1. a \in Nat /\ a >= 1 /\ a <= j - 2 /\ (j - 1) - a = 3 /\ a + 1 = j - 3
    BY <1>6, <1>10
  <2>2. port[j - 3].is # "text"
    BY <1>11 DEF Message
  <2>3. \A i \in a + 1 .. j - 3 : port[i].is # "text"
    <3>1. \A i \in a + 1 .. j - 3 : i = j - 3
      BY <1>6
    <3> QED
      BY <2>2, <3>1
  <2> HIDE DEF a
  <2>4. Window(port, a, j - 1)
    BY <1>8, <2>1, <2>3
  <2>5. (j - 1) - a <= 2
    BY <1>7, <1>9, <2>1, <2>4, DigestWindow
  <2> QED
    BY <2>1, <2>5
<1>13. port[j - 1] \in GoodToken
  <2>1. port \in Seq(GoodToken) /\ j - 1 \in 1 .. Len(port)
    BY <1>1, <1>4, <1>7 DEF Typed, PortOK
  <2> QED
    BY <2>1, ElementOfSeq
<1> QED
  BY <1>1, <1>7, <1>11, <1>12, <1>13

LEMMA Inductive == Typed /\ OrderOK /\ [Next]_vars => (Typed /\ OrderOK)'
  BY TypeStep, OrderStep

(* The message reported as verified is that of its digest's round unless   *)
(* bytes of the line were lost or the line was read in parts, and was      *)
(* hashed unless hashing failed in that round, for lines of every length   *)
(* and any number of runs and faults                                       *)
(* (ECDSA_provideKeyAndVerify.py:38-45, main.c:158-166).                   *)
THEOREM MessagesBelong == Spec => MessageBelongs
<1> DEFINE d == DigestIn(Data)
           Good == Reads /\ shown' = "verified" /\ Intact(Data)
                     => Data[1] = Message(d.at) /\ (d.fresh => Begins(d.of, d.at))
<1>1. Typed /\ OrderOK /\ [Next]_vars => [Good]_vars
  <2> SUFFICES ASSUME Typed, OrderOK, [Next]_vars, Reads, shown' = "verified", Intact(Data)
               PROVE  Data[1] = Message(d.at) /\ (d.fresh => Begins(d.of, d.at))
    OBVIOUS
  <2>1. PICK k \in 1 .. Len(port) : ReadsUpTo(k)
    BY ReadsFacts
  <2>2. k \in Nat
    BY <2>1, DataProperties
  <2>3. Data[1] = Message(d.at) /\ d \in GoodToken /\ d.is = "digest"
    BY <2>1, <2>2, MessageFirst
  <2> HIDE DEF d
  <2>4. d.fresh => PrintsAs(d.of, d.at)
    BY <2>3 DEF GoodToken, Truthful
  <2>5. PrintsAs(d.of, d.at) => Begins(d.of, d.at)
    <3>1. d.at \in Counters => DOMAIN Digits[d.at] = 1 .. Len(Digits[d.at])
      BY DigitsFit, LenProperties
    <3> QED
      BY <3>1 DEF PrintsAs, Begins
  <2> QED
    BY <2>3, <2>4, <2>5
<1> QED
  BY <1>1, TypeInit, OrderInit, Inductive, PTL DEF Spec, MessageBelongs

(* A whole line without text is a line of a round from end to end.         *)
LEMMA WholeIsRound ==
  ASSUME Typed, OrderOK, NEW k \in Nat, ReadsUpTo(k), Whole(Data)
  PROVE  \E c \in Counters, b \in Buffer, f \in BOOLEAN, s \in Signature :
           /\ IsRoundLine(RoundLine(c, b, f, s), c, b, f, s)
           /\ k = WordCount(s) + 5
           /\ \A i \in 1 .. k : Data[i] = RoundLine(c, b, f, s)[i]
<1>1. /\ Len(Data) = k /\ k \in Nat \ {0} /\ DOMAIN Data = 1 .. k
      /\ \A i \in 1 .. k : Data[i] = port[i]
      /\ \A i \in 1 .. k - 1 : port[i].is # "nl"
      /\ k \in 1 .. Len(port) /\ Len(port) \in Nat
  BY DataProperties, LenProperties DEF ReadsUpTo, Typed, PortOK
<1>2. /\ \A i \in 1 .. k : ~port[i].cut /\ port[i].is # "text"
      /\ port[k].is = "nl"
  BY <1>1 DEF Whole, Intact, Nl, Mark
<1> DEFINE a == 1
<1>3. /\ a \in 1 .. Len(port) /\ k \in a .. Len(port) /\ AtLineStart(port, a)
  BY <1>1 DEF AtLineStart
<1>4. Window(port, a, k)
  BY <1>1, <1>2 DEF Window
<1>5. \A i \in a .. k : i - a + 1 + 0 = i
  BY <1>1
<1> HIDE DEF a
<1>6. Explained(port, a, k)
  BY <1>1, <1>3, <1>4 DEF OrderOK, Orderly
<1>7. PICK l \in Seq(GoodToken) : ALine(l) /\ PartOf(port, a, k, l, 0)
  BY <1>3, <1>6 DEF Explained
<1>8. \A i \in 1 .. k : i \in 1 .. Len(l) /\ port[i] = l[i]
  BY <1>5, <1>7 DEF PartOf, a
<1>9. k = Len(l)
  <2>1. k \in 1 .. Len(l) /\ l[k].is = "nl"
    BY <1>1, <1>2, <1>8
  <2>2. Len(l) \in Nat /\ \A i \in 1 .. Len(l) - 1 : l[i].is # "nl"
    BY <1>7, LineEnds
  <2> QED
    BY <2>1, <2>2
<1>10. l # Banner
  <2>1. l[1].is # "text"
    BY <1>1, <1>2, <1>8
  <2> QED
    BY <2>1, BannerProperties DEF Text, Mark
<1>11. PICK c \in Counters, b \in Buffer, f \in BOOLEAN, s \in Signature : IsRoundLine(l, c, b, f, s)
  BY <1>7, <1>10 DEF ALine
<1>12. l = RoundLine(c, b, f, s) /\ Len(l) = WordCount(s) + 5
  BY <1>11 DEF IsRoundLine
<1> QED
  BY <1>1, <1>8, <1>9, <1>11, <1>12

(* A line of a round with a whole signature, of this run's key and of the  *)
(* digest in the line, passes.                                             *)
LEMMA RoundVerifies ==
  ASSUME NEW line \in Seq(GoodToken), NEW c \in Counters, NEW b \in Buffer, NEW f \in BOOLEAN,
         NEW s \in Signature,
         IsRoundLine(RoundLine(c, b, f, s), c, b, f, s),
         Len(line) = SigWords + 5, WordCount(s) = SigWords,
         \A i \in 1 .. SigWords + 5 : line[i] = RoundLine(c, b, f, s)[i],
         s.key = HostKey(run), s.digest = b
  PROVE  Verdict(line) = "verified"
<1> DEFINE l == Strip(line)
<1>0. SigWords \in Nat \ {0} /\ Len(line) > 0
  BY SizesAssumption
<1>1. /\ line[1] = Message(c) /\ line[2] = Sp /\ line[3] = DigestOf(b, c, f) /\ line[4] = Sp
      /\ \A n \in 1 .. SigWords : line[n + 4] = Word(s, n)
      /\ line[SigWords + 5] = Nl
  <2>1. \A n \in 1 .. SigWords : n + 4 \in 1 .. SigWords + 5
    BY <1>0
  <2> QED
    BY <1>0, <2>1 DEF IsRoundLine
<1>2. /\ l \in Seq(GoodToken) /\ Len(l) = SigWords + 4
      /\ \A i \in 1 .. SigWords + 4 : l[i] = line[i]
  <2>1. line[Len(line)].is = "nl" /\ Len(line) - 1 = SigWords + 4
    BY <1>0, <1>1 DEF Nl, Mark
  <2> QED
    BY <1>0, <2>1, StripProperties
<1>3. DOMAIN l = 1 .. SigWords + 4
  BY <1>2, LenProperties
<1>4. l = Strip(line)
  OBVIOUS
<1> HIDE DEF l
<1>5. /\ l[1] = Message(c) /\ l[2] = Sp /\ l[3] = DigestOf(b, c, f) /\ l[4] = Sp
      /\ \A n \in 1 .. SigWords : l[4 + n] = Word(s, n)
  <2>1. \A n \in 1 .. SigWords : 4 + n \in 1 .. SigWords + 4 /\ 4 + n = n + 4
    BY <1>0
  <2> QED
    BY <1>0, <1>1, <1>2, <2>1
<1>6. /\ Message(c).is # "sp" /\ Sp.is = "sp"
      /\ DigestOf(b, c, f).is = "digest" /\ DigestOf(b, c, f).of = b
      /\ \A n \in 1 .. SigWords : Word(s, n).is = "word" /\ Word(s, n).n = n /\ Word(s, n).sig = s
  BY DEF Message, Sp, Mark, DigestOf, Word
<1>7. Blanks(l) = {2, 4}
  <2>1. \A i \in 1 .. SigWords + 4 :
          i \in {1, 2, 3, 4} \/ (i - 4 \in 1 .. SigWords /\ 4 + (i - 4) = i)
    BY <1>0
  <2>2. 2 \in 1 .. SigWords + 4 /\ 4 \in 1 .. SigWords + 4
    BY <1>0
  <2>3. \A i \in 1 .. SigWords + 4 : l[i].is = "sp" <=> i \in {2, 4}
    BY <1>5, <1>6, <2>1
  <2> QED
    BY <1>3, <2>2, <2>3 DEF Blanks
<1>8. Len(l) - SigWords = 4
  BY <1>0, <1>2
<1>9. WellFormed(line)
  <2>1. 4 - 2 = 2 /\ 4 - 1 = 3 /\ 4 > 2 /\ 1 \in 1 .. SigWords
    BY <1>0
  <2>2. \A n \in 1 .. SigWords :
          l[4 + n].is = "word" /\ l[4 + n].n = n /\ l[4 + n].sig = l[4 + 1].sig
    BY <1>5, <1>6, <2>1
  <2> QED
    BY <1>4, <1>5, <1>6, <1>7, <1>8, <2>1, <2>2 DEF WellFormed
<1>10. FormedAt(line, l, 4)
  BY <1>0, <1>4, <1>8, <1>9, Formed
<1>11. DigestIn(line).of = b /\ WordsIn(line)[1].sig = s
  <2>1. 4 - 1 = 3 /\ 1 \in 1 .. SigWords
    BY <1>0
  <2> QED
    BY <1>5, <1>6, <1>10, <2>1 DEF FormedAt
<1> QED
  BY <1>9, <1>11 DEF Verifies, Verdict

(* A whole line is turned down for the lack of a signature, another key,   *)
(* another digest or a word that is zero, and for nothing else, at any     *)
(* length of a signature (main.c:32-39, 157-166).                          *)
THEOREM RefusedOnlySo == Spec => RefusedForAReason
<1> DEFINE last == Data[Len(Data) - 1]
           Excused == \/ last.is # "word"
                      \/ last.sig.key # HostKey(run)
                      \/ last.sig.digest # Data[3].of
                      \/ last.sig.zero
           Good == Reads /\ shown' # "verified" /\ Whole(Data) => Excused
<1>1. Typed /\ OrderOK /\ [Next]_vars => [Good]_vars
  <2> SUFFICES ASSUME Typed, OrderOK, [Next]_vars, Reads, Whole(Data), ~Excused
               PROVE  shown' = "verified"
    OBVIOUS
  <2>1. PICK k \in 1 .. Len(port) : ReadsUpTo(k)
    BY ReadsFacts
  <2>2. k \in Nat /\ Len(Data) = k /\ Data \in Seq(GoodToken)
    BY <2>1, DataProperties
  <2>3. PICK c \in Counters, b \in Buffer, f \in BOOLEAN, s \in Signature :
          /\ IsRoundLine(RoundLine(c, b, f, s), c, b, f, s)
          /\ k = WordCount(s) + 5
          /\ \A i \in 1 .. k : Data[i] = RoundLine(c, b, f, s)[i]
    BY <2>1, <2>2, WholeIsRound
  <2> DEFINE w == WordCount(s)
             l == RoundLine(c, b, f, s)
  <2>4. /\ w \in Nat /\ l[3] = DigestOf(b, c, f) /\ l[4] = Sp
        /\ \A n \in 1 .. w : l[n + 4] = Word(s, n)
    BY <2>3, SizesAssumption DEF IsRoundLine
  <2>5. last = l[w + 4] /\ Data[3] = l[3]
    <3>1. w + 4 \in 1 .. k /\ 3 \in 1 .. k /\ Len(Data) - 1 = w + 4
      BY <2>2, <2>3, <2>4
    <3> QED
      BY <2>3, <3>1
  <2>6. last.is = "word" /\ last.sig.key = HostKey(run) /\ last.sig.digest = Data[3].of
        /\ ~last.sig.zero
    OBVIOUS
  <2> HIDE DEF w, l, last
  <2>7. w # 0
    <3>1. Sp.is # "word"
      BY DEF Sp, Mark
    <3> QED
      BY <2>4, <2>5, <2>6, <3>1
  <2>8. last.sig = s
    <3>1. w \in 1 .. w
      BY <2>4, <2>7
    <3>2. l[w + 4] = Word(s, w)
      BY <2>4, <3>1
    <3>3. Word(s, w).sig = s
      BY DEF Word
    <3> QED
      BY <2>5, <3>2, <3>3
  <2>9. w = SigWords
    BY <2>6, <2>7, <2>8 DEF WordCount, w
  <2>10. s.key = HostKey(run) /\ s.digest = b
    BY <2>4, <2>5, <2>6, <2>8 DEF DigestOf
  <2>11. k = SigWords + 5 /\ Len(Data) = SigWords + 5 /\ WordCount(s) = SigWords
    BY <2>2, <2>3, <2>9 DEF w
  <2>12. Verdict(Data) = "verified"
    BY <2>2, <2>3, <2>10, <2>11, RoundVerifies
  <2> QED
    BY <2>1, <2>12 DEF ReadsUpTo
<1> QED
  BY <1>1, TypeInit, OrderInit, Inductive, PTL DEF Spec, RefusedForAReason
=============================================================================
