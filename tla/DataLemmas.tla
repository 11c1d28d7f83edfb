----------------------------- MODULE DataLemmas -----------------------------
(***************************************************************************)
(* What the proofs need to know of the data: remainders of natural         *)
(* numbers, for indices that wrap at a size that is a parameter, the       *)
(* elements of sequences, and what a recursive function computes.  The     *)
(* solvers know quotient and remainder only through ModType.               *)
(***************************************************************************)
EXTENDS Integers, Sequences, TLAPS, FiniteSetTheorems, SequenceTheorems,
        WellFoundedInduction

-----------------------------------------------------------------------------
(* Remainders *)

\* Quotient and remainder of a division.
LEMMA ModType ==
  ASSUME NEW a \in Nat, NEW c \in Nat, c > 0
  PROVE  /\ a % c \in 0 .. (c - 1)
         /\ a \div c \in Nat
         /\ a = c * (a \div c) + (a % c)
OBVIOUS

\* A quotient, without the remainder.
LEMMA Quotient ==
  ASSUME NEW a \in Nat, NEW c \in Nat \ {0}
  PROVE  a \div c \in Nat /\ c * (a \div c) <= a
<1>1. a % c \in 0 .. (c - 1) /\ a \div c \in Nat /\ a = c * (a \div c) + (a % c)
  BY ModType
<1> DEFINE q == a \div c  r == a % c
<1>2. r \in Nat /\ q \in Nat /\ a = c * q + r
  BY <1>1
<1> HIDE DEF q, r
<1>3. q \in Nat /\ c * q <= a
  BY <1>2
<1> QED
  BY <1>3 DEF q

\* Multiples of c lie at least c apart.
LEMMA TimesMonotone ==
  ASSUME NEW c \in Nat, NEW p \in Nat, NEW q \in Nat, p < q
  PROVE  c * p + c <= c * q
<1>1. PICK d \in Nat : q = p + 1 + d
  <2>1. q - p - 1 \in Nat /\ q = p + 1 + (q - p - 1)
    OBVIOUS
  <2> QED
    BY <2>1
<1>2. c * q = c * p + c + c * d
  BY <1>1
<1>3. c * d \in Nat /\ c * p \in Nat /\ c * q \in Nat
  BY <1>1
<1> QED
  BY <1>2, <1>3

\* The remainder of a division is unique.
LEMMA DivisionUnique ==
  ASSUME NEW c \in Nat, NEW p \in Nat, NEW q \in Nat,
         NEW r \in 0 .. (c - 1), NEW s \in 0 .. (c - 1),
         c * p + r = c * q + s
  PROVE  r = s
<1>0. c * p \in Nat /\ c * q \in Nat
  OBVIOUS
<1>1. CASE p < q
  <2>1. c * p + c <= c * q
    BY <1>1, TimesMonotone
  <2> QED
    BY <2>1, <1>0
<1>2. CASE q < p
  <2>1. c * q + c <= c * p
    BY <1>2, TimesMonotone
  <2> QED
    BY <2>1, <1>0
<1>3. CASE p = q
  BY <1>3, <1>0
<1> QED
  BY <1>1, <1>2, <1>3

\* And so is its quotient.
LEMMA QuotientUnique ==
  ASSUME NEW c \in Nat, NEW p \in Nat, NEW q \in Nat,
         NEW r \in 0 .. (c - 1), NEW s \in 0 .. (c - 1),
         c * p + r = c * q + s
  PROVE  p = q
<1>0. c * p \in Nat /\ c * q \in Nat
  OBVIOUS
<1>1. CASE p < q
  <2>1. c * p + c <= c * q
    BY <1>1, TimesMonotone
  <2> QED
    BY <2>1, <1>0
<1>2. CASE q < p
  <2>1. c * q + c <= c * p
    BY <1>2, TimesMonotone
  <2> QED
    BY <2>1, <1>0
<1> QED
  BY <1>1, <1>2

\* Halving what a division left divides by twice as much.
LEMMA HalfOfQuotient ==
  ASSUME NEW a \in Nat, NEW c \in Nat \ {0}
  PROVE  (a \div c) \div 2 = a \div (2 * c)
<1> DEFINE z == a \div c  r == a % c  w == a \div (2 * c)  s == a % (2 * c)
<1>1. z \in Nat /\ r \in 0 .. (c - 1) /\ a = c * z + r
  BY ModType
<1>2. 2 * c \in Nat /\ 2 * c > 0
  OBVIOUS
<1>3. w \in Nat /\ s \in 0 .. (2 * c - 1) /\ a = (2 * c) * w + s
  BY <1>2, ModType
<1> HIDE DEF z, r, w, s
<1>4. PICK y \in Nat : z = 2 * y \/ z = 2 * y + 1
  <2>1. z \div 2 \in Nat /\ (z = 2 * (z \div 2) \/ z = 2 * (z \div 2) + 1)
    BY <1>1
  <2> QED
    BY <2>1
<1>5. z \div 2 = y
  BY <1>4
<1>6. CASE z = 2 * y
  <2>1. c * z = (2 * c) * y
    BY <1>6
  <2>2. r \in 0 .. (2 * c - 1) /\ a = (2 * c) * y + r
    BY <1>1, <2>1
  <2>3. y = w
    BY <1>2, <1>3, <2>2, QuotientUnique
  <2> QED
    BY <1>5, <2>3 DEF z, w
<1>7. CASE z = 2 * y + 1
  <2>1. c * z = (2 * c) * y + c
    BY <1>7
  <2>2. (2 * c) * y \in Nat
    OBVIOUS
  <2>3. c + r \in 0 .. (2 * c - 1) /\ a = (2 * c) * y + (c + r)
    BY <1>1, <2>1, <2>2
  <2>4. y = w
    BY <1>2, <1>3, <2>3, QuotientUnique
  <2> QED
    BY <1>5, <2>4 DEF z, w
<1> QED
  BY <1>4, <1>6, <1>7

\* Two numbers less than c apart have different remainders.
LEMMA ModDistinct ==
  ASSUME NEW a \in Nat, NEW b \in Nat, NEW c \in Nat, a > b, a - b < c
  PROVE  a % c # b % c
<1>0. c > 0
  OBVIOUS
<1> SUFFICES ASSUME a % c = b % c PROVE FALSE
  OBVIOUS
<1> DEFINE p == a \div c  q == b \div c
<1>1. /\ a % c \in 0 .. (c - 1) /\ p \in Nat /\ q \in Nat
      /\ a = c * p + (a % c) /\ b = c * q + (a % c)
  BY <1>0, ModType
<1>2. c * p \in Nat /\ c * q \in Nat
  BY <1>1
<1> HIDE DEF p, q
<1>3. CASE p <= q
  <2>1. CASE p = q
     BY <1>1, <2>1
  <2>2. CASE p < q
    <3>1. c * p + c <= c * q
      BY <2>2, <1>1, TimesMonotone
    <3> QED
      BY <3>1, <1>1, <1>2
  <2> QED
    BY <1>1, <1>3, <2>1, <2>2
<1>4. CASE p > q
  <2>1. c * q + c <= c * p
    BY <1>4, <1>1, TimesMonotone
  <2> QED
    BY <2>1, <1>1, <1>2
<1> QED
  BY <1>1, <1>3, <1>4

\* Wrapping before or after adding one makes no difference.
LEMMA ModSucc ==
  ASSUME NEW a \in Nat, NEW c \in Nat, c > 0
  PROVE  (a + 1) % c = ((a % c) + 1) % c
<1> DEFINE q == a \div c  r == a % c
<1>1. r \in 0 .. (c - 1) /\ q \in Nat /\ a = c * q + r
  BY ModType
<1>2. /\ (a + 1) % c \in 0 .. (c - 1) /\ (a + 1) \div c \in Nat
      /\ a + 1 = c * ((a + 1) \div c) + ((a + 1) % c)
  BY ModType
<1>3. (r + 1) % c = IF r + 1 = c THEN 0 ELSE r + 1
  BY <1>1
<1>4. c * q \in Nat
  BY <1>1
<1> HIDE DEF q, r
<1>5. CASE r + 1 = c
  <2>1. c * (q + 1) = c * q + c
    BY <1>1
  <2>2. a + 1 = c * (q + 1) + 0
    BY <1>1, <1>4, <1>5, <2>1
  <2>3. (a + 1) % c = 0
    BY <1>1, <1>2, <2>2, DivisionUnique
  <2> QED
    BY <2>3, <1>3, <1>5 DEF r
<1>6. CASE r + 1 # c
  <2>1. a + 1 = c * q + (r + 1) /\ r + 1 \in 0 .. (c - 1)
    BY <1>1, <1>4, <1>6
  <2>2. (a + 1) % c = r + 1
    BY <1>1, <1>2, <2>1, DivisionUnique
  <2> QED
    BY <2>2, <1>3, <1>6 DEF r
<1> QED
  BY <1>5, <1>6

\* Adding c does not change the remainder.
LEMMA ModShift ==
  ASSUME NEW a \in Nat, NEW c \in Nat, c > 0
  PROVE  (a + c) % c = a % c
<1> DEFINE q == a \div c  r == a % c
<1>1. r \in 0 .. (c - 1) /\ q \in Nat /\ a = c * q + r
  BY ModType
<1>2. /\ (a + c) % c \in 0 .. (c - 1) /\ (a + c) \div c \in Nat
      /\ a + c = c * ((a + c) \div c) + ((a + c) % c)
  BY ModType
<1> HIDE DEF q, r
<1>3. c * (q + 1) = c * q + c /\ c * q \in Nat
  BY <1>1
<1>4. a + c = c * (q + 1) + r
  BY <1>1, <1>3
<1>5. (a + c) % c = r
  BY <1>1, <1>2, <1>4, DivisionUnique
<1> QED
  BY <1>5 DEF r

\* Wrapping a summand makes no difference.
LEMMA ModAdd ==
  ASSUME NEW a \in Nat, NEW b \in Nat, NEW c \in Nat, c > 0
  PROVE  ((a % c) + b) % c = (a + b) % c
<1> DEFINE q == a \div c  r == a % c  p == (r + b) \div c  s == (r + b) % c
              m == (a + b) \div c  w == (a + b) % c
<1>1. r \in 0 .. (c - 1) /\ q \in Nat /\ a = c * q + r
  BY ModType
<1>2. s \in 0 .. (c - 1) /\ p \in Nat /\ r + b = c * p + s
  <2>1. r + b \in Nat
    BY <1>1
  <2> HIDE DEF r
  <2> QED
    BY <2>1, ModType
<1>3. w \in 0 .. (c - 1) /\ m \in Nat /\ a + b = c * m + w
  BY ModType
<1> HIDE DEF q, r, p, s, m, w
<1>4. c * (q + p) = c * q + c * p /\ c * q \in Nat /\ c * p \in Nat
  BY <1>1, <1>2
<1>5. c * m + w = c * (q + p) + s /\ q + p \in Nat
  BY <1>1, <1>2, <1>3, <1>4
<1>6. w = s
  BY <1>2, <1>3, <1>5, DivisionUnique
<1> QED
  BY <1>6 DEF r, s, w

\* A remainder does not change when a multiple of the divisor is divided by before.
LEMMA ModOfMultiple ==
  ASSUME NEW v \in Nat, NEW c \in Nat, c > 0, NEW k \in Nat, k > 0
  PROVE  /\ c * k \in Nat /\ c * k > 0
         /\ (v % (c * k)) % c = v % c
<1>1. c * k \in Nat /\ c * k > 0
  <2>1. c * k \in Nat
    OBVIOUS
  <2>2. c * k >= c * 1
    BY <2>1, TimesMonotone
  <2> QED
    BY <2>1, <2>2
<1> DEFINE m == c * k  q == v \div m  r == v % m  p == r \div c  s == r % c
           n == v \div c  w == v % c
<1>2. r \in Nat /\ q \in Nat /\ v = m * q + r
  BY <1>1, ModType
<1>3. s \in 0 .. (c - 1) /\ p \in Nat /\ r = c * p + s
  <2>1. r \in Nat
    BY <1>2
  <2> HIDE DEF r
  <2> QED
    BY <2>1, ModType
<1>4. w \in 0 .. (c - 1) /\ n \in Nat /\ v = c * n + w
  BY ModType
<1> HIDE DEF q, r, p, s, n, w
<1>5. m * q = c * (k * q) /\ k * q \in Nat
  BY <1>2
<1> HIDE DEF m
<1>6. c * (k * q + p) = c * (k * q) + c * p
  BY <1>3, <1>5
<1>7. c * n + w = c * (k * q + p) + s
  <2>1. c * p \in Nat /\ c * (k * q) \in Nat /\ c * n \in Nat
    BY <1>3, <1>4, <1>5
  <2> QED
    BY <1>2, <1>3, <1>4, <1>5, <1>6, <2>1
<1>8. w = s
  <2>1. k * q + p \in Nat
    BY <1>3, <1>5
  <2> QED
    BY <1>3, <1>4, <1>7, <2>1, DivisionUnique
<1> QED
  BY <1>1, <1>8 DEF m, r, s, w

-----------------------------------------------------------------------------
(* Sequences *)

\* An element at the end.
LEMMA AppendElements ==
  ASSUME NEW S, NEW s \in Seq(S), NEW e \in S
  PROVE  /\ Append(s, e) \in Seq(S) /\ Len(Append(s, e)) = Len(s) + 1
         /\ Append(s, e)[Len(s) + 1] = e
         /\ \A k \in 1 .. Len(s) : Append(s, e)[k] = s[k]
         /\ Len(s) \in Nat /\ \A k \in 1 .. Len(s) : s[k] \in S
OBVIOUS

\* The first element and the rest.
LEMMA TailElements ==
  ASSUME NEW S, NEW s \in Seq(S), s # <<>>
  PROVE  /\ Len(s) \in Nat /\ Len(s) > 0 /\ Head(s) = s[1] /\ Head(s) \in S
         /\ Tail(s) \in Seq(S) /\ Len(Tail(s)) = Len(s) - 1
         /\ \A k \in 1 .. (Len(s) - 1) : Tail(s)[k] = s[k + 1]
         /\ \A k \in 1 .. Len(s) : s[k] \in S
OBVIOUS

\* t occurs in s; nothing occurs in s twice.
InSeq(t, s) == \E k \in 1 .. Len(s) : s[k] = t
Once(s) == \A j, k \in 1 .. Len(s) : s[j] = s[k] => j = k

\* What an element at the end, or the first one away, changes.
LEMMA InSeqAppend ==
  ASSUME NEW S, NEW s \in Seq(S), NEW e \in S
  PROVE  /\ \A t : InSeq(t, Append(s, e)) <=> InSeq(t, s) \/ t = e
         /\ Once(s) /\ ~InSeq(e, s) => Once(Append(s, e))
<1>1. /\ Len(s) \in Nat /\ Len(Append(s, e)) = Len(s) + 1 /\ Append(s, e)[Len(s) + 1] = e
      /\ \A k \in 1 .. Len(s) : Append(s, e)[k] = s[k]
  BY AppendElements
<1>2. /\ \A k \in 1 .. (Len(s) + 1) : k \in 1 .. Len(s) \/ k = Len(s) + 1
      /\ Len(s) + 1 \in 1 .. (Len(s) + 1) /\ 1 .. Len(s) \subseteq 1 .. (Len(s) + 1)
  BY <1>1
<1>3. ASSUME NEW t PROVE InSeq(t, Append(s, e)) <=> InSeq(t, s) \/ t = e
  BY <1>1, <1>2 DEF InSeq
<1>4. ASSUME Once(s), ~InSeq(e, s) PROVE Once(Append(s, e))
  BY <1>1, <1>2, <1>4 DEF InSeq, Once
<1> QED
  BY <1>3, <1>4

LEMMA InSeqTail ==
  ASSUME NEW S, NEW s \in Seq(S), s # <<>>
  PROVE  /\ \A t : InSeq(t, s) <=> InSeq(t, Tail(s)) \/ t = Head(s)
         /\ Once(s) => Once(Tail(s)) /\ ~InSeq(Head(s), Tail(s))
<1> DEFINE n == Len(s)
<1>1. /\ n \in Nat /\ n > 0 /\ Head(s) = s[1] /\ Len(Tail(s)) = n - 1
      /\ \A k \in 1 .. (n - 1) : Tail(s)[k] = s[k + 1]
  BY TailElements
<1>2. /\ \A k \in 1 .. (n - 1) : k + 1 \in 1 .. n /\ k + 1 # 1
      /\ \A k \in 1 .. n : k # 1 => k - 1 \in 1 .. (n - 1) /\ (k - 1) + 1 = k
      /\ 1 \in 1 .. n
      /\ \A j, k \in 1 .. (n - 1) : j + 1 = k + 1 => j = k
  BY <1>1
<1> HIDE DEF n
<1>3. ASSUME NEW t PROVE InSeq(t, s) <=> InSeq(t, Tail(s)) \/ t = Head(s)
  <2>1. ASSUME NEW k \in 1 .. n, s[k] = t PROVE InSeq(t, Tail(s)) \/ t = Head(s)
    <3>1. CASE k = 1
      BY <1>1, <2>1, <3>1
    <3>2. CASE k # 1
      <4>1. Tail(s)[k - 1] = t /\ k - 1 \in 1 .. (n - 1)
        BY <1>1, <1>2, <2>1, <3>2
      <4> QED
        BY <1>1, <4>1 DEF InSeq
    <3> QED
      BY <3>1, <3>2
  <2>2. ASSUME NEW k \in 1 .. (n - 1), Tail(s)[k] = t PROVE InSeq(t, s)
    BY <1>1, <1>2, <2>2 DEF InSeq, n
  <2>3. t = Head(s) => InSeq(t, s)
    BY <1>1, <1>2 DEF InSeq, n
  <2> QED
    BY <1>1, <2>1, <2>2, <2>3 DEF InSeq, n
<1>4. ASSUME Once(s) PROVE Once(Tail(s)) /\ ~InSeq(Head(s), Tail(s))
  <2>1. ASSUME NEW j \in 1 .. (n - 1), NEW k \in 1 .. (n - 1), Tail(s)[j] = Tail(s)[k]
        PROVE  j = k
    <3>1. j + 1 = k + 1
      BY <1>1, <1>2, <1>4, <2>1 DEF Once, n
    <3> QED
      BY <1>2, <3>1
  <2>2. \A k \in 1 .. (n - 1) : Tail(s)[k] # Head(s)
    BY <1>1, <1>2, <1>4 DEF Once, n
  <2> QED
    BY <1>1, <2>1, <2>2 DEF Once, InSeq
<1> QED
  BY <1>3, <1>4

\* What occurs in s occurs once, if anything occurs once only.
LEMMA OccursOnce ==
  ASSUME NEW s, Once(s), NEW t
  PROVE  Cardinality({k \in 1 .. Len(s) : s[k] = t}) = IF InSeq(t, s) THEN 1 ELSE 0
<1>1. CASE InSeq(t, s)
  <2>1. PICK k \in 1 .. Len(s) : s[k] = t
    BY <1>1 DEF InSeq
  <2>2. {j \in 1 .. Len(s) : s[j] = t} = {k}
    BY <2>1 DEF Once
  <2> QED
    BY <1>1, <2>2, FS_Singleton
<1>2. CASE ~InSeq(t, s)
  <2>1. {j \in 1 .. Len(s) : s[j] = t} = {}
    BY <1>2 DEF InSeq
  <2> QED
    BY <1>2, <2>1, FS_EmptySet
<1> QED
  BY <1>1, <1>2

\* The elements of a sequence; one more in front, and the first one away.
Elements(s) == {s[i] : i \in DOMAIN s}

LEMMA ConsElements ==
  ASSUME NEW S, NEW e \in S, NEW s \in Seq(S)
  PROVE  <<e>> \o s \in Seq(S) /\ Elements(<<e>> \o s) = {e} \cup Elements(s)
<1> DEFINE c == <<e>> \o s
<1>1. /\ c \in Seq(S) /\ Len(s) \in Nat /\ Len(c) = Len(s) + 1 /\ c[1] = e
      /\ \A i \in 1 .. Len(s) : c[i + 1] = s[i]
      /\ DOMAIN c = 1 .. (Len(s) + 1) /\ DOMAIN s = 1 .. Len(s)
  OBVIOUS
<1>2. /\ \A i \in 1 .. (Len(s) + 1) : i = 1 \/ (i - 1 \in 1 .. Len(s) /\ (i - 1) + 1 = i)
      /\ \A i \in 1 .. Len(s) : i + 1 \in 1 .. (Len(s) + 1)
      /\ 1 \in 1 .. (Len(s) + 1)
  BY <1>1
<1> HIDE DEF c
<1>3. ASSUME NEW x \in Elements(c) PROVE x \in {e} \cup Elements(s)
  <2>1. PICK i \in 1 .. (Len(s) + 1) : x = c[i]
    BY <1>1, <1>3 DEF Elements
  <2>2. CASE i = 1
    BY <1>1, <2>1, <2>2
  <2>3. CASE i # 1
    <3>1. x = s[i - 1] /\ i - 1 \in 1 .. Len(s)
      BY <1>1, <1>2, <2>1, <2>3
    <3> QED
      BY <1>1, <3>1 DEF Elements
  <2> QED
    BY <2>2, <2>3
<1>4. ASSUME NEW x \in {e} \cup Elements(s) PROVE x \in Elements(c)
  BY <1>1, <1>2, <1>4 DEF Elements
<1> QED
  BY <1>1, <1>3, <1>4 DEF c

LEMMA HeadElements ==
  ASSUME NEW S, NEW s \in Seq(S), s # <<>>
  PROVE  Elements(s) = {Head(s)} \cup Elements(Tail(s))
<1>1. <<Head(s)>> \o Tail(s) = s
  OBVIOUS
<1>2. Head(s) \in S /\ Tail(s) \in Seq(S)
  OBVIOUS
<1>3. Elements(<<Head(s)>> \o Tail(s)) = {Head(s)} \cup Elements(Tail(s))
  BY <1>2, ConsElements
<1> QED
  BY <1>1, <1>3
-----------------------------------------------------------------------------
(* Induction and recursion.  The library's induction theorems have an operator *)
(* for a parameter; these have a set and a function in its place.              *)

\* A set of natural numbers that is not empty has a least one.
LEMMA NatLeast ==
  ASSUME NEW T, T \subseteq Nat, T # {}
  PROVE  \E x \in T : \A y \in T : x <= y
<1> DEFINE R == OpToRel(<, Nat)
<1>1. IsWellFoundedOn(R, Nat)
  BY NatLessThanWellFounded
<1>2. \A x, y \in T : <<x, y>> \notin R => y <= x
  BY DEF OpToRel
<1> HIDE DEF R
<1>3. \E x \in T : \A y \in T : ~ (<<y, x>> \in R)
  BY <1>1, WFMin
<1> QED
  BY <1>2, <1>3

\* Induction, for a set in the place of a property.
LEMMA Induction ==
  ASSUME NEW T, 0 \in T, \A n \in Nat : n \in T => n + 1 \in T
  PROVE  Nat \subseteq T
<1> SUFFICES ASSUME Nat \ T # {} PROVE FALSE
  OBVIOUS
<1>1. PICK x \in Nat \ T : \A y \in Nat \ T : x <= y
  <2> DEFINE U == Nat \ T
  <2>1. U \subseteq Nat /\ U # {}
    OBVIOUS
  <2> HIDE DEF U
  <2>2. \E x \in U : \A y \in U : x <= y
    BY <2>1, NatLeast
  <2> QED
    BY <2>2 DEF U
<1>2. x \in Nat /\ x # 0 /\ x \notin T
  BY <1>1
<1>3. x - 1 \in Nat /\ (x - 1) + 1 = x
  BY <1>2
<1>4. x - 1 \in T
  BY <1>1, <1>3
<1> QED
  BY <1>2, <1>3, <1>4

\* The same for sequences, which grow at their ends.
LEMMA SeqInduction ==
  ASSUME NEW W, NEW T, <<>> \in T,
         \A s \in Seq(W) : \A e \in W : s \in T => Append(s, e) \in T
  PROVE  Seq(W) \subseteq T
<1> DEFINE U == {k \in Nat : \A s \in Seq(W) : Len(s) = k => s \in T}
<1>1. 0 \in U
  <2>1. \A s \in Seq(W) : Len(s) = 0 => s = <<>>
    OBVIOUS
  <2> QED
    BY <2>1
<1>2. ASSUME NEW k \in Nat, k \in U PROVE k + 1 \in U
  <2> SUFFICES ASSUME NEW s \in Seq(W), Len(s) = k + 1 PROVE s \in T
    OBVIOUS
  <2>1. s # <<>>
    OBVIOUS
  <2>2. PICK r \in Seq(W), e \in W : s = Append(r, e)
    BY <2>1, SequenceEmptyOrAppend
  <2>3. Len(r) = k
    BY <2>2
  <2> QED
    BY <1>2, <2>2, <2>3
<1> HIDE DEF U
<1>3. Nat \subseteq U
  BY <1>1, <1>2, Induction
<1>4. \A s \in Seq(W) : Len(s) \in Nat
  OBVIOUS
<1> QED
  BY <1>3, <1>4 DEF U

\* f takes m turns of a recursion that begins with a and goes on with G.
Follows(f, X, a, G, m) == /\ f \in [0 .. m -> X] /\ f[0] = a
                          /\ \A n \in 1 .. m : f[n] = G[<<f[n - 1], n>>]
Followed(X, a, G, m) == \E f : Follows(f, X, a, G, m)

\* A recursion can be followed for any number of turns.
LEMMA Recursion ==
  ASSUME NEW X, NEW a \in X, NEW G \in [X \X Nat -> X], NEW m \in Nat
  PROVE  Followed(X, a, G, m)
<1> DEFINE Turns(k) == \E f \in [0 .. k -> X] : f[0] = a /\ \A n \in 1 .. k : f[n] = G[<<f[n - 1], n>>]
           T == {k \in Nat : Turns(k)}
<1>1. 0 \in T
  <2> DEFINE f == [i \in 0 .. 0 |-> a]
  <2>1. f \in [0 .. 0 -> X] /\ f[0] = a /\ \A n \in 1 .. 0 : f[n] = G[<<f[n - 1], n>>]
    OBVIOUS
  <2>2. Turns(0)
    BY <2>1
  <2> QED
    BY <2>2
<1>2. ASSUME NEW k \in Nat, k \in T PROVE k + 1 \in T
  <2>1. PICK f \in [0 .. k -> X] : f[0] = a /\ \A n \in 1 .. k : f[n] = G[<<f[n - 1], n>>]
    BY <1>2
  <2> DEFINE g == [i \in 0 .. (k + 1) |-> IF i = k + 1 THEN G[<<f[k], k + 1>>] ELSE f[i]]
  <2>2. g \in [0 .. (k + 1) -> X]
    <3>1. G[<<f[k], k + 1>>] \in X
      OBVIOUS
    <3> QED
      BY <3>1
  <2>3. g[0] = a /\ \A i \in 0 .. k : g[i] = f[i]
    BY <2>1
  <2>4. \A n \in 1 .. (k + 1) : g[n] = G[<<g[n - 1], n>>]
    <3>1. ASSUME NEW n \in 1 .. (k + 1) PROVE g[n] = G[<<g[n - 1], n>>]
      <4>1. n - 1 \in 0 .. k /\ n \in 0 .. (k + 1) /\ (n = k + 1 \/ n \in 1 .. k)
        OBVIOUS
      <4>2. g[n - 1] = f[n - 1]
        BY <2>3, <4>1
      <4>3. CASE n = k + 1
        <5>1. n - 1 = k
          BY <4>3
        <5> QED
          BY <4>1, <4>2, <4>3, <5>1
      <4>4. CASE n \in 1 .. k
        <5>1. n \in 0 .. k
          BY <4>4
        <5>2. g[n] = f[n]
          BY <2>3, <5>1
        <5> QED
          BY <2>1, <4>2, <4>4, <5>2
      <4> QED
        BY <4>1, <4>3, <4>4
    <3> QED
      BY <3>1
  <2> HIDE DEF g
  <2>5. Turns(k + 1)
    BY <2>2, <2>3, <2>4
  <2> QED
    BY <2>5
<1> HIDE DEF T
<1>3. Nat \subseteq T
  BY <1>1, <1>2, Induction
<1> QED
  BY <1>3 DEF T, Followed, Follows

\* f does so for ever.
Turning(f, X, a, G) == /\ f \in [Nat -> X] /\ f[0] = a
                       /\ \A m \in Nat : f[m + 1] = G[<<f[m], m + 1>>]

\* A recursion defines a function on the natural numbers.
LEMMA Turns ==
  ASSUME NEW X, NEW a \in X, NEW G \in [X \X Nat -> X]
  PROVE  \E f : Turning(f, X, a, G)
<1> DEFINE Upto(m) == CHOOSE f : Follows(f, X, a, G, m)
           g == [m \in Nat |-> Upto(m)[m]]
<1>1. \A m \in Nat : Follows(Upto(m), X, a, G, m)
  BY Recursion DEF Followed
<1> HIDE DEF Upto
<1>2. ASSUME NEW m \in Nat PROVE \A n \in 0 .. m : Upto(m + 1)[n] = Upto(m)[n]
  <2> DEFINE T == {n \in Nat : n <= m => Upto(m + 1)[n] = Upto(m)[n]}
  <2>1. Follows(Upto(m), X, a, G, m) /\ Follows(Upto(m + 1), X, a, G, m + 1)
    BY <1>1
  <2>2. 0 \in T
    BY <2>1 DEF Follows
  <2>3. ASSUME NEW n \in Nat, n \in T PROVE n + 1 \in T
    <3> SUFFICES ASSUME n + 1 <= m PROVE Upto(m + 1)[n + 1] = Upto(m)[n + 1]
      OBVIOUS
    <3>1. n + 1 \in 1 .. m /\ n + 1 \in 1 .. (m + 1) /\ (n + 1) - 1 = n /\ n <= m
      OBVIOUS
    <3>2. Upto(m + 1)[n] = Upto(m)[n]
      BY <2>3, <3>1
    <3> QED
      BY <2>1, <3>1, <3>2 DEF Follows
  <2> HIDE DEF T
  <2>4. Nat \subseteq T
    BY <2>2, <2>3, Induction
  <2> QED
    BY <2>4 DEF T
<1>3. g \in [Nat -> X]
  <2>1. \A m \in Nat : Upto(m)[m] \in X
    <3> SUFFICES ASSUME NEW m \in Nat PROVE Upto(m)[m] \in X
      OBVIOUS
    <3>1. m \in 0 .. m
      OBVIOUS
    <3> QED
      BY <1>1, <3>1 DEF Follows
  <2> QED
    BY <2>1
<1>4. g[0] = a
  BY <1>1 DEF Follows
<1>5. \A m \in Nat : g[m + 1] = G[<<g[m], m + 1>>]
  <2> SUFFICES ASSUME NEW m \in Nat PROVE g[m + 1] = G[<<g[m], m + 1>>]
    OBVIOUS
  <2>1. m + 1 \in Nat /\ m + 1 \in 1 .. (m + 1) /\ (m + 1) - 1 = m /\ m \in 0 .. m
    OBVIOUS
  <2>2. Upto(m + 1)[m + 1] = G[<<Upto(m + 1)[m], m + 1>>]
    BY <1>1, <2>1 DEF Follows
  <2>3. Upto(m + 1)[m] = Upto(m)[m]
    BY <1>2, <2>1
  <2> QED
    BY <2>1, <2>2, <2>3
<1> HIDE DEF g
<1> QED
  BY <1>3, <1>4, <1>5 DEF Turning

-----------------------------------------------------------------------------
(* Paths: what a recursive walk over a set of points computes *)

\* A path that goes on from p to next[p] until it is in End, and takes use[p] with it.
Walks(h, D, End, use, next) ==
    h = [p \in D |-> IF p \in End THEN <<>> ELSE <<use[p]>> \o h[next[p]]]

\* There is one if each step brings the end nearer.
LEMMA PathRecursion ==
  ASSUME NEW D, NEW V, NEW End, NEW use \in [D -> V], NEW next \in [D -> D], NEW M \in [D -> Nat],
         \A p \in D \ End : M[next[p]] < M[p]
  PROVE  \E h : Walks(h, D, End, use, next)
<1> DEFINE X == [D -> Seq(V)]
           Longer(f) == [p \in D |-> IF p \in End THEN <<>> ELSE <<use[p]>> \o f[next[p]]]
           G == [q \in X \X Nat |-> Longer(q[1])]
           a == [p \in D |-> <<>>]
<1>1. a \in X /\ \A f \in X : Longer(f) \in X
  <2>1. <<>> \in Seq(V) /\ \A p \in D : <<use[p]>> \in Seq(V) /\ next[p] \in D
    OBVIOUS
  <2>2. \A s, t \in Seq(V) : s \o t \in Seq(V)
    OBVIOUS
  <2>3. ASSUME NEW f \in X, NEW p \in D
        PROVE  (IF p \in End THEN <<>> ELSE <<use[p]>> \o f[next[p]]) \in Seq(V)
    BY <2>1, <2>2
  <2> QED
    BY <2>1, <2>3
<1> HIDE DEF Longer, a, X
<1>2. G \in [X \X Nat -> X]
  BY <1>1
<1>3. PICK F : /\ F \in [Nat -> X] /\ F[0] = a
               /\ \A m \in Nat : F[m + 1] = G[<<F[m], m + 1>>]
  <2> HIDE DEF G
  <2>1. \E f : Turning(f, X, a, G)
    BY <1>1, <1>2, Turns
  <2> QED
    BY <2>1 DEF Turning
<1>4. \A m \in Nat : F[m] \in X /\ F[m + 1] = Longer(F[m])
  <2>1. \A m \in Nat : <<F[m], m + 1>> \in X \X Nat
    BY <1>3
  <2> QED
    BY <1>3, <2>1
<1> HIDE DEF G
<1>5. \A m \in Nat : \A p \in D :
         F[m + 1][p] = IF p \in End THEN <<>> ELSE <<use[p]>> \o F[m][next[p]]
  BY <1>4 DEF Longer
\* A longer try does not change what is there.
<1>6. \A m \in Nat : \A p \in D : M[p] < m => F[m + 1][p] = F[m][p]
  <2> DEFINE T == {m \in Nat : \A p \in D : M[p] < m => F[m + 1][p] = F[m][p]}
  <2>1. 0 \in T
    OBVIOUS
  <2>2. ASSUME NEW m \in Nat, m \in T PROVE m + 1 \in T
    <3> SUFFICES ASSUME NEW p \in D, M[p] < m + 1 PROVE F[(m + 1) + 1][p] = F[m + 1][p]
      OBVIOUS
    <3>1. CASE p \in End
      <4>1. m + 1 \in Nat
        OBVIOUS
      <4>2. F[(m + 1) + 1][p] = <<>> /\ F[m + 1][p] = <<>>
        BY <1>5, <3>1, <4>1
      <4> QED
        BY <4>2
    <3>2. CASE p \notin End
      <4>1. next[p] \in D /\ M[next[p]] < m
        <5>1. M[next[p]] < M[p] /\ next[p] \in D
          BY <3>2
        <5>2. M[next[p]] \in Nat /\ M[p] \in Nat
          BY <5>1
        <5> QED
          BY <5>1, <5>2
      <4>2. F[m + 1][next[p]] = F[m][next[p]]
        BY <2>2, <4>1
      <4>3. F[m + 1][p] = <<use[p]>> \o F[m][next[p]]
        BY <1>5, <3>2
      <4>4. m + 1 \in Nat
        OBVIOUS
      <4>5. F[(m + 1) + 1][p] = <<use[p]>> \o F[m + 1][next[p]]
        BY <1>5, <3>2, <4>4
      <4> QED
        BY <4>2, <4>3, <4>5
    <3> QED
      BY <3>1, <3>2
  <2> HIDE DEF T
  <2>3. Nat \subseteq T
    BY <2>1, <2>2, Induction
  <2> QED
    BY <2>3 DEF T
<1>7. \A m \in Nat : \A p \in D : M[p] < m => F[m][p] = F[M[p] + 1][p]
  <2> DEFINE T == {m \in Nat : \A p \in D : M[p] < m => F[m][p] = F[M[p] + 1][p]}
  <2>1. 0 \in T
    OBVIOUS
  <2>2. ASSUME NEW m \in Nat, m \in T PROVE m + 1 \in T
    <3> SUFFICES ASSUME NEW p \in D, M[p] < m + 1 PROVE F[m + 1][p] = F[M[p] + 1][p]
      OBVIOUS
    <3>1. M[p] = m \/ M[p] < m
      OBVIOUS
    <3> QED
      BY <1>6, <2>2, <3>1
  <2> HIDE DEF T
  <2>3. Nat \subseteq T
    BY <2>1, <2>2, Induction
  <2> QED
    BY <2>3 DEF T
<1> DEFINE h == [p \in D |-> F[M[p] + 1][p]]
<1>8. h = [p \in D |-> h[p]]
  OBVIOUS
<1>9. ASSUME NEW p \in D
      PROVE  h[p] = IF p \in End THEN <<>> ELSE <<use[p]>> \o h[next[p]]
  <2>1. h[p] = IF p \in End THEN <<>> ELSE <<use[p]>> \o F[M[p]][next[p]]
    BY <1>5
  <2>2. p \notin End => F[M[p]][next[p]] = h[next[p]]
    BY <1>7
  <2> QED
    BY <2>1, <2>2
<1> HIDE DEF h
<1> QED
  BY <1>8, <1>9 DEF Walks

\* q[0], ..., q[m] are the points of such a path, the last of them in End.
Visits(q, m, D, End, next) ==
    /\ m \in Nat /\ q \in [0 .. m -> D] /\ q[m] \in End
    /\ \A j \in 0 .. (m - 1) : q[j] \notin End /\ q[j + 1] = next[q[j]]

\* What they are used for.
UsedFor(q, m, use) == [j \in 1 .. m |-> use[q[j - 1]]]

\* Along a walk that ends, the path is what the points it visits are used for.
LEMMA PathOf ==
  ASSUME NEW D, NEW End, NEW use, NEW next, NEW h,
         Walks(h, D, End, use, next),
         NEW m, NEW q, Visits(q, m, D, End, next)
  PROVE  h[q[0]] = UsedFor(q, m, use)
<1> DEFINE V == {use[p] : p \in D}
           Rest(k) == [j \in 1 .. k |-> use[q[m - k + j - 1]]]
           T == {k \in Nat : k <= m => h[q[m - k]] = Rest(k)}
<1>0. m \in Nat /\ q \in [0 .. m -> D] /\ q[m] \in End
  BY DEF Visits
<1>1. 0 \in T
  <2>1. m - 0 = m /\ q[m] \in D
    BY <1>0
  <2>2. h[q[m]] = <<>>
    BY <1>0, <2>1 DEF Walks
  <2>3. Rest(0) = <<>>
    OBVIOUS
  <2> QED
    BY <2>1, <2>2, <2>3
<1>2. ASSUME NEW k \in Nat, k \in T PROVE k + 1 \in T
  <2> SUFFICES ASSUME k + 1 <= m PROVE h[q[m - (k + 1)]] = Rest(k + 1)
    OBVIOUS
  <2> DEFINE i == m - (k + 1)
  <2>1. i \in 0 .. (m - 1) /\ i + 1 = m - k /\ i \in 0 .. m
    BY <1>0
  <2>2. q[i] \notin End /\ q[m - k] = next[q[i]] /\ q[i] \in D
    BY <2>1 DEF Visits
  <2>3. h[q[i]] = <<use[q[i]]>> \o Rest(k)
    <3>1. h[q[m - k]] = Rest(k)
      <4>1. k <= m
        BY <1>0
      <4> QED
        BY <1>2, <4>1
    <3>2. h[q[i]] = <<use[q[i]]>> \o h[next[q[i]]]
      BY <2>2 DEF Walks
    <3> HIDE DEF Rest, i
    <3> QED
      BY <2>2, <3>1, <3>2
  <2>4. use[q[i]] \in V /\ \A j \in 1 .. k : use[q[m - k + j - 1]] \in V
    <3>1. \A j \in 1 .. k : m - k + j - 1 \in 0 .. m
      BY <1>0
    <3> QED
      BY <1>0, <2>2, <3>1
  <2>5. Rest(k) \in Seq(V) /\ Len(Rest(k)) = k
    BY <2>4
  <2>6. <<use[q[i]]>> \in Seq(V) /\ Len(<<use[q[i]]>>) = 1 /\ <<use[q[i]]>>[1] = use[q[i]]
    BY <2>4
  <2> DEFINE c == <<use[q[i]]>> \o Rest(k)
  <2>7. c \in Seq(V) /\ Len(c) = k + 1 /\ c[1] = use[q[i]]
    BY <2>5, <2>6
  <2>8. ASSUME NEW j \in 1 .. (k + 1) PROVE c[j] = Rest(k + 1)[j]
    <3>1. CASE j = 1
      <4>1. m - (k + 1) + 1 - 1 = i
        BY <1>0
      <4> QED
        BY <2>7, <3>1, <4>1
    <3>2. CASE j # 1
      <4>1. j - 1 \in 1 .. k /\ m - k + (j - 1) - 1 = m - (k + 1) + j - 1
        BY <1>0, <3>2
      <4>2. c[j] = Rest(k)[j - 1]
        <5> HIDE DEF Rest
        <5> QED
          BY <2>5, <2>6, <3>2
      <4> QED
        BY <4>1, <4>2
    <3> QED
      BY <3>1, <3>2
  <2>9. c = [j \in 1 .. (k + 1) |-> c[j]]
    <3> HIDE DEF c
    <3> QED
      BY <2>7
  <2>10. c = Rest(k + 1)
    <3> HIDE DEF c
    <3> QED
      BY <2>8, <2>9
  <2> QED
    BY <2>3, <2>10
<1> HIDE DEF T
<1>3. Nat \subseteq T
  BY <1>1, <1>2, Induction
<1>4. h[q[m - m]] = Rest(m)
  BY <1>0, <1>3 DEF T
<1>5. m - m = 0 /\ \A j \in 1 .. m : m - m + j - 1 = j - 1
  BY <1>0
<1>6. Rest(m) = UsedFor(q, m, use)
  BY <1>5 DEF UsedFor
<1> QED
  BY <1>4, <1>5, <1>6
=============================================================================
