------------------------------ MODULE Iteration ------------------------------
(***************************************************************************)
(* Lemmas about numbers, remainders and loops that the proofs of the other *)
(* modules need.  The induction theorems of the library take a predicate;  *)
(* here a predicate is a set, so that they can be used by name.            *)
(***************************************************************************)
EXTENDS Integers, WellFoundedInduction, TLAPS

\* A set of natural numbers that is not empty has a least one.
LEMMA LeastNumber ==
    ASSUME NEW T, T \subseteq Nat, T # {}
    PROVE  \E x \in T : \A y \in T : x <= y
<1> DEFINE R == OpToRel(<, Nat)
<1>1. IsWellFoundedOn(R, Nat)
  BY NatLessThanWellFounded
<1>2. \A x, y \in Nat : x < y => <<x, y>> \in R
  BY DEF OpToRel
<1> HIDE DEF R
<1>3. PICK x \in T : \A y \in T : <<y, x>> \notin R
  BY <1>1, WFMin
<1>4. ASSUME NEW y \in T PROVE x <= y
  <2>1. x \in Nat /\ y \in Nat
    OBVIOUS
  <2>2. ~(y < x)
    BY <1>2, <1>3, <2>1
  <2> QED
    BY <2>1, <2>2
<1> QED
  BY <1>4

\* A set with 0 and with the successor of each of its numbers has them all.
LEMMA NumberInduction ==
    ASSUME NEW S, 0 \in S, \A n \in Nat : n \in S => n + 1 \in S
    PROVE  Nat \subseteq S
<1> SUFFICES ASSUME Nat \ S # {} PROVE FALSE
  OBVIOUS
<1>1. PICK m \in Nat \ S : \A y \in Nat \ S : m <= y
  BY LeastNumber
<1>2. m # 0 /\ m - 1 \in Nat
  BY <1>1
<1>3. m - 1 \in S
  BY <1>1, <1>2
<1>4. m - 1 + 1 = m
  BY <1>1
<1> QED
  BY <1>1, <1>2, <1>3, <1>4

\* The rounds of a loop, of which round n makes F[n][x] of x, stay in T.
StaysIn(N, T, F) == \A n \in 1 .. N : \A x \in T : F[n][x] \in T

\* The sequences of intermediate values of the loop from base.
Loops(N, T, F, base) ==
    {g \in [0 .. N -> T] : g[0] = base /\ \A n \in 1 .. N : g[n] = F[n][g[n - 1]]}

\* A loop has a sequence of intermediate values.
LEMMA LoopExists ==
    ASSUME NEW N \in Nat, NEW T, NEW F, NEW base \in T, StaysIn(N, T, F)
    PROVE  Loops(N, T, F, base) # {}
<1> USE DEF StaysIn, Loops
<1> DEFINE Run(m, g) == g[0] = base /\ \A n \in 1 .. m : g[n] = F[n][g[n - 1]]
           S == {m \in Nat : m <= N => \E g \in [0 .. m -> T] : Run(m, g)}
<1>1. 0 \in S
  <2>1. [n \in 0 .. 0 |-> base] \in [0 .. 0 -> T] /\ Run(0, [n \in 0 .. 0 |-> base])
    OBVIOUS
  <2> QED
    BY <2>1
<1>2. ASSUME NEW m \in Nat, m \in S PROVE m + 1 \in S
  <2> SUFFICES ASSUME m + 1 <= N PROVE \E g \in [0 .. m + 1 -> T] : Run(m + 1, g)
    OBVIOUS
  <2>1. PICK g \in [0 .. m -> T] : Run(m, g)
    BY <1>2
  <2> DEFINE h == [n \in 0 .. m + 1 |-> IF n = m + 1 THEN F[m + 1][g[m]] ELSE g[n]]
  <2>2. F[m + 1][g[m]] \in T
    <3>1. m + 1 \in 1 .. N /\ g[m] \in T
      OBVIOUS
    <3> QED
      BY <3>1
  <2>3. h \in [0 .. m + 1 -> T]
    BY <2>2
  <2>4. h[0] = base
    BY <2>1
  <2>5. ASSUME NEW n \in 1 .. m + 1 PROVE h[n] = F[n][h[n - 1]]
    <3>1. CASE n = m + 1
      BY <3>1
    <3>2. CASE n # m + 1
      BY <2>1, <3>2
    <3> QED
      BY <3>1, <3>2
  <2> HIDE DEF h
  <2> QED
    BY <2>3, <2>4, <2>5
<1> HIDE DEF S
<1>3. N \in S
  BY <1>1, <1>2, NumberInduction
<1> QED
  BY <1>3 DEF S

\* What holds at the beginning of a loop and is kept by each round holds at its end.
LEMMA LoopInvariant ==
    ASSUME NEW N \in Nat, NEW f, NEW T, f[0] \in T,
           \A n \in 1 .. N : f[n - 1] \in T => f[n] \in T
    PROVE  \A n \in 0 .. N : f[n] \in T
<1> DEFINE S == {m \in Nat : m <= N => f[m] \in T}
<1>1. 0 \in S
  OBVIOUS
<1>2. ASSUME NEW m \in Nat, m \in S PROVE m + 1 \in S
  <2> SUFFICES ASSUME m + 1 <= N PROVE f[m + 1] \in T
    OBVIOUS
  <2>1. m + 1 \in 1 .. N /\ (m + 1) - 1 = m
    OBVIOUS
  <2> QED
    BY <1>2, <2>1
<1> HIDE DEF S
<1>3. Nat \subseteq S
  BY <1>1, <1>2, NumberInduction
<1> QED
  BY <1>3 DEF S

-----------------------------------------------------------------------------
(* Remainders                                                              *)

\* What / and % of the code give, for any sign of the dividend as in the models.
LEMMA Division ==
    ASSUME NEW a \in Int, NEW p \in Nat \ {0}
    PROVE  a % p \in 0 .. p - 1 /\ a \div p \in Int /\ a = p * (a \div p) + (a % p)
BY Z3

\* There is only one quotient and one remainder.
LEMMA DivisionUnique ==
    ASSUME NEW a \in Int, NEW p \in Nat \ {0}, NEW q \in Int, NEW r \in 0 .. p - 1,
           a = p * q + r
    PROVE  a \div p = q /\ a % p = r
<1> DEFINE q2 == a \div p
           r2 == a % p
<1>1. q2 \in Int /\ r2 \in 0 .. p - 1 /\ p * q + r = p * q2 + r2
  BY Division
<1> HIDE DEF q2, r2
<1>2. p * (q - q2) = r2 - r /\ p * (q2 - q) = r - r2
  BY <1>1, Z3
<1>3. CASE q - q2 >= 1
  <2>1. p * (q - q2) >= p
    BY <1>1, <1>3, Z3
  <2> QED
    BY <2>1, <1>1, <1>2, Z3
<1>4. CASE q2 - q >= 1
  <2>1. p * (q2 - q) >= p
    BY <1>1, <1>4, Z3
  <2> QED
    BY <2>1, <1>1, <1>2, Z3
<1>5. q = q2
  BY <1>1, <1>3, <1>4, Z3
<1>6. r = r2
  BY <1>1, <1>5, Z3
<1> QED
  BY <1>5, <1>6 DEF q2, r2

\* A number within the range is its own remainder, and one that has left it by
\* less than the divisor is brought back once.
LEMMA SmallRemainder ==
    ASSUME NEW p \in Nat \ {0}, NEW a \in -p .. 2 * p - 1
    PROVE  a % p = IF a < 0 THEN a + p ELSE IF a < p THEN a ELSE a - p
<1>1. CASE a < 0
  <2>1. a = p * (-1) + (a + p) /\ a + p \in 0 .. p - 1
    BY <1>1, Z3
  <2> QED
    BY <2>1, <1>1, DivisionUnique
<1>2. CASE 0 <= a /\ a < p
  <2>1. a = p * 0 + a /\ a \in 0 .. p - 1
    BY <1>2, Z3
  <2> QED
    BY <2>1, <1>2, DivisionUnique
<1>3. CASE p <= a
  <2>1. a = p * 1 + (a - p) /\ a - p \in 0 .. p - 1
    BY <1>3, Z3
  <2> QED
    BY <2>1, <1>3, DivisionUnique
<1> QED
  BY <1>1, <1>2, <1>3, Z3

\* A place of a ring of p places, and the one k places further,
LEMMA RingPlus ==
    ASSUME NEW p \in Nat \ {0}, NEW a \in 0 .. p - 1, NEW k \in 0 .. p
    PROVE  (a + k) % p = IF a + k < p THEN a + k ELSE a + k - p
<1> DEFINE s == a + k
<1>1. s \in -p .. 2 * p - 1 /\ s >= 0
  OBVIOUS
<1> HIDE DEF s
<1>2. s % p = IF s < 0 THEN s + p ELSE IF s < p THEN s ELSE s - p
  BY <1>1, SmallRemainder
<1>3. s % p = IF s < p THEN s ELSE s - p
  BY <1>1, <1>2
<1> QED
  BY <1>3 DEF s

\* and how far one place is behind another.
LEMMA RingMinus ==
    ASSUME NEW p \in Nat \ {0}, NEW a \in 0 .. p - 1, NEW b \in 0 .. p - 1
    PROVE  (a - b) % p = IF a >= b THEN a - b ELSE a - b + p
<1> DEFINE s == a - b
<1>1. s \in -p .. 2 * p - 1 /\ s < p /\ (s >= 0 <=> a >= b)
  OBVIOUS
<1> HIDE DEF s
<1>2. s % p = IF s < 0 THEN s + p ELSE IF s < p THEN s ELSE s - p
  BY <1>1, SmallRemainder
<1>3. s % p = IF s >= 0 THEN s ELSE s + p
  BY <1>1, <1>2
<1>4. s % p = IF a >= b THEN s ELSE s + p
  BY <1>1, <1>3
<1> QED
  BY <1>4 DEF s

\* Going on by one.
LEMMA NextRemainder ==
    ASSUME NEW a \in Int, NEW p \in Nat \ {0}
    PROVE  (a + 1) % p = IF a % p = p - 1 THEN 0 ELSE (a % p) + 1
<1> DEFINE q == a \div p
           r == a % p
<1>1. q \in Int /\ r \in 0 .. p - 1 /\ a = p * q + r
  BY Division
<1> HIDE DEF q, r
<1>2. CASE r = p - 1
  <2>1. a + 1 = p * (q + 1) + 0 /\ 0 \in 0 .. p - 1 /\ q + 1 \in Int
    BY <1>1, <1>2, Z3
  <2> QED
    BY <2>1, <1>2, DivisionUnique DEF r
<1>3. CASE r # p - 1
  <2>1. a + 1 \in Int /\ a + 1 = p * q + (r + 1) /\ r + 1 \in 0 .. p - 1
    BY <1>1, <1>3, Z3
  <2>2. (a + 1) % p = r + 1
    BY <2>1, <1>1, DivisionUnique
  <2> QED
    BY <2>2, <1>3 DEF r
<1> QED
  BY <1>2, <1>3 DEF r

\* Whole divisors do not matter,
LEMMA ShiftRemainder ==
    ASSUME NEW a \in Int, NEW p \in Nat \ {0}
    PROVE  (a - p) % p = a % p
<1> DEFINE q == a \div p
           r == a % p
<1>1. q \in Int /\ r \in 0 .. p - 1 /\ a = p * q + r
  BY Division
<1> HIDE DEF q, r
<1>2. a - p \in Int /\ q - 1 \in Int /\ a - p = p * (q - 1) + r
  BY <1>1, Z3
<1>3. (a - p) % p = r
  BY <1>1, <1>2, DivisionUnique
<1> QED
  BY <1>3 DEF r

\* and a sum may be reduced before or after something is added.
LEMMA SumRemainder ==
    ASSUME NEW a \in Int, NEW b \in Int, NEW p \in Nat \ {0}
    PROVE  ((a % p) + b) % p = (a + b) % p
<1> DEFINE q == a \div p
           r == a % p
           q2 == (r + b) \div p
           r2 == (r + b) % p
<1>1. q \in Int /\ r \in 0 .. p - 1 /\ a = p * q + r
  BY Division
<1>2. r + b \in Int
  BY <1>1
<1>3. q2 \in Int /\ r2 \in 0 .. p - 1 /\ r + b = p * q2 + r2
  BY <1>2, Division
<1> HIDE DEF q, r, q2, r2
<1>4. a + b \in Int /\ q + q2 \in Int /\ a + b = p * (q + q2) + r2
  BY <1>1, <1>3, Z3
<1>5. (a + b) % p = r2
  BY <1>3, <1>4, DivisionUnique
<1> QED
  BY <1>5 DEF r2, r

\* Going on by one, what the quotient does.
LEMMA NextQuotient ==
    ASSUME NEW a \in Int, NEW p \in Nat \ {0}
    PROVE  (a + 1) \div p = IF (a + 1) % p = 0 THEN (a \div p) + 1 ELSE a \div p
<1> DEFINE q == a \div p
           r == a % p
<1>1. q \in Int /\ r \in 0 .. p - 1 /\ a = p * q + r
  BY Division
<1>2. a + 1 \in Int
  OBVIOUS
<1>3. CASE r = p - 1
  <2> HIDE DEF q, r
  <2>1. a + 1 = p * (q + 1) + 0 /\ 0 \in 0 .. p - 1 /\ q + 1 \in Int
    BY <1>1, <1>3, Z3
  <2>2. (a + 1) \div p = q + 1 /\ (a + 1) % p = 0
    BY <1>2, <2>1, DivisionUnique
  <2> QED
    BY <2>2 DEF q
<1>4. CASE r # p - 1
  <2> HIDE DEF q, r
  <2>1. a + 1 = p * q + (r + 1) /\ r + 1 \in 0 .. p - 1 /\ r + 1 # 0
    BY <1>1, <1>4, Z3
  <2>2. (a + 1) \div p = q /\ (a + 1) % p = r + 1
    BY <1>1, <1>2, <2>1, DivisionUnique
  <2> QED
    BY <2>1, <2>2 DEF q
<1> QED
  BY <1>3, <1>4

\* The part of a number above its remainder is the quotient.
LEMMA HighPart ==
    ASSUME NEW a \in Int, NEW p \in Nat \ {0}, NEW r \in 0 .. p - 1
    PROVE  /\ (a - (a % p) + r) \in Int
           /\ (a - (a % p) + r) \div p = a \div p
           /\ (a - (a % p) + r) = p * (a \div p) + r
<1> DEFINE q == a \div p
           s == a % p
<1>1. q \in Int /\ s \in 0 .. p - 1 /\ a = p * q + s
  BY Division
<1> HIDE DEF q, s
<1>2. a - s + r \in Int /\ a - s + r = p * q + r
  BY <1>1, Z3
<1>3. (a - s + r) \div p = q
  BY <1>1, <1>2, DivisionUnique
<1> QED
  BY <1>2, <1>3 DEF q, s

\* A whole divisor more.
LEMMA MoreQuotient ==
    ASSUME NEW a \in Int, NEW p \in Nat \ {0}
    PROVE  (a + p) \div p = (a \div p) + 1
<1> DEFINE q == a \div p
           r == a % p
<1>1. q \in Int /\ r \in 0 .. p - 1 /\ a = p * q + r
  BY Division
<1> HIDE DEF q, r
<1>2. a + p \in Int /\ q + 1 \in Int /\ a + p = p * (q + 1) + r
  BY <1>1, Z3
<1>3. (a + p) \div p = q + 1
  BY <1>1, <1>2, DivisionUnique
<1> QED
  BY <1>3 DEF q

\* Numbers below a multiple of the divisor, by their quotients.
LEMMA QuotientBelow ==
    ASSUME NEW a \in Int, NEW p \in Nat \ {0}, NEW w \in Int, w % p = 0
    PROVE  a < w <=> a \div p < w \div p
<1> DEFINE q == a \div p
           r == a % p
           m == w \div p
<1>1. q \in Int /\ r \in 0 .. p - 1 /\ a = p * q + r
  BY Division
<1>2. m \in Int /\ w = p * m
  <2>1. m \in Int /\ w = p * m + (w % p)
    BY Division
  <2> HIDE DEF m
  <2> QED
    BY <2>1, Z3
<1> HIDE DEF q, r, m
<1>3. CASE q < m
  <2>1. p * (m - q) >= p
    BY <1>1, <1>2, <1>3, Z3
  <2>2. p * (m - q) = w - a + r
    BY <1>1, <1>2, Z3
  <2>3. a < w
    BY <1>1, <2>1, <2>2, Z3
  <2> QED
    BY <1>3, <2>3 DEF q, m
<1>4. CASE ~(q < m)
  <2>1. p * (q - m) >= 0
    BY <1>1, <1>2, <1>4, Z3
  <2>2. p * (q - m) = a - r - w
    BY <1>1, <1>2, Z3
  <2>3. ~(a < w)
    BY <1>1, <2>1, <2>2, Z3
  <2> QED
    BY <1>4, <2>3 DEF q, m
<1> QED
  BY <1>3, <1>4
=============================================================================
