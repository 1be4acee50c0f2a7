------------------------------ MODULE NbfiLemmas ------------------------------
(***************************************************************************)
(* Facts of arithmetic the proofs of the components share: quotient and    *)
(* remainder by a number that is a constant of the model, and the least    *)
(* element of a set of naturals, which stands for induction.               *)
(***************************************************************************)
EXTENDS Integers, WellFoundedInduction, TLAPS

\* Induction in the form the provers can use: a set of counterexamples has a
\* least one.
LEMMA LeastOf ==
    ASSUME NEW T \in SUBSET Nat, T # {}
    PROVE \E n \in T : \A m \in T : n <= m
<1>1. PICK n \in T : \A m \in T : ~(<<m, n>> \in OpToRel(<, Nat))
  BY NatLessThanWellFounded, WFMin
<1>2. \A m \in T : ~(m < n)
  BY <1>1 DEF OpToRel
<1> QED BY <1>2

\* A number is made of its quotient and its remainder.
LEMMA DivMod ==
    ASSUME NEW a \in Int, NEW d \in Nat \ {0}
    PROVE a \div d \in Int /\ a % d \in 0 .. d - 1 /\ a = d * (a \div d) + (a % d)
OBVIOUS

\* They are the only ones.
LEMMA DivModUnique ==
    ASSUME NEW d \in Nat \ {0}, NEW q \in Int, NEW r \in 0 .. d - 1
    PROVE (d * q + r) \div d = q /\ (d * q + r) % d = r
OBVIOUS

\* The quotient keeps the order.
LEMMA DivOrder ==
    ASSUME NEW d \in Nat \ {0}, NEW a \in Int, NEW b \in Int, a <= b
    PROVE a \div d <= b \div d
OBVIOUS

\* So does a product with a natural number.
LEMMA MulOrder ==
    ASSUME NEW a \in Int, NEW b \in Int, NEW c \in Nat, a <= b
    PROVE c * a <= c * b
OBVIOUS

LEMMA MulSum ==
    ASSUME NEW a \in Int, NEW b \in Int, NEW c \in Int
    PROVE /\ a * (b + c) = a * b + a * c
          /\ a * (b - c) = a * b - a * c
          /\ a * b = b * a
          /\ a * b \in Int
OBVIOUS
\* A remainder is its own remainder.
LEMMA ModSmall ==
    ASSUME NEW d \in Nat \ {0}, NEW r \in 0 .. d - 1
    PROVE r % d = r
OBVIOUS
\* A bounded set of naturals has a greatest element.
LEMMA GreatestOf ==
    ASSUME NEW T \in SUBSET Nat, T # {}, NEW w \in Nat, \A i \in T : i <= w
    PROVE \E n \in T : \A m \in T : n >= m
<1> DEFINE U == {w - i : i \in T}
<1>1. U \in SUBSET Nat /\ U # {}
  <2>1. \A i \in T : w - i \in Nat
    OBVIOUS
  <2>2. PICK t : t \in T
    OBVIOUS
  <2>3. w - t \in U
    BY <2>2
  <2> QED BY <2>1, <2>3
<1>2. PICK x \in U : \A y \in U : x <= y
  <2> HIDE DEF U
  <2> QED BY <1>1, LeastOf
<1>3. PICK n \in T : x = w - n
  OBVIOUS
<1>4. \A m \in T : w - m \in U
  OBVIOUS
<1>5. \A m \in T : w - n <= w - m
  <2> HIDE DEF U
  <2> QED BY <1>2, <1>3, <1>4
<1> QED BY <1>5

\* A remainder does not see whole multiples.
LEMMA ModAdd ==
    ASSUME NEW d \in Nat \ {0}, NEW x \in Int, NEW k \in Int
    PROVE (x + d * k) % d = x % d
<1> DEFINE q == x \div d
           r == x % d
<1>1. q \in Int /\ r \in 0 .. d - 1 /\ x = d * q + r
  BY DivMod
<1> HIDE DEF q, r
<1>2. q + k \in Int /\ d * (q + k) = d * q + d * k /\ d * q \in Int /\ d * k \in Int
  BY <1>1, MulSum
<1>3. x + d * k = d * (q + k) + r
  BY <1>1, <1>2
<1>4. (d * (q + k) + r) % d = r
  BY <1>1, <1>2, DivModUnique
<1> QED BY <1>3, <1>4 DEF r

LEMMA ModNext ==
    ASSUME NEW d \in Nat \ {0}, NEW a \in Int
    PROVE ((a % d) + 1) % d = (a + 1) % d
<1> DEFINE q == a \div d
           r == a % d
<1>1. q \in Int /\ r \in 0 .. d - 1 /\ a = d * q + r /\ d * q \in Int
  BY DivMod, MulSum
<1> HIDE DEF q, r
<1>2. a + 1 = (r + 1) + d * q
  BY <1>1
<1>3. PICK x \in Int : x = r + 1
  BY <1>1
<1>4. (x + d * q) % d = x % d
  BY <1>1, ModAdd
<1> QED BY <1>2, <1>3, <1>4 DEF r

\* The distance of two remainders.
LEMMA ModDiff ==
    ASSUME NEW d \in Nat \ {0}, NEW a \in Int, NEW b \in Int, a - b + d \in 0 .. d - 1
    PROVE ((a % d) - (b % d) + d) % d = a - b + d
<1> DEFINE qa == a \div d
           ra == a % d
           qb == b \div d
           rb == b % d
<1>1. /\ qa \in Int /\ ra \in 0 .. d - 1 /\ a = d * qa + ra /\ d * qa \in Int
      /\ qb \in Int /\ rb \in 0 .. d - 1 /\ b = d * qb + rb /\ d * qb \in Int
  BY DivMod, MulSum
<1> HIDE DEF qa, ra, qb, rb
<1>2. d * (qb - qa) = d * qb - d * qa /\ qb - qa \in Int /\ d * (qb - qa) \in Int
  BY <1>1, MulSum
<1>3. ra - rb + d = (a - b + d) + d * (qb - qa) /\ a - b + d \in Int
  BY <1>1, <1>2
<1>4. ((a - b + d) + d * (qb - qa)) % d = (a - b + d) % d
  BY <1>2, <1>3, ModAdd
<1>5. (a - b + d) % d = a - b + d
  BY ModSmall
<1> QED BY <1>3, <1>4, <1>5 DEF ra, rb

\* Two numbers less than d apart have different remainders.
LEMMA ModApart ==
    ASSUME NEW d \in Nat \ {0}, NEW a \in Int, NEW k \in 1 .. d - 1
    PROVE (a + k) % d # a % d
<1> DEFINE q == a \div d
           r == a % d
<1>1. q \in Int /\ r \in 0 .. d - 1 /\ a = d * q + r /\ d * q \in Int
  BY DivMod, MulSum
<1> HIDE DEF q, r
<1>2. CASE r + k < d
  <2>1. r + k \in 0 .. d - 1 /\ a + k = d * q + (r + k)
    BY <1>1, <1>2
  <2>2. (a + k) % d = r + k
    BY <1>1, <2>1, DivModUnique
  <2> QED BY <1>1, <2>2 DEF r
<1>3. CASE r + k >= d
  <2>1. d * (q + 1) = d * q + d * 1 /\ d * 1 = d
    BY <1>1, MulSum
  <2>2. r + k - d \in 0 .. d - 1 /\ q + 1 \in Int /\ a + k = d * (q + 1) + (r + k - d)
    BY <1>1, <1>3, <2>1
  <2>3. (a + k) % d = r + k - d
    BY <2>2, DivModUnique
  <2> QED BY <1>1, <2>3 DEF r
<1> QED BY <1>1, <1>2, <1>3
=============================================================================
