---------------------------- MODULE NumberLemmas ----------------------------
(***************************************************************************)
(* Facts about numbers that the proofs of several components need: least   *)
(* and greatest elements, which stand in for induction, and remainders.    *)
(***************************************************************************)
EXTENDS Integers, WellFoundedInduction, TLAPS

(* A set of numbers that is not empty has a least element: a statement     *)
(* about all numbers is proved from its least counterexample.              *)
LEMMA LeastNatural ==
  ASSUME NEW T \in SUBSET Nat, T # {}
  PROVE  \E x \in T : \A y \in T : x <= y
<1> DEFINE R == OpToRel(<, Nat)
<1>1. IsWellFoundedOn(R, Nat)
  BY NatLessThanWellFounded
<1>2. PICK x \in T : \A y \in T : ~ (<<y, x>> \in R)
  <2> HIDE DEF R
  <2> QED
    BY <1>1, WFMin
<1>3. \A y \in T : ~(y < x)
  <2>1. \A y \in T : <<y, x>> \in R <=> y < x
    BY DEF OpToRel
  <2> QED
    BY <1>2, <2>1
<1> QED
  BY <1>3

(* And one that is bounded has a greatest.                                 *)
LEMMA GreatestNatural ==
  ASSUME NEW m \in Nat, NEW T \in SUBSET (0 .. m), T # {}
  PROVE  \E x \in T : \A y \in T : y <= x
<1> DEFINE U == {z \in Nat : \E x \in T : z + x = m}
<1>1. PICK x0 \in T : x0 \in 0 .. m
  OBVIOUS
<1>2. m - x0 \in U
  BY <1>1
<1>3. PICK z \in U : \A y \in U : z <= y
  <2> HIDE DEF U
  <2>1. U \in SUBSET Nat
    BY DEF U
  <2> QED
    BY <1>2, <2>1, LeastNatural
<1>4. PICK x \in T : z + x = m
  BY <1>3
<1>5. ASSUME NEW y \in T PROVE y <= x
  <2>1. y \in 0 .. m /\ m - y \in U
    OBVIOUS
  <2> QED
    BY <2>1, <1>3, <1>4
<1> QED
  BY <1>5

(* Quotient and remainder.                                                 *)
LEMMA ModDef ==
  ASSUME NEW c \in Nat \ {0}, NEW a \in Nat
  PROVE  a % c \in 0 .. c - 1 /\ a \div c \in Nat /\ a = c * (a \div c) + (a % c)
OBVIOUS

(* No multiple of c but 0 is nearer to 0 than c.                           *)
LEMMA NoMultiple ==
  ASSUME NEW c \in Nat \ {0}, NEW x \in Int, c * x < c, -c < c * x
  PROVE  x = 0
<1>1. CASE x >= 1
  <2>1. c * x >= c * 1
    BY <1>1
  <2> QED
    BY <2>1
<1>2. CASE x <= -1
  <2>1. c * x <= c * (-1)
    BY <1>2
  <2>2. c * (-1) = -c
    OBVIOUS
  <2> QED
    BY <2>1, <2>2
<1> QED
  BY <1>1, <1>2

(* Quotient and remainder are unique.                                      *)
LEMMA ModUnique ==
  ASSUME NEW c \in Nat \ {0}, NEW a \in Nat, NEW q \in Int, NEW r \in 0 .. c - 1, a = c * q + r
  PROVE  a % c = r
<1>1. a % c \in 0 .. c - 1 /\ a \div c \in Nat /\ a = c * (a \div c) + (a % c)
  BY ModDef
<1> DEFINE x == q - (a \div c)
<1>2. x \in Int /\ c * x = c * q - c * (a \div c)
  BY <1>1
<1>3. c * x = (a % c) - r
  BY <1>1, <1>2
<1>4. c * x < c /\ -c < c * x
  <2> HIDE DEF x
  <2> QED
    BY <1>1, <1>2, <1>3
<1>5. x = 0
  <2> HIDE DEF x
  <2> QED
    BY <1>2, <1>4, NoMultiple
<1>6. c * x = 0
  BY <1>5
<1> QED
  BY <1>3, <1>6, <1>1

(* The step after a remainder.                                             *)
LEMMA ModNext ==
  ASSUME NEW c \in Nat \ {0}, NEW a \in Nat
  PROVE  ((a % c) + 1) % c = (a + 1) % c
<1> DEFINE r == a % c  q == a \div c
<1>1. r \in 0 .. c - 1 /\ q \in Nat /\ a = c * q + r
  BY ModDef
<1> HIDE DEF r, q
<1>2. CASE r + 1 < c
  <2>1. (r + 1) % c = r + 1
    BY <1>1, <1>2, ModUnique, r + 1 = c * 0 + (r + 1)
  <2>2. (a + 1) % c = r + 1
    BY <1>1, <1>2, ModUnique, a + 1 = c * q + (r + 1)
  <2> QED
    BY <2>1, <2>2 DEF r
<1>3. CASE r + 1 = c
  <2>1. (r + 1) % c = 0
    BY <1>1, <1>3, ModUnique, r + 1 = c * 1 + 0
  <2>2. a + 1 = c * (q + 1) + 0
    BY <1>1, <1>3
  <2>3. (a + 1) % c = 0
    BY <1>1, <2>2, ModUnique
  <2> QED
    BY <2>1, <2>3 DEF r
<1> QED
  BY <1>1, <1>2, <1>3

(* Once around.                                                            *)
LEMMA ModRound ==
  ASSUME NEW c \in Nat \ {0}, NEW a \in Nat
  PROVE  (a + c) % c = a % c
<1> DEFINE r == a % c  q == a \div c
<1>1. r \in 0 .. c - 1 /\ q \in Nat /\ a = c * q + r
  BY ModDef
<1> HIDE DEF r, q
<1>2. a + c = c * (q + 1) + r
  BY <1>1
<1>3. (a + c) % c = r
  BY <1>1, <1>2, ModUnique
<1> QED
  BY <1>3 DEF r
=============================================================================
