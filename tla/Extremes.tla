------------------------------- MODULE Extremes -------------------------------
(***************************************************************************)
(* Least and greatest elements, for proofs about a CHOOSE that picks one.  *)
(***************************************************************************)
EXTENDS Integers, WellFoundedInduction, TLAPS

\* Of a set of natural numbers one is the least.
LEMMA Least ==
  ASSUME NEW T \in SUBSET Nat, T # {}
  PROVE  \E x \in T : \A y \in T : x <= y
<1> DEFINE R == OpToRel(<, Nat)
<1>1. IsWellFoundedOn(R, Nat)
  BY NatLessThanWellFounded
<1>2. \A x, y \in Nat : x < y => <<x, y>> \in R
  BY DEF OpToRel
<1> HIDE DEF R
<1>3. PICK x \in T : \A y \in T : ~(<<y, x>> \in R)
  BY <1>1, WFMin
<1>4. ASSUME NEW y \in T PROVE x <= y
  <2>1. ~(y < x)
    BY <1>2, <1>3
  <2>2. x \in Nat /\ y \in Nat
    OBVIOUS
  <2>3. QED
    BY <2>1, <2>2
<1>5. QED
  BY <1>4

\* A bounded function takes its greatest value somewhere.
LEMMA Greatest ==
  ASSUME NEW S, S # {}, NEW f \in [S -> Int], NEW b \in Int, \A x \in S : f[x] <= b
  PROVE  \E x \in S : \A y \in S : f[y] <= f[x]
<1> DEFINE T == {b - f[x] : x \in S}
<1>1. T \in SUBSET Nat /\ T # {}
  OBVIOUS
<1>2. PICK t \in T : \A u \in T : t <= u
  BY <1>1, Least
<1>3. PICK x \in S : t = b - f[x]
  OBVIOUS
<1>4. ASSUME NEW y \in S PROVE f[y] <= f[x]
  <2>1. b - f[x] <= b - f[y]
    BY <1>2, <1>3
  <2>2. f[x] \in Int /\ f[y] \in Int
    OBVIOUS
  <2>3. QED
    BY <2>1, <2>2
<1>5. QED
  BY <1>4
=============================================================================
