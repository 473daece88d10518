------------------------------ MODULE NatSets ------------------------------
(***************************************************************************)
(* Sets of natural numbers have a least element, and bounded ones a        *)
(* greatest: the facts behind every "first slot such that" of the code's   *)
(* scanning loops.                                                         *)
(***************************************************************************)
EXTENDS Integers, WellFoundedInduction, TLAPS

Below == {ss \in Nat \X Nat : ss[1] < ss[2]}

(* A non-empty set of naturals has a least element.                        *)
LEMMA LeastElement ==
  ASSUME NEW S \in SUBSET Nat, S # {}
  PROVE  \E m \in S : \A n \in S : m <= n
<1>1. IsWellFoundedOn(Below, Nat)
  BY NatLessThanWellFounded, Zenon DEF OpToRel, Below
<1>2. PICK m \in S : \A n \in S : ~(<<n, m>> \in Below)
  BY <1>1, WFMin
<1>3. ASSUME NEW n \in S
      PROVE  m <= n
  <2>1. m \in Nat /\ n \in Nat
    OBVIOUS
  <2>2. ~(n < m)
    BY <1>2, <2>1 DEF Below
  <2>3. QED
    BY <2>1, <2>2
<1>4. QED
  BY <1>3

(* A non-empty set of naturals below a bound has a greatest element.       *)
LEMMA GreatestElement ==
  ASSUME NEW b \in Nat, NEW S \in SUBSET (0 .. b), S # {}
  PROVE  \E m \in S : \A n \in S : n <= m
<1> DEFINE D == {x \in 0 .. b : b - x \in S}
<1>1. D \in SUBSET Nat
  OBVIOUS
<1>2. D # {}
  <2>1. PICK s \in S : TRUE
    OBVIOUS
  <2>2. s \in 0 .. b
    OBVIOUS
  <2>3. b - s \in 0 .. b /\ b - (b - s) = s
    BY <2>2
  <2>4. QED
    BY <2>1, <2>3
<1>3. PICK d \in D : \A e \in D : d <= e
  BY <1>1, <1>2, LeastElement
<1>4. ASSUME NEW n \in S
      PROVE  n <= b - d
  <2>1. n \in 0 .. b
    OBVIOUS
  <2>2. b - n \in 0 .. b /\ b - (b - n) = n
    BY <2>1
  <2>3. b - n \in D
    BY <2>2
  <2>4. d <= b - n
    BY <1>3, <2>3
  <2>5. d \in 0 .. b
    BY <1>3
  <2>6. QED
    BY <2>1, <2>4, <2>5
<1>5. b - d \in S
  BY <1>3
<1>6. QED
  BY <1>4, <1>5
=============================================================================
