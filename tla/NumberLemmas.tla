---------------------------- MODULE NumberLemmas ----------------------------
(***************************************************************************)
(* Least and greatest elements of sets of natural numbers.                 *)
(***************************************************************************)
EXTENDS Naturals, TLAPS, WellFoundedInduction

\* A nonempty set of natural numbers has a least element.
LEMMA LeastNumber ==
  ASSUME NEW T \in SUBSET Nat, T # {}
  PROVE  \E x \in T : \A y \in T : x <= y
<1> DEFINE R == {ss \in Nat \X Nat : ss[1] < ss[2]}
<1>1. IsWellFoundedOn(R, Nat)
  <2>1. R = OpToRel(<, Nat)
    BY Zenon DEF OpToRel
  <2>2. QED
    BY <2>1, NatLessThanWellFounded, Zenon
<1>2. PICK x \in T : \A y \in T : ~(<<y, x>> \in R)
  <2> HIDE DEF R
  <2> QED
    BY <1>1, WFMin
<1>3. \A y \in T : ~(y < x)
  BY <1>2
<1>4. QED
  BY <1>3

\* A nonempty set of natural numbers with an upper bound has a greatest element.
LEMMA GreatestNumber ==
  ASSUME NEW n \in Nat, NEW T \in SUBSET (0..n), T # {}
  PROVE  \E x \in T : \A y \in T : y <= x
<1> DEFINE Distances == {n - i : i \in T}
<1>1. Distances \in SUBSET Nat /\ Distances # {}
  <2>1. ASSUME NEW i \in T PROVE n - i \in Nat
    <3>1. i \in 0..n
      OBVIOUS
    <3>2. QED
      BY <3>1
  <2>2. QED
    BY <2>1
<1>2. PICK d \in Distances : \A e \in Distances : d <= e
  <2> HIDE DEF Distances
  <2> QED
    BY <1>1, LeastNumber
<1>3. PICK x \in T : d = n - x
  BY <1>2
<1>4. ASSUME NEW y \in T PROVE y <= x
  <2>1. n - x <= n - y
    BY <1>2, <1>3
  <2>2. QED
    BY <2>1
<1>5. QED
  BY <1>4
=============================================================================
