------------------------------- MODULE Extrema -------------------------------
(***************************************************************************)
(* Least and greatest elements of sets of natural numbers: what the proofs *)
(* need to know of a first record, a first setting, a largest offset.      *)
(***************************************************************************)
EXTENDS Integers, TLAPS, WellFoundedInduction

\* A set of naturals that is not empty has a least element.
LEMMA LeastExists ==
  ASSUME NEW S \in SUBSET Nat, S # {}
  PROVE  \E x \in S : \A y \in S : x <= y
<1>1. \E x \in S : \A y \in S : ~ (<<y, x>> \in OpToRel(<, Nat))
  BY NatLessThanWellFounded, WFMin
<1>2. PICK x \in S : \A y \in S : ~ (<<y, x>> \in OpToRel(<, Nat))
  BY <1>1
<1>3. \A y \in S : ~ (y < x)
  BY <1>2 DEF OpToRel
<1> QED BY <1>3

\* One that is bounded as well has a greatest element.
LEMMA GreatestExists ==
  ASSUME NEW n \in Nat, NEW S \in SUBSET (0..n), S # {}
  PROVE  \E x \in S : \A y \in S : y <= x
<1> DEFINE B == {k \in Nat : \A y \in S : y <= k}
<1>1. B \in SUBSET Nat /\ n \in B
  OBVIOUS
<1>2. PICK k \in B : \A y \in B : k <= y
  <2> HIDE DEF B
  <2> QED BY <1>1, LeastExists
<1>3. k \in S
  <2> SUFFICES ASSUME k \notin S PROVE FALSE
    OBVIOUS
  <2>1. PICK y \in S : TRUE
    OBVIOUS
  <2>2. k > 0
    BY <2>1
  <2>3. k - 1 \in B
    BY <2>2
  <2> QED BY <1>2, <2>3
<1> QED BY <1>2, <1>3

=============================================================================
