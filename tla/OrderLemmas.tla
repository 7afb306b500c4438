----------------------------- MODULE OrderLemmas ----------------------------
(* What the proofs need to know of the order of natural numbers.           *)
EXTENDS Integers, WellFoundedInduction, TLAPS

(* What is first in a queue or in a list exists: a set of natural numbers  *)
(* has a least element.                                                    *)
LEMMA LeastElement ==
    ASSUME NEW T, T \subseteq Nat, T # {}
    PROVE  \E x \in T : \A y \in T : x <= y
<1>1. PICK R : IsWellFoundedOn(R, Nat) /\ \A y, x \in Nat : y < x => <<y, x>> \in R
  <2>1. \A y, x \in Nat : y < x => <<y, x>> \in OpToRel(<, Nat)
    BY DEF OpToRel
  <2> QED BY <2>1, NatLessThanWellFounded
<1>2. PICK x \in T : \A y \in T : <<y, x>> \notin R
  BY <1>1, WFMin
<1>3. \A y \in T : y \in Nat /\ x \in Nat /\ ~(y < x)
  BY <1>1, <1>2
<1>4. \A y \in T : x <= y
  BY <1>3
<1> QED BY <1>4
=============================================================================
