----------------------------- MODULE LeastNumber -----------------------------
(* Induction over the natural numbers, in a form that needs no operator as a  *)
(* parameter: a set of numbers that is not empty has a least element.         *)
EXTENDS Naturals, WellFoundedInduction, TLAPS

\* The least element of a set of natural numbers.  Proofs by induction about the
\* blocks of a chain use it on the set of the indices at which a claim fails.
THEOREM LeastNumberExists ==
    ASSUME NEW T \in SUBSET Nat, T # {}
    PROVE  \E x \in T : \A y \in T : x <= y
<1> DEFINE R == {p \in Nat \X Nat : p[1] < p[2]}
<1>1. IsWellFoundedOn(R, Nat)
  BY NatLessThanWellFounded, Zenon DEF OpToRel
<1>2. \A x, y \in Nat : x < y => <<x, y>> \in R
  OBVIOUS
<1> HIDE DEF R
<1>3. PICK x \in T : \A y \in T : ~(<<y, x>> \in R)
  BY <1>1, WFMin
<1>4. \A y \in T : ~(y < x)
  BY <1>2, <1>3
<1> QED BY <1>4
=============================================================================
