------------------------------- MODULE Maxima -------------------------------
(***************************************************************************)
(* The maximum and the minimum of a set of numbers, for the proofs about   *)
(* modules that number their events.  The prover knows no induction; that  *)
(* a set of numbers has a least element it gets from the library's theorem *)
(* that < is well founded.                                                 *)
(***************************************************************************)
EXTENDS Naturals, FiniteSetsExt, WellFoundedInduction, TLAPS

\* A nonempty set of numbers has a least element.
LEMMA MinIsMin ==
  ASSUME NEW S, S \subseteq Nat, S # {}
  PROVE  Min(S) \in S /\ \A y \in S : Min(S) <= y
  <1> DEFINE R == {ss \in Nat \X Nat : ss[1] < ss[2]}
  <1>1. IsWellFoundedOn(R, Nat)
    BY NatLessThanWellFounded DEF OpToRel
  <1>2. PICK m \in S : \A y \in S : ~ (<<y, m>> \in R)
    BY <1>1, WFMin
  <1>3. ASSUME NEW y \in S
        PROVE  m <= y
    <2>1. <<y, m>> \notin R /\ y \in Nat /\ m \in Nat
      BY <1>2
    <2>2. ~(y < m)
      BY <2>1
    <2> QED
      BY <2>1, <2>2
  <1> QED
    BY <1>3 DEF Min

\* A nonempty set of numbers up to n has a largest element: the one that is the
\* least far from n.
LEMMA MaxIsMax ==
  ASSUME NEW S, NEW n \in Nat, S \subseteq 0 .. n, S # {}
  PROVE  Max(S) \in S /\ \A y \in S : y <= Max(S)
  <1> DEFINE T == {n - x : x \in S}
  <1>1. T \subseteq Nat /\ T # {}
    <2>1. \A x \in S : n - x \in Nat
      OBVIOUS
    <2> QED
      BY <2>1
  <1>2. Min(T) \in T /\ \A y \in T : Min(T) <= y
    BY <1>1, MinIsMin
  <1>3. PICK x \in S : Min(T) = n - x
    BY <1>2
  <1>4. ASSUME NEW y \in S
        PROVE  y <= x
    <2>1. n - y \in T /\ n - y \in Nat /\ n - x \in Nat /\ x \in Nat /\ y \in Nat
      OBVIOUS
    <2>2. n - x <= n - y
      BY <1>2, <1>3, <2>1
    <2> QED
      BY <2>1, <2>2
  <1>5. \E z \in S : \A y \in S : z >= y
    BY <1>4
  <1> QED
    BY <1>5 DEF Max
=============================================================================
