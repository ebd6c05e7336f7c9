----------------------------- MODULE SetInduction -----------------------------
(***************************************************************************)
(* Induction over the natural numbers stated of a set of them, so that a   *)
(* proof can name the set it applies it to: the provers cannot instantiate *)
(* the operator NatInduction of the library takes.  It rests on the facts  *)
(* that < is well-founded and that a set has a minimal element.            *)
(***************************************************************************)
EXTENDS Integers, WellFoundedInduction, TLAPS

\* Used by Induction: the counter-example there is has a smallest one.
LEMMA LeastNumber ==
  ASSUME NEW T \in SUBSET Nat, T # {}
  PROVE  \E n \in T : \A m \in T : n <= m
<1>1. IsWellFoundedOn(OpToRel(<, Nat), Nat)
  BY NatLessThanWellFounded
<1>2. PICK n \in T : \A m \in T : ~ (<<m, n>> \in OpToRel(<, Nat))
  BY <1>1, WFMin
<1>3. \A m \in T : ~(m < n)
  BY <1>2 DEF OpToRel
<1> QED BY <1>3

\* A set that holds 0 and the successor of each of its elements holds every number: for
\* what the recursive functions of the models compute.
LEMMA Induction ==
  ASSUME NEW T \in SUBSET Nat, 0 \in T, \A n \in T : n + 1 \in T
  PROVE  T = Nat
<1> DEFINE Missing == Nat \ T
<1> SUFFICES ASSUME Missing # {} PROVE FALSE
  OBVIOUS
<1>1. \E n \in Missing : \A m \in Missing : n <= m
  <2>1. Missing \in SUBSET Nat
    OBVIOUS
  <2> HIDE DEF Missing
  <2> QED BY <2>1, LeastNumber
<1>2. PICK n \in Missing : \A m \in Missing : n <= m
  BY <1>1
<1>3. n # 0 /\ n - 1 \in Nat /\ n - 1 \in T
  BY <1>2
<1> QED BY <1>2, <1>3
===============================================================================
