---------------------------- MODULE NaturalProofs ----------------------------
(***************************************************************************)
(* The least element of a set of natural numbers, and induction over one.  *)
(***************************************************************************)
EXTENDS Naturals, FiniteSetTheorems, WellFoundedInduction, TLAPS

\* A set of natural numbers has a least element.
LEMMA LeastNat ==
  ASSUME NEW T \in SUBSET Nat, T # {}
  PROVE  \E x \in T : \A y \in T : x <= y
<1> DEFINE below == {0 .. x : x \in T}
<1>1. below \subseteq FiniteSubsetsOf(Nat) /\ below # {}
  <2>1. \A x \in T : IsFiniteSet(0 .. x)
    BY FS_Interval
  <2>2. \A x \in T : 0 .. x \in SUBSET Nat
    OBVIOUS
  <2> QED BY <2>1, <2>2 DEF FiniteSubsetsOf
<1>2. IsWellFoundedOn(StrictSubsetOrdering(Nat), FiniteSubsetsOf(Nat))
  BY FS_StrictSubsetOrderingWellFounded
<1> HIDE DEF below
<1>3. PICK X \in below : \A Y \in below : ~ (<<Y, X>> \in StrictSubsetOrdering(Nat))
  BY <1>1, <1>2, WFMin
<1>4. PICK x \in T : X = 0 .. x
  BY <1>3 DEF below
<1>5. ASSUME NEW y \in T, ~ (x <= y)
      PROVE  FALSE
  <2>1. 0 .. y \in below /\ 0 .. y \in SUBSET Nat /\ X \in SUBSET Nat
    BY <1>4 DEF below
  <2>2. 0 .. y \subseteq X /\ 0 .. y # X
    <3>1. x \in 0 .. x /\ x \notin 0 .. y /\ 0 .. y \subseteq 0 .. x
      BY <1>5
    <3> QED BY <3>1, <1>4
  <2> DEFINE pair == <<0 .. y, X>>
  <2>3. pair \in (SUBSET Nat) \X (SUBSET Nat) /\ pair[1] \subseteq pair[2] /\ pair[1] # pair[2]
    BY <2>1, <2>2
  <2>4. <<0 .. y, X>> \in StrictSubsetOrdering(Nat)
    BY <2>3 DEF StrictSubsetOrdering
  <2> QED BY <2>4, <2>1, <1>3
<1> QED BY <1>4, <1>5

\* A set with 0 and each successor is all of them.
LEMMA SetInduction ==
  ASSUME NEW S \in SUBSET Nat, 0 \in S, \A n \in S : n + 1 \in S
  PROVE  S = Nat
<1> SUFFICES ASSUME Nat \ S # {} PROVE FALSE
  OBVIOUS
<1>1. PICK x \in Nat \ S : \A y \in Nat \ S : x <= y
  BY LeastNat
<1>2. x # 0 /\ x - 1 \in Nat
  BY <1>1
<1>3. x - 1 \in S
  BY <1>1, <1>2
<1> QED BY <1>2, <1>3
=============================================================================
