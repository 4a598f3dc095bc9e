----------------------------- MODULE Induction -----------------------------
(***************************************************************************)
(* Induction over the natural numbers, for the recursive functions the     *)
(* proofs of the lexer and of the sections unfold: the property to be      *)
(* proved is given as the set of the numbers that have it.                 *)
(***************************************************************************)
EXTENDS FiniteSetTheorems, WellFoundedInduction, TLAPS

(* A set of natural numbers that is not empty has a least element.         *)
LEMMA LeastElement ==
  ASSUME NEW E, E \subseteq Nat, E # {}
  PROVE  \E j \in E : \A k \in E : j <= k
<1> DEFINE UpTo == {0..j : j \in E}
<1>1. UpTo \subseteq FiniteSubsetsOf(Nat) /\ UpTo # {}
  <2>1. \A j \in E : 0..j \subseteq Nat /\ IsFiniteSet(0..j)
    BY FS_Interval
  <2>2. \A j \in E : 0..j \in FiniteSubsetsOf(Nat)
    BY <2>1 DEF FiniteSubsetsOf
  <2> QED BY <2>2
<1>2. PICK X \in UpTo : \A Y \in UpTo : <<Y, X>> \notin StrictSubsetOrdering(Nat)
  BY <1>1, FS_StrictSubsetOrderingWellFounded, WFMin
<1>3. PICK j \in E : X = 0..j
  OBVIOUS
<1> SUFFICES ASSUME NEW k \in E, k < j PROVE FALSE
  BY <1>3
<1>4. 0..k \in UpTo /\ 0..k \subseteq 0..j /\ 0..k # 0..j
  <2>1. j \in 0..j /\ j \notin 0..k
    OBVIOUS
  <2> QED BY <2>1
<1>5. <<0..k, X>> \in StrictSubsetOrdering(Nat)
  BY <1>3, <1>4 DEF StrictSubsetOrdering
<1> QED BY <1>2, <1>4, <1>5

(* Induction over the natural numbers, for a set of them.                  *)
LEMMA SetInduction ==
  ASSUME NEW S, 0 \in S, \A n \in Nat : n \in S => n + 1 \in S
  PROVE  \A n \in Nat : n \in S
<1> SUFFICES ASSUME Nat \ S # {} PROVE FALSE
  OBVIOUS
<1>1. PICK j \in Nat \ S : \A k \in Nat \ S : j <= k
  BY LeastElement
<1>2. j # 0 /\ j - 1 \in Nat /\ ~ (j <= j - 1)
  BY <1>1
<1> QED BY <1>1, <1>2
=============================================================================
