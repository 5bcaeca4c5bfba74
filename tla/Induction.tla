----------------------------- MODULE Induction -----------------------------
(***************************************************************************)
(* Induction over the natural numbers, for what a recursive function       *)
(* computes: a set of them that is not empty has a least element.          *)
(***************************************************************************)
EXTENDS Integers, WellFoundedInduction, TLAPS

LessThan == {pair \in Nat \X Nat : pair[1] < pair[2]}

\* What the library says of the naturals, for this relation.
LEMMA LessThanWellFounded == IsWellFoundedOn(LessThan, Nat)
  BY NatLessThanWellFounded DEF OpToRel, LessThan

\* The principle of the least number.
LEMMA LeastNumber ==
    ASSUME NEW T, T \subseteq Nat, T # {}
    PROVE  \E least \in T : \A n \in T : least <= n
<1>1. PICK least \in T : \A n \in T : ~(<<n, least>> \in LessThan)
  BY LessThanWellFounded, WFMin
<1>2. ASSUME NEW n \in T
      PROVE  least <= n
  <2>1. <<n, least>> \notin LessThan /\ n \in Nat /\ least \in Nat
    BY <1>1
  <2>2. CASE n < least
    <3>1. <<n, least>> \in LessThan
      BY <2>1, <2>2 DEF LessThan
    <3>2. QED  BY <2>1, <3>1
  <2>3. QED  BY <2>1, <2>2
<1>3. QED  BY <1>2

\* The steps of a proof by induction show that a set has every number.
LEMMA AllNumbers ==
    ASSUME NEW S, 0 \in S, \A n \in Nat : n \in S => n + 1 \in S
    PROVE  Nat \subseteq S
<1> SUFFICES ASSUME Nat \ S # {}
             PROVE  FALSE
  OBVIOUS
<1>1. PICK least \in Nat \ S : \A n \in Nat \ S : least <= n
  BY LeastNumber
<1>2. least \in Nat /\ least # 0
  OBVIOUS
<1>3. least - 1 \in Nat /\ ~(least <= least - 1) /\ (least - 1) + 1 = least
  BY <1>2
<1>4. least - 1 \in S
  BY <1>1, <1>3
<1>5. QED  BY <1>3, <1>4
=============================================================================
