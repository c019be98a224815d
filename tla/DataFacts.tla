----------------------------- MODULE DataFacts -----------------------------
(***************************************************************************)
(* What the proofs need to know of operators on data: least and greatest   *)
(* elements of sets of integers, induction, and bags.                      *)
(***************************************************************************)
EXTENDS Integers, Bags, TLAPS, WellFoundedInduction

LEMMA LessThanRelation ==
  ASSUME NEW x \in Nat, NEW y \in Nat
  PROVE  <<y, x>> \in OpToRel(<, Nat) <=> y < x
BY DEF OpToRel

\* A set of integers that is bounded from below has a least element.
LEMMA HasLeast ==
  ASSUME NEW m \in Int, NEW S \in SUBSET Int, S # {}, \A x \in S : m <= x
  PROVE  \E x \in S : \A y \in S : x <= y
<1>. DEFINE T == {x - m : x \in S}
<1>1. T \in SUBSET Nat /\ T # {}
  <2>1. \A x \in S : x - m \in Nat
    OBVIOUS
  <2>. QED
    BY <2>1
<1>2. \E x \in T : \A y \in T : ~(<<y, x>> \in OpToRel(<, Nat))
  BY <1>1, NatLessThanWellFounded, WFMin
<1>3. \E x \in T : \A y \in T : ~(y < x)
  <2>1. PICK x \in T : \A y \in T : ~(<<y, x>> \in OpToRel(<, Nat))
    BY <1>2
  <2>2. \A y \in T : ~(y < x)
    BY <1>1, <2>1, LessThanRelation
  <2>. QED
    BY <2>2
<1>4. PICK x \in S : \A y \in T : ~(y < x - m)
  BY <1>3
<1>5. \A y \in S : x <= y
  BY <1>4
<1>. QED
  BY <1>5

\* A set of integers that is bounded from above has a greatest element.
LEMMA HasGreatest ==
  ASSUME NEW m \in Int, NEW S \in SUBSET Int, S # {}, \A x \in S : x <= m
  PROVE  \E x \in S : \A y \in S : y <= x
<1>. DEFINE T == {0 - x : x \in S}
<1>1. T \in SUBSET Int /\ T # {} /\ 0 - m \in Int /\ \A x \in T : 0 - m <= x
  <2>1. \A x \in S : 0 - x \in Int /\ 0 - m <= 0 - x
    OBVIOUS
  <2>2. T \in SUBSET Int /\ \A x \in T : 0 - m <= x
    BY <2>1
  <2>3. PICK x \in S : TRUE
    OBVIOUS
  <2>4. 0 - x \in T
    OBVIOUS
  <2>. QED
    BY <2>2, <2>4
<1>2. PICK z \in T : \A y \in T : z <= y
  BY <1>1, HasLeast, Zenon
<1>3. PICK x \in S : z = 0 - x
  OBVIOUS
<1>4. \A y \in S : y <= x
  BY <1>2, <1>3
<1>. QED
  BY <1>4

\* Induction on 0 .. n, for a set instead of a predicate.
LEMMA SegmentInduction ==
  ASSUME NEW n \in Nat, NEW S, 0 \in S, \A i \in 0 .. n - 1 : i \in S => i + 1 \in S
  PROVE  \A i \in 0 .. n : i \in S
<1>. SUFFICES ASSUME \E i \in 0 .. n : i \notin S PROVE FALSE
  OBVIOUS
<1>. DEFINE T == {i \in 0 .. n : i \notin S}
<1>1. T \in SUBSET Int /\ T # {} /\ 0 \in Int /\ \A x \in T : 0 <= x
  OBVIOUS
<1>2. PICK i \in T : \A y \in T : i <= y
  BY <1>1, HasLeast, Zenon
<1>3. i \in 0 .. n /\ i \notin S /\ i # 0
  OBVIOUS
<1>4. i - 1 \in 0 .. n - 1 /\ ~(i <= i - 1)
  BY <1>3
<1>5. i - 1 \in S
  BY <1>2, <1>4
<1>6. (i - 1) + 1 = i
  BY <1>3
<1>. QED
  BY <1>3, <1>4, <1>5, <1>6

\* The elements of sums, differences and parts of bags.
LEMMA BagFacts ==
  /\ \A E, F : BagToSet(E (+) F) = BagToSet(E) \cup BagToSet(F)
  /\ \A E, F : BagToSet(E (-) F) \subseteq BagToSet(E)
  /\ \A S : BagToSet(SetToBag(S)) = S /\ IsABag(SetToBag(S))
BY DEF (+), (-), SetToBag, BagToSet, IsABag

LEMMA BagSum ==
  ASSUME NEW E, NEW F, IsABag(E), IsABag(F)
  PROVE  IsABag(E (+) F) /\ E \sqsubseteq E (+) F
BY DEF (+), IsABag, \sqsubseteq

LEMMA BagDifference ==
  ASSUME NEW E, NEW F, IsABag(E), IsABag(F)
  PROVE  IsABag(E (-) F) /\ E (-) F \sqsubseteq E
BY DEF (-), IsABag, \sqsubseteq

LEMMA SubBagTransitive ==
  ASSUME NEW E, NEW F, NEW G, IsABag(E), IsABag(F), IsABag(G),
         E \sqsubseteq F, F \sqsubseteq G
  PROVE  E \sqsubseteq G
BY DEF IsABag, \sqsubseteq

LEMMA BagWithout ==
  ASSUME NEW E, IsABag(E), NEW e
  PROVE  BagToSet(E) \ {e} \subseteq BagToSet(E (-) SetToBag({e}))
BY DEF (-), SetToBag, BagToSet, IsABag
=============================================================================
