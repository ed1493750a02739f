------------------------------- MODULE NatSets -------------------------------
(***************************************************************************)
(* Induction over the natural numbers with a set in place of the operator  *)
(* parameter of the library's theorems, from the well-foundedness of <.    *)
(***************************************************************************)
EXTENDS Integers, WellFoundedInduction, TLAPS

\* A set of natural numbers has a least element.
LEMMA LeastNatural ==
    ASSUME NEW S \in SUBSET Nat, S # {}
    PROVE  \E m \in S : \A k \in S : m <= k
<1>1. IsWellFoundedOn(OpToRel(<, Nat), Nat) BY NatLessThanWellFounded
<1>2. \E x \in S : \A y \in S : ~ (<<y, x>> \in OpToRel(<, Nat)) BY <1>1, WFMin
<1>3. PICK x \in S : \A y \in S : ~ (<<y, x>> \in OpToRel(<, Nat)) BY <1>2
<1>4. \A y \in S : ~ (y < x) BY <1>3 DEF OpToRel
<1>5. \A y \in S : x <= y BY <1>4
<1> QED BY <1>5

\* Induction: a set with 0 and the successors of its elements has all numbers.
LEMMA NatSetInduction ==
    ASSUME NEW S \in SUBSET Nat, 0 \in S, \A n \in S : n + 1 \in S
    PROVE  S = Nat
<1> SUFFICES ASSUME Nat \ S # {} PROVE FALSE OBVIOUS
<1>1. PICK m \in Nat \ S : \A k \in Nat \ S : m <= k BY LeastNatural
<1>2. m # 0 /\ m - 1 \in Nat OBVIOUS
<1>3. m - 1 \in S BY <1>1, <1>2
<1>4. m = (m - 1) + 1 OBVIOUS
<1> QED BY <1>3, <1>4

\* The values of g up to last: the first one, and the step from each to the next.
Iterates(g, first, step, last) ==
    \A k \in 0..last : g[k] = IF k = 0 THEN first ELSE step[<<g[k - 1], k>>]

\* A function is given by its first value and the step from each to the next.
LEMMA PrimitiveRecursion ==
    ASSUME NEW V, NEW first \in V, NEW step \in [V \X Nat -> V], NEW last \in Nat
    PROVE  \E g \in [0..last -> V] : Iterates(g, first, step, last)
<1> DEFINE Upto(n) == \E g \in [0..n -> V] : Iterates(g, first, step, n)
           S == {n \in Nat : Upto(n)}
<1>1. 0 \in S
  <2> DEFINE g == [k \in 0..0 |-> first]
  <2>1. g \in [0..0 -> V] OBVIOUS
  <2>2. \A k \in 0..0 : k = 0 /\ g[k] = first OBVIOUS
  <2>3. \A k \in 0..0 : g[k] = IF k = 0 THEN first ELSE step[<<g[k - 1], k>>] BY <2>2
  <2> QED BY <2>1, <2>3 DEF Iterates
<1>2. ASSUME NEW n \in S PROVE n + 1 \in S
  <2>1. PICK g \in [0..n -> V] :
              \A k \in 0..n : g[k] = IF k = 0 THEN first ELSE step[<<g[k - 1], k>>]
    BY DEF Iterates
  <2> DEFINE h == [k \in 0..n + 1 |-> IF k <= n THEN g[k] ELSE step[<<g[n], n + 1>>]]
  <2>2. n \in Nat /\ g[n] \in V /\ n + 1 \in Nat OBVIOUS
  <2>3. step[<<g[n], n + 1>>] \in V BY <2>2
  <2>4. h \in [0..n + 1 -> V] BY <2>1, <2>2, <2>3
  <2>5. ASSUME NEW k \in 0..n + 1
        PROVE  h[k] = IF k = 0 THEN first ELSE step[<<h[k - 1], k>>]
    <3>1. CASE k <= n
      <4>1. k \in 0..n /\ h[k] = g[k] BY <2>2, <3>1
      <4>2. k # 0 => h[k - 1] = g[k - 1] BY <2>2, <3>1
      <4> QED BY <2>1, <4>1, <4>2
    <3>2. CASE k = n + 1
      <4>1. k # 0 /\ h[k] = step[<<g[n], k>>] BY <2>2, <3>2
      <4>2. h[k - 1] = g[n] BY <2>2, <3>2
      <4> QED BY <4>1, <4>2
    <3> QED BY <2>2, <3>1, <3>2
  <2> HIDE DEF h
  <2>6. Upto(n + 1) BY <2>4, <2>5 DEF Iterates
  <2> QED BY <2>2, <2>6
<1>3. S \in SUBSET Nat OBVIOUS
<1> HIDE DEF S
<1>4. S = Nat BY <1>1, <1>2, <1>3, NatSetInduction
<1>5. last \in S BY <1>4
<1> QED BY <1>5 DEF S
=============================================================================
