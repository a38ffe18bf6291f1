------------------------------ MODULE Induction ------------------------------
(***************************************************************************)
(* Induction over natural numbers for sets and functions rather than for   *)
(* operators: the facts with which proofs reason about definitions that    *)
(* are recursive functions.  They follow from the minimal elements of a    *)
(* well-founded relation (WFMin of WellFoundedInduction).                  *)
(***************************************************************************)
EXTENDS Naturals, WellFoundedInduction, TLAPS

\* Every nonempty set of natural numbers has a least element.
LEMMA LeastNat ==
  ASSUME NEW S \in SUBSET Nat, S # {}
  PROVE  \E n \in S : \A m \in S : n <= m
  <1> DEFINE R == OpToRel(<, Nat)
  <1>1. IsWellFoundedOn(R, Nat)
    BY NatLessThanWellFounded
  <1>2. PICK n \in S : \A m \in S : <<m, n>> \notin R
    <2> HIDE DEF R
    <2> QED
      BY <1>1, WFMin
  <1>3. \A m \in S : ~(m < n)
    BY <1>2 DEF OpToRel
  <1> QED
    BY <1>3

\* Induction over an interval, for a set.
LEMMA IntervalInduction ==
  ASSUME NEW n \in Nat, NEW S, 0 \in S, \A i \in 1 .. n : i - 1 \in S => i \in S
  PROVE  0 .. n \subseteq S
  <1> DEFINE B == {i \in 0 .. n : i \notin S}
  <1> SUFFICES ASSUME B # {} PROVE FALSE
    OBVIOUS
  <1>1. B \in SUBSET Nat
    OBVIOUS
  <1>2. PICK m \in B : \A i \in B : m <= i
    <2> HIDE DEF B
    <2> QED
      BY <1>1, LeastNat
  <1>3. m \in 1 .. n /\ m - 1 \in 0 .. n /\ ~(m <= m - 1)
    OBVIOUS
  <1>4. m - 1 \in S
    BY <1>2, <1>3
  <1> QED
    BY <1>3, <1>4

\* The functions with values in T that are defined by recursion on their argument:
\* F[0] is z, and step i makes F[i] of F[i - 1].
Recursions(n, T, z, step) ==
    {F \in [0 .. n -> T] : F[0] = z /\ \A i \in 1 .. n : F[i] = step[i][F[i - 1]]}

\* There is one.
LEMMA RecursionExists ==
  ASSUME NEW n \in Nat, NEW T, NEW z \in T, NEW step \in [1 .. n -> [T -> T]]
  PROVE  \E F : F \in Recursions(n, T, z, step)
  <1> DEFINE Good(m) == \E F \in [0 .. m -> T] :
                           F[0] = z /\ \A i \in 1 .. m : F[i] = step[i][F[i - 1]]
  <1>1. Good(0)
    <2> DEFINE G == [i \in 0 .. 0 |-> z]
    <2>1. G \in [0 .. 0 -> T] /\ G[0] = z /\ \A i \in 1 .. 0 : FALSE
      OBVIOUS
    <2> HIDE DEF G
    <2> QED
      BY <2>1
  <1>2. ASSUME NEW m \in 1 .. n, Good(m - 1) PROVE Good(m)
    <2>1. PICK F \in [0 .. m - 1 -> T] :
             F[0] = z /\ \A i \in 1 .. m - 1 : F[i] = step[i][F[i - 1]]
      BY <1>2
    <2> DEFINE H == [i \in 0 .. m |-> IF i = m THEN step[m][F[m - 1]] ELSE F[i]]
    <2>2. F[m - 1] \in T
      OBVIOUS
    <2>3. H \in [0 .. m -> T]
      <3> SUFFICES ASSUME NEW i \in 0 .. m PROVE H[i] \in T
        OBVIOUS
      <3>1. CASE i = m
        BY <2>2, <3>1
      <3>2. CASE i # m
        <4>1. i \in 0 .. m - 1
          BY <3>2
        <4> QED
          BY <3>2, <4>1
      <3> QED
        BY <3>1, <3>2
    <2>4. H[0] = z
      BY <2>1
    <2>5. ASSUME NEW i \in 1 .. m PROVE H[i] = step[i][H[i - 1]]
      <3>1. i - 1 \in 0 .. m /\ i - 1 # m /\ H[i - 1] = F[i - 1]
        OBVIOUS
      <3>2. CASE i = m
        BY <3>1, <3>2
      <3>3. CASE i # m
        <4>1. i \in 1 .. m - 1 /\ i \in 0 .. m
          BY <3>3
        <4>2. H[i] = F[i]
          BY <3>3, <4>1
        <4> QED
          BY <2>1, <3>1, <4>1, <4>2
      <3> QED
        BY <3>2, <3>3
    <2> HIDE DEF H
    <2> QED
      BY <2>3, <2>4, <2>5
  <1> HIDE DEF Good
  <1> DEFINE S == {m \in 0 .. n : Good(m)}
  <1>3. 0 \in S
    BY <1>1
  <1>4. ASSUME NEW m \in 1 .. n, m - 1 \in S PROVE m \in S
    BY <1>2, <1>4
  <1>5. 0 .. n \subseteq S
    <2> HIDE DEF S
    <2> QED
      BY <1>3, <1>4, IntervalInduction
  <1> QED
    BY <1>5 DEF Good, Recursions
=============================================================================
