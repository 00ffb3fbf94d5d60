------------------------------ MODULE Counting ------------------------------
(***************************************************************************)
(* Counting up from 0: what proofs by induction on a number or a sequence  *)
(* rest on, said of sets of them, and that a function defined step by step *)
(* is there.                                                               *)
(***************************************************************************)
EXTENDS Integers, Sequences, SequenceTheorems, WellFoundedInduction, TLAPS

\* The least element of a set of naturals.
LEMMA LeastExists ==
    ASSUME NEW S \in SUBSET Nat, S # {}
    PROVE  \E n \in S : \A m \in S : n <= m
<1> DEFINE R == OpToRel(<, Nat)
<1>1. \A m, n \in Nat : <<m, n>> \in R <=> m < n
  BY DEF OpToRel
<1>2. IsWellFoundedOn(R, Nat)
  BY NatLessThanWellFounded
<1> HIDE DEF R
<1>3. PICK n \in S : \A m \in S : ~(<<m, n>> \in R)
  BY <1>2, WFMin
<1>4. ASSUME NEW m \in S PROVE n <= m
  <2>1. m \in Nat /\ n \in Nat /\ ~(m < n)
    BY <1>1, <1>3
  <2> QED BY <2>1
<1> QED BY <1>4

\* A set of naturals that has 0, and with a number the next one, has them all.
LEMMA CountingUp ==
    ASSUME NEW S \in SUBSET Nat, 0 \in S, \A n \in S : n + 1 \in S
    PROVE  S = Nat
<1>1. ASSUME Nat \ S # {} PROVE FALSE
  <2>1. Nat \ S \in SUBSET Nat
    OBVIOUS
  <2>2. PICK n \in Nat \ S : \A m \in Nat \ S : n <= m
    BY <1>1, <2>1, LeastExists
  <2>3. n - 1 \in Nat /\ n - 1 < n /\ n - 1 + 1 = n
    BY <2>2
  <2>4. n - 1 \in S
    BY <2>2, <2>3
  <2> QED BY <2>2, <2>3, <2>4
<1> QED BY <1>1

\* A set of naturals that is bounded has a greatest element.
LEMMA GreatestExists ==
    ASSUME NEW b \in Nat, NEW S \in SUBSET (0..b), S # {}
    PROVE  \E x \in S : \A y \in S : x >= y
<1> DEFINE Good == {n \in Nat : \A T \in SUBSET (0..n) : T # {} => \E x \in T : \A y \in T : x >= y}
<1>1. 0 \in Good
  <2> SUFFICES ASSUME NEW T \in SUBSET (0..0), T # {} PROVE \E x \in T : \A y \in T : x >= y
    OBVIOUS
  <2>1. PICK x \in T : TRUE
    OBVIOUS
  <2>2. \A y \in T : y = 0
    OBVIOUS
  <2> QED BY <2>1, <2>2
<1>2. ASSUME NEW n \in Good PROVE n + 1 \in Good
  <2> SUFFICES ASSUME NEW T \in SUBSET (0..(n + 1)), T # {} PROVE \E x \in T : \A y \in T : x >= y
    OBVIOUS
  <2>1. CASE n + 1 \in T
    BY <2>1
  <2>2. CASE n + 1 \notin T
    <3>1. T \in SUBSET (0..n)
      BY <2>2
    <3> QED BY <3>1
  <2> QED BY <2>1, <2>2
<1>3. Good \in SUBSET Nat
  OBVIOUS
<1> HIDE DEF Good
<1>4. b \in Good
  BY <1>1, <1>2, <1>3, CountingUp
<1> QED BY <1>4 DEF Good

\* A function that starts from a value and makes each step from the one before is
\* there, however many steps it is given.
Takes(g, m, V, start, step) ==
    /\ g \in [0..m -> V]
    /\ \A n \in 0..m : g[n] = IF n = 0 THEN start ELSE step[n][g[n - 1]]

LEMMA StepsExist ==
    ASSUME NEW V, NEW start \in V, NEW step \in [Nat -> [V -> V]], NEW m \in Nat
    PROVE  \E g : Takes(g, m, V, start, step)
<1> USE DEF Takes
<1> DEFINE Is(g, k) == Takes(g, k, V, start, step)
           Good == {k \in Nat : \E g : Is(g, k)}
<1>1. 0 \in Good
  <2>1. Is([n \in 0..0 |-> start], 0)
    OBVIOUS
  <2> QED BY <2>1
<1>2. ASSUME NEW k \in Good PROVE k + 1 \in Good
  <2>1. PICK g : Is(g, k)
    OBVIOUS
  <2> DEFINE h == [n \in 0..(k + 1) |-> IF n = k + 1 THEN step[k + 1][g[k]] ELSE g[n]]
  <2>2. k \in Nat /\ g[k] \in V /\ step[k + 1][g[k]] \in V
    BY <2>1
  <2>3. h \in [0..(k + 1) -> V] /\ h[k + 1] = step[k + 1][g[k]] /\ \A n \in 0..k : h[n] = g[n]
    BY <2>1, <2>2
  <2> HIDE DEF h
  <2>4. ASSUME NEW n \in 0..(k + 1) PROVE h[n] = IF n = 0 THEN start ELSE step[n][h[n - 1]]
    <3>1. CASE n = k + 1
      <4>1. n # 0 /\ n - 1 = k /\ k \in 0..k
        BY <2>2, <3>1
      <4>2. h[n - 1] = g[k]
        BY <2>3, <4>1
      <4> QED BY <2>3, <3>1, <4>1, <4>2
    <3>2. CASE n # k + 1
      <4>1. n \in 0..k /\ (n # 0 => n - 1 \in 0..k)
        BY <2>2, <3>2
      <4> QED BY <2>1, <2>3, <4>1
    <3> QED BY <3>1, <3>2
  <2>5. Is(h, k + 1)
    BY <2>3, <2>4
  <2> QED BY <2>2, <2>5
<1> HIDE DEF Good
<1>3. Good \subseteq Nat
  BY DEF Good
<1>4. m \in Good
  BY <1>1, <1>2, <1>3, CountingUp
<1> QED BY <1>4 DEF Good

\* All sequences are made from the empty one by appending.
LEMMA AppendingUp ==
    ASSUME NEW V, NEW S \in SUBSET Seq(V), <<>> \in S, \A q \in S, x \in V : Append(q, x) \in S
    PROVE  S = Seq(V)
<1> DEFINE Good == {n \in Nat : \A q \in Seq(V) : Len(q) = n => q \in S}
<1>1. 0 \in Good
  BY EmptySeq
<1>2. ASSUME NEW n \in Good PROVE n + 1 \in Good
  <2> SUFFICES ASSUME NEW q \in Seq(V), Len(q) = n + 1 PROVE q \in S
    OBVIOUS
  <2>1. q # <<>>
    BY EmptySeq
  <2>2. PICK f \in Seq(V), x \in V : q = Append(f, x)
    BY <2>1, SequenceEmptyOrAppend
  <2>3. Len(f) = n
    BY <2>2, AppendProperties
  <2> QED BY <2>2, <2>3
<1> HIDE DEF Good
<1>3. Good \subseteq Nat
  BY DEF Good
<1>4. Good = Nat
  BY <1>1, <1>2, <1>3, CountingUp
<1> QED BY <1>4, LenProperties DEF Good
=============================================================================
