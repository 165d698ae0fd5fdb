--------------------------- MODULE Recursion_proofs ---------------------------
(***************************************************************************)
(* What the proofs about recursive functions rest on.  A recursive         *)
(* function is a choice among the functions that satisfy its equation, so  *)
(* that there is one is to be proved before the equation can be used.      *)
(***************************************************************************)
EXTENDS Integers, Sequences, WellFoundedInduction, TLAPS

(* A set of numbers has a least one. *)
LEMMA LeastNumber ==
  ASSUME NEW S, S \subseteq Nat, S # {}
  PROVE  \E n \in S : \A m \in S : n <= m
<1> DEFINE below == OpToRel(<, Nat)
<1>1. IsWellFoundedOn(below, Nat)
  BY NatLessThanWellFounded
<1>2. below = {p \in Nat \X Nat : p[1] < p[2]}
  BY DEF OpToRel
<1>3. ASSUME NEW m \in Nat, NEW n \in Nat, m < n
      PROVE  <<m, n>> \in {p \in Nat \X Nat : p[1] < p[2]}
  BY <1>3
<1>4. \A m, n \in Nat : m < n => <<m, n>> \in below
  BY <1>2, <1>3
<1> HIDE DEF below
<1>5. PICK n \in S : \A m \in S : ~ (<<m, n>> \in below)
  BY <1>1, WFMin
<1>6. ASSUME NEW m \in S PROVE n <= m
  <2>1. m \in Nat /\ n \in Nat
    OBVIOUS
  <2>2. ~(m < n)
    BY <1>4, <1>5, <2>1, Zenon
  <2> QED
    BY <2>1, <2>2
<1> QED
  BY <1>6

(* What holds of each of some numbers whenever it holds of the lower ones, holds of
   all of them: H is the set of the numbers it holds of. *)
LEMMA StrongInduction ==
  ASSUME NEW S, S \subseteq Nat, NEW H,
         \A n \in S : (\A m \in S : m < n => m \in H) => n \in H
  PROVE  S \subseteq H
<1> SUFFICES ASSUME S \ H # {} PROVE FALSE
  OBVIOUS
<1>1. PICK n \in S \ H : \A m \in S \ H : n <= m
  BY LeastNumber
<1>2. \A m \in S : m < n => m \in H
  BY <1>1
<1> QED
  BY <1>1, <1>2

(* G makes the value of a function at an argument out of the function, and looks
   only at its values where the rank is lower; ranks are bounded. *)
Ranked(rank, S)       == \E N \in Nat : rank \in [S -> 0..N]
IsStep(G, S, V, rank) ==
  /\ G \in [[S -> V] \X S -> V]
  /\ \A f, g \in [S -> V] : \A x \in S :
       (\A y \in S : rank[y] < rank[x] => f[y] = g[y]) => G[<<f, x>>] = G[<<g, x>>]

(* What holds of each argument whenever it holds of those of lower rank, holds of
   all of them. *)
LEMMA RankInduction ==
  ASSUME NEW S, NEW rank, Ranked(rank, S), NEW H,
         \A x \in S : (\A y \in S : rank[y] < rank[x] => y \in H) => x \in H
  PROVE  S \subseteq H
<1> SUFFICES ASSUME S \ H # {} PROVE FALSE
  OBVIOUS
<1>1. PICK N \in Nat : rank \in [S -> 0..N]
  BY DEF Ranked
<1> DEFINE R == {rank[x] : x \in S \ H}
<1>2. R \subseteq Nat /\ R # {}
  BY <1>1
<1>3. PICK n \in R : \A m \in R : n <= m
  <2> HIDE DEF R
  <2> QED
    BY <1>2, LeastNumber
<1>4. PICK x \in S \ H : n = rank[x]
  OBVIOUS
<1>5. \A y \in S : rank[y] < rank[x] => y \in H
  BY <1>1, <1>3, <1>4
<1> QED
  BY <1>5

(* There is a function with the values a step makes. *)
LEMMA BoundedRecursion ==
  ASSUME NEW S, NEW V, NEW rank, NEW G, V # {}, Ranked(rank, S), IsStep(G, S, V, rank)
  PROVE  \E f \in [S -> V] : \A x \in S : f[x] = G[<<f, x>>]
<1>1. PICK v \in V, N \in Nat : rank \in [S -> 0..N]
  BY DEF Ranked
<1>2. /\ G \in [[S -> V] \X S -> V]
      /\ \A f, g \in [S -> V] : \A x \in S :
           (\A y \in S : rank[y] < rank[x] => f[y] = g[y]) => G[<<f, x>>] = G[<<g, x>>]
  BY DEF IsStep
<1> DEFINE Below(f, n) == \A x \in S : rank[x] < n => f[x] = G[<<f, x>>]
           H == {n \in 0..N + 1 : \E f \in [S -> V] : Below(f, n)}
<1>3. ASSUME NEW n \in 0..N + 1, \A m \in 0..N + 1 : m < n => m \in H
      PROVE  n \in H
  <2>1. CASE n = 0
    <3>1. [x \in S |-> v] \in [S -> V] /\ Below([x \in S |-> v], n)
      BY <2>1, <1>1
    <3> HIDE DEF Below
    <3> QED
      BY <3>1
  <2>2. CASE n # 0
    <3>1. n - 1 \in 0..N + 1 /\ n - 1 < n
      BY <2>2
    <3> HIDE DEF H
    <3>2. n - 1 \in H
      BY <1>3, <3>1
    <3> USE DEF H
    <3>3. PICK f \in [S -> V] : Below(f, n - 1)
      <4> HIDE DEF Below
      <4> QED
        BY <3>2
    <3> DEFINE g == [x \in S |-> IF rank[x] < n - 1 THEN f[x] ELSE G[<<f, x>>]]
    <3>4. g \in [S -> V]
      BY <1>2
    <3>5. ASSUME NEW x \in S, rank[x] < n PROVE g[x] = G[<<g, x>>]
      <4>1. \A y \in S : rank[y] < rank[x] => f[y] = g[y]
        BY <1>1, <3>5
      <4>2. G[<<f, x>>] = G[<<g, x>>]
        BY <1>2, <3>4, <4>1
      <4>3. g[x] = G[<<f, x>>]
        BY <3>3
      <4> QED
        BY <4>2, <4>3
    <3> QED
      BY <3>4, <3>5
  <2> QED
    BY <2>1, <2>2
<1> HIDE DEF H
<1>4. PICK numbers : numbers = 0..N + 1
  OBVIOUS
<1>5. numbers \subseteq Nat /\ \A n \in numbers : (\A m \in numbers : m < n => m \in H) => n \in H
  BY <1>3, <1>4
<1>6. numbers \subseteq H
  BY <1>5, StrongInduction
<1>7. PICK f \in [S -> V] : Below(f, N + 1)
  <2>1. N + 1 \in H
    BY <1>4, <1>6
  <2> HIDE DEF Below
  <2> QED
    BY <2>1 DEF H
<1>8. \A x \in S : rank[x] < N + 1
  BY <1>1
<1> QED
  BY <1>7, <1>8
===============================================================================
