----------------------------- MODULE TreeProofs -----------------------------
(***************************************************************************)
(* Induction over finite trees.  The library's induction theorems take an  *)
(* operator; these say the same of sets and functions: a set of numbers,   *)
(* or of trees with heights, has a least element, and a function that is   *)
(* defined of a tree by its values for the operands exists.                *)
(***************************************************************************)
EXTENDS Naturals, Sequences, TLAPS, WellFoundedInduction

(* The order of the numbers is well-founded.                               *)
LEMMA NatLess == IsWellFoundedOn({ss \in Nat \X Nat : ss[1] < ss[2]}, Nat)
  BY NatLessThanWellFounded DEF OpToRel

(* Numbers have a least one.                                               *)
LEMMA NatLeast ==
  ASSUME NEW T, T \subseteq Nat, T # {}
  PROVE  \E x \in T : \A y \in T : x <= y
<1>1. PICK R : R = {ss \in Nat \X Nat : ss[1] < ss[2]}
  OBVIOUS
<1>2. IsWellFoundedOn(R, Nat)
  BY <1>1, NatLess
<1>3. PICK x \in T : \A y \in T : ~ (<<y, x>> \in R)
  BY ONLY <1>2, T \subseteq Nat, T # {}, WFMin
<1>4. ASSUME NEW y \in T
      PROVE  x <= y
  <2>1. x \in Nat /\ y \in Nat /\ <<y, x>> \in Nat \X Nat
    OBVIOUS
  <2>2. ~ (y < x)
    BY <1>1, <1>3, <2>1
  <2> QED BY <2>1, <2>2
<1> QED BY <1>4

(* Operands are lower.                                                     *)
Lower(S, h, kids) == \A x \in S : \A k \in kids[x] : h[k] < h[x]

(* f is defined by step, of a tree and what f is for its operands.         *)
Computes(f, S, kids, step) == f = [x \in S |-> step[x][[k \in kids[x] |-> f[k]]]]

(* f is as defined on all trees lower than n.                              *)
Solves(f, S, h, kids, step, n) ==
  \A x \in S : h[x] < n => f[x] = step[x][[k \in kids[x] |-> f[k]]]

(* A recursive definition over trees of decreasing heights has a solution. *)
LEMMA TreeRecursion ==
  ASSUME NEW S, NEW h \in [S -> Nat], NEW kids \in [S -> SUBSET S], NEW step,
         Lower(S, h, kids)
  PROVE  \E f : Computes(f, S, kids, step)
<1>1. ASSUME NEW f, NEW n \in Nat, Solves(f, S, h, kids, step, n)
      PROVE  \E g : Solves(g, S, h, kids, step, n + 1)
  <2>1. PICK g : g = [x \in S |-> step[x][[k \in kids[x] |-> f[k]]]]
    OBVIOUS
  <2>2. ASSUME NEW x \in S, h[x] < n + 1
        PROVE  g[x] = step[x][[k \in kids[x] |-> g[k]]]
    <3>1. \A k \in kids[x] : k \in S /\ h[k] < n
      BY <2>2 DEF Lower
    <3>2. \A k \in kids[x] : g[k] = f[k]
      BY <1>1, <2>1, <3>1 DEF Solves
    <3>3. [k \in kids[x] |-> g[k]] = [k \in kids[x] |-> f[k]]
      BY <3>2
    <3> QED BY <2>1, <3>3
  <2> QED BY <2>2 DEF Solves
<1>2. \A n \in Nat : \E f : Solves(f, S, h, kids, step, n)
  <2>1. PICK T : T = {n \in Nat : ~ \E f : Solves(f, S, h, kids, step, n)}
    OBVIOUS
  <2>2. ASSUME T # {}
        PROVE  FALSE
    <3>1. PICK m \in T : \A y \in T : m <= y
      BY <2>1, <2>2, NatLeast
    <3>2. m # 0
      <4>1. \A f : Solves(f, S, h, kids, step, 0)
        BY DEF Solves
      <4> QED BY <2>1, <4>1
    <3>3. m - 1 \in Nat /\ m - 1 \notin T /\ m - 1 + 1 = m
      BY <2>1, <3>1, <3>2
    <3> QED BY <1>1, <2>1, <3>3
  <2> QED BY <2>1, <2>2
<1>3. ASSUME NEW f, NEW g, NEW n \in Nat, NEW m \in Nat, Solves(f, S, h, kids, step, n), Solves(g, S, h, kids, step, m)
      PROVE  \A x \in S : h[x] < n /\ h[x] < m => f[x] = g[x]
  <2>1. PICK T : T = {j \in Nat : \E x \in S : j = h[x] /\ h[x] < n /\ h[x] < m /\ f[x] # g[x]}
    OBVIOUS
  <2>2. ASSUME T # {}
        PROVE  FALSE
    <3>1. PICK j \in T : \A y \in T : j <= y
      BY <2>1, <2>2, NatLeast
    <3>2. PICK x \in S : j = h[x] /\ h[x] < n /\ h[x] < m /\ f[x] # g[x]
      BY <2>1
    <3>3. ASSUME NEW k \in kids[x]
          PROVE  f[k] = g[k]
      <4>1. k \in S /\ h[k] < h[x] /\ h[k] \in Nat /\ h[x] \in Nat
        BY DEF Lower
      <4>2. h[k] < n /\ h[k] < m /\ h[k] \notin T
        BY <3>1, <3>2, <4>1
      <4> QED BY <2>1, <4>1, <4>2
    <3>4. [k \in kids[x] |-> f[k]] = [k \in kids[x] |-> g[k]]
      BY <3>3
    <3> QED BY <1>3, <3>2, <3>4 DEF Solves
  <2>3. ASSUME NEW x \in S, h[x] < n, h[x] < m, f[x] # g[x]
        PROVE  FALSE
    <3>1. h[x] \in T
      BY <2>1, <2>3
    <3> QED BY <2>2, <3>1
  <2> QED BY <2>3
<1> DEFINE sol(x) == CHOOSE f : Solves(f, S, h, kids, step, h[x] + 1)
<1>4. ASSUME NEW x \in S
      PROVE  Solves(sol(x), S, h, kids, step, h[x] + 1)
  <2>1. \E f : Solves(f, S, h, kids, step, h[x] + 1)
    BY <1>2
  <2> QED BY <2>1
<1> HIDE DEF sol
<1>5. PICK F : F = [x \in S |-> sol(x)[x]]
  OBVIOUS
<1>6. ASSUME NEW x \in S
      PROVE  F[x] = step[x][[k \in kids[x] |-> F[k]]]
  <2>1. ASSUME NEW k \in kids[x]
        PROVE  F[k] = sol(x)[k]
    <3>1. k \in S /\ h[k] < h[x] /\ h[k] \in Nat /\ h[x] \in Nat
      BY DEF Lower
    <3>2. h[k] < h[k] + 1 /\ h[k] < h[x] + 1 /\ h[k] + 1 \in Nat /\ h[x] + 1 \in Nat
      BY <3>1
    <3>3. Solves(sol(x), S, h, kids, step, h[x] + 1) /\ Solves(sol(k), S, h, kids, step, h[k] + 1)
      BY <1>4, <3>1
    <3>4. sol(x)[k] = sol(k)[k]
      BY <1>3, <3>1, <3>2, <3>3
    <3> QED BY <1>5, <3>1, <3>4
  <2>2. [k \in kids[x] |-> F[k]] = [k \in kids[x] |-> sol(x)[k]]
    BY <2>1
  <2>3. h[x] < h[x] + 1
    OBVIOUS
  <2>4. sol(x)[x] = step[x][[k \in kids[x] |-> sol(x)[k]]]
    BY <1>4, <2>3 DEF Solves
  <2> QED BY <1>5, <2>2, <2>4
<1>7. F = [x \in S |-> step[x][[k \in kids[x] |-> F[k]]]]
  BY <1>5, <1>6
<1> QED BY <1>7 DEF Computes

(* So do trees: one of the lowest ones.                                    *)
LEMMA LowestTree ==
  ASSUME NEW S, NEW h \in [S -> Nat], NEW T, T \subseteq S, T # {}
  PROVE  \E x \in T : \A y \in T : h[x] <= h[y]
<1>1. PICK H : H = {h[x] : x \in T}
  OBVIOUS
<1>2. H \subseteq Nat /\ H # {}
  BY <1>1
<1>3. PICK n \in H : \A m \in H : n <= m
  BY <1>2, NatLeast
<1>4. PICK x \in T : n = h[x]
  BY <1>1
<1>5. \A y \in T : h[y] \in H
  BY <1>1
<1> QED BY <1>3, <1>4, <1>5

(* P has every tree whose operands it has.                                 *)
Hereditary(S, kids, P) == \A x \in S : kids[x] \subseteq P => x \in P

(* Induction.                                                              *)
LEMMA TreeInduction ==
  ASSUME NEW S, NEW h \in [S -> Nat], NEW kids \in [S -> SUBSET S], NEW P,
         Lower(S, h, kids), Hereditary(S, kids, P)
  PROVE  S \subseteq P
<1>1. PICK T : T = {x \in S : x \notin P}
  OBVIOUS
<1>2. ASSUME T # {}
      PROVE  FALSE
  <2>1. PICK x \in T : \A y \in T : h[x] <= h[y]
    BY <1>1, <1>2, LowestTree
  <2>2. x \in S /\ x \notin P
    BY <1>1
  <2>3. ASSUME NEW k \in kids[x]
        PROVE  k \in P
    <3>1. k \in S /\ h[k] < h[x] /\ h[k] \in Nat /\ h[x] \in Nat
      BY <2>2 DEF Lower
    <3>2. k \notin T
      BY <2>1, <3>1
    <3> QED BY <1>1, <3>1, <3>2
  <2> QED BY <2>2, <2>3 DEF Hereditary
<1> QED BY <1>1, <1>2

(* Its values are where one step of the definition keeps them.             *)
LEMMA TreeFunction ==
  ASSUME NEW S, NEW h \in [S -> Nat], NEW kids \in [S -> SUBSET S], NEW step, NEW V,
         Lower(S, h, kids),
         \A x \in S : \A g \in [kids[x] -> V] : step[x][g] \in V
  PROVE  \E f \in [S -> V] : Computes(f, S, kids, step)
<1>0. Lower(S, h, kids)
  OBVIOUS
<1>1. PICK f : Computes(f, S, kids, step)
  BY <1>0, TreeRecursion
<1>11. f = [x \in S |-> step[x][[k \in kids[x] |-> f[k]]]]
  BY <1>1 DEF Computes
<1>2. PICK P : P = {x \in S : f[x] \in V}
  OBVIOUS
<1>3. Hereditary(S, kids, P)
  <2>1. ASSUME NEW x \in S, kids[x] \subseteq P
        PROVE  x \in P
    <3>1. PICK g : g = [k \in kids[x] |-> f[k]]
      OBVIOUS
    <3>2. g \in [kids[x] -> V]
      BY <1>2, <2>1, <3>1
    <3>3. f[x] = step[x][g]
      BY <1>11, <3>1
    <3> QED BY <1>2, <3>2, <3>3
  <2> QED BY <2>1 DEF Hereditary
<1>12. S \subseteq P
  BY <1>0, <1>3, TreeInduction
<1>4. f \in [S -> V]
  BY <1>11, <1>2, <1>12
<1> QED BY <1>1, <1>4
=============================================================================
