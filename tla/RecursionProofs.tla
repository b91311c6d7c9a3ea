--------------------------- MODULE RecursionProofs ---------------------------
(* What the proofs about recursive functions rest on: induction over the   *)
(* natural numbers, as a statement about sets of them; that a function on  *)
(* 0..n exists whose values follow one from the other; and that one exists *)
(* whose values follow from those at the points below, for any relation    *)
(* that has no endless descent.                                            *)
EXTENDS Integers, WellFoundedInduction, TLAPS

(* A set of numbers with 0 and with the next number of each has them all. *)
LEMMA Induct ==
  ASSUME NEW S, 0 \in S, \A n \in Nat : n \in S => n + 1 \in S
  PROVE  \A n \in Nat : n \in S
<1> DEFINE R == {p \in Nat \X Nat : p[1] < p[2]}
           Q == Nat \ S
<1>1. IsWellFoundedOn(R, Nat)
  BY NatLessThanWellFounded DEF OpToRel
<1> SUFFICES ASSUME Q # {} PROVE FALSE
  OBVIOUS
<1>2. PICK x \in Q : \A y \in Q : ~(<<y, x>> \in R)
  <2> HIDE DEF R, Q
  <2>1. Q \subseteq Nat
    BY DEF Q
  <2> QED  BY <1>1, <2>1, WFMin
<1>3. x # 0 /\ x - 1 \in Nat
  OBVIOUS
<1>4. <<x - 1, x>> \in R
  BY <1>3
<1>5. x - 1 \notin Q
  BY <1>2, <1>4
<1> QED  BY <1>3, <1>5

\* A step for each number keeps within V, and f starts with a and follows the steps.
StepsWithin(V, n, H) == \A k \in 1..n : \A v \in V : H[k][v] \in V
Follows(f, V, a, n, H) ==
  f \in [0..n -> V] /\ f[0] = a /\ \A k \in 1..n : f[k] = H[k][f[k - 1]]

(* A function on 0..n is defined by its value at 0 and a step from each    *)
(* number to the next.                                                     *)
LEMMA Recursion ==
  ASSUME NEW V, NEW a \in V, NEW n \in Nat, NEW H, StepsWithin(V, n, H)
  PROVE  \E f : Follows(f, V, a, n, H)
<1> USE DEF StepsWithin, Follows
<1> DEFINE Fits(f, m) == f[0] = a /\ \A k \in 1..m : f[k] = H[k][f[k - 1]]
           S == {m \in Nat : m <= n => \E f \in [0..m -> V] : Fits(f, m)}
<1>1. 0 \in S
  <2> DEFINE f == [k \in 0..0 |-> a]
  <2>1. f \in [0..0 -> V] /\ Fits(f, 0)
    OBVIOUS
  <2> QED  BY <2>1
<1>2. ASSUME NEW m \in Nat, m \in S PROVE m + 1 \in S
  <2> SUFFICES ASSUME m + 1 <= n PROVE \E g \in [0..(m + 1) -> V] : Fits(g, m + 1)
    OBVIOUS
  <2>1. PICK f \in [0..m -> V] : Fits(f, m)
    BY <1>2
  <2> DEFINE g == [k \in 0..(m + 1) |-> IF k <= m THEN f[k] ELSE H[m + 1][f[m]]]
  <2>2. f[m] \in V /\ H[m + 1][f[m]] \in V
    OBVIOUS
  <2>3. g \in [0..(m + 1) -> V]
    BY <2>2
  <2>4. \A k \in 0..m : g[k] = f[k]
    OBVIOUS
  <2>5. g[m + 1] = H[m + 1][g[m]]
    BY <2>4
  <2>6. \A k \in 1..m : g[k] = H[k][g[k - 1]]
    BY <2>1, <2>4
  <2>7. Fits(g, m + 1)
    BY <2>1, <2>4, <2>5, <2>6
  <2> QED  BY <2>3, <2>7
<1> HIDE DEF S
<1>3. n \in S
  BY <1>1, <1>2, Induct
<1> QED  BY <1>3 DEF S

\* R leads nobody in N round in a circle or down without end.
Grounded(R, N) == \A S \in SUBSET N : S # {} => \E n \in S : \A m \in S : <<m, n>> \notin R

\* The step for n gives a value in V, from the values at those before n.
StepsFrom(V, N, R, H) ==
  \A n \in N : /\ \A f \in [N -> V] : H[n][f] \in V
               /\ \A f, g \in [N -> V] :
                    (\A m \in N : <<m, n>> \in R => f[m] = g[m]) => H[n][f] = H[n][g]

\* f follows the steps on S, which has everybody before its members.
Solves(f, S, V, N, R, H) ==
  /\ f \in [N -> V] /\ S \subseteq N
  /\ \A n \in S : f[n] = H[n][f] /\ \A m \in N : <<m, n>> \in R => m \in S

\* Two functions that follow the steps agree where both do.
LEMMA SolutionsAgree ==
  ASSUME NEW V, NEW N, NEW R, NEW H, Grounded(R, N), StepsFrom(V, N, R, H),
         NEW f, NEW S, Solves(f, S, V, N, R, H),
         NEW g, NEW T, Solves(g, T, V, N, R, H)
  PROVE  \A n \in S \cap T : f[n] = g[n]
<1> DEFINE Q == {n \in S \cap T : f[n] # g[n]}
<1> SUFFICES ASSUME Q # {} PROVE FALSE
  OBVIOUS
<1>1. Q \in SUBSET N
  BY DEF Solves
<1>2. PICK n \in Q : \A m \in Q : <<m, n>> \notin R
  <2> HIDE DEF Q
  <2> QED  BY <1>1 DEF Grounded
<1>3. \A m \in N : <<m, n>> \in R => f[m] = g[m]
  BY <1>2 DEF Solves
<1>4. H[n][f] = H[n][g]
  BY <1>2, <1>3 DEF StepsFrom, Solves
<1> QED  BY <1>2, <1>4 DEF Solves

(* A function is defined by a step for each element that looks at those    *)
(* before it, as long as every set of elements has one with none of the    *)
(* set before it.                                                          *)
LEMMA TreeRecursion ==
  ASSUME NEW V, NEW v \in V, NEW N, NEW R, NEW H, Grounded(R, N), StepsFrom(V, N, R, H)
  PROVE  \E f \in [N -> V] : \A n \in N : f[n] = H[n][f]
<1> DEFINE For(n) == CHOOSE f : \E S : n \in S /\ Solves(f, S, V, N, R, H)
           Good   == {n \in N : \E f : \E S : n \in S /\ Solves(f, S, V, N, R, H)}
           E      == [n \in N |-> IF n \in Good THEN For(n)[n] ELSE v]
<1>1. ASSUME NEW n \in Good
      PROVE  E[n] = H[n][E] /\ \A m \in N : <<m, n>> \in R => m \in Good
  <2> DEFINE f == For(n)
  <2>1. PICK S : n \in S /\ Solves(f, S, V, N, R, H)
    OBVIOUS
  <2> HIDE DEF f
  <2>2. ASSUME NEW m \in S PROVE m \in Good /\ E[m] = f[m]
    <3> DEFINE g == For(m)
    <3>1. m \in Good
      BY <2>1, <2>2 DEF Solves
    <3>2. PICK T : m \in T /\ Solves(g, T, V, N, R, H)
      BY <3>1
    <3>3. E[m] = g[m]
      BY <3>1
    <3> HIDE DEF g, E, Good
    <3>4. g[m] = f[m]
      BY <2>1, <2>2, <3>2, SolutionsAgree
    <3> QED  BY <3>1, <3>3, <3>4
  <2>3. \A m \in N : <<m, n>> \in R => m \in S
    BY <2>1 DEF Solves
  <2>4. E \in [N -> V]
    <3>1. ASSUME NEW m \in Good PROVE For(m)[m] \in V
      <4> DEFINE g == For(m)
      <4>1. PICK T : m \in T /\ Solves(g, T, V, N, R, H)
        BY <3>1
      <4> HIDE DEF g
      <4>2. g[m] \in V
        BY <4>1 DEF Solves
      <4> QED  BY <4>2 DEF g
    <3> HIDE DEF For, Good
    <3> QED  BY <3>1
  <2> HIDE DEF E, Good
  <2>5. H[n][E] = H[n][f]
    BY <2>1, <2>2, <2>3, <2>4 DEF StepsFrom, Solves
  <2> QED  BY <2>1, <2>2, <2>3, <2>5 DEF Solves
<1>2. Good \subseteq N
  OBVIOUS
<1>3. E \in [N -> V]
  <2>1. ASSUME NEW m \in Good PROVE For(m)[m] \in V
    <3> DEFINE g == For(m)
    <3>1. PICK T : m \in T /\ Solves(g, T, V, N, R, H)
      BY <2>1
    <3> HIDE DEF g
    <3>2. g[m] \in V
      BY <3>1 DEF Solves
    <3> QED  BY <3>2 DEF g
  <2> HIDE DEF For, Good
  <2> QED  BY <2>1
<1>4. \A n \in N : (\E f : \E S : n \in S /\ Solves(f, S, V, N, R, H)) => n \in Good
  OBVIOUS
<1> HIDE DEF E, Good
<1>5. Good = N
  <2> SUFFICES ASSUME N \ Good # {} PROVE FALSE
    BY <1>2
  <2>1. PICK n \in N \ Good : \A m \in N \ Good : <<m, n>> \notin R
    <3> DEFINE Q == N \ Good
    <3>1. Q \in SUBSET N /\ Q # {}
      OBVIOUS
    <3> HIDE DEF Q
    <3>2. \E n \in Q : \A m \in Q : <<m, n>> \notin R
      BY <3>1 DEF Grounded
    <3> QED  BY <3>2 DEF Q
  <2> DEFINE f == [E EXCEPT ![n] = H[n][E]]
             S == Good \cup {n}
  <2>2. f \in [N -> V] /\ f[n] = H[n][E] /\ \A m \in Good : f[m] = E[m]
    BY <1>2, <1>3, <2>1 DEF StepsFrom
  <2>3. \A m \in S : \A k \in N : <<k, m>> \in R => k \in Good
    BY <1>1, <2>1
  <2> HIDE DEF f
  <2>4. \A m \in S : H[m][f] = H[m][E]
    <3>1. \A m \in S : \A k \in N : <<k, m>> \in R => f[k] = E[k]
      BY <2>2, <2>3
    <3> QED  BY <1>2, <1>3, <2>1, <2>2, <3>1 DEF StepsFrom
  <2>5. Solves(f, S, V, N, R, H)
    BY <1>1, <1>2, <2>1, <2>2, <2>3, <2>4 DEF Solves
  <2>6. n \in S
    OBVIOUS
  <2> QED  BY <1>4, <2>1, <2>5, <2>6
<1> QED  BY <1>1, <1>3, <1>5
=============================================================================
