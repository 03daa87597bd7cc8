------------------------ MODULE ProviderSpendProofs -------------------------
(***************************************************************************)
(* Proofs about ProviderSpend, for any requests, runtimes, scopes, costs   *)
(* and limits: first what sums over finite sets obey, then the rows, the   *)
(* balances that follow them, the limits, the earmark of the synthesis     *)
(* Steps and the warnings.                                                 *)
(*                                                                         *)
(* A sum is a fold, defined by recursion over the subsets of its set.      *)
(* What it obeys is shown by SetInduction, which speaks of a set T of      *)
(* subsets in place of a predicate.                                        *)
(***************************************************************************)
EXTENDS ProviderSpend, FiniteSetTheorems, TLAPS

(* Sums.                                                                    *)

(* A set of subsets of a finite S to which every subset belongs when its    *)
(* strict subsets do has them all: a counterexample would have a minimal    *)
(* one, since the strict subset ordering is well-founded on finite sets.    *)
LEMMA SetInduction ==
  ASSUME NEW S, IsFiniteSet(S), NEW T,
         \A U \in SUBSET S : (\A V \in SUBSET U : V # U => V \in T) => U \in T
  PROVE  SUBSET S \subseteq T
<1> SUFFICES ASSUME NEW U0 \in SUBSET S, U0 \notin T PROVE FALSE
  OBVIOUS
<1> DEFINE B == {U \in SUBSET S : U \notin T}
<1>1. IsWellFoundedOn(StrictSubsetOrdering(S), FiniteSubsetsOf(S))
  BY FS_StrictSubsetOrderingWellFounded
<1>2. B \subseteq FiniteSubsetsOf(S) /\ B # {}
  BY FS_FiniteSubsetsOfFinite
<1>3. PICK U \in B : \A V \in B : <<V, U>> \notin StrictSubsetOrdering(S)
  <2> HIDE DEF B
  <2> QED
    BY <1>1, <1>2, WFMin
<1>4. \A V \in SUBSET U : V # U => V \in T
  BY <1>3 DEF StrictSubsetOrdering
<1> QED
  BY <1>3, <1>4

(* The equation whose solution a sum is.                                    *)

IsTotal(f, S, g) ==
  g = [s \in SUBSET S |->
         IF s = {} THEN 0 ELSE LET x == CHOOSE x \in s : TRUE IN f[x] + g[s \ {x}]]

(* A sum is the value at S of the function that solves the recursion.       *)
LEMMA SumIsTotal ==
  ASSUME NEW f, NEW S PROVE Sum(f, S) = (CHOOSE g : IsTotal(f, S, g))[S]
  BY DEF Sum, MapThenSumSet, MapThenFoldSet, IsTotal

(* Two solutions agree on the sets they have in common.                     *)
LEMMA TotalUnique ==
  ASSUME NEW f, NEW S, IsFiniteSet(S), NEW A \in SUBSET S, NEW B \in SUBSET S, NEW g, IsTotal(f, A, g),
         NEW h, IsTotal(f, B, h)
  PROVE  \A U \in SUBSET (A \intersect B) : g[U] = h[U]
<1> DEFINE C == A \intersect B
<1> DEFINE T == {U \in SUBSET C : g[U] = h[U]}
<1>1. ASSUME NEW U \in SUBSET C, \A V \in SUBSET U : V # U => V \in T
      PROVE U \in T
  <2>1. CASE U = {}
    BY <2>1 DEF IsTotal
  <2>2. CASE U # {}
    <3> DEFINE x == CHOOSE x \in U : TRUE
    <3>1. x \in U
      BY <2>2
    <3>2. g[U] = f[x] + g[U \ {x}] BY <2>2 DEF IsTotal
    <3>3. h[U] = f[x] + h[U \ {x}] BY <2>2 DEF IsTotal
    <3>4. U \ {x} \in T BY <3>1, <1>1
    <3> QED
      BY <3>2, <3>3, <3>4
  <2> QED
    BY <2>1, <2>2
<1>2. IsFiniteSet(C) BY FS_Subset
<1> HIDE DEF C, T
<1>3. SUBSET C \subseteq T
  BY <1>1, <1>2, SetInduction
<1> QED
  BY <1>3 DEF C, T

(* There is a solution, built from those for the strict subsets.            *)
LEMMA TotalExists ==
  ASSUME NEW f, NEW S, IsFiniteSet(S)
  PROVE  \E g : IsTotal(f, S, g)
<1> DEFINE T == {U \in SUBSET S : \E g : IsTotal(f, U, g)}
<1>1. ASSUME NEW U \in SUBSET S, \A V \in SUBSET U : V # U => V \in T
      PROVE U \in T
  <2> DEFINE G(V) == CHOOSE g : IsTotal(f, V, g)
             v(V) == IF V = {} THEN 0 ELSE LET x == CHOOSE x \in V : TRUE IN f[x] + G(V \ {x})[V \ {x}]
             h == [V \in SUBSET U |-> v(V)]
  <2>1. \A V \in SUBSET U : V # U => IsTotal(f, V, G(V))
    BY <1>1
  <2>2. ASSUME NEW V \in SUBSET U, V # U PROVE h[V] = G(V)[V]
    <3>1. IsTotal(f, V, G(V)) BY <2>1, <2>2
    <3> DEFINE x == CHOOSE x \in V : TRUE
    <3>2. CASE V = {} BY <3>1, <3>2 DEF IsTotal
    <3>3. CASE V # {}
      <4>1. x \in V BY <3>3
      <4>2. G(V)[V] = f[x] + G(V)[V \ {x}]
        BY <3>1, <3>3 DEF IsTotal
      <4>3. IsTotal(f, V \ {x}, G(V \ {x}))
        BY <2>1, <2>2, <4>1
      <4>4. V \ {x} \in SUBSET S /\ V \in SUBSET S
        OBVIOUS
      <4> HIDE DEF G
      <4>5. G(V)[V \ {x}] = G(V \ {x})[V \ {x}]
        BY <3>1, <4>3, <4>4, TotalUnique
      <4> QED
        BY <3>3, <4>2, <4>5
    <3> QED
      BY <3>2, <3>3
  <2>3. IsTotal(f, U, h)
    <3> DEFINE w(V) == IF V = {} THEN 0 ELSE LET x == CHOOSE x \in V : TRUE IN f[x] + h[V \ {x}]
    <3>1. ASSUME NEW V \in SUBSET U PROVE h[V] = w(V)
      <4> DEFINE x == CHOOSE x \in V : TRUE
      <4>1. CASE V = {} BY <4>1
      <4>2. CASE V # {}
        <5>1. V \ {x} \in SUBSET U /\ V \ {x} # U BY <4>2
        <5>2. h[V \ {x}] = G(V \ {x})[V \ {x}] BY <5>1, <2>2
        <5> QED
          BY <4>2, <5>2
      <4> QED
        BY <4>1, <4>2
    <3>2. h = [V \in SUBSET U |-> h[V]]
      OBVIOUS
    <3> HIDE DEF h
    <3>3. h = [V \in SUBSET U |-> w(V)]
      BY <3>1, <3>2
    <3> QED
      BY <3>3 DEF IsTotal
  <2> QED
    BY <2>3
<1> HIDE DEF T
<1>2. SUBSET S \subseteq T BY <1>1, SetInduction
<1> QED
  BY <1>2 DEF T

(* The recursion of the sum, over one element of the set.                   *)
LEMMA SumStep ==
  ASSUME NEW f, NEW S, IsFiniteSet(S)
  PROVE  /\ S = {} => Sum(f, S) = 0
         /\ S # {} => \E x \in S : Sum(f, S) = f[x] + Sum(f, S \ {x})
<1> DEFINE g == CHOOSE g : IsTotal(f, S, g)
<1>1. Sum(f, S) = g[S]
  BY SumIsTotal
<1>2. IsTotal(f, S, g)
  BY TotalExists
<1>3. ASSUME S = {} PROVE Sum(f, S) = 0
  BY <1>1, <1>2, <1>3 DEF IsTotal
<1>4. ASSUME S # {} PROVE \E x \in S : Sum(f, S) = f[x] + Sum(f, S \ {x})
  <2> DEFINE x == CHOOSE x \in S : TRUE
             h == CHOOSE h : IsTotal(f, S \ {x}, h)
  <2>1. x \in S BY <1>4
  <2>2. g[S] = f[x] + g[S \ {x}]
    BY <1>2, <1>4 DEF IsTotal
  <2>3. IsFiniteSet(S \ {x}) /\ S \ {x} \in SUBSET S /\ S \in SUBSET S
    BY FS_Subset
  <2>4. Sum(f, S \ {x}) = h[S \ {x}]
    BY SumIsTotal
  <2>5. IsTotal(f, S \ {x}, h)
    BY <2>3, TotalExists
  <2> HIDE DEF x, h, g
  <2>6. g[S \ {x}] = h[S \ {x}]
    BY <1>2, <2>3, <2>5, TotalUnique
  <2> QED
    BY <1>1, <2>1, <2>2, <2>4, <2>6
<1> QED
  BY <1>3, <1>4

(* It may be any element: the order of a sum does not matter.               *)
LEMMA SumRemove ==
  ASSUME NEW f, NEW S, IsFiniteSet(S), \A x \in S : f[x] \in Int
  PROVE  Sum(f, S) \in Int /\ \A x \in S : Sum(f, S) = f[x] + Sum(f, S \ {x})
<1> DEFINE T == {U \in SUBSET S : Sum(f, U) \in Int /\ \A x \in U : Sum(f, U) = f[x] + Sum(f, U \ {x})}
<1>1. ASSUME NEW U \in SUBSET S, \A V \in SUBSET U : V # U => V \in T
      PROVE  U \in T
  <2>1. IsFiniteSet(U)
    BY FS_Subset
  <2>2. CASE U = {}
    BY <2>1, <2>2, SumStep
  <2>3. CASE U # {}
    <3>1. PICK y \in U : Sum(f, U) = f[y] + Sum(f, U \ {y})
      BY <2>1, <2>3, SumStep
    <3>2. \A x \in U : U \ {x} \in T
      BY <1>1
    <3>3. Sum(f, U) \in Int
      <4>1. Sum(f, U \ {y}) \in Int /\ f[y] \in Int
        BY <3>2
      <4> QED
        BY <3>1, <4>1
    <3>4. ASSUME NEW x \in U, x # y PROVE Sum(f, U) = f[x] + Sum(f, U \ {x})
      <4>1. Sum(f, U \ {y}) = f[x] + Sum(f, (U \ {y}) \ {x})
        BY <3>2, <3>4
      <4>2. Sum(f, U \ {x}) = f[y] + Sum(f, (U \ {x}) \ {y})
        BY <3>2, <3>4
      <4>3. Sum(f, (U \ {y}) \ {x}) = Sum(f, (U \ {x}) \ {y})
        <5>1. (U \ {y}) \ {x} = (U \ {x}) \ {y}
          OBVIOUS
        <5> QED
          BY <5>1, Zenon
      <4>4. Sum(f, (U \ {x}) \ {y}) \in Int
        <5>1. (U \ {x}) \ {y} \in SUBSET U /\ (U \ {x}) \ {y} # U
          BY <3>4
        <5> HIDE DEF T
        <5>2. (U \ {x}) \ {y} \in T BY <5>1, <1>1
        <5> QED
          BY <5>2 DEF T
      <4>5. f[x] \in Int /\ f[y] \in Int
        OBVIOUS
      <4> QED
        BY <3>1, <4>1, <4>2, <4>3, <4>4, <4>5
    <3> QED
      BY <3>1, <3>3, <3>4
  <2> QED
    BY <2>2, <2>3
<1> HIDE DEF T
<1>2. SUBSET S \subseteq T
  BY <1>1, SetInduction
<1> QED
  BY <1>2 DEF T

LEMMA SumEmpty == ASSUME NEW f PROVE Sum(f, {}) = 0
BY FS_EmptySet, SumStep

(* A sum of sums, taken term by term.                                       *)
LEMMA SumLinear ==
  ASSUME NEW S, IsFiniteSet(S), NEW f, NEW g, NEW h,
         \A x \in S : f[x] \in Int /\ g[x] \in Int /\ h[x] = f[x] + g[x]
  PROVE  Sum(h, S) = Sum(f, S) + Sum(g, S)
<1> DEFINE T == {U \in SUBSET S : Sum(h, U) = Sum(f, U) + Sum(g, U)}
<1>1. ASSUME NEW U \in SUBSET S, \A V \in SUBSET U : V # U => V \in T
      PROVE  U \in T
  <2>1. IsFiniteSet(U)
    BY FS_Subset
  <2>2. CASE U = {}
    BY <2>2, SumEmpty
  <2>3. CASE U # {}
    <3>1. PICK x \in U : TRUE
      BY <2>3
    <3>2. \A y \in U : f[y] \in Int /\ g[y] \in Int /\ h[y] \in Int
      OBVIOUS
    <3>3. IsFiniteSet(U \ {x}) /\ \A y \in U \ {x} : f[y] \in Int /\ g[y] \in Int
      BY <2>1, <3>2, FS_Subset
    <3>4. Sum(f, U \ {x}) \in Int /\ Sum(g, U \ {x}) \in Int
      BY <3>3, SumRemove
    <3>5. Sum(f, U) = f[x] + Sum(f, U \ {x}) /\ Sum(g, U) = g[x] + Sum(g, U \ {x})
          /\ Sum(h, U) = h[x] + Sum(h, U \ {x})
      BY <2>1, <3>2, SumRemove
    <3>6. Sum(h, U \ {x}) = Sum(f, U \ {x}) + Sum(g, U \ {x})
      BY <1>1
    <3> QED
      BY <3>2, <3>4, <3>5, <3>6
  <2> QED
    BY <2>2, <2>3
<1> HIDE DEF T
<1>2. SUBSET S \subseteq T
  BY <1>1, SetInduction
<1> QED
  BY <1>2 DEF T

(* A sum grows with its terms.                                              *)
LEMMA SumMonotone ==
  ASSUME NEW S, IsFiniteSet(S), NEW f, NEW g,
         \A x \in S : f[x] \in Int /\ g[x] \in Int /\ f[x] <= g[x]
  PROVE  Sum(f, S) <= Sum(g, S)
<1> DEFINE T == {U \in SUBSET S : Sum(f, U) <= Sum(g, U)}
<1>1. ASSUME NEW U \in SUBSET S, \A V \in SUBSET U : V # U => V \in T
      PROVE  U \in T
  <2>1. IsFiniteSet(U)
    BY FS_Subset
  <2>2. CASE U = {}
    BY <2>2, SumEmpty
  <2>3. CASE U # {}
    <3>1. PICK x \in U : TRUE
      BY <2>3
    <3>2. \A y \in U : f[y] \in Int /\ g[y] \in Int
      OBVIOUS
    <3>3. IsFiniteSet(U \ {x}) /\ \A y \in U \ {x} : f[y] \in Int /\ g[y] \in Int
      BY <2>1, <3>2, FS_Subset
    <3>4. Sum(f, U \ {x}) \in Int /\ Sum(g, U \ {x}) \in Int
      BY <3>3, SumRemove
    <3>5. Sum(f, U) = f[x] + Sum(f, U \ {x}) /\ Sum(g, U) = g[x] + Sum(g, U \ {x})
      BY <2>1, <3>2, SumRemove
    <3>6. Sum(f, U \ {x}) <= Sum(g, U \ {x})
      BY <1>1
    <3> QED
      BY <3>2, <3>4, <3>5, <3>6
  <2> QED
    BY <2>2, <2>3
<1> HIDE DEF T
<1>2. SUBSET S \subseteq T
  BY <1>1, SetInduction
<1> QED
  BY <1>2 DEF T

LEMMA SumAgree ==
  ASSUME NEW S, IsFiniteSet(S), NEW f, NEW g, \A x \in S : f[x] \in Int /\ f[x] = g[x]
  PROVE  Sum(f, S) = Sum(g, S)
<1>1. Sum(f, S) <= Sum(g, S) /\ Sum(g, S) <= Sum(f, S)
  BY SumMonotone
<1>2. Sum(f, S) \in Int /\ Sum(g, S) \in Int
  BY SumRemove
<1> QED
  BY <1>1, <1>2

LEMMA SumZero ==
  ASSUME NEW S, IsFiniteSet(S), NEW f, \A x \in S : f[x] = 0
  PROVE  Sum(f, S) = 0
<1> DEFINE T == {U \in SUBSET S : Sum(f, U) = 0}
<1>1. ASSUME NEW U \in SUBSET S, \A V \in SUBSET U : V # U => V \in T
      PROVE  U \in T
  <2>1. IsFiniteSet(U)
    BY FS_Subset
  <2>2. CASE U = {}
    BY <2>2, SumEmpty
  <2>3. CASE U # {}
    <3>1. PICK x \in U : Sum(f, U) = f[x] + Sum(f, U \ {x})
      BY <2>1, <2>3, SumStep
    <3> QED
      BY <1>1, <3>1
  <2> QED
    BY <2>2, <2>3
<1> HIDE DEF T
<1>2. SUBSET S \subseteq T
  BY <1>1, SetInduction
<1> QED
  BY <1>2 DEF T

LEMMA SumNat ==
  ASSUME NEW S, IsFiniteSet(S), NEW f, \A x \in S : f[x] \in Nat
  PROVE  Sum(f, S) \in Nat
<1> DEFINE z == [x \in S |-> 0]
<1>1. Sum(z, S) <= Sum(f, S)
  BY SumMonotone
<1>2. Sum(z, S) = 0
  BY SumZero
<1>3. Sum(f, S) \in Int
  BY SumRemove
<1> QED
  BY <1>1, <1>2, <1>3

(* A sum over some elements is the sum over all in which the others count   *)
(* nothing.                                                                 *)
LEMMA SumOver ==
  ASSUME NEW S, IsFiniteSet(S), NEW U \in SUBSET S, NEW f, NEW g,
         \A x \in U : g[x] \in Int /\ f[x] = g[x], \A x \in S \ U : f[x] = 0
  PROVE  Sum(f, S) = Sum(g, U)
<1> DEFINE T == {D \in SUBSET (S \ U) : Sum(f, U \union D) = Sum(g, U)}
<1>1. ASSUME NEW D \in SUBSET (S \ U), \A V \in SUBSET D : V # D => V \in T
      PROVE  D \in T
  <2>1. CASE D = {}
    <3>1. U \union D = U
      BY <2>1
    <3>2. IsFiniteSet(U) /\ \A y \in U : f[y] \in Int /\ f[y] = g[y]
      BY FS_Subset
    <3>3. Sum(f, U) = Sum(g, U)
      BY <3>2, SumAgree
    <3> QED
      BY <3>1, <3>3
  <2>2. CASE D # {}
    <3>1. PICK x \in D : TRUE
      BY <2>2
    <3>2. IsFiniteSet(U \union D) /\ \A y \in U \union D : f[y] \in Int
      <4>1. U \union D \subseteq S OBVIOUS
      <4>2. IsFiniteSet(U \union D) BY <4>1, FS_Subset
      <4>3. \A y \in U \union D : f[y] \in Int
        OBVIOUS
      <4> QED
        BY <4>2, <4>3
    <3>3. f[x] = 0 /\ x \in U \union D
      OBVIOUS
    <3>10. Sum(f, (U \union D) \ {x}) = Sum(f, U \union (D \ {x}))
      <4>1. (U \union D) \ {x} = U \union (D \ {x})
        OBVIOUS
      <4> QED
        BY <4>1, Zenon
    <3>4. Sum(f, U \union D) = f[x] + Sum(f, (U \union D) \ {x})
      BY <3>2, <3>3, SumRemove
    <3>5. IsFiniteSet(U) /\ \A y \in U : g[y] \in Int
      BY FS_Subset
    <3>6. Sum(g, U) \in Int
      BY <3>5, SumRemove
    <3>7. D \ {x} \in T
      BY <1>1, <3>1
    <3>8. Sum(f, U \union (D \ {x})) = Sum(g, U)
      BY <3>7
    <3>9. Sum(f, U \union D) = Sum(g, U)
      BY <3>3, <3>4, <3>6, <3>8, <3>10
    <3> QED
      BY <3>9
  <2> QED
    BY <2>1, <2>2
<1> DEFINE R == S \ U
<1>2. IsFiniteSet(R)
  BY FS_Subset
<1> HIDE DEF T, R
<1>3. SUBSET R \subseteq T
  <2>1. \A D \in SUBSET R : (\A V \in SUBSET D : V # D => V \in T) => D \in T
    BY <1>1 DEF R
  <2> QED
    BY <1>2, <2>1, SetInduction
<1>4. S = U \union R /\ R \in T
  BY <1>3 DEF R
<1> QED
  BY <1>4 DEF T

(* The sum over one element more.                                           *)
LEMMA SumInsert ==
  ASSUME NEW U, IsFiniteSet(U), NEW x, x \notin U, NEW f, f[x] \in Int, \A y \in U : f[y] \in Int
  PROVE  Sum(f, U \union {x}) = f[x] + Sum(f, U)
<1> DEFINE W == U \union {x}
<1>1. IsFiniteSet(W) /\ x \in W /\ \A y \in W : f[y] \in Int
  BY FS_AddElement
<1>2. U = W \ {x}
  OBVIOUS
<1> HIDE DEF W
<1>3. Sum(f, W) = f[x] + Sum(f, W \ {x})
  BY <1>1, SumRemove
<1>4. Sum(f, W \ {x}) = Sum(f, U)
  BY <1>2, Zenon
<1> QED
  BY <1>3, <1>4 DEF W

(* The sum over a set and the rest of it.                                   *)
LEMMA SumSplit ==
  ASSUME NEW S, IsFiniteSet(S), NEW U \in SUBSET S, NEW f, \A x \in S : f[x] \in Int
  PROVE  Sum(f, S) = Sum(f, U) + Sum(f, S \ U)
<1> DEFINE g == [x \in S |-> IF x \in U THEN f[x] ELSE 0]
           h == [x \in S |-> IF x \in U THEN 0 ELSE f[x]]
           R == S \ U
<1>1. \A x \in S : g[x] \in Int /\ h[x] \in Int /\ f[x] = g[x] + h[x]
  OBVIOUS
<1>2. /\ \A x \in U : f[x] \in Int /\ g[x] = f[x]
      /\ \A x \in S \ U : g[x] = 0
  OBVIOUS
<1>3. /\ \A x \in R : f[x] \in Int /\ h[x] = f[x]
      /\ \A x \in S \ R : h[x] = 0
      /\ R \in SUBSET S
  OBVIOUS
<1> HIDE DEF g, h, R
<1>4. Sum(f, S) = Sum(g, S) + Sum(h, S)
  BY <1>1, SumLinear
<1>5. Sum(g, S) = Sum(f, U)
  BY <1>2, SumOver
<1>6. Sum(h, S) = Sum(f, R)
  BY <1>3, SumOver
<1> QED
  BY <1>4, <1>5, <1>6 DEF R

LEMMA SumSingle ==
  ASSUME NEW f, NEW x, f[x] \in Int PROVE Sum(f, {x}) = f[x]
<1> DEFINE W == {x}
<1>1. IsFiniteSet(W) /\ W # {} /\ W \ {x} = {}
  BY FS_Singleton
<1>2. \E y \in W : Sum(f, W) = f[y] + Sum(f, W \ {y})
  BY <1>1, SumStep
<1>3. Sum(f, W) = f[x] + Sum(f, W \ {x})
  BY <1>2
<1>4. Sum(f, W \ {x}) = Sum(f, {})
  BY <1>1, Zenon
<1> QED
  BY <1>3, <1>4, SumEmpty

(* The sums over the requests of each Step are together a part of the       *)
(* whole.                                                                   *)
LEMMA SumByStep ==
  ASSUME NEW C, IsFiniteSet(C), NEW f, \A r \in C : f[r] \in Nat, NEW U, IsFiniteSet(U)
  PROVE  Sum([st \in U |-> Sum(f, {r \in C : StepOf[r] = st})], U) <= Sum(f, C)
<1> DEFINE g == [st \in U |-> Sum(f, {r \in C : StepOf[r] = st})]
           In(V) == {r \in C : StepOf[r] \in V}
           T == {V \in SUBSET U : Sum(g, V) = Sum(f, In(V))}
<1>0. \A st \in U : g[st] \in Int
  <2> SUFFICES ASSUME NEW st \in U PROVE g[st] \in Int
    OBVIOUS
  <2> DEFINE W == {r \in C : StepOf[r] = st}
  <2>1. IsFiniteSet(W) /\ \A r \in W : f[r] \in Nat
    BY FS_Subset
  <2> HIDE DEF W
  <2>2. Sum(f, W) \in Nat
    BY <2>1, SumNat
  <2> QED
    BY <2>2 DEF W
<1>1. ASSUME NEW V \in SUBSET U, \A X \in SUBSET V : X # V => X \in T
      PROVE  V \in T
  <2>1. CASE V = {}
    <3>1. In(V) = {}
      BY <2>1
    <3>2. Sum(f, In(V)) = Sum(f, {}) /\ Sum(g, V) = Sum(g, {})
      BY <2>1, <3>1, Zenon
    <3>3. Sum(g, V) = Sum(f, In(V))
      BY <3>2, SumEmpty
    <3> QED
      BY <3>3
  <2>2. CASE V # {}
    <3>1. PICK st \in V : TRUE
      BY <2>2
    <3> DEFINE I == In(V)
               W == {r \in C : StepOf[r] = st}
    <3>2. IsFiniteSet(V) /\ IsFiniteSet(I) /\ \A x \in V : g[x] \in Int
      BY <1>0, FS_Subset
    <3>3. W \in SUBSET I /\ I \ W = In(V \ {st}) /\ \A r \in I : f[r] \in Int
      OBVIOUS
    <3>4. Sum(g, V \ {st}) = Sum(f, In(V \ {st}))
      <4>1. V \ {st} \in T
        BY <1>1, <3>1
      <4> QED
        BY <4>1
    <3>5. g[st] = Sum(f, W)
      OBVIOUS
    <3>6. Sum(f, I \ W) = Sum(f, In(V \ {st}))
      BY <3>3, Zenon
    <3> HIDE DEF g, I, W
    <3>7. Sum(g, V) = g[st] + Sum(g, V \ {st})
      BY <3>2, SumRemove
    <3>8. Sum(f, I) = Sum(f, W) + Sum(f, I \ W)
      BY <3>2, <3>3, SumSplit
    <3>9. Sum(g, V) = Sum(f, I)
      BY <3>4, <3>5, <3>6, <3>7, <3>8
    <3> QED
      BY <3>9 DEF I, g
  <2> QED
    BY <2>1, <2>2
<1> HIDE DEF T
<1>2. SUBSET U \subseteq T
  BY <1>1, SetInduction
<1>3. Sum(g, U) = Sum(f, In(U))
  BY <1>2 DEF T
<1>4. In(U) \in SUBSET C /\ \A r \in C : f[r] \in Int
  OBVIOUS
<1>5. IsFiniteSet(C \ In(U)) /\ \A r \in C \ In(U) : f[r] \in Nat
  BY FS_Subset
<1>6. IsFiniteSet(In(U)) /\ \A r \in In(U) : f[r] \in Nat
  BY FS_Subset
<1> DEFINE I == In(U)
<1> HIDE DEF g, I
<1>7. Sum(f, C) = Sum(f, I) + Sum(f, C \ I)
  BY <1>4, SumSplit DEF I
<1>8. Sum(f, C \ I) \in Nat /\ Sum(f, I) \in Nat
  BY <1>5, <1>6, FS_Subset, SumNat DEF I
<1>9. Sum(g, U) <= Sum(f, C)
  BY <1>3, <1>7, <1>8 DEF I
<1> QED
  BY <1>9 DEF g

(* The shares of some Steps are together within the limit.                  *)
LEMMA SharesFit ==
  ASSUME NEW A, IsFiniteSet(A), NEW t, \A x \in A : t[x] \in Nat, NEW L \in Nat, Sum(t, A) # 0, NEW U \in SUBSET A
  PROVE  Sum([x \in A |-> (L * t[x]) \div Sum(t, A)], U) <= L
<1> DEFINE P == Sum(t, A)
           q == [x \in A |-> (L * t[x]) \div P]
           T == {V \in SUBSET U : P * Sum(q, V) <= L * Sum(t, V)}
<1>1. P \in Nat /\ P # 0
  BY SumNat
<1>2. \A x \in A : q[x] \in Int /\ P * q[x] <= L * t[x]
  <2> SUFFICES ASSUME NEW x \in A PROVE q[x] \in Int /\ P * q[x] <= L * t[x]
    OBVIOUS
  <2> DEFINE n == L * t[x]
  <2>1. q[x] = n \div P
    OBVIOUS
  <2>2. n \in Int
    OBVIOUS
  <2> HIDE DEF n, P
  <2>3. n \div P \in Int /\ P * (n \div P) <= n
    BY <1>1, <2>2
  <2> QED
    BY <2>1, <2>3 DEF n
<1>3. ASSUME NEW V \in SUBSET U, \A X \in SUBSET V : X # V => X \in T
      PROVE  V \in T
  <2>0. IsFiniteSet(V)
    BY FS_Subset
  <2>1. CASE V = {}
    <3>1. Sum(q, V) = 0 /\ Sum(t, V) = 0
      BY <2>0, <2>1, SumStep
    <3> HIDE DEF P, q
    <3> QED
      BY <1>1, <3>1
  <2>2. CASE V # {}
    <3>1. PICK x \in V : TRUE
      BY <2>2
    <3>2. \A y \in V : q[y] \in Int /\ t[y] \in Int
      BY <1>2
    <3>3. V \ {x} \in T
      BY <1>3, <3>1
    <3>4. P * Sum(q, V \ {x}) <= L * Sum(t, V \ {x})
      BY <3>3
    <3>5. IsFiniteSet(V \ {x}) /\ \A y \in V \ {x} : q[y] \in Int /\ t[y] \in Int
      BY <2>0, <3>2, FS_Subset
    <3>6. P * q[x] <= L * t[x] /\ q[x] \in Int /\ t[x] \in Int
      BY <1>2, <3>1
    <3> HIDE DEF q, P
    <3>7. Sum(q, V) = q[x] + Sum(q, V \ {x}) /\ Sum(t, V) = t[x] + Sum(t, V \ {x})
      BY <2>0, <3>2, SumRemove
    <3>8. Sum(q, V \ {x}) \in Int /\ Sum(t, V \ {x}) \in Int
      BY <3>5, SumRemove
    <3>9. \A a, b, c, d \in Int : P * a <= L * b /\ P * c <= L * d => P * (a + c) <= L * (b + d)
      BY <1>1
    <3>10. P * Sum(q, V) <= L * Sum(t, V)
      BY <3>4, <3>6, <3>7, <3>8, <3>9
    <3> QED
      BY <3>10 DEF q, P
  <2> QED
    BY <2>1, <2>2
<1> HIDE DEF T
<1>4. IsFiniteSet(U) /\ \A x \in U : q[x] \in Int /\ t[x] \in Nat
  BY <1>2, FS_Subset
<1>5. SUBSET U \subseteq T
  BY <1>3, <1>4, SetInduction
<1>6. P * Sum(q, U) <= L * Sum(t, U)
  BY <1>5 DEF T
<1> HIDE DEF q
<1>7. Sum(q, U) \in Int /\ Sum(t, U) \in Nat
  BY <1>4, SumRemove, SumNat
<1>8. Sum(t, U) <= P
  <2>1. IsFiniteSet(A \ U) /\ \A x \in A \ U : t[x] \in Nat
    BY FS_Subset
  <2>2. Sum(t, A \ U) \in Nat
    BY <2>1, SumNat
  <2>3. Sum(t, A) = Sum(t, U) + Sum(t, A \ U)
    BY SumSplit
  <2> QED
    BY <1>7, <2>2, <2>3
<1> HIDE DEF P
<1>9. \A m \in Int, n \in Nat : n <= P /\ P * m <= L * n => m <= L
  <2> SUFFICES ASSUME NEW m \in Int, NEW n \in Nat, n <= P, P * m <= L * n, m >= L + 1 PROVE FALSE
    OBVIOUS
  <2>1. L * n <= L * P
    BY <1>1
  <2>2. P * (L + 1) <= P * m
    BY <1>1
  <2>3. P * (L + 1) = L * P + P
    BY <1>1
  <2>4. P * m \in Int /\ L * n \in Int /\ L * P \in Int
    BY <1>1
  <2> QED
    BY <1>1, <2>1, <2>2, <2>3, <2>4
<1>10. Sum(q, U) <= L
  BY <1>6, <1>7, <1>8, <1>9
<1> QED
  BY <1>10 DEF q, P

-----------------------------------------------------------------------------
(* The rows.                                                                *)

RowTypes ==
  /\ attempt \in [Request -> AttemptStates]
  /\ actual \in [Request -> Nat] /\ sent \subseteq Request
  /\ call \in [Request -> CallStates]
  /\ alive \subseteq Runtime

(* A row is inserted by the request's one reservation.                      *)
IdleHasNoRow == \A r \in Request : call[r] = "idle" => attempt[r] = "absent"

SpendInv == RowTypes /\ IdleHasNoRow /\ SentIsNeverReleased

(* Recovery turns rows that are open into released or uncertain ones, and   *)
(* releases none that was sent.                                             *)
LEMMA RecoveryKeepsRows ==
  ASSUME SpendInv, NEW S, \A r \in Request : r \in S => attempt[r] \in Open
  PROVE  /\ RowsAfterRecovery(S) \in [Request -> AttemptStates]
         /\ \A r \in Request : r \notin S => RowsAfterRecovery(S)[r] = attempt[r]
         /\ \A r \in Request : r \in S =>
              \/ attempt[r] = "reserved" /\ RowsAfterRecovery(S)[r] = "released"
              \/ attempt[r] = "dispatching" /\ RowsAfterRecovery(S)[r] = "uncertain"
BY DEF SpendInv, RowTypes, RowsAfterRecovery, Recovered, Open, AttemptStates, Held

(* A step that only recovers open rows keeps the invariant.                 *)
LEMMA RecoveryStep ==
  ASSUME SpendInv, NEW S, \A r \in Request : r \in S => attempt[r] \in Open,
         attempt' = RowsAfterRecovery(S), UNCHANGED <<actual, sent>>,
         call' \in [Request -> CallStates], alive' \subseteq Runtime,
         \A r \in Request : call'[r] = "idle" => call[r] = "idle"
  PROVE  SpendInv'
<1>1. RowTypes'
  BY RecoveryKeepsRows DEF SpendInv, RowTypes
<1>2. IdleHasNoRow'
  BY RecoveryKeepsRows DEF SpendInv, IdleHasNoRow, Open
<1>3. SentIsNeverReleased'
  BY RecoveryKeepsRows DEF SpendInv, RowTypes, SentIsNeverReleased
<1> QED
  BY <1>1, <1>2, <1>3 DEF SpendInv

(* So does a step that changes no row, unless it makes a call idle.         *)
LEMMA CallStep ==
  ASSUME SpendInv, UNCHANGED <<attempt, actual, sent>>,
         call' \in [Request -> CallStates], alive' \subseteq Runtime,
         \A r \in Request : call'[r] = "idle" => call[r] = "idle"
  PROVE  SpendInv'
BY DEF SpendInv, RowTypes, IdleHasNoRow, SentIsNeverReleased

LEMMA ExpiredIsOpen == \A r \in Request : r \in Expired => attempt[r] \in Open
BY DEF Expired

(* A reservation inserts one row and recovers the expired ones.             *)
LEMMA ReserveStep ==
  ASSUME SpendInv, NEW r \in Request, Reserve(r)
  PROVE  SpendInv'
<1>1. PICK admitted \in BOOLEAN :
        /\ attempt' = [RowsAfterRecovery(Expired) EXCEPT ![r] = IF admitted THEN "reserved" ELSE @]
        /\ call' = [call EXCEPT ![r] = IF admitted THEN "reserved" ELSE "ended"]
  <2> DEFINE fits == \A s \in ScopesOf[r] : Fits(r, s)
  <2>1. fits \in BOOLEAN
    OBVIOUS
  <2>2. /\ attempt' = [RowsAfterRecovery(Expired) EXCEPT ![r] = IF fits THEN "reserved" ELSE @]
        /\ call' = [call EXCEPT ![r] = IF fits THEN "reserved" ELSE "ended"]
    BY DEF Reserve
  <2> HIDE DEF fits
  <2> QED
    BY <2>1, <2>2
<1>2. call[r] = "idle" /\ attempt[r] = "absent" /\ r \notin sent /\ UNCHANGED <<actual, alive, sent>>
  <2>1. call[r] = "idle" /\ UNCHANGED <<actual, alive, sent>>
    BY DEF Reserve
  <2> QED
    BY <2>1 DEF SpendInv, IdleHasNoRow, SentIsNeverReleased, RowTypes
<1> DEFINE rows == RowsAfterRecovery(Expired)
<1>3. /\ rows \in [Request -> AttemptStates]
      /\ \A q \in Request : q \notin Expired => rows[q] = attempt[q]
      /\ \A q \in Request : q \in Expired =>
           \/ attempt[q] = "reserved" /\ rows[q] = "released"
           \/ attempt[q] = "dispatching" /\ rows[q] = "uncertain"
  BY ExpiredIsOpen, RecoveryKeepsRows
<1> HIDE DEF rows
<1>4. /\ attempt' \in [Request -> AttemptStates] /\ attempt'[r] \in {"reserved", "absent"}
      /\ \A q \in Request : q # r => attempt'[q] = rows[q]
  BY <1>1, <1>2, <1>3 DEF rows, AttemptStates, Held
<1>5. /\ call' \in [Request -> CallStates] /\ call'[r] # "idle"
      /\ \A q \in Request : q # r => call'[q] = call[q]
  BY <1>1 DEF SpendInv, RowTypes, CallStates
<1>6. RowTypes'
  BY <1>2, <1>4, <1>5 DEF SpendInv, RowTypes
<1>7. IdleHasNoRow'
  BY <1>3, <1>4, <1>5 DEF SpendInv, IdleHasNoRow
<1>8. SentIsNeverReleased'
  BY <1>2, <1>3, <1>4 DEF SpendInv, SentIsNeverReleased, RowTypes
<1> QED
  BY <1>6, <1>7, <1>8 DEF SpendInv

(* Every step keeps the invariant of the rows.                              *)
LEMMA SpendInvStep == SpendInv /\ [Next]_vars => SpendInv'
<1> SUFFICES ASSUME SpendInv, [Next]_vars PROVE SpendInv'
  OBVIOUS
<1> USE DEF ledger
<1>0. call \in [Request -> CallStates] /\ alive \subseteq Runtime
  BY DEF SpendInv, RowTypes
<1>1. ASSUME NEW r \in Request, ReserveFails(r) \/ DispatchFails(r) \/ SettleFails(r) \/ Answer(r) \/ Expire(r)
      PROVE  SpendInv'
  <2>1. UNCHANGED <<attempt, actual, sent, alive>>
    BY <1>1 DEF ReserveFails, DispatchFails, SettleFails, Answer, Expire
  <2>2. call' \in [Request -> CallStates] /\ \A q \in Request : call'[q] = "idle" => call[q] = "idle"
    BY <1>0, <1>1 DEF ReserveFails, DispatchFails, SettleFails, Answer, Expire, CallStates
  <2> QED
    BY <1>0, <2>1, <2>2, CallStep
<1>2. ASSUME NEW r \in Request, Reserve(r) PROVE SpendInv'
  BY <1>2, ReserveStep
<1>3. ASSUME NEW r \in Request, PolicyDenied(r) PROVE SpendInv'
  <2>1. UNCHANGED <<actual, sent, alive>> /\ call' = [call EXCEPT ![r] = "ended"]
    BY <1>3 DEF PolicyDenied
  <2>2. call' \in [Request -> CallStates] /\ \A q \in Request : call'[q] = "idle" => call[q] = "idle"
    BY <1>0, <2>1 DEF CallStates
  <2>3. CASE UNCHANGED attempt
    BY <1>0, <2>1, <2>2, <2>3, CallStep
  <2>4. CASE attempt[r] = "reserved" /\ attempt' = RowsAfterRecovery({r})
    <3>1. \A q \in Request : q \in {r} => attempt[q] \in Open
      BY <2>4 DEF Open
    <3> QED
      BY <1>0, <2>1, <2>2, <2>4, <3>1, RecoveryStep
  <2> QED
    BY <1>3, <2>3, <2>4 DEF PolicyDenied, Recover
<1>4. ASSUME NEW r \in Request, Dispatch(r) PROVE SpendInv'
  <2>1. /\ attempt' = [attempt EXCEPT ![r] = "dispatching"] /\ sent' = sent \union {r}
        /\ call' = [call EXCEPT ![r] = "dispatched"] /\ UNCHANGED <<actual, alive>>
    BY <1>4 DEF Dispatch
  <2> QED
    BY <2>1
       DEF SpendInv, RowTypes, IdleHasNoRow, SentIsNeverReleased, AttemptStates, Held, CallStates
<1>5. ASSUME NEW r \in Request, Settle(r) PROVE SpendInv'
  <2>1. /\ attempt' = [attempt EXCEPT ![r] = "settled"] /\ actual' \in [Request -> Nat]
        /\ call' = [call EXCEPT ![r] = "ended"] /\ UNCHANGED <<sent, alive>>
    <3>1. PICK cost \in 0..(Cost[r] + MaxOverrun) : actual' = [actual EXCEPT ![r] = cost]
      BY <1>5 DEF Settle
    <3>2. cost \in Nat
      BY <3>1, SpendAssumption
    <3> QED
      BY <1>5, <3>1, <3>2 DEF Settle, SpendInv, RowTypes
  <2> QED
    BY <2>1
       DEF SpendInv, RowTypes, IdleHasNoRow, SentIsNeverReleased, AttemptStates, Held, CallStates
<1>6. ASSUME NEW r \in Request, MarkUncertain(r) PROVE SpendInv'
  <2>1. UNCHANGED <<actual, sent, alive>> /\ call' = [call EXCEPT ![r] = "ended"]
    BY <1>6 DEF MarkUncertain
  <2>2. UNCHANGED attempt \/ (attempt[r] = "dispatching" /\ attempt' = [attempt EXCEPT ![r] = "uncertain"])
    BY <1>6 DEF MarkUncertain
  <2> QED
    BY <2>1, <2>2
       DEF SpendInv, RowTypes, IdleHasNoRow, SentIsNeverReleased, AttemptStates, Held, CallStates
<1>7. ASSUME NEW o \in Runtime, Heartbeat(o) PROVE SpendInv'
  <2>1. UNCHANGED <<actual, sent, call, alive>> /\ attempt' = RowsAfterRecovery(Expired)
    BY <1>7 DEF Heartbeat, Recover
  <2> QED
    BY <1>0, <2>1, ExpiredIsOpen, RecoveryStep
<1>8. ASSUME NEW o \in Runtime, Dispose(o) PROVE SpendInv'
  <2> DEFINE own == {r \in Request : OwnerOf[r] = o /\ attempt[r] \in Open}
  <2>1. UNCHANGED <<actual, sent, call>> /\ alive' = alive \ {o}
    BY <1>8 DEF Dispose
  <2>2. attempt' = RowsAfterRecovery(own) \/ UNCHANGED attempt
    BY <1>8 DEF Dispose, Recover
  <2>3. \A r \in Request : r \in own => attempt[r] \in Open
    OBVIOUS
  <2>4. alive' \subseteq Runtime
    BY <1>0, <2>1
  <2> HIDE DEF own
  <2>5. CASE UNCHANGED attempt
    BY <1>0, <2>1, <2>4, <2>5, CallStep
  <2>6. CASE attempt' = RowsAfterRecovery(own)
    BY <1>0, <2>1, <2>3, <2>4, <2>6, RecoveryStep
  <2> QED
    BY <2>2, <2>5, <2>6
<1>9. ASSUME NEW o \in Runtime, Crash(o) PROVE SpendInv'
  <2>1. /\ UNCHANGED <<attempt, actual, sent>> /\ alive' = alive \ {o}
        /\ call' = [r \in Request |-> IF OwnerOf[r] = o THEN "ended" ELSE call[r]]
    BY <1>9 DEF Crash
  <2>2. call' \in [Request -> CallStates] /\ \A q \in Request : call'[q] = "idle" => call[q] = "idle"
    BY <1>0, <2>1 DEF CallStates
  <2> QED
    BY <1>0, <2>1, <2>2, CallStep
<1>10. ASSUME NEW st \in Step, FinishStep(st) PROVE SpendInv'
  BY <1>0, <1>10, CallStep DEF FinishStep
<1>11. CASE UNCHANGED vars
  BY <1>0, <1>11, CallStep DEF vars
<1> QED
  BY <1>1, <1>2, <1>3, <1>4, <1>5, <1>6, <1>7, <1>8, <1>9, <1>10, <1>11 DEF Next

LEMMA SpendInvariant == Spec => []SpendInv
<1>1. Init => SpendInv
  BY DEF Init, SpendInv, RowTypes, IdleHasNoRow, SentIsNeverReleased, AttemptStates, Held, CallStates
<1>2. SpendInv /\ [Next]_vars => SpendInv'
  BY SpendInvStep
<1> QED
  BY <1>1, <1>2, PTL DEF Spec

(* Whatever runtimes stall, crash, dispose of their controllers or recover  *)
(* each other's rows, the reservation of a request that may have reached    *)
(* the provider is given up by its settlement only.                         *)
THEOREM SentIsNeverReleasedHolds == Spec => []SentIsNeverReleased
<1>1. SpendInv => SentIsNeverReleased
  BY DEF SpendInv
<1> QED
  BY <1>1, SpendInvariant, PTL

-----------------------------------------------------------------------------
(* The balances.                                                            *)

(* The settled rows of a scope and those that hold a reservation.           *)
SettledIn(rows, s) == {r \in Charged(s) : rows[r] = "settled"}
HeldIn(rows, s) == {r \in Charged(s) : rows[r] \in Held}
Overruns == [r \in Request |-> Positive(actual[r] - Cost[r])]

(* The requests of a scope are finitely many, so their costs add up.        *)
LEMMA Finite ==
  ASSUME NEW s
  PROVE  /\ IsFiniteSet(Charged(s)) /\ Charged(s) \subseteq Request
         /\ \A r \in Request : Cost[r] \in Nat
         /\ \A U \in SUBSET Charged(s) : IsFiniteSet(U) /\ Sum(Cost, U) \in Nat
<1>1. Charged(s) \subseteq Request
  BY DEF Charged
<1>2. IsFiniteSet(Charged(s))
  BY <1>1, FS_Subset, SpendAssumption
<1>3. \A r \in Request : Cost[r] \in Nat
  BY SpendAssumption
<1>4. ASSUME NEW U \in SUBSET Charged(s) PROVE IsFiniteSet(U) /\ Sum(Cost, U) \in Nat
  <2>1. IsFiniteSet(U) /\ \A r \in U : Cost[r] \in Nat
    BY <1>1, <1>2, <1>3, FS_Subset
  <2> QED
    BY <2>1, SumNat
<1> QED
  BY <1>1, <1>2, <1>3, <1>4

(* A step that does nothing but recover rows.                               *)
Recovery(S) ==
  /\ \A r \in S : r \in Request /\ attempt[r] \in Open
  /\ Recover(S)
  /\ UNCHANGED <<actual, spent, reached, warned, finished>>

(* A row moves between the states that hold its reservation.                *)
Quiet ==
  /\ \A r \in Request : attempt'[r] = attempt[r] \/ (attempt[r] \in Held /\ attempt'[r] \in Held)
  /\ expired' \subseteq Request
  /\ UNCHANGED <<actual, spent, reserved, reached, warned>>
  /\ finished' \subseteq Synthesis /\ finished \subseteq finished'

(* Every step is of one of four kinds.                                      *)
LEMMA NextKinds ==
  ASSUME TypeOK, [Next]_vars
  PROVE  \/ Quiet
         \/ \E S : Recovery(S)
         \/ \E r \in Request : Reserve(r) \/ Settle(r)
<1> USE DEF ledger
<1>1. ASSUME NEW r \in Request, ReserveFails(r) \/ DispatchFails(r) \/ SettleFails(r) \/ Answer(r) \/ Expire(r)
      PROVE  Quiet
  BY <1>1 DEF ReserveFails, DispatchFails, SettleFails, Answer, Expire, Quiet, TypeOK
<1>2. ASSUME NEW r \in Request, PolicyDenied(r) PROVE Quiet \/ Recovery({r})
  BY <1>2 DEF PolicyDenied, Quiet, Recovery, TypeOK, Open
<1>3. ASSUME NEW r \in Request, Dispatch(r) PROVE Quiet
  BY <1>3 DEF Dispatch, Quiet, TypeOK, Held
<1>4. ASSUME NEW r \in Request, MarkUncertain(r) PROVE Quiet
  BY <1>4 DEF MarkUncertain, Quiet, TypeOK, Held
<1>5. ASSUME NEW o \in Runtime, Heartbeat(o) PROVE Recovery(Expired)
  BY <1>5 DEF Heartbeat, Recovery, TypeOK, Expired
<1>6. ASSUME NEW o \in Runtime, Dispose(o) PROVE Quiet \/ \E S : Recovery(S)
  <2> DEFINE own == {r \in Request : OwnerOf[r] = o /\ attempt[r] \in Open}
  <2>1. UNCHANGED <<actual, spent, reached, warned, finished>> /\ (Recover(own) \/ UNCHANGED <<attempt, reserved, expired>>)
    BY <1>6 DEF Dispose
  <2>2. \A r \in own : r \in Request /\ attempt[r] \in Open
    OBVIOUS
  <2> HIDE DEF own
  <2> QED
    BY <2>1, <2>2 DEF Quiet, Recovery, TypeOK
<1>7. ASSUME NEW o \in Runtime, Crash(o) PROVE Quiet
  BY <1>7 DEF Crash, Quiet, TypeOK
<1>8. ASSUME NEW st \in Step, FinishStep(st) PROVE Quiet
  BY <1>8 DEF FinishStep, Quiet, TypeOK
<1>9. CASE UNCHANGED vars
  BY <1>9 DEF vars, Quiet, TypeOK
<1> QED
  BY <1>1, <1>2, <1>3, <1>4, <1>5, <1>6, <1>7, <1>8, <1>9 DEF Next

(* What a reservation writes, whether it was admitted or not.               *)
LEMMA ReserveEffect ==
  ASSUME NEW r \in Request, Reserve(r)
  PROVE  \E admitted \in BOOLEAN :
           /\ admitted => \A s \in ScopesOf[r] : Fits(r, s)
           /\ attempt' = [RowsAfterRecovery(Expired) EXCEPT ![r] = IF admitted THEN "reserved" ELSE @]
           /\ reserved' = [s \in Scope |-> ReservedWithout(s, Expired)
                                 + (IF admitted /\ s \in ScopesOf[r] THEN Cost[r] ELSE 0)]
           /\ expired' = expired \ Expired
           /\ \E crossed \in SUBSET ScopesOf[r] :
                /\ crossed = Reached([s \in Scope |-> spent[s] + reserved'[s]]) \intersect ScopesOf[r]
                /\ reached' = reached \union crossed
                /\ warned' = warned \union (crossed \ reached)
           /\ UNCHANGED <<actual, spent, finished>>
<1> DEFINE fits == \A s \in ScopesOf[r] : Fits(r, s)
           held == [s \in Scope |-> ReservedWithout(s, Expired)
                                 + (IF fits /\ s \in ScopesOf[r] THEN Cost[r] ELSE 0)]
           crossed == Reached([s \in Scope |-> spent[s] + held[s]]) \intersect ScopesOf[r]
<1>1. /\ attempt' = [RowsAfterRecovery(Expired) EXCEPT ![r] = IF fits THEN "reserved" ELSE @]
      /\ reserved' = held
      /\ expired' = expired \ Expired
      /\ reached' = reached \union crossed
      /\ warned' = warned \union (crossed \ reached)
      /\ UNCHANGED <<actual, spent, finished>>
  BY DEF Reserve
<1>2. fits \in BOOLEAN /\ (fits => \A s \in ScopesOf[r] : Fits(r, s))
  OBVIOUS
<1>3. held = [s \in Scope |-> ReservedWithout(s, Expired)
                                 + (IF fits /\ s \in ScopesOf[r] THEN Cost[r] ELSE 0)]
  OBVIOUS
<1>4. crossed = Reached([s \in Scope |-> spent[s] + held[s]]) \intersect ScopesOf[r]
  OBVIOUS
<1> HIDE DEF fits, held, crossed
<1> QED
  BY <1>1, <1>2, <1>3, <1>4

(* The invariant of the ledger.                                             *)
LedgerInv == SpendInv /\ TypeOK /\ BalancesMatch

LEMMA Balances ==
  ASSUME BalancesMatch, NEW s \in Scope
  PROVE  spent[s] = Sum(actual, SettledIn(attempt, s)) /\ reserved[s] = Sum(Cost, HeldIn(attempt, s))
BY DEF BalancesMatch, Balanced, ExpectedSpent, ExpectedReserved, SettledIn, HeldIn

(* The reservations of s that a recovery of S releases.                     *)
ReleasedOf(s, S) == {r \in S \intersect Charged(s) : attempt[r] = "reserved"}

(* A recovery settles nothing and gives up the reservations it releases.    *)
LEMMA RecoveryRows ==
  ASSUME LedgerInv, NEW s \in Scope, NEW S, \A r \in S : r \in Request /\ attempt[r] \in Open
  PROVE  /\ SettledIn(RowsAfterRecovery(S), s) = SettledIn(attempt, s)
         /\ HeldIn(RowsAfterRecovery(S), s) = HeldIn(attempt, s) \ ReleasedOf(s, S)
         /\ ReleasedOf(s, S) \subseteq HeldIn(attempt, s)
<1>1. /\ \A r \in Request : r \notin S => RowsAfterRecovery(S)[r] = attempt[r]
      /\ \A r \in Request : r \in S =>
           \/ attempt[r] = "reserved" /\ RowsAfterRecovery(S)[r] = "released"
           \/ attempt[r] = "dispatching" /\ RowsAfterRecovery(S)[r] = "uncertain"
  BY RecoveryKeepsRows DEF LedgerInv
<1>2. Charged(s) \subseteq Request
  BY Finite
<1> QED
  BY <1>1, <1>2 DEF SettledIn, HeldIn, ReleasedOf, Held

(* The balance a recovery writes is the sum over the rows it leaves: what   *)
(* it subtracts was there.                                                  *)
LEMMA RecoveryBalance ==
  ASSUME LedgerInv, NEW s \in Scope, NEW S, \A r \in S : r \in Request /\ attempt[r] \in Open
  PROVE  /\ ReservedWithout(s, S) = Sum(Cost, HeldIn(RowsAfterRecovery(S), s))
         /\ ReservedWithout(s, S) \in Nat /\ Sum(Cost, ReleasedOf(s, S)) \in Nat
         /\ reserved[s] = ReservedWithout(s, S) + Sum(Cost, ReleasedOf(s, S))
<1> DEFINE H == HeldIn(attempt, s)
           R == ReleasedOf(s, S)
<1>1. reserved[s] = Sum(Cost, H)
  BY Balances DEF LedgerInv
<1>2. R \in SUBSET H /\ H \subseteq Charged(s) /\ H \ R \subseteq Charged(s)
  BY RecoveryRows DEF HeldIn
<1>3. IsFiniteSet(H) /\ \A r \in H : Cost[r] \in Int
  BY <1>2, Finite
<1>4. Sum(Cost, R) \in Nat /\ Sum(Cost, H \ R) \in Nat
  BY <1>2, Finite
<1>5. Sum(Cost, H) = Sum(Cost, R) + Sum(Cost, H \ R)
  <2> HIDE DEF H, R
  <2> QED
    BY <1>2, <1>3, SumSplit
<1>6. ReservedWithout(s, S) = Positive(reserved[s] - Sum(Cost, R))
  BY DEF ReservedWithout, ReleasedOf
<1>7. ReservedWithout(s, S) = Sum(Cost, H \ R)
  BY <1>1, <1>4, <1>5, <1>6 DEF Positive
<1>8. Sum(Cost, HeldIn(RowsAfterRecovery(S), s)) = Sum(Cost, H \ R)
  BY RecoveryRows, Zenon
<1> QED
  BY <1>1, <1>4, <1>5, <1>7, <1>8

LEMMA SpentIsKept ==
  ASSUME LedgerInv, NEW s \in Scope, SettledIn(attempt', s) = SettledIn(attempt, s), UNCHANGED <<actual, spent>>
  PROVE  spent'[s] = Sum(actual', SettledIn(attempt', s))
<1>1. spent[s] = Sum(actual, SettledIn(attempt, s))
  BY Balances DEF LedgerInv
<1>2. Sum(actual', SettledIn(attempt', s)) = Sum(actual, SettledIn(attempt, s))
  BY Zenon
<1> QED
  BY <1>1, <1>2

LEMMA BalancedNext ==
  ASSUME \A s \in Scope : spent'[s] = Sum(actual', SettledIn(attempt', s))
                          /\ reserved'[s] = Sum(Cost, HeldIn(attempt', s))
  PROVE  BalancesMatch'
BY DEF BalancesMatch, Balanced, ExpectedSpent, ExpectedReserved, SettledIn, HeldIn

LEMMA QuietRows ==
  ASSUME Quiet, NEW s
  PROVE  SettledIn(attempt', s) = SettledIn(attempt, s) /\ HeldIn(attempt', s) = HeldIn(attempt, s)
BY Finite DEF Quiet, SettledIn, HeldIn, Held

LEMMA QuietStep ==
  ASSUME LedgerInv, SpendInv', Quiet
  PROVE  LedgerInv'
<1>1. TypeOK'
  BY DEF LedgerInv, SpendInv, RowTypes, TypeOK, Quiet
<1>2. ASSUME NEW s \in Scope
      PROVE spent'[s] = Sum(actual', SettledIn(attempt', s)) /\ reserved'[s] = Sum(Cost, HeldIn(attempt', s))
  <2>1. SettledIn(attempt', s) = SettledIn(attempt, s) /\ HeldIn(attempt', s) = HeldIn(attempt, s)
    BY QuietRows
  <2>2. spent'[s] = Sum(actual', SettledIn(attempt', s))
    BY <2>1, SpentIsKept DEF Quiet
  <2>3. Sum(Cost, HeldIn(attempt', s)) = Sum(Cost, HeldIn(attempt, s))
    BY <2>1, Zenon
  <2>4. reserved'[s] = Sum(Cost, HeldIn(attempt', s))
    BY <2>3, Balances DEF LedgerInv, Quiet
  <2> QED
    BY <2>2, <2>4
<1>3. BalancesMatch'
  BY <1>2, BalancedNext
<1> QED
  BY <1>1, <1>3 DEF LedgerInv

LEMMA RecoveryStepKeepsLedger ==
  ASSUME LedgerInv, SpendInv', NEW S, Recovery(S)
  PROVE  LedgerInv'
<1>0. \A r \in S : r \in Request /\ attempt[r] \in Open
  BY DEF Recovery
<1>1. TypeOK'
  <2>1. reserved' \in [Scope -> Nat]
    BY <1>0, RecoveryBalance DEF Recovery, Recover
  <2> QED
    BY <2>1 DEF LedgerInv, SpendInv, RowTypes, TypeOK, Recovery, Recover
<1>2. ASSUME NEW s \in Scope
      PROVE spent'[s] = Sum(actual', SettledIn(attempt', s)) /\ reserved'[s] = Sum(Cost, HeldIn(attempt', s))
  <2>1. attempt' = RowsAfterRecovery(S) /\ reserved'[s] = ReservedWithout(s, S) /\ UNCHANGED <<actual, spent>>
    BY DEF Recovery, Recover
  <2>2. SettledIn(attempt', s) = SettledIn(attempt, s)
    BY <1>0, <2>1, RecoveryRows
  <2>3. spent'[s] = Sum(actual', SettledIn(attempt', s))
    BY <2>1, <2>2, SpentIsKept
  <2>4. reserved'[s] = Sum(Cost, HeldIn(attempt', s))
    BY <1>0, <2>1, RecoveryBalance
  <2> QED
    BY <2>3, <2>4
<1>3. BalancesMatch'
  BY <1>2, BalancedNext
<1> QED
  BY <1>1, <1>3 DEF LedgerInv

(* What a reservation does to the rows and balances of a scope.             *)
LEMMA ReserveRows ==
  ASSUME LedgerInv, NEW r \in Request, attempt[r] = "absent", NEW s \in Scope, NEW admitted \in BOOLEAN,
         attempt' = [RowsAfterRecovery(Expired) EXCEPT ![r] = IF admitted THEN "reserved" ELSE @]
  PROVE  /\ SettledIn(attempt', s) = SettledIn(attempt, s)
         /\ IF admitted /\ s \in ScopesOf[r]
              THEN /\ r \notin HeldIn(RowsAfterRecovery(Expired), s)
                   /\ HeldIn(attempt', s) = HeldIn(RowsAfterRecovery(Expired), s) \union {r}
              ELSE HeldIn(attempt', s) = HeldIn(RowsAfterRecovery(Expired), s)
<1> DEFINE rows == RowsAfterRecovery(Expired)
<1>0. \A q \in Expired : q \in Request /\ attempt[q] \in Open
  BY DEF LedgerInv, TypeOK, Expired
<1>1. SettledIn(rows, s) = SettledIn(attempt, s)
  BY <1>0, RecoveryRows
<1>2. r \notin Expired
  BY DEF Expired, Open
<1>3. rows \in [Request -> AttemptStates] /\ rows[r] = "absent"
  BY <1>0, <1>2, RecoveryKeepsRows DEF LedgerInv
<1> HIDE DEF rows
<1>4. attempt'[r] = (IF admitted THEN "reserved" ELSE "absent") /\ \A q \in Request : q # r => attempt'[q] = rows[q]
  BY <1>3 DEF rows
<1>5. Charged(s) \subseteq Request /\ (r \in Charged(s) <=> s \in ScopesOf[r])
  BY DEF Charged
<1>6. SettledIn(attempt', s) = SettledIn(rows, s)
  BY <1>3, <1>4, <1>5 DEF SettledIn
<1>7. IF admitted /\ s \in ScopesOf[r]
        THEN r \notin HeldIn(rows, s) /\ HeldIn(attempt', s) = HeldIn(rows, s) \union {r}
        ELSE HeldIn(attempt', s) = HeldIn(rows, s)
  BY <1>3, <1>4, <1>5 DEF HeldIn, Held
<1> QED
  BY <1>1, <1>6, <1>7 DEF rows

LEMMA ReserveStepKeepsLedger ==
  ASSUME LedgerInv, SpendInv', NEW r \in Request, Reserve(r)
  PROVE  LedgerInv'
<1>0. \A q \in Expired : q \in Request /\ attempt[q] \in Open
  BY DEF LedgerInv, TypeOK, Expired
<1>a. attempt[r] = "absent"
  BY DEF LedgerInv, SpendInv, IdleHasNoRow, Reserve
<1>b. PICK admitted \in BOOLEAN :
           /\ attempt' = [RowsAfterRecovery(Expired) EXCEPT ![r] = IF admitted THEN "reserved" ELSE @]
           /\ reserved' = [s \in Scope |-> ReservedWithout(s, Expired)
                                 + (IF admitted /\ s \in ScopesOf[r] THEN Cost[r] ELSE 0)]
           /\ expired' = expired \ Expired
           /\ \E crossed \in SUBSET ScopesOf[r] :
                /\ reached' = reached \union crossed
                /\ warned' = warned \union (crossed \ reached)
           /\ UNCHANGED <<actual, spent, finished>>
  BY ReserveEffect
<1>1. TypeOK'
  <2>1. reserved' \in [Scope -> Nat]
    <3>1. \A s \in Scope : ReservedWithout(s, Expired) \in Nat
      BY <1>0, RecoveryBalance
    <3>2. Cost[r] \in Nat
      BY SpendAssumption
    <3> QED
      BY <1>b, <3>1, <3>2
  <2>2. reached' \subseteq Scope /\ warned' \subseteq reached'
    BY <1>b, SpendAssumption DEF LedgerInv, TypeOK
  <2> QED
    BY <1>b, <2>1, <2>2 DEF LedgerInv, SpendInv, RowTypes, TypeOK
<1>2. ASSUME NEW s \in Scope
      PROVE spent'[s] = Sum(actual', SettledIn(attempt', s)) /\ reserved'[s] = Sum(Cost, HeldIn(attempt', s))
  <2>1. SettledIn(attempt', s) = SettledIn(attempt, s)
    BY <1>a, <1>b, ReserveRows
  <2>2. spent'[s] = Sum(actual', SettledIn(attempt', s))
    BY <1>b, <2>1, SpentIsKept
  <2> DEFINE H == HeldIn(RowsAfterRecovery(Expired), s)
  <2>3. ReservedWithout(s, Expired) = Sum(Cost, H) /\ Sum(Cost, H) \in Nat
    BY <1>0, RecoveryBalance
  <2>4. IsFiniteSet(H) /\ Cost[r] \in Nat /\ \A q \in H : Cost[q] \in Int
    BY Finite DEF HeldIn
  <2>5. CASE admitted /\ s \in ScopesOf[r]
    <3>1. r \notin H /\ HeldIn(attempt', s) = H \union {r}
      BY <1>a, <1>b, <2>5, ReserveRows
    <3> HIDE DEF H
    <3>2. Sum(Cost, H \union {r}) = Cost[r] + Sum(Cost, H)
      BY <2>4, <3>1, SumInsert
    <3>3. Sum(Cost, HeldIn(attempt', s)) = Sum(Cost, H \union {r})
      BY <3>1, Zenon
    <3> QED
      BY <1>b, <2>2, <2>3, <2>4, <2>5, <3>2, <3>3
  <2>6. CASE ~(admitted /\ s \in ScopesOf[r])
    <3>1. HeldIn(attempt', s) = H
      BY <1>a, <1>b, <2>6, ReserveRows
    <3>2. Sum(Cost, HeldIn(attempt', s)) = Sum(Cost, H)
      BY <3>1, Zenon
    <3> QED
      BY <1>b, <2>2, <2>3, <2>6, <3>2
  <2> QED
    BY <2>5, <2>6
<1>3. BalancesMatch'
  BY <1>2, BalancedNext
<1> QED
  BY <1>1, <1>3 DEF LedgerInv

(* Settling moves the row of the request from the held to the settled ones. *)
LEMMA SettleRows ==
  ASSUME LedgerInv, NEW r \in Request, Settle(r), NEW s \in Scope
  PROVE  IF s \in ScopesOf[r]
           THEN /\ r \in HeldIn(attempt, s) /\ HeldIn(attempt', s) = HeldIn(attempt, s) \ {r}
                /\ r \notin SettledIn(attempt, s) /\ SettledIn(attempt', s) = SettledIn(attempt, s) \union {r}
           ELSE /\ r \notin Charged(s)
                /\ HeldIn(attempt', s) = HeldIn(attempt, s) /\ SettledIn(attempt', s) = SettledIn(attempt, s)
<1>1. attempt[r] = "dispatching" /\ attempt' = [attempt EXCEPT ![r] = "settled"]
  BY DEF Settle, MaySettle
<1>2. attempt \in [Request -> AttemptStates]
  BY DEF LedgerInv, TypeOK
<1>3. attempt'[r] = "settled" /\ \A q \in Request : q # r => attempt'[q] = attempt[q]
  BY <1>1, <1>2
<1>4. Charged(s) \subseteq Request /\ (r \in Charged(s) <=> s \in ScopesOf[r])
  BY DEF Charged
<1> QED
  BY <1>1, <1>3, <1>4 DEF HeldIn, SettledIn, Held

(* What settling adds to the spent and takes from the reserved balance of a *)
(* scope keeps both equal to the sums over the rows.                        *)
LEMMA SettleBalance ==
  ASSUME LedgerInv, NEW r \in Request, Settle(r), NEW s \in Scope
  PROVE  /\ actual'[r] \in Nat /\ \A q \in Request : q # r => actual'[q] = actual[q]
         /\ Cost[r] \in Nat
         /\ s \in ScopesOf[r] => /\ Cost[r] <= reserved[s]
                                 /\ reserved'[s] = reserved[s] - Cost[r]
                                 /\ spent'[s] = spent[s] + actual'[r]
         /\ s \notin ScopesOf[r] => reserved'[s] = reserved[s] /\ spent'[s] = spent[s]
         /\ spent'[s] = Sum(actual', SettledIn(attempt', s))
         /\ reserved'[s] = Sum(Cost, HeldIn(attempt', s))
<1>0. PICK cost \in 0..(Cost[r] + MaxOverrun) : actual' = [actual EXCEPT ![r] = cost]
  BY DEF Settle
<1>1. /\ spent' = [x \in Scope |-> spent[x] + (IF x \in ScopesOf[r] THEN actual'[r] ELSE 0)]
      /\ reserved' = [x \in Scope |-> IF x \in ScopesOf[r] THEN Positive(reserved[x] - Cost[r]) ELSE reserved[x]]
  BY DEF Settle
<1>2. /\ actual \in [Request -> Nat]
      /\ spent \in [Scope -> Nat] /\ reserved \in [Scope -> Nat]
  BY DEF LedgerInv, TypeOK
<1>3. actual'[r] = cost /\ \A q \in Request : q # r => actual'[q] = actual[q]
  BY <1>0, <1>2
<1>4. actual'[r] \in Nat /\ Cost[r] \in Nat /\ \A q \in Request : actual[q] \in Nat
  BY <1>2, <1>3, SpendAssumption
<1> DEFINE H == HeldIn(attempt, s)
           D == SettledIn(attempt, s)
<1>5. spent[s] = Sum(actual, D) /\ reserved[s] = Sum(Cost, H)
  BY Balances DEF LedgerInv
<1>6. H \in SUBSET Charged(s) /\ D \in SUBSET Charged(s) /\ Charged(s) \subseteq Request
  BY DEF HeldIn, SettledIn, Charged
<1>7. IsFiniteSet(H) /\ IsFiniteSet(D) /\ \A q \in H : Cost[q] \in Int
  BY <1>6, Finite
<1>8. CASE s \in ScopesOf[r]
  <2>1. /\ r \in H /\ HeldIn(attempt', s) = H \ {r}
        /\ r \notin D /\ SettledIn(attempt', s) = D \union {r}
    BY <1>8, SettleRows
  <2>2. H \ {r} \in SUBSET Charged(s)
    BY <1>6
  <2> HIDE DEF H, D
  <2>3. Sum(Cost, H) = Cost[r] + Sum(Cost, H \ {r})
    BY <1>7, <2>1, SumRemove
  <2>4. Sum(Cost, H \ {r}) \in Nat
    BY <2>2, Finite
  <2>5. Sum(Cost, HeldIn(attempt', s)) = Sum(Cost, H \ {r})
    BY <2>1, Zenon
  <2>6. \A q \in D : actual'[q] = actual[q] /\ actual'[q] \in Int /\ actual[q] \in Int
    BY <1>3, <1>4, <1>6, <2>1
  <2>7. Sum(actual', D \union {r}) = actual'[r] + Sum(actual', D)
    <3>1. actual'[r] \in Int
      BY <1>3, <1>4
    <3> QED
      BY <1>3, <1>7, <2>1, <2>6, <3>1, SumInsert
  <2>8. Sum(actual', D) = Sum(actual, D)
    BY <1>7, <2>6, SumAgree
  <2>9. Sum(actual', SettledIn(attempt', s)) = Sum(actual', D \union {r})
    BY <2>1, Zenon
  <2>10. reserved'[s] = reserved[s] - Cost[r] /\ Cost[r] <= reserved[s]
    BY <1>1, <1>4, <1>5, <1>8, <2>3, <2>4 DEF Positive
  <2>11. spent'[s] = spent[s] + actual'[r]
    BY <1>1, <1>8
  <2>12. spent[s] \in Nat
    BY <1>2
  <2>13. reserved'[s] = Sum(Cost, HeldIn(attempt', s))
    BY <1>4, <1>5, <2>3, <2>4, <2>5, <2>10
  <2>14. spent'[s] = Sum(actual', SettledIn(attempt', s))
    BY <1>4, <1>5, <2>7, <2>8, <2>9, <2>11, <2>12
  <2> QED
    BY <1>3, <1>4, <1>8, <2>10, <2>11, <2>13, <2>14
<1>9. CASE s \notin ScopesOf[r]
  <2>1. r \notin Charged(s) /\ HeldIn(attempt', s) = H /\ SettledIn(attempt', s) = D
    BY <1>9, SettleRows
  <2>2. \A q \in D : actual[q] = actual'[q] /\ actual[q] \in Int
    BY <1>3, <1>4, <1>6, <2>1
  <2> HIDE DEF H, D
  <2>3. Sum(actual', D) = Sum(actual, D)
    BY <1>7, <2>2, SumAgree
  <2>4. Sum(actual', SettledIn(attempt', s)) = Sum(actual', D) /\ Sum(Cost, HeldIn(attempt', s)) = Sum(Cost, H)
    BY <2>1, Zenon
  <2>5. reserved'[s] = reserved[s] /\ spent'[s] = spent[s]
    <3>1. spent'[s] = spent[s] + 0 /\ spent[s] \in Nat
      BY <1>1, <1>2, <1>9
    <3> QED
      BY <1>1, <1>9, <3>1
  <2> QED
    BY <1>3, <1>4, <1>5, <1>9, <2>3, <2>4, <2>5
<1> QED
  BY <1>8, <1>9

LEMMA SettleStepKeepsLedger ==
  ASSUME LedgerInv, SpendInv', NEW r \in Request, Settle(r)
  PROVE  LedgerInv'
<1>1. TypeOK'
  <2>1. /\ spent' = [x \in Scope |-> spent[x] + (IF x \in ScopesOf[r] THEN actual'[r] ELSE 0)]
        /\ reserved' = [x \in Scope |-> IF x \in ScopesOf[r] THEN Positive(reserved[x] - Cost[r]) ELSE reserved[x]]
        /\ reached \subseteq reached' /\ reached' \subseteq reached \union ScopesOf[r]
        /\ UNCHANGED <<expired, warned, finished>>
    BY DEF Settle
  <2>2. /\ spent \in [Scope -> Nat] /\ reserved \in [Scope -> Nat]
        /\ actual'[r] \in Nat /\ Cost[r] \in Nat /\ ScopesOf[r] \subseteq Scope
    BY SpendAssumption DEF LedgerInv, SpendInv, RowTypes, TypeOK
  <2>3. spent' \in [Scope -> Nat] /\ reserved' \in [Scope -> Nat]
    BY <2>1, <2>2 DEF Positive
  <2> QED
    BY <2>1, <2>2, <2>3 DEF LedgerInv, SpendInv, RowTypes, TypeOK
<1>2. BalancesMatch'
  BY SettleBalance, BalancedNext
<1> QED
  BY <1>1, <1>2 DEF LedgerInv

(* Every step keeps the rows, the types and the balances together.          *)
LEMMA LedgerInvStep == LedgerInv /\ [Next]_vars => LedgerInv'
<1> SUFFICES ASSUME LedgerInv, [Next]_vars PROVE LedgerInv'
  OBVIOUS
<1>1. SpendInv'
  BY SpendInvStep DEF LedgerInv
<1>2. \/ Quiet
      \/ \E S : Recovery(S)
      \/ \E r \in Request : Reserve(r) \/ Settle(r)
  BY NextKinds DEF LedgerInv
<1> QED
  BY <1>1, <1>2, QuietStep, RecoveryStepKeepsLedger, ReserveStepKeepsLedger, SettleStepKeepsLedger

LEMMA LedgerInit == Init => LedgerInv
<1> SUFFICES ASSUME Init PROVE LedgerInv
  OBVIOUS
<1>1. SpendInv /\ TypeOK
  BY DEF Init, SpendInv, RowTypes, IdleHasNoRow, SentIsNeverReleased, AttemptStates, Held, CallStates, TypeOK
<1>2. ASSUME NEW s \in Scope PROVE Balanced(s)
  <2>1. {r \in Charged(s) : attempt[r] = "settled"} = {} /\ {r \in Charged(s) : attempt[r] \in Held} = {}
    BY DEF Init, Charged, Held
  <2>2. Sum(actual, {r \in Charged(s) : attempt[r] = "settled"}) = Sum(actual, {})
        /\ Sum(Cost, {r \in Charged(s) : attempt[r] \in Held}) = Sum(Cost, {})
    BY <2>1, Zenon
  <2>3. spent[s] = 0 /\ reserved[s] = 0
    BY DEF Init
  <2> QED
    BY <2>2, <2>3, SumEmpty DEF Balanced, ExpectedSpent, ExpectedReserved
<1> QED
  BY <1>1, <1>2 DEF LedgerInv, BalancesMatch

LEMMA LedgerInvariant == Spec => []LedgerInv
BY LedgerInit, LedgerInvStep, PTL DEF Spec

(* The variables keep their values: no balance falls below zero.            *)
THEOREM SpendTypeCorrect == Spec => []TypeOK
<1>1. LedgerInv => TypeOK
  BY DEF LedgerInv
<1> QED
  BY <1>1, LedgerInvariant, PTL

(* The balances that reserve, recover, release and settle update agree with *)
(* the rows of the ledger after every transaction, whoever crashes, stalls  *)
(* or recovers another runtime's rows: assertScopeBalance never throws.     *)
THEOREM BalancesMatchHolds == Spec => []BalancesMatch
<1>1. LedgerInv => BalancesMatch
  BY DEF LedgerInv
<1> QED
  BY <1>1, LedgerInvariant, PTL

(* What was sent is within what its row commits.                            *)
LEMMA Covered ==
  ASSUME LedgerInv PROVE SentIsCovered
<1> DEFINE cost == [r \in Request |-> IF attempt[r] = "settled" THEN actual[r] ELSE Cost[r]]
<1> SUFFICES ASSUME NEW s \in Scope
             PROVE  Sum(cost, Charged(s) \intersect sent) <= spent[s] + reserved[s]
  BY DEF SentIsCovered
<1> DEFINE C == Charged(s)
           X == C \intersect sent
           H == HeldIn(attempt, s)
           D == SettledIn(attempt, s)
           b == [r \in Request |-> IF r \in X THEN cost[r] ELSE 0]
           d == [r \in Request |-> IF r \in D THEN actual[r] ELSE 0]
           h == [r \in Request |-> IF r \in H THEN Cost[r] ELSE 0]
           c == [r \in Request |-> d[r] + h[r]]
<1>1. C \subseteq Request /\ IsFiniteSet(C) /\ H \in SUBSET C /\ D \in SUBSET C /\ X \in SUBSET C
  BY Finite DEF HeldIn, SettledIn
<1>2. \A r \in Request : cost[r] \in Nat /\ Cost[r] \in Nat /\ actual[r] \in Nat
  BY SpendAssumption DEF LedgerInv, TypeOK
<1>3. \A r \in Request : d[r] \in Int /\ h[r] \in Int /\ c[r] \in Int /\ c[r] = d[r] + h[r] /\ b[r] \in Int
  BY <1>2
<1>4. \A r \in C : b[r] <= c[r]
  <2> SUFFICES ASSUME NEW r \in C PROVE b[r] <= c[r]
    OBVIOUS
  <2>1. r \in Request /\ (r \in X => attempt[r] \in {"dispatching", "settled", "uncertain"})
    BY <1>1 DEF LedgerInv, SpendInv, SentIsNeverReleased
  <2>2. (attempt[r] = "settled" => r \in D) /\ (attempt[r] \in {"dispatching", "uncertain"} => r \in H)
    BY <1>1 DEF HeldIn, SettledIn, Held
  <2>3. (r \in D => c[r] >= actual[r]) /\ (r \in H => c[r] >= Cost[r]) /\ c[r] >= 0
    BY <1>2, <2>1
  <2>4. CASE r \in X
    <3>1. b[r] = IF attempt[r] = "settled" THEN actual[r] ELSE Cost[r]
      BY <2>1, <2>4
    <3> HIDE DEF b, c, d, h, H, D, X
    <3> QED
      BY <1>2, <1>3, <2>1, <2>2, <2>3, <2>4, <3>1
  <2>5. CASE r \notin X
    <3>1. b[r] = 0
      BY <2>1, <2>5
    <3> HIDE DEF b, c, d, h, H, D, X
    <3> QED
      BY <1>3, <2>1, <2>3, <3>1
  <2> QED
    BY <2>4, <2>5
<1>5. /\ \A r \in D : actual[r] \in Int /\ d[r] = actual[r]
      /\ \A r \in C \ D : d[r] = 0
      /\ \A r \in H : Cost[r] \in Int /\ h[r] = Cost[r]
      /\ \A r \in C \ H : h[r] = 0
      /\ \A r \in X : cost[r] \in Int /\ b[r] = cost[r]
      /\ \A r \in C \ X : b[r] = 0
  BY <1>1, <1>2
<1>6. spent[s] = Sum(actual, D) /\ reserved[s] = Sum(Cost, H)
  BY Balances DEF LedgerInv
<1>7. \A r \in C : d[r] \in Int /\ h[r] \in Int /\ c[r] = d[r] + h[r] /\ b[r] \in Int /\ c[r] \in Int /\ b[r] <= c[r]
  BY <1>1, <1>3, <1>4
<1> HIDE DEF C, X, H, D, b, c, d, h, cost
<1>8. Sum(c, C) = Sum(d, C) + Sum(h, C)
  BY <1>1, <1>7, SumLinear
<1>9. Sum(d, C) = Sum(actual, D) /\ Sum(h, C) = Sum(Cost, H) /\ Sum(b, C) = Sum(cost, X)
  BY <1>1, <1>5, SumOver
<1>10. Sum(b, C) <= Sum(c, C)
  BY <1>1, <1>7, SumMonotone
<1>11. Sum(cost, X) <= spent[s] + reserved[s]
  BY <1>6, <1>8, <1>9, <1>10
<1> QED
  BY <1>11 DEF X, C

(* What is spent and reserved covers every request that may have reached    *)
(* the provider, in full until its settlement replaces the reservation.     *)
THEOREM SentIsCoveredHolds == Spec => []SentIsCovered
<1>1. LedgerInv => SentIsCovered
  BY Covered
<1> QED
  BY <1>1, LedgerInvariant, PTL

-----------------------------------------------------------------------------
(* The limits.                                                              *)

LEMMA OverrunType ==
  ASSUME LedgerInv, NEW s
  PROVE  Overrun(s) = Sum(Overruns, SettledIn(attempt, s)) /\ Overrun(s) \in Nat
<1>1. Overrun(s) = Sum(Overruns, SettledIn(attempt, s))
  BY DEF Overrun, Overruns, SettledIn
<1> DEFINE D == SettledIn(attempt, s)
<1>2. IsFiniteSet(D) /\ D \subseteq Request
  BY Finite DEF SettledIn
<1>3. \A r \in D : Overruns[r] \in Nat
  <2>1. \A r \in Request : Overruns[r] \in Nat
    BY SpendAssumption DEF Overruns, Positive, LedgerInv, TypeOK
  <2> QED
    BY <1>2, <2>1
<1> HIDE DEF D
<1>4. Sum(Overruns, D) \in Nat
  BY <1>2, <1>3, SumNat
<1> QED
  BY <1>1, <1>4 DEF D

LEMMA OverrunKept ==
  ASSUME NEW s, SettledIn(attempt', s) = SettledIn(attempt, s), UNCHANGED actual
  PROVE  Overrun(s)' = Overrun(s)
<1>1. Overrun(s) = Sum(Overruns, SettledIn(attempt, s)) /\ Overrun(s)' = Sum(Overruns', SettledIn(attempt', s))
  BY DEF Overrun, Overruns, SettledIn
<1>2. Overruns' = Overruns
  BY DEF Overruns
<1> QED
  BY <1>1, <1>2, Zenon

(* Settling adds the overrun of its request and of no other.                *)
LEMMA OverrunSettled ==
  ASSUME LedgerInv, LedgerInv', NEW r \in Request, Settle(r), NEW s \in Scope
  PROVE  Overrun(s)' = Overrun(s) + (IF s \in ScopesOf[r] THEN Positive(actual'[r] - Cost[r]) ELSE 0)
<1> DEFINE D == SettledIn(attempt, s)
           o == Overruns
           p == Overruns'
<1>1. Overrun(s) = Sum(o, D) /\ Overrun(s)' = Sum(p, SettledIn(attempt', s)) /\ Overrun(s) \in Nat
  <2>1. Overrun(s) = Sum(o, D) /\ Overrun(s) \in Nat
    BY OverrunType
  <2>2. Overrun(s)' = Sum(p, SettledIn(attempt', s))
    BY DEF Overrun, Overruns, SettledIn
  <2> QED
    BY <2>1, <2>2
<1>2. /\ actual'[r] \in Nat /\ \A q \in Request : q # r => actual'[q] = actual[q]
      /\ Cost[r] \in Nat
  BY SettleBalance
<1>3. p[r] = Positive(actual'[r] - Cost[r]) /\ \A q \in Request : q # r => p[q] = o[q]
  BY <1>2 DEF Overruns
<1>4. \A q \in Request : o[q] \in Int /\ p[q] \in Int
  BY SpendAssumption DEF Overruns, Positive, LedgerInv, TypeOK
<1>5. IsFiniteSet(D) /\ D \subseteq Request
  BY Finite DEF SettledIn
<1>6. IF s \in ScopesOf[r] THEN r \notin D /\ SettledIn(attempt', s) = D \union {r}
                           ELSE r \notin D /\ SettledIn(attempt', s) = D
  BY SettleRows DEF SettledIn
<1> HIDE DEF D, o, p
<1>7. \A q \in D : p[q] \in Int /\ o[q] \in Int /\ p[q] = o[q]
  BY <1>3, <1>4, <1>5, <1>6
<1>8. Sum(p, D) = Sum(o, D)
  BY <1>5, <1>7, SumAgree
<1>9. CASE s \in ScopesOf[r]
  <2>1. Sum(p, D \union {r}) = p[r] + Sum(p, D)
    BY <1>4, <1>5, <1>6, <1>7, <1>9, SumInsert
  <2>2. Sum(p, SettledIn(attempt', s)) = Sum(p, D \union {r})
    BY <1>6, <1>9, Zenon
  <2> QED
    BY <1>1, <1>2, <1>3, <1>8, <1>9, <2>1, <2>2 DEF Positive
<1>10. CASE s \notin ScopesOf[r]
  <2>1. Sum(p, SettledIn(attempt', s)) = Sum(p, D)
    BY <1>6, <1>10, Zenon
  <2> QED
    BY <1>1, <1>8, <1>10, <2>1
<1> QED
  BY <1>9, <1>10

(* What a step does to the figures of a scope.                              *)
LEMMA Figures ==
  ASSUME LedgerInv, NEW s \in Scope
  PROVE  spent[s] \in Nat /\ reserved[s] \in Nat /\ Overrun(s) \in Nat /\ Limit[s] \in Nat /\ Threshold[s] \in Nat
BY OverrunType, SpendAssumption DEF LedgerInv, TypeOK

LEMMA QuietFigures ==
  ASSUME Quiet, NEW s \in Scope
  PROVE  spent'[s] = spent[s] /\ reserved'[s] = reserved[s] /\ Overrun(s)' = Overrun(s)
BY QuietRows, OverrunKept DEF Quiet

LEMMA RecoveryFigures ==
  ASSUME LedgerInv, NEW S, Recovery(S), NEW s \in Scope
  PROVE  /\ spent'[s] = spent[s] /\ Overrun(s)' = Overrun(s)
         /\ attempt' = RowsAfterRecovery(S) /\ reserved'[s] = ReservedWithout(s, S)
         /\ reserved'[s] <= reserved[s]
<1>0. \A r \in S : r \in Request /\ attempt[r] \in Open
  BY DEF Recovery
<1>1. attempt' = RowsAfterRecovery(S) /\ reserved'[s] = ReservedWithout(s, S) /\ UNCHANGED <<actual, spent>>
  BY DEF Recovery, Recover
<1>2. Overrun(s)' = Overrun(s)
  BY <1>0, <1>1, RecoveryRows, OverrunKept
<1>3. ReservedWithout(s, S) <= reserved[s]
  BY <1>0, RecoveryBalance, Figures
<1> QED
  BY <1>1, <1>2, <1>3

LEMMA ReserveFigures ==
  ASSUME LedgerInv, NEW r \in Request, Reserve(r), NEW s \in Scope
  PROVE  /\ attempt[r] = "absent" /\ Cost[r] \in Nat
         /\ spent'[s] = spent[s] /\ Overrun(s)' = Overrun(s) /\ UNCHANGED <<actual, finished>>
         /\ ReservedWithout(s, Expired) \in Nat /\ ReservedWithout(s, Expired) <= reserved[s]
         /\ \/ /\ s \in ScopesOf[r] /\ Fits(r, s)
               /\ attempt' = [RowsAfterRecovery(Expired) EXCEPT ![r] = "reserved"]
               /\ reserved'[s] = ReservedWithout(s, Expired) + Cost[r]
            \/ /\ \/ s \notin ScopesOf[r]
                     /\ attempt' = [RowsAfterRecovery(Expired) EXCEPT ![r] = "reserved"]
                  \/ attempt' = RowsAfterRecovery(Expired)
               /\ reserved'[s] = ReservedWithout(s, Expired)
<1>0. \A q \in Expired : q \in Request /\ attempt[q] \in Open
  BY DEF LedgerInv, TypeOK, Expired
<1>a. attempt[r] = "absent" /\ Cost[r] \in Nat
  BY SpendAssumption DEF LedgerInv, SpendInv, IdleHasNoRow, Reserve
<1>b. PICK admitted \in BOOLEAN :
           /\ admitted => \A x \in ScopesOf[r] : Fits(r, x)
           /\ attempt' = [RowsAfterRecovery(Expired) EXCEPT ![r] = IF admitted THEN "reserved" ELSE @]
           /\ reserved' = [x \in Scope |-> ReservedWithout(x, Expired)
                                 + (IF admitted /\ x \in ScopesOf[r] THEN Cost[r] ELSE 0)]
           /\ UNCHANGED <<actual, spent, finished>>
  BY ReserveEffect
<1>1. SettledIn(attempt', s) = SettledIn(attempt, s)
  BY <1>a, <1>b, ReserveRows
<1>2. Overrun(s)' = Overrun(s)
  BY <1>b, <1>1, OverrunKept
<1>3. ReservedWithout(s, Expired) \in Nat /\ ReservedWithout(s, Expired) <= reserved[s]
  BY <1>0, RecoveryBalance, Figures
<1>4. ~admitted => attempt' = RowsAfterRecovery(Expired)
  <2>1. RowsAfterRecovery(Expired) \in [Request -> AttemptStates]
    BY <1>0, RecoveryKeepsRows DEF LedgerInv
  <2> QED
    BY <1>b, <2>1
<1>5. CASE admitted /\ s \in ScopesOf[r]
  BY <1>a, <1>b, <1>2, <1>3, <1>5
<1>6. CASE ~(admitted /\ s \in ScopesOf[r])
  <2>1. reserved'[s] = ReservedWithout(s, Expired)
    BY <1>b, <1>3, <1>6
  <2>2. \/ s \notin ScopesOf[r] /\ attempt' = [RowsAfterRecovery(Expired) EXCEPT ![r] = "reserved"]
        \/ attempt' = RowsAfterRecovery(Expired)
    BY <1>b, <1>4, <1>6
  <2> QED
    BY <1>a, <1>b, <1>2, <1>3, <2>1, <2>2
<1> QED
  BY <1>5, <1>6

CommitsOf(rows) == [r \in Request |-> Committed(rows, r)]

LEMMA CommitsAreNat ==
  ASSUME LedgerInv, NEW rows PROVE \A r \in Request : CommitsOf(rows)[r] \in Nat
<1>1. \A r \in Request : actual[r] \in Nat /\ Cost[r] \in Nat
  BY SpendAssumption DEF LedgerInv, TypeOK
<1> QED
  BY <1>1 DEF CommitsOf, Committed, Held

LEMMA Capacity ==
  ASSUME NEW s PROVE ProtectedCapacity(s) \in Nat
<1> DEFINE U == {st \in Step : \E x \in Unfinished(s) : RootOf[x] = RootOf[st]}
<1>1. IsFiniteSet(U) /\ \A st \in U : Tokens[st] \in Nat
  BY FS_Subset, SpendAssumption
<1> HIDE DEF U
<1>2. Sum(Tokens, U) \in Nat
  BY <1>1, SumNat
<1> QED
  BY <1>2 DEF U, ProtectedCapacity

(* What is left of each Step's share, P being the capacity, c the           *)
(* commitments.                                                             *)
Left(c, s, P) ==
  [st \in Step |-> Positive((Limit[s] * Tokens[st]) \div P - Sum(c, {r \in Charged(s) : StepOf[r] = st}))]

LEMMA EarmarkIsLeft ==
  ASSUME NEW rows, NEW s, NEW U
  PROVE  Earmark(rows, s, U) =
           IF ProtectedCapacity(s) = 0 THEN 0 ELSE Sum(Left(CommitsOf(rows), s, ProtectedCapacity(s)), U)
BY DEF Earmark, Left, CommitsOf, SynthesisShare, SynthesisCommitted

LEMMA LeftType ==
  ASSUME NEW s \in Scope, NEW P \in Nat, P # 0, NEW c, \A r \in Request : c[r] \in Nat
  PROVE  /\ \A st \in Step : Left(c, s, P)[st] \in Nat
         /\ \A st \in Step : (Limit[s] * Tokens[st]) \div P \in Int
         /\ \A st : IsFiniteSet({r \in Charged(s) : StepOf[r] = st}) /\ Sum(c, {r \in Charged(s) : StepOf[r] = st}) \in Nat
<1>1. \A st \in Step : Limit[s] \in Nat /\ Tokens[st] \in Nat
  BY SpendAssumption
<1>2. ASSUME NEW st \in Step PROVE (Limit[s] * Tokens[st]) \div P \in Int
  <2> DEFINE a == Limit[s] * Tokens[st]
  <2>1. a \in Int
    BY <1>1
  <2> HIDE DEF a
  <2>2. a \div P \in Int
    BY <2>1
  <2> QED
    BY <2>2 DEF a
<1>3. ASSUME NEW st
      PROVE IsFiniteSet({r \in Charged(s) : StepOf[r] = st}) /\ Sum(c, {r \in Charged(s) : StepOf[r] = st}) \in Nat
  <2> DEFINE W == {r \in Charged(s) : StepOf[r] = st}
  <2>1. IsFiniteSet(W) /\ \A r \in W : c[r] \in Nat
    BY Finite, FS_Subset
  <2> HIDE DEF W
  <2>2. Sum(c, W) \in Nat
    BY <2>1, SumNat
  <2> QED
    BY <2>1, <2>2 DEF W
<1>4. ASSUME NEW st \in Step PROVE Left(c, s, P)[st] \in Nat
  <2> DEFINE a == (Limit[s] * Tokens[st]) \div P
             b == Sum(c, {r \in Charged(s) : StepOf[r] = st})
  <2>1. a \in Int /\ b \in Nat
    BY <1>2, <1>3
  <2>2. Left(c, s, P)[st] = Positive(a - b)
    BY DEF Left
  <2> HIDE DEF a, b
  <2> QED
    BY <2>1, <2>2 DEF Positive
<1> QED
  BY <1>2, <1>3, <1>4

LEMMA LeftSum ==
  ASSUME NEW s \in Scope, NEW P \in Nat, P # 0, NEW c, \A r \in Request : c[r] \in Nat, NEW U \in SUBSET Step
  PROVE  IsFiniteSet(U) /\ Sum(Left(c, s, P), U) \in Nat
<1>1. IsFiniteSet(U)
  BY FS_Subset, SpendAssumption
<1>2. \A st \in U : Left(c, s, P)[st] \in Nat
  BY LeftType
<1> QED
  BY <1>1, <1>2, SumNat

LEMMA EarmarkType ==
  ASSUME LedgerInv, NEW rows, NEW s \in Scope, NEW U \in SUBSET Step
  PROVE  Earmark(rows, s, U) \in Nat
<1>1. CASE ProtectedCapacity(s) = 0
  BY <1>1, EarmarkIsLeft
<1>2. CASE ProtectedCapacity(s) # 0
  <2>1. ProtectedCapacity(s) \in Nat /\ \A r \in Request : CommitsOf(rows)[r] \in Nat
    BY Capacity, CommitsAreNat
  <2>2. Sum(Left(CommitsOf(rows), s, ProtectedCapacity(s)), U) \in Nat
    BY <1>2, <2>1, LeftSum
  <2> QED
    BY <1>2, <2>2, EarmarkIsLeft
<1> QED
  BY <1>1, <1>2

(* A request that fits fits beside what is spent, held and earmarked.       *)
LEMMA FitsBeside ==
  ASSUME LedgerInv, NEW r \in Request, NEW s \in Scope, Fits(r, s)
  PROVE  \E e \in Nat :
           /\ LET E == Earmark(RowsAfterRecovery(Expired), s, Unfinished(s) \ {StepOf[r]})
              IN E \in Nat /\ e = IF Limit[s] <= E THEN Limit[s] ELSE E
           /\ Cost[r] <= Positive(Limit[s] - spent[s]) - ReservedWithout(s, Expired) - e
<1> DEFINE E == Earmark(RowsAfterRecovery(Expired), s, Unfinished(s) \ {StepOf[r]})
           e == SynthesisEarmark(RowsAfterRecovery(Expired), s, r)
<1>1. Unfinished(s) \ {StepOf[r]} \in SUBSET Step
  BY SpendAssumption DEF Unfinished
<1>2. E \in Nat /\ Limit[s] \in Nat
  BY <1>1, EarmarkType, SpendAssumption
<1>3. e = Min({Limit[s], E})
  BY DEF SynthesisEarmark
<1>4. Cost[r] <= Positive(Limit[s] - spent[s]) - ReservedWithout(s, Expired) - e
  BY DEF Fits
<1> HIDE DEF E, e
<1>5. e = IF Limit[s] <= E THEN Limit[s] ELSE E
  BY <1>2, <1>3 DEF Min
<1> QED
  BY <1>2, <1>4, <1>5 DEF E

(* No step takes a scope beyond its limit, except by an overrun: what is    *)
(* admitted fits beside the rest, and settling replaces a reservation.     *)
LEMMA LimitStep ==
  ASSUME LedgerInv, LedgerInv', LimitHolds, [Next]_vars
  PROVE  LimitHolds'
<1> SUFFICES ASSUME NEW s \in Scope
             PROVE  spent'[s] + reserved'[s] <= Limit[s] + Overrun(s)'
  BY DEF LimitHolds
<1>1. /\ spent[s] + reserved[s] <= Limit[s] + Overrun(s)
      /\ spent[s] \in Nat /\ reserved[s] \in Nat /\ Overrun(s) \in Nat /\ Limit[s] \in Nat
  BY Figures DEF LimitHolds
<1>2. \/ Quiet
      \/ \E S : Recovery(S)
      \/ \E r \in Request : Reserve(r) \/ Settle(r)
  BY NextKinds DEF LedgerInv
<1>3. CASE Quiet
  BY <1>1, <1>3, QuietFigures
<1>4. ASSUME NEW S, Recovery(S) PROVE spent'[s] + reserved'[s] <= Limit[s] + Overrun(s)'
  <2>1. reserved'[s] \in Nat
    BY DEF LedgerInv, TypeOK
  <2> QED
    BY <1>1, <1>4, <2>1, RecoveryFigures
<1>5. ASSUME NEW r \in Request, Reserve(r) PROVE spent'[s] + reserved'[s] <= Limit[s] + Overrun(s)'
  <2> DEFINE w == ReservedWithout(s, Expired)
  <2>1. /\ Cost[r] \in Nat /\ spent'[s] = spent[s] /\ Overrun(s)' = Overrun(s) /\ w \in Nat /\ w <= reserved[s]
        /\ reserved'[s] = w \/ (reserved'[s] = w + Cost[r] /\ Fits(r, s))
    BY <1>5, ReserveFigures
  <2>2. CASE reserved'[s] = w
    BY <1>1, <2>1, <2>2
  <2>3. CASE reserved'[s] = w + Cost[r] /\ Fits(r, s)
    <3>1. PICK e \in Nat : Cost[r] <= Positive(Limit[s] - spent[s]) - w - e
      BY <2>3, FitsBeside
    <3> HIDE DEF w
    <3> QED
      BY <1>1, <2>1, <2>3, <3>1 DEF Positive
  <2> QED
    BY <2>1, <2>2, <2>3
<1>6. ASSUME NEW r \in Request, Settle(r) PROVE spent'[s] + reserved'[s] <= Limit[s] + Overrun(s)'
  <2>1. Overrun(s)' = Overrun(s) + (IF s \in ScopesOf[r] THEN Positive(actual'[r] - Cost[r]) ELSE 0)
    BY <1>6, OverrunSettled
  <2>2. /\ actual'[r] \in Nat /\ Cost[r] \in Nat
        /\ s \in ScopesOf[r] => /\ Cost[r] <= reserved[s]
                                /\ reserved'[s] = reserved[s] - Cost[r]
                                /\ spent'[s] = spent[s] + actual'[r]
        /\ s \notin ScopesOf[r] => reserved'[s] = reserved[s] /\ spent'[s] = spent[s]
    BY <1>6, SettleBalance
  <2> QED
    BY <1>1, <2>1, <2>2 DEF Positive
<1> QED
  BY <1>2, <1>3, <1>4, <1>5, <1>6

(* What is spent and reserved stays within the limit of every scope, up to  *)
(* what requests were settled to beyond their reservations.                 *)
THEOREM LimitHoldsAlways == Spec => []LimitHolds
<1>1. Init /\ LedgerInv => LimitHolds
  BY Figures DEF Init, LimitHolds
<1>2. LedgerInv /\ LedgerInv' /\ LimitHolds /\ [Next]_vars => LimitHolds'
  BY LimitStep
<1> QED
  BY <1>1, <1>2, LedgerInvariant, PTL DEF Spec

-----------------------------------------------------------------------------
(* The earmark.                                                             *)

(* The commitments c of the requests of one Step.                           *)
StepSum(c, s, st) == Sum(c, {r \in Charged(s) : StepOf[r] = st})

LEMMA StepSumType ==
  ASSUME NEW s, NEW st, NEW c, \A r \in Request : c[r] \in Nat
  PROVE  /\ IsFiniteSet({r \in Charged(s) : StepOf[r] = st})
         /\ StepSum(c, s, st) \in Nat
<1> DEFINE W == {r \in Charged(s) : StepOf[r] = st}
<1>1. IsFiniteSet(W) /\ \A r \in W : c[r] \in Nat
  BY Finite, FS_Subset
<1> HIDE DEF W
<1>2. Sum(c, W) \in Nat
  BY <1>1, SumNat
<1> QED
  BY <1>1, <1>2 DEF W, StepSum

(* When commitments fall by at most drop, what is left of the shares grows  *)
(* by at most that.                                                         *)
LEMMA LeftChange ==
  ASSUME NEW s \in Scope, NEW P \in Nat, P # 0, NEW c, NEW d, NEW drop, NEW U \in SUBSET Step,
         \A r \in Request : c[r] \in Nat /\ d[r] \in Nat /\ drop[r] \in Nat,
         \A r \in Charged(s) : c[r] <= d[r] + drop[r]
  PROVE  Sum(Left(d, s, P), U) <= Sum(Left(c, s, P), U) + Sum(drop, Charged(s))
<1> DEFINE g == [st \in U |-> Sum(drop, {r \in Charged(s) : StepOf[r] = st})]
           lc == Left(c, s, P)
           ld == Left(d, s, P)
           h == [st \in U |-> lc[st] + g[st]]
<1>1. IsFiniteSet(U)
  BY FS_Subset, SpendAssumption
<1>2. ASSUME NEW st \in U
      PROVE  lc[st] \in Int /\ ld[st] \in Int /\ g[st] \in Int /\ h[st] \in Int /\ ld[st] <= h[st]
  <2> DEFINE W == {r \in Charged(s) : StepOf[r] = st}
             a == (Limit[s] * Tokens[st]) \div P
             e == [r \in Request |-> d[r] + drop[r]]
  <2>1. st \in Step
    OBVIOUS
  <2>2. lc[st] \in Nat /\ ld[st] \in Nat /\ a \in Int
    BY <2>1, LeftType
  <2>3. IsFiniteSet(W) /\ Sum(c, W) \in Nat /\ Sum(d, W) \in Nat /\ Sum(drop, W) \in Nat
    BY StepSumType DEF StepSum
  <2>4. W \subseteq Charged(s) /\ W \subseteq Request
    BY Finite
  <2>5. \A r \in W : d[r] \in Int /\ drop[r] \in Int /\ e[r] = d[r] + drop[r] /\ c[r] \in Int /\ e[r] \in Int /\ c[r] <= e[r]
    BY <2>4
  <2>6. lc[st] = Positive(a - Sum(c, W)) /\ ld[st] = Positive(a - Sum(d, W)) /\ g[st] = Sum(drop, W) /\ h[st] = lc[st] + g[st]
    BY <2>1 DEF Left
  <2> HIDE DEF W, a, e, g, lc, ld, h
  <2>7. Sum(c, W) <= Sum(e, W)
    BY <2>3, <2>5, SumMonotone
  <2>8. Sum(e, W) = Sum(d, W) + Sum(drop, W)
    BY <2>3, <2>5, SumLinear
  <2> QED
    BY <2>2, <2>3, <2>6, <2>7, <2>8 DEF Positive
<1>3. \A st \in U : h[st] = lc[st] + g[st]
  OBVIOUS
<1>4. IsFiniteSet(Charged(s)) /\ \A r \in Charged(s) : drop[r] \in Nat
  BY Finite
<1>5. Sum(g, U) <= Sum(drop, Charged(s))
  BY <1>1, <1>4, SumByStep
<1>6. Sum(drop, Charged(s)) \in Nat
  BY <1>4, SumNat
<1> HIDE DEF g, lc, ld, h
<1>7. Sum(ld, U) <= Sum(h, U)
  BY <1>1, <1>2, SumMonotone
<1>8. Sum(h, U) = Sum(lc, U) + Sum(g, U)
  BY <1>1, <1>2, <1>3, SumLinear
<1>9. Sum(ld, U) \in Int /\ Sum(lc, U) \in Int /\ Sum(g, U) \in Int
  BY <1>1, <1>2, SumRemove
<1> QED
  BY <1>5, <1>6, <1>7, <1>8, <1>9 DEF lc, ld

(* Taking Steps out of the sum does not enlarge it.                         *)
LEMMA LeftSubset ==
  ASSUME NEW s \in Scope, NEW P \in Nat, P # 0, NEW c, \A r \in Request : c[r] \in Nat,
         NEW U \in SUBSET Step, NEW V \in SUBSET U
  PROVE  Sum(Left(c, s, P), V) <= Sum(Left(c, s, P), U)
<1> DEFINE l == Left(c, s, P)
<1>1. IsFiniteSet(U) /\ Sum(l, V) \in Nat /\ Sum(l, U \ V) \in Nat
  BY LeftSum
<1>2. \A st \in U : l[st] \in Int
  BY LeftType
<1> HIDE DEF l
<1>3. Sum(l, U) = Sum(l, V) + Sum(l, U \ V)
  BY <1>1, <1>2, SumSplit
<1> QED
  BY <1>1, <1>3 DEF l

(* The capacity of a root Task stays as it is until its last synthesis Step *)
(* has finished.                                                            *)
LEMMA CapacityOfTask ==
  ASSUME NEW s \in TaskScope
  PROVE  /\ s \in Scope /\ Unfinished(s) \in SUBSET Step
         /\ Unfinished(s) = {} => ProtectedCapacity(s) = 0
         /\ finished \subseteq finished' => Unfinished(s)' \subseteq Unfinished(s)
         /\ Unfinished(s)' = {} => ProtectedCapacity(s)' = 0
         /\ finished \subseteq finished' /\ Unfinished(s)' # {} => ProtectedCapacity(s)' = ProtectedCapacity(s)
<1>1. s \in Scope /\ Unfinished(s) \in SUBSET Step
  BY SpendAssumption DEF Unfinished
<1>2. PICK root \in Root : RootsIn[s] = {root}
  BY SpendAssumption
<1> DEFINE A(F) == {st \in Step : \E x \in F : RootOf[x] = RootOf[st]}
<1>3. ProtectedCapacity(s) = Sum(Tokens, A(Unfinished(s))) /\ ProtectedCapacity(s)' = Sum(Tokens, A(Unfinished(s)'))
  BY DEF ProtectedCapacity
<1>4. \A F : F = {} => A(F) = {}
  OBVIOUS
<1>5. \A F : (F # {} /\ \A x \in F : RootOf[x] = root) => A(F) = {st \in Step : RootOf[st] = root}
  OBVIOUS
<1>6. (\A x \in Unfinished(s) : RootOf[x] = root) /\ (\A x \in Unfinished(s)' : RootOf[x] = root)
  BY <1>2 DEF Unfinished
<1>7. finished \subseteq finished' => Unfinished(s)' \subseteq Unfinished(s)
  BY DEF Unfinished
<1> HIDE DEF A
<1>8. Unfinished(s) = {} => ProtectedCapacity(s) = 0
  BY <1>3, <1>4, SumEmpty
<1>9. Unfinished(s)' = {} => ProtectedCapacity(s)' = 0
  BY <1>3, <1>4, SumEmpty
<1>10. ASSUME finished \subseteq finished', Unfinished(s)' # {} PROVE ProtectedCapacity(s)' = ProtectedCapacity(s)
  <2>1. Unfinished(s) # {}
    BY <1>7, <1>10
  <2>2. A(Unfinished(s)) = A(Unfinished(s)')
    BY <1>5, <1>6, <1>10, <2>1
  <2>3. Sum(Tokens, A(Unfinished(s))) = Sum(Tokens, A(Unfinished(s)'))
    BY <2>2, Zenon
  <2> QED
    BY <1>3, <2>3
<1> QED
  BY <1>1, <1>7, <1>8, <1>9, <1>10

(* The earmark of a Task grows by no more than the commitments of its       *)
(* requests fall.                                                           *)
LEMMA EarmarkNext ==
  ASSUME LedgerInv, LedgerInv', NEW s \in TaskScope, finished \subseteq finished', NEW drop,
         \A r \in Request : drop[r] \in Nat,
         \A r \in Charged(s) : Committed(attempt, r) <= Committed(attempt, r)' + drop[r]
  PROVE  /\ Earmark(attempt, s, Unfinished(s))' \in Nat
         /\ Earmark(attempt, s, Unfinished(s))' <= Earmark(attempt, s, Unfinished(s)) + Sum(drop, Charged(s))
<1> DEFINE E == Earmark(attempt, s, Unfinished(s))
           F == Earmark(attempt, s, Unfinished(s))'
           P == ProtectedCapacity(s)
           U == Unfinished(s)
           V == Unfinished(s)'
           c == CommitsOf(attempt)
           d == CommitsOf(attempt)'
<1>1. E \in Nat /\ U \in SUBSET Step /\ V \in SUBSET U /\ s \in Scope
  BY CapacityOfTask, EarmarkType
<1>2. IsFiniteSet(Charged(s)) /\ Charged(s) \subseteq Request /\ \A r \in Charged(s) : drop[r] \in Nat
  BY Finite
<1>3. Sum(drop, Charged(s)) \in Nat
  BY <1>2, SumNat
<1>4. \A r \in Request : actual[r] \in Nat /\ actual'[r] \in Nat /\ Cost[r] \in Nat
  BY SpendAssumption DEF LedgerInv, TypeOK
<1>5. /\ \A r \in Request : c[r] \in Nat /\ d[r] \in Nat /\ drop[r] \in Nat
      /\ \A r \in Charged(s) : c[r] <= d[r] + drop[r]
  BY <1>2, <1>4 DEF CommitsOf, Committed, Held
<1>6. E = IF P = 0 THEN 0 ELSE Sum(Left(c, s, P), U)
  BY EarmarkIsLeft
<1>7. F = IF P' = 0 THEN 0 ELSE Sum(Left(d, s, P'), V)
  BY DEF Earmark, Left, CommitsOf, SynthesisShare, SynthesisCommitted
<1>8. P \in Nat
  BY Capacity
<1>9. P' = 0 \/ P' = P
  BY CapacityOfTask
<1>10. CASE P' = 0
  <2>1. F = 0
    BY <1>7, <1>10
  <2> HIDE DEF E, F
  <2>2. F \in Nat /\ F <= E + Sum(drop, Charged(s))
    BY <1>1, <1>3, <2>1
  <2> QED
    BY <2>2 DEF E, F
<1>11. CASE P' # 0
  <2>1. P' = P /\ P # 0
    BY <1>9, <1>11
  <2>2. F = Sum(Left(d, s, P), V) /\ E = Sum(Left(c, s, P), U)
    BY <1>6, <1>7, <2>1
  <2> HIDE DEF E, F, P, U, V, c, d
  <2>3. Sum(Left(d, s, P), V) <= Sum(Left(d, s, P), U)
    BY <1>1, <1>5, <1>8, <2>1, LeftSubset
  <2>4. Sum(Left(d, s, P), U) <= Sum(Left(c, s, P), U) + Sum(drop, Charged(s))
    BY <1>1, <1>5, <1>8, <2>1, LeftChange
  <2>5. Sum(Left(d, s, P), V) \in Nat /\ Sum(Left(d, s, P), U) \in Nat /\ Sum(Left(c, s, P), U) \in Nat
    BY <1>1, <1>5, <1>8, <2>1, LeftSum
  <2>6. F \in Nat /\ F <= E + Sum(drop, Charged(s))
    BY <1>3, <2>2, <2>3, <2>4, <2>5
  <2> QED
    BY <2>6 DEF E, F
<1> QED
  BY <1>10, <1>11

(* The same, request by request.                                            *)
Released(s, S) == [r \in Request |-> IF r \in ReleasedOf(s, S) THEN Cost[r] ELSE 0]

LEMMA ReleasedSum ==
  ASSUME NEW s, NEW S
  PROVE  /\ \A r \in Request : Released(s, S)[r] \in Nat
         /\ Sum(Released(s, S), Charged(s)) = Sum(Cost, ReleasedOf(s, S))
<1> DEFINE d == Released(s, S)
           R == ReleasedOf(s, S)
           C == Charged(s)
<1>1. IsFiniteSet(C) /\ R \in SUBSET C /\ C \subseteq Request /\ \A r \in Request : Cost[r] \in Nat
  BY Finite DEF ReleasedOf
<1>2. \A r \in Request : d[r] = IF r \in R THEN Cost[r] ELSE 0
  BY DEF Released
<1> HIDE DEF d, R, C
<1>3. (\A r \in R : Cost[r] \in Int /\ d[r] = Cost[r]) /\ (\A r \in C \ R : d[r] = 0)
  BY <1>1, <1>2
<1>4. Sum(d, C) = Sum(Cost, R)
  BY <1>1, <1>3, SumOver
<1> QED
  BY <1>1, <1>2, <1>4 DEF d, R, C

(* What the rows commit falls by what a recovery releases.                  *)
LEMMA RecoveryCommits ==
  ASSUME LedgerInv, NEW s, NEW S, \A r \in S : r \in Request /\ attempt[r] \in Open
  PROVE  \A r \in Charged(s) : Committed(attempt, r) = Committed(RowsAfterRecovery(S), r) + Released(s, S)[r]
<1> SUFFICES ASSUME NEW r \in Charged(s)
             PROVE  Committed(attempt, r) = Committed(RowsAfterRecovery(S), r) + Released(s, S)[r]
  OBVIOUS
<1>1. r \in Request /\ Cost[r] \in Nat /\ actual[r] \in Nat
  BY Finite DEF LedgerInv, TypeOK
<1>2. Released(s, S)[r] = IF r \in S /\ attempt[r] = "reserved" THEN Cost[r] ELSE 0
  BY <1>1 DEF Released, ReleasedOf
<1>3. CASE r \in S
  <2>1. \/ attempt[r] = "reserved" /\ RowsAfterRecovery(S)[r] = "released"
        \/ attempt[r] = "dispatching" /\ RowsAfterRecovery(S)[r] = "uncertain"
    BY <1>1, <1>3, RecoveryKeepsRows DEF LedgerInv
  <2> QED
    BY <1>1, <1>2, <1>3, <2>1 DEF Committed, Held
<1>4. CASE r \notin S
  <2>1. RowsAfterRecovery(S)[r] = attempt[r]
    BY <1>1, <1>4, RecoveryKeepsRows DEF LedgerInv
  <2>2. Committed(attempt, r) \in Nat
    BY <1>1 DEF Committed
  <2>3. Committed(RowsAfterRecovery(S), r) = Committed(attempt, r)
    BY <2>1 DEF Committed
  <2> QED
    BY <1>2, <1>4, <2>2, <2>3
<1> QED
  BY <1>3, <1>4

(* SynthesisIsFunded, for one scope.                                        *)
Funded(s) == spent[s] + reserved[s] + Earmark(attempt, s, Unfinished(s)) <= Limit[s] + Overrun(s)

(* The earmark of the rows a recovery would leave.                          *)
LEMMA RecoveryFunded ==
  ASSUME LedgerInv, NEW s \in TaskScope, Funded(s), NEW S, \A r \in S : r \in Request /\ attempt[r] \in Open
  PROVE  spent[s] + ReservedWithout(s, S) + Earmark(RowsAfterRecovery(S), s, Unfinished(s)) <= Limit[s] + Overrun(s)
<1> DEFINE E == Earmark(attempt, s, Unfinished(s))
           F == Earmark(RowsAfterRecovery(S), s, Unfinished(s))
           P == ProtectedCapacity(s)
           U == Unfinished(s)
           c == CommitsOf(attempt)
           d == CommitsOf(RowsAfterRecovery(S))
           drop == Released(s, S)
           w == ReservedWithout(s, S)
           R == Sum(Cost, ReleasedOf(s, S))
<1>1. E \in Nat /\ F \in Nat /\ U \in SUBSET Step /\ s \in Scope /\ P \in Nat
  BY CapacityOfTask, EarmarkType, Capacity
<1>2. E = (IF P = 0 THEN 0 ELSE Sum(Left(c, s, P), U)) /\ F = IF P = 0 THEN 0 ELSE Sum(Left(d, s, P), U)
  BY EarmarkIsLeft
<1>3. \A r \in Request : c[r] \in Nat /\ d[r] \in Nat /\ drop[r] \in Nat
  BY CommitsAreNat, ReleasedSum
<1>4. \A r \in Charged(s) : c[r] <= d[r] + drop[r]
  <2>1. Charged(s) \subseteq Request
    BY Finite
  <2>2. \A r \in Charged(s) : c[r] = d[r] + drop[r]
    BY <2>1, RecoveryCommits DEF CommitsOf
  <2> HIDE DEF c, d, drop
  <2> QED
    BY <1>3, <2>1, <2>2
<1>5. Sum(drop, Charged(s)) = R
  BY ReleasedSum
<1>6. w \in Nat /\ R \in Nat /\ reserved[s] = w + R
  BY <1>1, RecoveryBalance
<1>7. spent[s] \in Nat /\ Overrun(s) \in Nat /\ Limit[s] \in Nat /\ spent[s] + reserved[s] + E <= Limit[s] + Overrun(s)
  BY <1>1, Figures DEF Funded
<1> HIDE DEF E, F, P, U, c, d, drop, w, R
<1>8. F <= E + R
  <2>1. CASE P = 0
    BY <1>1, <1>2, <1>6, <2>1
  <2>2. CASE P # 0
    BY <1>1, <1>2, <1>3, <1>4, <1>5, <2>2, LeftChange
  <2> QED
    BY <2>1, <2>2
<1>9. spent[s] + w + F <= Limit[s] + Overrun(s)
  BY <1>1, <1>6, <1>7, <1>8
<1> QED
  BY <1>9 DEF w, F

LEMMA QuietFunded ==
  ASSUME LedgerInv, LedgerInv', NEW s \in TaskScope, Funded(s), Quiet
  PROVE  Funded(s)'
<1> DEFINE drop == [r \in Request |-> 0]
           E == Earmark(attempt, s, Unfinished(s))
<1>1. s \in Scope /\ E \in Nat
  BY CapacityOfTask, EarmarkType
<1>2. Charged(s) \subseteq Request /\ IsFiniteSet(Charged(s))
  BY Finite
<1>3. \A r \in Charged(s) : Committed(attempt, r) = Committed(attempt, r)' /\ Committed(attempt, r) \in Nat
  BY <1>2, Finite DEF Quiet, Committed, Held, LedgerInv, TypeOK
<1>4. \A r \in Charged(s) : Committed(attempt, r) <= Committed(attempt, r)' + drop[r]
  BY <1>2, <1>3
<1>5. (\A r \in Request : drop[r] \in Nat) /\ (\A r \in Charged(s) : drop[r] = 0) /\ finished \subseteq finished'
  BY <1>2 DEF Quiet
<1> HIDE DEF drop
<1>6. Sum(drop, Charged(s)) = 0
  BY <1>2, <1>5, SumZero
<1>7. E' \in Nat /\ E' <= E
  <2>1. E' \in Nat /\ E' <= E + Sum(drop, Charged(s))
    BY <1>4, <1>5, EarmarkNext
  <2> QED
    BY <1>1, <1>6, <2>1
<1>9. /\ spent'[s] = spent[s] /\ reserved'[s] = reserved[s] /\ Overrun(s)' = Overrun(s)
      /\ spent[s] \in Nat /\ reserved[s] \in Nat /\ Overrun(s) \in Nat /\ Limit[s] \in Nat
  BY <1>1, QuietFigures, Figures
<1> QED
  BY <1>1, <1>7, <1>9 DEF Funded

LEMMA RecoveryStepFunded ==
  ASSUME LedgerInv, LedgerInv', NEW s \in TaskScope, Funded(s), NEW S, Recovery(S)
  PROVE  Funded(s)'
<1> DEFINE E == Earmark(attempt, s, Unfinished(s))
           drop == Released(s, S)
           R == Sum(Cost, ReleasedOf(s, S))
<1>0. \A r \in S : r \in Request /\ attempt[r] \in Open
  BY DEF Recovery
<1>1. s \in Scope /\ E \in Nat
  BY CapacityOfTask, EarmarkType
<1>2. /\ spent'[s] = spent[s] /\ Overrun(s)' = Overrun(s)
      /\ attempt' = RowsAfterRecovery(S) /\ reserved'[s] = ReservedWithout(s, S)
      /\ spent[s] \in Nat /\ reserved[s] \in Nat /\ Overrun(s) \in Nat /\ Limit[s] \in Nat
  BY <1>1, RecoveryFigures, Figures
<1>3. ReservedWithout(s, S) \in Nat /\ R \in Nat /\ reserved[s] = ReservedWithout(s, S) + R
  BY <1>0, <1>1, RecoveryBalance
<1>4. (\A r \in Request : drop[r] \in Nat) /\ Sum(drop, Charged(s)) = R /\ finished \subseteq finished'
  BY ReleasedSum DEF Recovery
<1>5. \A r \in Charged(s) : Committed(attempt, r) <= Committed(attempt, r)' + drop[r]
  <2>1. \A r \in Charged(s) : Committed(attempt, r)' = Committed(RowsAfterRecovery(S), r)
    BY <1>2 DEF Committed, Recovery
  <2>2. \A r \in Charged(s) : /\ Committed(attempt, r) = Committed(RowsAfterRecovery(S), r) + drop[r]
                              /\ Committed(attempt, r) \in Nat
    BY <1>0, RecoveryCommits, Finite DEF Committed, LedgerInv, TypeOK
  <2> HIDE DEF drop
  <2> QED
    BY <2>1, <2>2
<1> HIDE DEF drop
<1>6. E' \in Nat /\ E' <= E + R
  BY <1>4, <1>5, EarmarkNext
<1> HIDE DEF R
<1> QED
  BY <1>1, <1>2, <1>3, <1>6 DEF Funded

(* Settling below the reservation gives the balance at least what it        *)
(* gives back to a share.                                                   *)
LEMMA SettleFunded ==
  ASSUME LedgerInv, LedgerInv', NEW s \in TaskScope, Funded(s), NEW r \in Request, Settle(r)
  PROVE  Funded(s)'
<1> DEFINE E == Earmark(attempt, s, Unfinished(s))
           n == IF s \in ScopesOf[r] THEN Positive(Cost[r] - actual'[r]) ELSE 0
           drop == [q \in Request |-> IF q = r THEN n ELSE 0]
           C == Charged(s)
<1>1. s \in Scope /\ E \in Nat
  BY CapacityOfTask, EarmarkType
<1>2. /\ actual'[r] \in Nat /\ \A q \in Request : q # r => actual'[q] = actual[q]
      /\ Cost[r] \in Nat
      /\ s \in ScopesOf[r] => /\ Cost[r] <= reserved[s]
                              /\ reserved'[s] = reserved[s] - Cost[r]
                              /\ spent'[s] = spent[s] + actual'[r]
      /\ s \notin ScopesOf[r] => reserved'[s] = reserved[s] /\ spent'[s] = spent[s]
  BY <1>1, SettleBalance
<1>3. Overrun(s)' = Overrun(s) + (IF s \in ScopesOf[r] THEN Positive(actual'[r] - Cost[r]) ELSE 0)
  BY <1>1, OverrunSettled
<1>4. spent[s] \in Nat /\ reserved[s] \in Nat /\ Overrun(s) \in Nat /\ Limit[s] \in Nat
  BY <1>1, Figures
<1>5. /\ attempt[r] = "dispatching" /\ attempt' = [attempt EXCEPT ![r] = "settled"]
      /\ finished \subseteq finished' /\ attempt \in [Request -> AttemptStates]
      /\ \A q \in Request : actual[q] \in Nat /\ Cost[q] \in Nat
  BY SpendAssumption DEF Settle, MaySettle, LedgerInv, TypeOK
<1>6. n \in Nat
  BY <1>2 DEF Positive
<1>7. \A q \in Request : drop[q] \in Nat
  BY <1>6
<1>8. \A q \in C : Committed(attempt, q) <= Committed(attempt, q)' + drop[q]
  <2> SUFFICES ASSUME NEW q \in C PROVE Committed(attempt, q) <= Committed(attempt, q)' + drop[q]
    OBVIOUS
  <2>1. q \in Request /\ s \in ScopesOf[q]
    BY DEF Charged
  <2>2. CASE q = r
    <3>1. Committed(attempt, q) = Cost[r] /\ Committed(attempt, q)' = actual'[r]
      BY <1>2, <1>5, <2>2 DEF Committed, Held
    <3>2. drop[q] = Positive(Cost[r] - actual'[r])
      BY <2>1, <2>2
    <3> QED
      BY <1>2, <3>1, <3>2 DEF Positive
  <2>3. CASE q # r
    <3>1. attempt'[q] = attempt[q] /\ actual'[q] = actual[q]
      BY <1>2, <1>5, <2>1, <2>3
    <3>2. Committed(attempt, q)' = Committed(attempt, q) /\ Committed(attempt, q) \in Nat
      BY <1>5, <2>1, <3>1 DEF Committed
    <3> QED
      BY <1>7, <2>1, <3>2
  <2> QED
    BY <2>2, <2>3
<1>9. Sum(drop, C) = n
  <2>1. IsFiniteSet(C) /\ C \subseteq Request /\ (r \in C <=> s \in ScopesOf[r])
    BY Finite DEF Charged
  <2>2. drop[r] = n /\ \A q \in C : q # r => drop[q] = 0
    BY <2>1
  <2>3. s \notin ScopesOf[r] => n = 0
    OBVIOUS
  <2> HIDE DEF drop, C, n
  <2>4. CASE r \in C
    <3> DEFINE W == {r}
    <3>1. W \in SUBSET C /\ (\A q \in W : drop[q] \in Int) /\ \A q \in C \ W : drop[q] = 0
      BY <1>6, <2>2, <2>4
    <3>2. Sum(drop, W) = n
      BY <1>6, <2>2, SumSingle
    <3> HIDE DEF W
    <3>3. Sum(drop, C) = Sum(drop, W)
      BY <2>1, <3>1, SumOver
    <3> QED
      BY <3>2, <3>3
  <2>5. CASE r \notin C
    <3>1. \A q \in C : drop[q] = 0
      BY <2>2, <2>5
    <3> QED
      BY <2>1, <2>3, <2>5, <3>1, SumZero
  <2> QED
    BY <2>4, <2>5
<1> HIDE DEF drop, C
<1>10. E' \in Nat /\ E' <= E + n
  <2>1. E' \in Nat /\ E' <= E + Sum(drop, C)
    BY <1>5, <1>7, <1>8, EarmarkNext DEF C
  <2> QED
    BY <1>9, <2>1
<1>11. spent[s] + reserved[s] + E <= Limit[s] + Overrun(s)
  BY DEF Funded
<1>12. spent'[s] + reserved'[s] + E' <= Limit[s] + Overrun(s)'
  <2> HIDE DEF E
  <2>1. CASE s \in ScopesOf[r]
    BY <1>1, <1>2, <1>3, <1>4, <1>10, <1>11, <2>1 DEF Positive
  <2>2. CASE s \notin ScopesOf[r]
    BY <1>1, <1>2, <1>3, <1>4, <1>10, <1>11, <2>2
  <2> QED
    BY <2>1, <2>2
<1> QED
  BY <1>12 DEF Funded

(* A scope the reservation is not charged to, or a request that was not     *)
(* admitted.                                                                *)
LEMMA UnchargedFunded ==
  ASSUME LedgerInv, LedgerInv', NEW s \in TaskScope, Funded(s), NEW r \in Request, Reserve(r),
         reserved'[s] = ReservedWithout(s, Expired),
         \A q \in Charged(s) : attempt'[q] = RowsAfterRecovery(Expired)[q]
  PROVE  Funded(s)'
<1> DEFINE E == Earmark(attempt, s, Unfinished(s))
           drop == Released(s, Expired)
           R == Sum(Cost, ReleasedOf(s, Expired))
<1>0. \A q \in Expired : q \in Request /\ attempt[q] \in Open
  BY DEF LedgerInv, TypeOK, Expired
<1>1. s \in Scope /\ E \in Nat
  BY CapacityOfTask, EarmarkType
<1>2. /\ spent'[s] = spent[s] /\ Overrun(s)' = Overrun(s) /\ UNCHANGED <<actual, finished>>
      /\ spent[s] \in Nat /\ reserved[s] \in Nat /\ Overrun(s) \in Nat /\ Limit[s] \in Nat
  BY <1>1, ReserveFigures, Figures
<1>3. ReservedWithout(s, Expired) \in Nat /\ R \in Nat /\ reserved[s] = ReservedWithout(s, Expired) + R
  BY <1>0, <1>1, RecoveryBalance
<1>4. (\A q \in Request : drop[q] \in Nat) /\ Sum(drop, Charged(s)) = R
  BY ReleasedSum
<1>5. \A q \in Charged(s) : Committed(attempt, q) <= Committed(attempt, q)' + drop[q]
  <2>1. \A q \in Charged(s) : Committed(attempt, q)' = Committed(RowsAfterRecovery(Expired), q)
    BY <1>2 DEF Committed
  <2>2. \A q \in Charged(s) : /\ Committed(attempt, q) = Committed(RowsAfterRecovery(Expired), q) + drop[q]
                              /\ Committed(attempt, q) \in Nat
    BY <1>0, RecoveryCommits, Finite DEF Committed, LedgerInv, TypeOK
  <2> HIDE DEF drop
  <2> QED
    BY <2>1, <2>2
<1> HIDE DEF drop
<1>6. E' \in Nat /\ E' <= E + R
  BY <1>2, <1>4, <1>5, EarmarkNext
<1> HIDE DEF R
<1> QED
  BY <1>1, <1>2, <1>3, <1>6 DEF Funded

(* One more commitment comes out of what is left of its own Step's share.   *)
LEMMA LeftTaken ==
  ASSUME NEW s \in Scope, NEW P \in Nat, P # 0, NEW c, NEW d, NEW U \in SUBSET Step,
         NEW r \in Charged(s), NEW n \in Nat,
         \A q \in Request : c[q] \in Nat /\ d[q] \in Nat,
         d[r] = c[r] + n, \A q \in Charged(s) : q # r => d[q] = c[q]
  PROVE  LET rest == Sum(Left(c, s, P), U \ {StepOf[r]})
             before == Sum(Left(c, s, P), U)
             after == Sum(Left(d, s, P), U)
         IN  /\ rest \in Nat /\ before \in Nat /\ after \in Nat
             /\ after <= before
             /\ after = rest \/ after = before - n
<1> DEFINE y == StepOf[r]
           V == U \ {y}
           lc == Left(c, s, P)
           ld == Left(d, s, P)
           C == Charged(s)
           At(x) == {q \in C : StepOf[q] = x}
<1>1. IsFiniteSet(U) /\ IsFiniteSet(V) /\ Sum(lc, V) \in Nat /\ Sum(lc, U) \in Nat /\ Sum(ld, U) \in Nat
  BY LeftSum
<1>2. \A st \in Step : lc[st] \in Nat /\ ld[st] \in Nat
  BY LeftType
<1>3. C \subseteq Request /\ IsFiniteSet(C)
  BY Finite
<1>4. ASSUME NEW st \in Step, st # y PROVE ld[st] = lc[st]
  <2> DEFINE W == At(st)
  <2>1. IsFiniteSet(W) /\ \A q \in W : d[q] \in Int /\ d[q] = c[q]
    BY <1>3, <1>4, FS_Subset
  <2>2. ld[st] = Positive((Limit[s] * Tokens[st]) \div P - Sum(d, W))
        /\ lc[st] = Positive((Limit[s] * Tokens[st]) \div P - Sum(c, W))
    BY DEF Left
  <2> HIDE DEF W, lc, ld
  <2>3. Sum(d, W) = Sum(c, W)
    BY <2>1, SumAgree
  <2> QED
    BY <2>2, <2>3
<1>5. Sum(ld, V) = Sum(lc, V)
  <2>1. \A st \in V : ld[st] \in Int /\ ld[st] = lc[st]
    BY <1>2, <1>4
  <2> HIDE DEF V, lc, ld
  <2> QED
    BY <1>1, <2>1, SumAgree
<1>6. CASE y \notin U
  <2>1. V = U
    BY <1>6
  <2>2. Sum(ld, U) = Sum(ld, V) /\ Sum(lc, U) = Sum(lc, V)
    BY <2>1, Zenon
  <2> QED
    BY <1>1, <1>5, <2>2
<1>7. CASE y \in U
  <2> DEFINE W == At(y)
             a == (Limit[s] * Tokens[y]) \div P
  <2>1. a \in Int /\ IsFiniteSet(W) /\ Sum(c, W) \in Nat /\ Sum(d, W) \in Nat
    <3>1. a \in Int
      BY <1>7, LeftType
    <3>2. IsFiniteSet(W) /\ Sum(c, W) \in Nat /\ Sum(d, W) \in Nat
      BY StepSumType DEF StepSum
    <3> QED
      BY <3>1, <3>2
  <2>2. r \in W /\ W \ {r} \subseteq C /\ W \subseteq Request
    BY <1>3
  <2>3. lc[y] = Positive(a - Sum(c, W)) /\ ld[y] = Positive(a - Sum(d, W))
    BY <1>7 DEF Left
  <2>4. (\A q \in W : c[q] \in Int /\ d[q] \in Int) /\ (\A q \in W \ {r} : d[q] = c[q])
    BY <2>2
  <2>5. \A st \in U : lc[st] \in Int /\ ld[st] \in Int
    BY <1>2
  <2> HIDE DEF W, a, lc, ld
  <2>6. Sum(c, W) = c[r] + Sum(c, W \ {r}) /\ Sum(d, W) = d[r] + Sum(d, W \ {r})
    BY <2>1, <2>2, <2>4, SumRemove
  <2>7. Sum(d, W \ {r}) = Sum(c, W \ {r}) /\ Sum(c, W \ {r}) \in Int
    <3>1. IsFiniteSet(W \ {r}) /\ \A q \in W \ {r} : d[q] \in Int /\ c[q] \in Int /\ d[q] = c[q]
      BY <2>1, <2>4, FS_Subset
    <3> DEFINE X == W \ {r}
    <3> HIDE DEF X
    <3>2. Sum(d, X) = Sum(c, X) /\ Sum(c, X) \in Int
      BY <3>1, SumAgree, SumRemove DEF X
    <3> QED
      BY <3>2 DEF X
  <2>8. Sum(d, W) = Sum(c, W) + n
    <3>1. c[r] \in Int
      BY <2>2, <2>4
    <3> QED
      BY <2>6, <2>7, <3>1
  <2>9. Sum(lc, U) = lc[y] + Sum(lc, V) /\ Sum(ld, U) = ld[y] + Sum(ld, V)
    BY <1>1, <1>7, <2>5, SumRemove
  <2>10. lc[y] \in Nat /\ ld[y] \in Nat /\ ld[y] <= lc[y] /\ (ld[y] = 0 \/ ld[y] = lc[y] - n)
    BY <2>1, <2>3, <2>8 DEF Positive
  <2> HIDE DEF V
  <2>11. /\ Sum(lc, V) \in Nat /\ Sum(lc, U) \in Nat /\ Sum(ld, U) \in Nat
         /\ Sum(ld, U) <= Sum(lc, U)
         /\ Sum(ld, U) = Sum(lc, V) \/ Sum(ld, U) = Sum(lc, U) - n
    BY <1>1, <1>5, <2>9, <2>10
  <2> QED
    BY <2>11 DEF V, lc, ld
<1> QED
  BY <1>6, <1>7

(* What was admitted either came out of the share of its own Step or fitted *)
(* beside the earmarks of the others.                                       *)
LEMMA AdmittedFunded ==
  ASSUME LedgerInv, LedgerInv', NEW s \in TaskScope, Funded(s), NEW r \in Request, Reserve(r),
         s \in ScopesOf[r], Fits(r, s), reserved'[s] = ReservedWithout(s, Expired) + Cost[r],
         attempt' = [RowsAfterRecovery(Expired) EXCEPT ![r] = "reserved"]
  PROVE  Funded(s)'
<1> DEFINE rows == RowsAfterRecovery(Expired)
           U == Unfinished(s)
           P == ProtectedCapacity(s)
           c == CommitsOf(rows)
           d == CommitsOf(attempt)'
           before == Earmark(rows, s, U)
           rest == Earmark(rows, s, U \ {StepOf[r]})
           after == Earmark(attempt, s, Unfinished(s))'
           w == ReservedWithout(s, Expired)
<1>0. \A q \in Expired : q \in Request /\ attempt[q] \in Open
  BY DEF LedgerInv, TypeOK, Expired
<1>1. s \in Scope /\ U \in SUBSET Step /\ P \in Nat
  BY CapacityOfTask, Capacity
<1>2. /\ attempt[r] = "absent" /\ Cost[r] \in Nat /\ w \in Nat
      /\ spent'[s] = spent[s] /\ Overrun(s)' = Overrun(s) /\ UNCHANGED <<actual, finished>>
      /\ spent[s] \in Nat /\ reserved[s] \in Nat /\ Overrun(s) \in Nat /\ Limit[s] \in Nat
  BY <1>1, ReserveFigures, Figures
<1>3. rows \in [Request -> AttemptStates] /\ rows[r] = "absent"
  <2>1. r \notin Expired
    BY <1>2 DEF Expired, Open
  <2> QED
    BY <1>0, <1>2, <2>1, RecoveryKeepsRows DEF LedgerInv
<1>4. /\ before = IF P = 0 THEN 0 ELSE Sum(Left(c, s, P), U)
      /\ rest = IF P = 0 THEN 0 ELSE Sum(Left(c, s, P), U \ {StepOf[r]})
  BY EarmarkIsLeft
<1>5. after = IF P = 0 THEN 0 ELSE Sum(Left(d, s, P), U)
  <2>1. U' = U /\ P' = P
    BY <1>2 DEF Unfinished, ProtectedCapacity
  <2>2. after = IF P' = 0 THEN 0 ELSE Sum(Left(d, s, P'), U')
    BY DEF Earmark, Left, CommitsOf, SynthesisShare, SynthesisCommitted
  <2> HIDE DEF U, P, d
  <2> QED
    BY <2>1, <2>2
<1>6. \A q \in Request : c[q] \in Nat /\ d[q] \in Nat
  <2>1. \A q \in Request : actual'[q] \in Nat /\ Cost[q] \in Nat
    BY SpendAssumption DEF LedgerInv, TypeOK
  <2> QED
    BY <2>1, CommitsAreNat DEF CommitsOf, Committed
<1>7. r \in Charged(s) /\ Charged(s) \subseteq Request
  BY DEF Charged
<1>8. d[r] = c[r] + Cost[r] /\ \A q \in Charged(s) : q # r => d[q] = c[q]
  <2>1. attempt'[r] = "reserved" /\ \A q \in Request : q # r => attempt'[q] = rows[q]
    BY <1>3
  <2>2. c[r] = 0 /\ d[r] = Cost[r]
    BY <1>3, <2>1 DEF CommitsOf, Committed, Held
  <2>3. \A q \in Charged(s) : q # r => d[q] = c[q]
    <3> SUFFICES ASSUME NEW q \in Charged(s), q # r PROVE d[q] = c[q]
      OBVIOUS
    <3>1. q \in Request /\ attempt'[q] = rows[q] /\ actual'[q] = actual[q]
      BY <1>2, <1>7, <2>1
    <3>2. c[q] = Committed(rows, q) /\ d[q] = Committed(attempt, q)'
      BY <3>1 DEF CommitsOf
    <3> HIDE DEF rows
    <3>3. Committed(rows, q) = Committed(attempt, q)'
      BY <3>1 DEF Committed
    <3> QED
      BY <3>2, <3>3
  <2>4. Cost[r] = 0 + Cost[r]
    BY <1>2
  <2> HIDE DEF c, d
  <2> QED
    BY <2>2, <2>3, <2>4
<1>9. spent[s] + w + before <= Limit[s] + Overrun(s)
  BY <1>0, RecoveryFunded
<1>10. PICK e \in Nat :
         /\ rest \in Nat /\ e = IF Limit[s] <= rest THEN Limit[s] ELSE rest
         /\ Cost[r] <= Positive(Limit[s] - spent[s]) - w - e
  BY <1>1, FitsBeside
<1> HIDE DEF rows, U, P, c, d, before, rest, after, w
<1>11. /\ before \in Nat /\ after \in Nat /\ after <= before
       /\ after = rest \/ after = before - Cost[r]
  <2>1. CASE P = 0
    BY <1>4, <1>5, <2>1
  <2>2. CASE P # 0
    BY <1>1, <1>2, <1>4, <1>5, <1>6, <1>7, <1>8, <2>2, LeftTaken
  <2> QED
    BY <2>1, <2>2
<1>12. spent[s] + w + Cost[r] + after <= Limit[s] + Overrun(s)
  <2>1. CASE after = before - Cost[r]
    BY <1>2, <1>9, <1>11, <2>1
  <2>2. CASE Cost[r] = 0
    BY <1>2, <1>9, <1>11, <2>2
  <2>3. CASE after = rest /\ Cost[r] # 0
    BY <1>2, <1>9, <1>10, <1>11, <2>3 DEF Positive
  <2> QED
    BY <1>11, <2>1, <2>2, <2>3
<1>13. spent'[s] + reserved'[s] + after <= Limit[s] + Overrun(s)'
  <2>1. reserved'[s] = w + Cost[r]
    BY DEF w
  <2> QED
    BY <1>2, <1>11, <1>12, <2>1
<1> QED
  BY <1>13 DEF Funded, after

LEMMA ReserveFunded ==
  ASSUME LedgerInv, LedgerInv', NEW s \in TaskScope, Funded(s), NEW r \in Request, Reserve(r)
  PROVE  Funded(s)'
<1>1. s \in Scope
  BY CapacityOfTask
<1>2. CASE /\ s \in ScopesOf[r] /\ Fits(r, s)
           /\ attempt' = [RowsAfterRecovery(Expired) EXCEPT ![r] = "reserved"]
           /\ reserved'[s] = ReservedWithout(s, Expired) + Cost[r]
  BY <1>2, AdmittedFunded
<1>3. CASE /\ \/ s \notin ScopesOf[r]
                 /\ attempt' = [RowsAfterRecovery(Expired) EXCEPT ![r] = "reserved"]
              \/ attempt' = RowsAfterRecovery(Expired)
           /\ reserved'[s] = ReservedWithout(s, Expired)
  <2>1. \A q \in Charged(s) : attempt'[q] = RowsAfterRecovery(Expired)[q]
    <3>1. CASE s \notin ScopesOf[r] /\ attempt' = [RowsAfterRecovery(Expired) EXCEPT ![r] = "reserved"]
      BY <3>1 DEF Charged, RowsAfterRecovery
    <3>2. CASE attempt' = RowsAfterRecovery(Expired)
      BY <3>2
    <3> QED
      BY <1>3, <3>1, <3>2
  <2> QED
    BY <1>3, <2>1, UnchargedFunded
<1> QED
  BY <1>1, <1>2, <1>3, ReserveFigures

LEMMA FundedStep ==
  ASSUME LedgerInv, LedgerInv', SynthesisIsFunded, [Next]_vars
  PROVE  SynthesisIsFunded'
<1> SUFFICES ASSUME NEW s \in TaskScope PROVE Funded(s)'
  BY DEF SynthesisIsFunded, Funded
<1>1. Funded(s)
  BY DEF SynthesisIsFunded, Funded
<1>2. \/ Quiet
      \/ \E S : Recovery(S)
      \/ \E r \in Request : Reserve(r) \/ Settle(r)
  BY NextKinds DEF LedgerInv
<1> QED
  BY <1>1, <1>2, QuietFunded, RecoveryStepFunded, ReserveFunded, SettleFunded

(* At first nothing is committed and the shares are within the limit.       *)
LEMMA FundedInit ==
  ASSUME Init, LedgerInv PROVE SynthesisIsFunded
<1> SUFFICES ASSUME NEW s \in TaskScope
             PROVE  spent[s] + reserved[s] + Earmark(attempt, s, Unfinished(s)) <= Limit[s] + Overrun(s)
  BY DEF SynthesisIsFunded
<1> DEFINE U == Unfinished(s)
           E == Earmark(attempt, s, U)
           P == ProtectedCapacity(s)
           A == {st \in Step : \E x \in Unfinished(s) : RootOf[x] = RootOf[st]}
           c == CommitsOf(attempt)
           q == [st \in A |-> (Limit[s] * Tokens[st]) \div Sum(Tokens, A)]
<1>1. s \in Scope /\ U \in SUBSET A /\ U \in SUBSET Step /\ IsFiniteSet(A) /\ IsFiniteSet(U)
      /\ A \in SUBSET Step
  <2>1. s \in Scope /\ U \in SUBSET Step
    BY CapacityOfTask
  <2>2. A \in SUBSET Step /\ U \in SUBSET A
    BY <2>1
  <2> QED
    BY <2>1, <2>2, SpendAssumption, FS_Subset
<1>2. spent[s] = 0 /\ reserved[s] = 0 /\ Overrun(s) \in Nat /\ Limit[s] \in Nat
  BY <1>1, Figures DEF Init
<1>3. P = Sum(Tokens, A)
  BY DEF ProtectedCapacity
<1>4. E = IF P = 0 THEN 0 ELSE Sum(Left(c, s, P), U)
  BY EarmarkIsLeft
<1>5. (\A st \in A : Tokens[st] \in Nat) /\ P \in Nat
  BY <1>1, Capacity, SpendAssumption
<1>6. \A r \in Request : c[r] = 0
  BY DEF Init, CommitsOf, Committed, Held
<1>7. CASE P = 0
  BY <1>2, <1>4, <1>7
<1>8. CASE P # 0
  <2>1. ASSUME NEW st \in U
        PROVE  Left(c, s, P)[st] \in Int /\ q[st] \in Int /\ Left(c, s, P)[st] <= q[st]
    <3> DEFINE W == {r \in Charged(s) : StepOf[r] = st}
               n == Limit[s] * Tokens[st]
               a == n \div P
    <3>1. st \in Step /\ st \in A
      BY <1>1
    <3>2. Left(c, s, P)[st] = Positive(a - Sum(c, W)) /\ q[st] = a
      BY <1>3, <3>1 DEF Left
    <3>3. IsFiniteSet(W) /\ \A r \in W : c[r] = 0
      BY <1>6, Finite, FS_Subset
    <3>4. n \in Nat
      BY <1>2, <1>5, <3>1
    <3> HIDE DEF W, n, c, P
    <3>5. Sum(c, W) = 0
      BY <3>3, SumZero
    <3>6. a \in Int /\ a >= 0
      BY <1>5, <1>8, <3>4
    <3> HIDE DEF a, q
    <3> QED
      BY <3>2, <3>5, <3>6 DEF Positive
  <2> HIDE DEF U, q, c
  <2>2. Sum(Left(c, s, P), U) <= Sum(q, U)
    BY <1>1, <2>1, SumMonotone
  <2>3. Sum(q, U) <= Limit[s]
    <3>1. Sum(Tokens, A) # 0
      BY <1>3, <1>8
    <3> QED
      BY <1>1, <1>2, <1>5, <3>1, SharesFit DEF q
  <2>4. Sum(q, U) \in Int /\ Sum(Left(c, s, P), U) \in Int
    BY <1>1, <2>1, SumRemove
  <2>5. E <= Limit[s] /\ E \in Int
    BY <1>2, <1>4, <1>8, <2>2, <2>3, <2>4
  <2> HIDE DEF E
  <2>6. spent[s] + reserved[s] + E <= Limit[s] + Overrun(s)
    BY <1>2, <2>5
  <2> QED
    BY <2>6 DEF E, U
<1> QED
  BY <1>7, <1>8

(* Inside a root Task's limit the unused share of its unfinished synthesis  *)
(* Steps stays available to them, whatever workers reserve.                 *)
THEOREM SynthesisIsFundedHolds == Spec => []SynthesisIsFunded
<1>1. Init /\ LedgerInv => SynthesisIsFunded
  BY FundedInit
<1>2. LedgerInv /\ LedgerInv' /\ SynthesisIsFunded /\ [Next]_vars => SynthesisIsFunded'
  BY FundedStep
<1> QED
  BY <1>1, <1>2, LedgerInvariant, PTL DEF Spec

-----------------------------------------------------------------------------
(* The warnings.                                                            *)

WarnedOrOverrun(s) == s \in warned \/ Overrun(s) > 0

HasRow(s) == \E r \in Charged(s) : attempt[r] # "absent"

(* The warning of a scope in which something was reserved, and of one that  *)
(* was seen to reach its threshold.                                         *)
WarnInv ==
  \A s \in Scope :
    /\ s \in reached => WarnedOrOverrun(s)
    /\ HasRow(s) /\ spent[s] + reserved[s] >= Threshold[s] => WarnedOrOverrun(s)

LEMMA WarnStep ==
  ASSUME LedgerInv, LedgerInv', WarnInv, [Next]_vars
  PROVE  WarnInv'
<1> SUFFICES ASSUME NEW s \in Scope
             PROVE  /\ s \in reached' => WarnedOrOverrun(s)'
                    /\ HasRow(s)' /\ spent'[s] + reserved'[s] >= Threshold[s] => WarnedOrOverrun(s)'
  BY DEF WarnInv
<1>1. /\ s \in reached => WarnedOrOverrun(s)
      /\ HasRow(s) /\ spent[s] + reserved[s] >= Threshold[s] => WarnedOrOverrun(s)
      /\ spent[s] \in Nat /\ reserved[s] \in Nat /\ Overrun(s) \in Nat /\ Threshold[s] \in Nat
  BY Figures DEF WarnInv
<1>2. reserved'[s] \in Nat
  BY DEF LedgerInv, TypeOK
<1>3. ASSUME warned \subseteq warned', Overrun(s) <= Overrun(s)', Overrun(s)' \in Nat, WarnedOrOverrun(s)
      PROVE  WarnedOrOverrun(s)'
  BY <1>1, <1>3 DEF WarnedOrOverrun
<1>4. CASE Quiet
  <2>1. spent'[s] = spent[s] /\ reserved'[s] = reserved[s] /\ Overrun(s)' = Overrun(s)
        /\ UNCHANGED <<reached, warned>>
    BY <1>4, QuietFigures DEF Quiet
  <2>2. WarnedOrOverrun(s)' = WarnedOrOverrun(s)
    BY <2>1 DEF WarnedOrOverrun
  <2>3. HasRow(s)' => HasRow(s)
    BY <1>4 DEF HasRow, Charged, Quiet, Held
  <2> QED
    BY <1>1, <2>1, <2>2, <2>3
<1>5. ASSUME NEW S, Recovery(S)
      PROVE  /\ s \in reached' => WarnedOrOverrun(s)'
             /\ HasRow(s)' /\ spent'[s] + reserved'[s] >= Threshold[s] => WarnedOrOverrun(s)'
  <2>1. /\ spent'[s] = spent[s] /\ reserved'[s] <= reserved[s] /\ Overrun(s)' = Overrun(s)
        /\ attempt' = RowsAfterRecovery(S) /\ UNCHANGED <<reached, warned>>
        /\ \A r \in S : r \in Request /\ attempt[r] \in Open
    BY <1>5, RecoveryFigures DEF Recovery
  <2>2. WarnedOrOverrun(s)' = WarnedOrOverrun(s)
    BY <2>1 DEF WarnedOrOverrun
  <2>3. HasRow(s)' => HasRow(s)
    BY <2>1, Finite, RecoveryKeepsRows DEF HasRow, Open, LedgerInv
  <2> QED
    BY <1>1, <1>2, <2>1, <2>2, <2>3
<1>6. ASSUME NEW r \in Request, Reserve(r)
      PROVE  /\ s \in reached' => WarnedOrOverrun(s)'
             /\ HasRow(s)' /\ spent'[s] + reserved'[s] >= Threshold[s] => WarnedOrOverrun(s)'
  <2>1. /\ attempt[r] = "absent" /\ spent'[s] = spent[s] /\ Overrun(s)' = Overrun(s)
        /\ s \notin ScopesOf[r] => reserved'[s] <= reserved[s]
    BY <1>1, <1>6, ReserveFigures
  <2>2. PICK crossed \in SUBSET ScopesOf[r] :
          /\ crossed = Reached([x \in Scope |-> spent[x] + reserved'[x]]) \intersect ScopesOf[r]
          /\ reached' = reached \union crossed
          /\ warned' = warned \union (crossed \ reached)
    BY <1>6, ReserveEffect
  <2>3. s \in crossed => WarnedOrOverrun(s)'
    <3>1. s \in crossed => s \in reached \/ s \in warned'
      BY <2>2
    <3> QED
      BY <1>1, <2>1, <2>2, <3>1 DEF WarnedOrOverrun
  <2>4. s \in ScopesOf[r] /\ spent'[s] + reserved'[s] >= Threshold[s] => s \in crossed
    BY <2>1, <2>2 DEF Reached
  <2>5. WarnedOrOverrun(s) => WarnedOrOverrun(s)'
    BY <2>1, <2>2 DEF WarnedOrOverrun
  <2>6. s \notin ScopesOf[r] /\ HasRow(s)' => HasRow(s)
    <3>0. \A q \in Expired : q \in Request /\ attempt[q] \in Open
      BY DEF LedgerInv, TypeOK, Expired
    <3>1. /\ \A q \in Request : q \notin Expired => RowsAfterRecovery(Expired)[q] = attempt[q]
          /\ \A q \in Request : q \in Expired => attempt[q] # "absent"
          /\ RowsAfterRecovery(Expired) \in [Request -> AttemptStates]
      BY <3>0, RecoveryKeepsRows DEF LedgerInv, Open
    <3>2. \A q \in Request : q # r /\ attempt[q] = "absent" => attempt'[q] = "absent"
      <4>1. \A q \in Request : q # r => attempt'[q] = RowsAfterRecovery(Expired)[q]
        BY <1>6, <3>1, ReserveEffect
      <4> QED
        BY <3>1, <4>1
    <3> QED
      BY <3>2 DEF HasRow, Charged
  <2> QED
    BY <1>1, <1>2, <2>1, <2>2, <2>3, <2>4, <2>5, <2>6
<1>7. ASSUME NEW r \in Request, Settle(r)
      PROVE  /\ s \in reached' => WarnedOrOverrun(s)'
             /\ HasRow(s)' /\ spent'[s] + reserved'[s] >= Threshold[s] => WarnedOrOverrun(s)'
  <2>1. Overrun(s)' = Overrun(s) + (IF s \in ScopesOf[r] THEN Positive(actual'[r] - Cost[r]) ELSE 0)
    BY <1>7, OverrunSettled
  <2>2. /\ actual'[r] \in Nat /\ Cost[r] \in Nat
        /\ s \in ScopesOf[r] => /\ Cost[r] <= reserved[s]
                                /\ reserved'[s] = reserved[s] - Cost[r]
                                /\ spent'[s] = spent[s] + actual'[r]
        /\ s \notin ScopesOf[r] => reserved'[s] = reserved[s] /\ spent'[s] = spent[s]
    BY <1>7, SettleBalance
  <2>3. /\ UNCHANGED warned /\ attempt[r] = "dispatching"
        /\ reached' = reached \union (Reached([x \in Scope |-> spent'[x] + reserved'[x]]) \intersect ScopesOf[r])
        /\ attempt' = [attempt EXCEPT ![r] = "settled"]
    BY <1>7 DEF Settle, MaySettle
  <2>4. WarnedOrOverrun(s) => WarnedOrOverrun(s)'
    BY <1>1, <2>1, <2>2, <2>3 DEF WarnedOrOverrun, Positive
  <2>5. CASE s \in ScopesOf[r]
    <3>1. HasRow(s)
      BY <2>3, <2>5 DEF HasRow, Charged
    <3>2. spent'[s] + reserved'[s] >= Threshold[s] => WarnedOrOverrun(s)'
      <4>1. CASE actual'[r] > Cost[r]
        BY <1>1, <2>1, <2>2, <2>5, <4>1 DEF WarnedOrOverrun, Positive
      <4>2. CASE actual'[r] <= Cost[r]
        BY <1>1, <2>2, <2>4, <2>5, <3>1, <4>2
      <4> QED
        BY <2>2, <4>1, <4>2
    <3>3. s \in reached' => s \in reached \/ spent'[s] + reserved'[s] >= Threshold[s]
      BY <2>3 DEF Reached
    <3> QED
      BY <1>1, <2>4, <3>2, <3>3
  <2>6. CASE s \notin ScopesOf[r]
    <3>1. HasRow(s)' => HasRow(s)
      BY <2>3, <2>6 DEF HasRow, Charged, LedgerInv, TypeOK
    <3>2. s \in reached' => s \in reached
      BY <2>3, <2>6
    <3> QED
      BY <1>1, <2>2, <2>4, <2>6, <3>1, <3>2
  <2> QED
    BY <2>5, <2>6
<1>8. \/ Quiet
      \/ \E S : Recovery(S)
      \/ \E r \in Request : Reserve(r) \/ Settle(r)
  BY NextKinds DEF LedgerInv
<1> QED
  BY <1>4, <1>5, <1>6, <1>7, <1>8

LEMMA WarnInvWarns ==
  ASSUME LedgerInv, WarnInv PROVE WarningIsRecorded
<1> SUFFICES ASSUME NEW s \in Scope, spent[s] + reserved[s] >= Threshold[s], spent[s] + reserved[s] > 0
             PROVE  s \in warned \/ Overrun(s) > 0
  BY DEF WarningIsRecorded
<1>1. HasRow(s)
  <2> SUFFICES ASSUME ~HasRow(s) PROVE FALSE
    OBVIOUS
  <2>1. SettledIn(attempt, s) = {} /\ HeldIn(attempt, s) = {}
    BY DEF HasRow, SettledIn, HeldIn, Held
  <2>2. Sum(actual, SettledIn(attempt, s)) = Sum(actual, {}) /\ Sum(Cost, HeldIn(attempt, s)) = Sum(Cost, {})
    BY <2>1, Zenon
  <2>3. spent[s] = 0 /\ reserved[s] = 0
    BY <2>2, Balances, SumEmpty DEF LedgerInv
  <2> QED
    BY <2>3
<1> QED
  BY <1>1 DEF WarnInv, WarnedOrOverrun

(* A scope whose commitments have reached the threshold has its warning on  *)
(* record, unless a request was settled to more than its reservation.       *)
THEOREM WarningIsRecordedHolds == Spec => []WarningIsRecorded
<1>1. Init => WarnInv
  BY DEF Init, WarnInv, HasRow, Charged
<1>2. LedgerInv /\ LedgerInv' /\ WarnInv /\ [Next]_vars => WarnInv'
  BY WarnStep
<1>3. LedgerInv /\ WarnInv => WarningIsRecorded
  BY WarnInvWarns
<1> QED
  BY <1>1, <1>2, <1>3, LedgerInvariant, PTL DEF Spec
=============================================================================
