---- MODULE FoldLemmas ----
(***************************************************************************)
(* Induction, and what sums over finite sets compute.  The library states  *)
(* induction for an operator; here it is stated for a set, which the       *)
(* provers can instantiate, and the recursive function behind              *)
(* SumFunctionOnSet is shown to exist by building it up element by element.*)
(***************************************************************************)
EXTENDS Integers, Functions, FiniteSets, FiniteSetTheorems, WellFoundedInduction, TLAPS

\* Induction over the subsets of a finite set: a set of sets that contains each
\* subset all of whose strict subsets it contains, contains them all.
LEMMA SubsetInduction ==
    ASSUME NEW S, IsFiniteSet(S), NEW D,
           \A T \in SUBSET S : (\A U \in SUBSET T : U # T => U \in D) => T \in D
    PROVE  \A T \in SUBSET S : T \in D
<1> DEFINE bad == (SUBSET S) \ D
<1> SUFFICES ASSUME bad # {} PROVE FALSE OBVIOUS
<1>1. IsWellFoundedOn(StrictSubsetOrdering(S), FiniteSubsetsOf(S)) BY FS_StrictSubsetOrderingWellFounded
<1>2. FiniteSubsetsOf(S) = SUBSET S BY FS_FiniteSubsetsOfFinite
<1>3. bad \subseteq SUBSET S OBVIOUS
<1> HIDE DEF bad
<1>4. \E T \in bad : \A U \in bad : ~(<<U, T>> \in StrictSubsetOrdering(S))
  BY <1>1, <1>2, <1>3, WFMin
<1>5. PICK T \in bad : \A U \in bad : ~(<<U, T>> \in StrictSubsetOrdering(S)) BY <1>4
<1>6. T \in SUBSET S /\ T \notin D BY DEF bad
<1>7. PICK U \in SUBSET T : U # T /\ U \notin D BY <1>6
<1>8. <<U, T>> \in StrictSubsetOrdering(S) BY <1>6, <1>7 DEF StrictSubsetOrdering
<1>9. U \in bad BY <1>6, <1>7 DEF bad
<1>10. QED BY <1>5, <1>8, <1>9

\* Induction over the natural numbers, for a set of numbers.
LEMMA NumberInduction ==
    ASSUME NEW D, 0 \in D, \A n \in Nat : n \in D => n + 1 \in D
    PROVE  \A n \in Nat : n \in D
<1> DEFINE bad == Nat \ D
<1> SUFFICES ASSUME bad # {} PROVE FALSE OBVIOUS
<1>1. IsWellFoundedOn(OpToRel(<, Nat), Nat) BY NatLessThanWellFounded
<1>2. bad \subseteq Nat OBVIOUS
<1> HIDE DEF bad
<1>3. \E n \in bad : \A m \in bad : ~(<<m, n>> \in OpToRel(<, Nat)) BY <1>1, <1>2, WFMin
<1>4. PICK n \in bad : \A m \in bad : ~(<<m, n>> \in OpToRel(<, Nat)) BY <1>3
<1>5. n \in Nat /\ n \notin D BY DEF bad
<1>6. n - 1 \in Nat /\ n - 1 < n /\ (n - 1) + 1 = n BY <1>5
<1>7. n - 1 \notin D BY <1>5, <1>6
<1>8. n - 1 \in bad BY <1>6, <1>7 DEF bad
<1>9. <<n - 1, n>> \in OpToRel(<, Nat) BY <1>5, <1>6 DEF OpToRel
<1>10. QED BY <1>4, <1>8, <1>9

\* F gives the sum of f over every subset of S.
IsTable(F, f, S) ==
    /\ F \in [SUBSET S -> Int]
    /\ F[{}] = 0
    /\ \A T \in SUBSET S : \A x \in T : F[T] = f[x] + F[T \ {x}]

\* Every finite set has such a table.
LEMMA TableExists ==
    ASSUME NEW S, IsFiniteSet(S), NEW f, \A x \in S : f[x] \in Int
    PROVE  \E F : IsTable(F, f, S)
<1> DEFINE D == {T \in SUBSET S : \E F : IsTable(F, f, T)}
<1>1. {} \in D
  <2>1. IsTable([T \in SUBSET {} |-> 0], f, {}) BY DEF IsTable
  <2>2. QED BY <2>1
<1>2. ASSUME NEW T \in SUBSET S, NEW y \in S \ T, T \in D
      PROVE  T \cup {y} \in D
  <2>1. PICK F : IsTable(F, f, T) BY <1>2
  <2> DEFINE U == T \cup {y}
             G == [V \in SUBSET U |-> IF y \in V THEN f[y] + F[V \ {y}] ELSE F[V]]
  <2>2. \A V \in SUBSET U : V \ {y} \in SUBSET T OBVIOUS
  <2>3. \A V \in SUBSET T : F[V] \in Int BY <2>1 DEF IsTable
  <2>4. f[y] \in Int OBVIOUS
  <2>5. G \in [SUBSET U -> Int]
    <3>1. ASSUME NEW V \in SUBSET U PROVE (IF y \in V THEN f[y] + F[V \ {y}] ELSE F[V]) \in Int
      <4>1. CASE y \in V BY <4>1, <2>2, <2>3, <2>4
      <4>2. CASE y \notin V
        <5>1. V \in SUBSET T BY <4>2
        <5>2. QED BY <4>2, <5>1, <2>3
      <4>3. QED BY <4>1, <4>2
    <3>2. QED BY <3>1
  <2>6. G[{}] = 0 BY <2>1 DEF IsTable
  <2>7. ASSUME NEW V \in SUBSET U, NEW x \in V PROVE G[V] = f[x] + G[V \ {x}]
    <3>0. V \ {x} \in SUBSET U OBVIOUS
    <3>1. CASE x = y
      <4>1. G[V \ {x}] = F[V \ {y}] BY <3>1, <3>0
      <4>2. G[V] = f[y] + F[V \ {y}] BY <3>1
      <4>3. QED BY <4>1, <4>2, <3>1
    <3>2. CASE x # y /\ y \in V
      <4>1. G[V] = f[y] + F[V \ {y}] BY <3>2
      <4>2. G[V \ {x}] = f[y] + F[(V \ {x}) \ {y}] BY <3>2, <3>0
      <4>3. V \ {y} \in SUBSET T /\ x \in V \ {y} BY <3>2
      <4>4. F[V \ {y}] = f[x] + F[(V \ {y}) \ {x}] BY <4>3, <2>1 DEF IsTable
      <4>5. (V \ {y}) \ {x} = (V \ {x}) \ {y} OBVIOUS
      <4>6. f[x] \in Int /\ F[(V \ {x}) \ {y}] \in Int
        <5>1. (V \ {x}) \ {y} \in SUBSET T OBVIOUS
        <5>2. x \in S OBVIOUS
        <5>3. QED BY <5>1, <5>2, <2>3
      <4>7. F[V \ {y}] = f[x] + F[(V \ {x}) \ {y}] BY <4>4, <4>5
      <4>8. \A i, j, k \in Int : i + (j + k) = j + (i + k) OBVIOUS
      <4> HIDE DEF G
      <4>9. f[y] + (f[x] + F[(V \ {x}) \ {y}]) = f[x] + (f[y] + F[(V \ {x}) \ {y}])
        BY <4>6, <4>8, <2>4
      <4>10. QED BY <4>1, <4>2, <4>7, <4>9
    <3>3. CASE y \notin V
      <4>1. V \in SUBSET T BY <3>3
      <4>2. G[V] = F[V] /\ G[V \ {x}] = F[V \ {x}] BY <3>3, <3>0
      <4>3. F[V] = f[x] + F[V \ {x}] BY <4>1, <2>1 DEF IsTable
      <4>4. QED BY <4>2, <4>3
    <3>4. QED BY <3>1, <3>2, <3>3
  <2>8. IsTable(G, f, U)
    <3> HIDE DEF G, U
    <3>1. QED BY <2>5, <2>6, <2>7 DEF IsTable
  <2>9. U \in SUBSET S OBVIOUS
  <2>10. QED BY <2>8, <2>9
<1>3. S \in D
  <2>1. ASSUME NEW T \in SUBSET S, \A U \in SUBSET T : U # T => U \in D PROVE T \in D
    <3>1. CASE T = {} BY <3>1, <1>1
    <3>2. CASE T # {}
      <4>1. PICK y : y \in T BY <3>2
      <4>2. T \ {y} \in SUBSET S /\ y \in S \ (T \ {y}) BY <4>1
      <4>3. T \ {y} \in D BY <2>1, <4>1
      <4> HIDE DEF D
      <4>4. (T \ {y}) \cup {y} \in D BY <4>2, <4>3, <1>2
      <4>5. (T \ {y}) \cup {y} = T BY <4>1
      <4>6. QED BY <4>4, <4>5
    <3>3. QED BY <3>1, <3>2
  <2> HIDE DEF D
  <2>2. QED BY <2>1, SubsetInduction
<1>4. QED BY <1>3

\* The sum is what any table says.
LEMMA SumIsTable ==
    ASSUME NEW S, IsFiniteSet(S), NEW f, \A x \in S : f[x] \in Int, NEW F, IsTable(F, f, S)
    PROVE  SumFunctionOnSet(f, S) = F[S]
<1> DEFINE Step(g) == [s \in SUBSET S |->
                         IF s = {} THEN 0
                         ELSE f[CHOOSE x \in s : TRUE] + g[s \ {CHOOSE x \in s : TRUE}]]
           G == CHOOSE g : g = Step(g)
<1>1. F = Step(F)
  <2>1. ASSUME NEW s \in SUBSET S
        PROVE  F[s] = IF s = {} THEN 0
                      ELSE f[CHOOSE x \in s : TRUE] + F[s \ {CHOOSE x \in s : TRUE}]
    <3>1. s # {} => (CHOOSE x \in s : TRUE) \in s OBVIOUS
    <3>2. QED BY <3>1 DEF IsTable
  <2>2. F = [s \in SUBSET S |-> F[s]] BY DEF IsTable
  <2>3. QED BY <2>1, <2>2
<1>2. G = Step(G)
  <2> HIDE DEF Step
  <2>1. \E g : g = Step(g) BY <1>1
  <2>2. QED BY <2>1
<1>3. SumFunctionOnSet(f, S) = G[S]
  BY DEF SumFunctionOnSet, FoldFunctionOnSet, MapThenFoldSet
<1> HIDE DEF G
<1> DEFINE D == {T \in SUBSET S : G[T] = F[T]}
<1>4. ASSUME NEW T \in SUBSET S, \A U \in SUBSET T : U # T => U \in D PROVE T \in D
  <2>1. CASE T = {}
    <3>1. G[{}] = 0 BY <1>2
    <3>2. QED BY <2>1, <3>1 DEF IsTable
  <2>2. CASE T # {}
    <3> DEFINE c == CHOOSE x \in T : TRUE
    <3>1. c \in T BY <2>2
    <3>2. G[T] = f[c] + G[T \ {c}] BY <1>2, <2>2
    <3>3. T \ {c} \in SUBSET T /\ T \ {c} # T BY <3>1
    <3>4. G[T \ {c}] = F[T \ {c}] BY <3>3, <1>4
    <3>5. F[T] = f[c] + F[T \ {c}] BY <3>1 DEF IsTable
    <3> HIDE DEF c
    <3>6. QED BY <3>2, <3>4, <3>5
  <2>3. QED BY <2>1, <2>2
<1>5. S \in D
  <2> HIDE DEF D
  <2>1. QED BY <1>4, SubsetInduction
<1>6. QED BY <1>3, <1>5

\* The four facts about sums from which the others follow.
LEMMA SumBasics ==
    ASSUME NEW S, IsFiniteSet(S), NEW f, \A x \in S : f[x] \in Int
    PROVE  /\ SumFunctionOnSet(f, S) \in Int
           /\ S = {} => SumFunctionOnSet(f, S) = 0
           /\ \A x \in S : SumFunctionOnSet(f, S) = f[x] + SumFunctionOnSet(f, S \ {x})
           /\ \A g : (\A x \in S : g[x] = f[x]) => SumFunctionOnSet(g, S) = SumFunctionOnSet(f, S)
<1>1. PICK F : IsTable(F, f, S) BY TableExists
<1>2. SumFunctionOnSet(f, S) = F[S] BY <1>1, SumIsTable
<1>3. F[S] \in Int /\ F[{}] = 0 BY <1>1 DEF IsTable
<1>4. ASSUME NEW x \in S PROVE SumFunctionOnSet(f, S) = f[x] + SumFunctionOnSet(f, S \ {x})
  <2> DEFINE R == S \ {x}
             H == [T \in SUBSET R |-> F[T]]
  <2>1. SUBSET R \subseteq SUBSET S OBVIOUS
  <2>2. H \in [SUBSET R -> Int] BY <2>1, <1>1 DEF IsTable
  <2>3. H[{}] = 0 BY <1>3
  <2>4. ASSUME NEW T \in SUBSET R, NEW z \in T PROVE H[T] = f[z] + H[T \ {z}]
    <3>1. T \in SUBSET S /\ T \ {z} \in SUBSET R OBVIOUS
    <3>2. F[T] = f[z] + F[T \ {z}] BY <3>1, <1>1 DEF IsTable
    <3>3. QED BY <3>1, <3>2
  <2>5. IsTable(H, f, R)
    <3> HIDE DEF H, R
    <3>1. QED BY <2>2, <2>3, <2>4 DEF IsTable
  <2>6. IsFiniteSet(R) BY FS_RemoveElement
  <2>7. \A z \in R : f[z] \in Int OBVIOUS
  <2>8. H[R] = F[R] OBVIOUS
  <2>9. SumFunctionOnSet(f, R) = H[R]
    <3> HIDE DEF H, R
    <3>1. QED BY <2>5, <2>6, <2>7, SumIsTable
  <2>10. F[S] = f[x] + F[R] BY <1>1 DEF IsTable
  <2>11. QED BY <1>2, <2>8, <2>9, <2>10
<1>5. ASSUME NEW g, \A x \in S : g[x] = f[x]
      PROVE  SumFunctionOnSet(g, S) = SumFunctionOnSet(f, S)
  <2>1. IsTable(F, g, S) BY <1>1, <1>5 DEF IsTable
  <2>2. \A x \in S : g[x] \in Int BY <1>5
  <2>3. QED BY <1>2, <2>1, <2>2, SumIsTable
<1>6. QED BY <1>2, <1>3, <1>4, <1>5

\* A sum of natural numbers is one, and at least each of them.
LEMMA SumNat ==
    ASSUME NEW S, IsFiniteSet(S), NEW f, \A x \in S : f[x] \in Nat
    PROVE  /\ SumFunctionOnSet(f, S) \in Nat
           /\ \A x \in S : f[x] <= SumFunctionOnSet(f, S)
<1> DEFINE D == {T \in SUBSET S : SumFunctionOnSet(f, T) \in Nat}
<1>1. ASSUME NEW T \in SUBSET S, \A U \in SUBSET T : U # T => U \in D PROVE T \in D
  <2>1. IsFiniteSet(T) BY FS_Subset
  <2>2. \A x \in T : f[x] \in Int OBVIOUS
  <2>3. CASE T = {} BY <2>1, <2>2, <2>3, SumBasics
  <2>4. CASE T # {}
    <3>1. PICK x : x \in T BY <2>4
    <3>2. SumFunctionOnSet(f, T) = f[x] + SumFunctionOnSet(f, T \ {x}) BY <2>1, <2>2, <3>1, SumBasics
    <3>3. T \ {x} \in D BY <1>1, <3>1
    <3>4. f[x] \in Nat BY <3>1
    <3>5. QED BY <3>2, <3>3, <3>4
  <2>5. QED BY <2>3, <2>4
<1>2. \A T \in SUBSET S : T \in D
  <2> HIDE DEF D
  <2>1. QED BY <1>1, SubsetInduction
<1>3. ASSUME NEW x \in S PROVE f[x] <= SumFunctionOnSet(f, S)
  <2>1. SumFunctionOnSet(f, S) = f[x] + SumFunctionOnSet(f, S \ {x})
    <3>1. \A z \in S : f[z] \in Int OBVIOUS
    <3>2. QED BY <3>1, SumBasics
  <2>2. SumFunctionOnSet(f, S \ {x}) \in Nat BY <1>2
  <2>3. f[x] \in Nat OBVIOUS
  <2>4. QED BY <2>1, <2>2, <2>3
<1>4. QED BY <1>2, <1>3

\* Nothing adds up to nothing.
LEMMA SumOfZeros ==
    ASSUME NEW S, IsFiniteSet(S), NEW f, \A x \in S : f[x] = 0
    PROVE  SumFunctionOnSet(f, S) = 0
<1> DEFINE F == [T \in SUBSET S |-> 0]
<1>1. IsTable(F, f, S)
  <2>1. F \in [SUBSET S -> Int] /\ F[{}] = 0 OBVIOUS
  <2>2. ASSUME NEW T \in SUBSET S, NEW x \in T PROVE F[T] = f[x] + F[T \ {x}]
    <3>1. T \ {x} \in SUBSET S /\ f[x] = 0 OBVIOUS
    <3>2. QED BY <3>1
  <2> HIDE DEF F
  <2>3. QED BY <2>1, <2>2 DEF IsTable
<1>2. F[S] = 0 OBVIOUS
<1>3. \A x \in S : f[x] \in Int OBVIOUS
<1> HIDE DEF F
<1>4. QED BY <1>1, <1>2, <1>3, SumIsTable

\* Two functions that differ at most at x.
LEMMA SumChange ==
    ASSUME NEW S, IsFiniteSet(S), NEW f, \A z \in S : f[z] \in Int, NEW g, NEW x \in S,
           g[x] \in Int, \A z \in S : z # x => g[z] = f[z]
    PROVE  SumFunctionOnSet(g, S) = SumFunctionOnSet(f, S) - f[x] + g[x]
<1> DEFINE R == S \ {x}
<1>1. IsFiniteSet(R) BY FS_RemoveElement
<1>2. \A z \in S : g[z] \in Int OBVIOUS
<1>3. \A z \in R : g[z] = f[z] /\ f[z] \in Int OBVIOUS
<1>4. SumFunctionOnSet(g, S) = g[x] + SumFunctionOnSet(g, R) BY <1>2, SumBasics
<1>5. SumFunctionOnSet(f, S) = f[x] + SumFunctionOnSet(f, R) BY SumBasics
<1> HIDE DEF R
<1>6. SumFunctionOnSet(g, R) = SumFunctionOnSet(f, R) BY <1>1, <1>3, SumBasics
<1>7. SumFunctionOnSet(f, R) \in Int BY <1>1, <1>3, SumBasics
<1>8. f[x] \in Int OBVIOUS
<1>9. QED BY <1>4, <1>5, <1>6, <1>7, <1>8

\* Adding d to one value.
LEMMA SumBump ==
    ASSUME NEW S, IsFiniteSet(S), NEW f, \A z \in S : f[z] \in Int, NEW x \in S, NEW d \in Int,
           NEW g, g[x] = f[x] + d, \A z \in S : z # x => g[z] = f[z]
    PROVE  SumFunctionOnSet(g, S) = SumFunctionOnSet(f, S) + d
<1>1. g[x] \in Int /\ f[x] \in Int OBVIOUS
<1>2. SumFunctionOnSet(f, S) \in Int BY SumBasics
<1>3. SumFunctionOnSet(g, S) = SumFunctionOnSet(f, S) - f[x] + g[x] BY <1>1, SumChange
<1>4. QED BY <1>1, <1>2, <1>3

\* Adding an element to the set.
LEMMA SumInsert ==
    ASSUME NEW S, IsFiniteSet(S), NEW f, NEW x, x \notin S, \A z \in S \cup {x} : f[z] \in Int
    PROVE  SumFunctionOnSet(f, S \cup {x}) = f[x] + SumFunctionOnSet(f, S)
<1>1. IsFiniteSet(S \cup {x}) BY FS_AddElement
<1>2. (S \cup {x}) \ {x} = S OBVIOUS
<1>3. \A z \in S \cup {x} : SumFunctionOnSet(f, S \cup {x}) = f[z] + SumFunctionOnSet(f, (S \cup {x}) \ {z})
  BY <1>1, SumBasics
<1>4. QED BY <1>2, <1>3

\* The sum over one element.
LEMMA SumSingle ==
    ASSUME NEW f, NEW x, f[x] \in Int
    PROVE  SumFunctionOnSet(f, {x}) = f[x]
<1>1. IsFiniteSet({x}) /\ IsFiniteSet({}) BY FS_Singleton, FS_EmptySet
<1>2. SumFunctionOnSet(f, {x}) = f[x] + SumFunctionOnSet(f, {x} \ {x}) BY <1>1, SumBasics
<1>3. SumFunctionOnSet(f, {}) = 0
  <2>1. \A z \in {} : f[z] \in Int OBVIOUS
  <2>2. QED BY <1>1, <2>1, SumBasics
<1>4. {x} \ {x} = {} OBVIOUS
<1>5. QED BY <1>2, <1>3, <1>4

\* A sum splits along a subset.
LEMMA SumSplit ==
    ASSUME NEW S, IsFiniteSet(S), NEW f, \A z \in S : f[z] \in Int, NEW T \in SUBSET S
    PROVE  SumFunctionOnSet(f, S) = SumFunctionOnSet(f, T) + SumFunctionOnSet(f, S \ T)
<1> DEFINE Sum(U) == SumFunctionOnSet(f, U)
           D == {U \in SUBSET S : \A V \in SUBSET U : Sum(U) = Sum(V) + Sum(U \ V)}
<1>1. ASSUME NEW U \in SUBSET S PROVE IsFiniteSet(U) /\ (\A z \in U : f[z] \in Int) BY FS_Subset
<1>2. ASSUME NEW U \in SUBSET S
      PROVE  /\ Sum(U) \in Int
             /\ U = {} => Sum(U) = 0
             /\ \A x \in U : Sum(U) = f[x] + Sum(U \ {x})
  BY <1>1, SumBasics
<1> HIDE DEF Sum
<1>3. ASSUME NEW U \in SUBSET S, \A W \in SUBSET U : W # U => W \in D,
             NEW V \in SUBSET U
      PROVE  Sum(U) = Sum(V) + Sum(U \ V)
  <2>1. CASE V = {}
    <3>1. U \ V = U BY <2>1
    <3>2. Sum(V) = 0 /\ Sum(U) \in Int BY <2>1, <1>2
    <3>3. Sum(U \ V) = Sum(U) BY <3>1, Zenon
    <3>4. QED BY <3>2, <3>3
  <2>2. CASE V # {}
    <3>1. PICK x : x \in V BY <2>2
    <3>2. U \ {x} \in D BY <1>3, <3>1
    <3>3. V \ {x} \in SUBSET (U \ {x}) OBVIOUS
    <3>4. (U \ {x}) \ (V \ {x}) = U \ V BY <3>1
    <3>5. Sum(U \ {x}) = Sum(V \ {x}) + Sum(U \ V) BY <3>2, <3>3, <3>4
    <3>6. Sum(U) = f[x] + Sum(U \ {x}) BY <3>1, <1>2
    <3>7. Sum(V) = f[x] + Sum(V \ {x})
      <4>1. V \in SUBSET S OBVIOUS
      <4>2. QED BY <4>1, <3>1, <1>2
    <3>8. f[x] \in Int /\ Sum(V \ {x}) \in Int /\ Sum(U \ V) \in Int
      <4>1. V \ {x} \in SUBSET S /\ U \ V \in SUBSET S /\ x \in S BY <3>1
      <4>2. QED BY <4>1, <1>2
    <3>9. QED BY <3>5, <3>6, <3>7, <3>8
  <2>3. QED BY <2>1, <2>2
<1>4. S \in D
  <2>1. \A U \in SUBSET S : (\A W \in SUBSET U : W # U => W \in D) => U \in D BY <1>3
  <2> HIDE DEF D
  <2>2. QED BY <2>1, SubsetInduction
<1>5. Sum(S) = Sum(T) + Sum(S \ T) BY <1>4
<1>6. QED BY <1>5 DEF Sum

\* Emptying the entries of T.
LEMMA SumCleared ==
    ASSUME NEW S, IsFiniteSet(S), NEW f, \A z \in S : f[z] \in Int, NEW T \in SUBSET S,
           NEW g, \A z \in S : g[z] = IF z \in T THEN 0 ELSE f[z]
    PROVE  SumFunctionOnSet(g, S) = SumFunctionOnSet(f, S) - SumFunctionOnSet(f, T)
<1>1. IsFiniteSet(T) /\ IsFiniteSet(S \ T) BY FS_Subset
<1>2. \A z \in S : g[z] \in Int OBVIOUS
<1>3. SumFunctionOnSet(f, S) = SumFunctionOnSet(f, T) + SumFunctionOnSet(f, S \ T) BY SumSplit
<1>4. SumFunctionOnSet(g, S) = SumFunctionOnSet(g, T) + SumFunctionOnSet(g, S \ T) BY <1>2, SumSplit
<1>5. SumFunctionOnSet(g, S \ T) = SumFunctionOnSet(f, S \ T)
  <2>1. \A z \in S \ T : f[z] \in Int /\ g[z] = f[z] OBVIOUS
  <2>2. QED BY <1>1, <2>1, SumBasics
<1>6. SumFunctionOnSet(g, T) = 0
  <2>1. \A z \in T : g[z] = 0 OBVIOUS
  <2>2. QED BY <1>1, <2>1, SumOfZeros
<1>7. SumFunctionOnSet(f, T) \in Int /\ SumFunctionOnSet(f, S \ T) \in Int
  <2>1. (\A z \in T : f[z] \in Int) /\ (\A z \in S \ T : f[z] \in Int) OBVIOUS
  <2>2. QED BY <1>1, <2>1, SumBasics
<1>8. QED BY <1>3, <1>4, <1>5, <1>6, <1>7

\* Sums are added entry by entry.
LEMMA SumPlus ==
    ASSUME NEW S, IsFiniteSet(S), NEW f, NEW g, NEW h,
           \A z \in S : f[z] \in Int /\ g[z] \in Int /\ h[z] = f[z] + g[z]
    PROVE  SumFunctionOnSet(h, S) = SumFunctionOnSet(f, S) + SumFunctionOnSet(g, S)
<1> DEFINE D == {T \in SUBSET S : SumFunctionOnSet(h, T) = SumFunctionOnSet(f, T) + SumFunctionOnSet(g, T)}
<1>1. ASSUME NEW T \in SUBSET S, \A U \in SUBSET T : U # T => U \in D PROVE T \in D
  <2>1. IsFiniteSet(T) /\ (\A z \in T : f[z] \in Int /\ g[z] \in Int /\ h[z] \in Int) BY FS_Subset
  <2>2. CASE T = {}
    <3>1. SumFunctionOnSet(f, T) = 0 /\ SumFunctionOnSet(g, T) = 0 /\ SumFunctionOnSet(h, T) = 0
      BY <2>1, <2>2, SumBasics
    <3>2. QED BY <3>1
  <2>3. CASE T # {}
    <3>1. PICK x : x \in T BY <2>3
    <3> DEFINE R == T \ {x}
    <3>2. /\ SumFunctionOnSet(f, T) = f[x] + SumFunctionOnSet(f, R)
          /\ SumFunctionOnSet(g, T) = g[x] + SumFunctionOnSet(g, R)
          /\ SumFunctionOnSet(h, T) = h[x] + SumFunctionOnSet(h, R)
      BY <2>1, <3>1, SumBasics
    <3>3. R \in D BY <1>1, <3>1
    <3>4. SumFunctionOnSet(h, R) = SumFunctionOnSet(f, R) + SumFunctionOnSet(g, R) BY <3>3
    <3>5. SumFunctionOnSet(f, R) \in Int /\ SumFunctionOnSet(g, R) \in Int
      <4>1. IsFiniteSet(R) /\ (\A z \in R : f[z] \in Int /\ g[z] \in Int) BY <2>1, FS_RemoveElement
      <4>2. QED BY <4>1, SumBasics
    <3>6. h[x] = f[x] + g[x] /\ f[x] \in Int /\ g[x] \in Int BY <3>1
    <3> HIDE DEF R
    <3>7. SumFunctionOnSet(h, T) = (f[x] + g[x]) + (SumFunctionOnSet(f, R) + SumFunctionOnSet(g, R))
      BY <3>2, <3>4, <3>6
    <3>8. SumFunctionOnSet(f, T) + SumFunctionOnSet(g, T)
            = (f[x] + SumFunctionOnSet(f, R)) + (g[x] + SumFunctionOnSet(g, R))
      BY <3>2
    <3>9. SumFunctionOnSet(h, T) = SumFunctionOnSet(f, T) + SumFunctionOnSet(g, T)
      BY <3>5, <3>6, <3>7, <3>8
    <3>10. QED BY <3>9
  <2>4. QED BY <2>2, <2>3
<1>2. S \in D
  <2> HIDE DEF D
  <2>1. QED BY <1>1, SubsetInduction
<1>3. QED BY <1>2

\* Multiplication over addition, and back.
LEMMA Distributes == \A c, i, j \in Int : c * (i + j) = c * i + c * j /\ (i + j) * c = i * c + j * c
OBVIOUS

\* A factor is taken out of a sum.
LEMMA SumScale ==
    ASSUME NEW S, IsFiniteSet(S), NEW f, NEW c \in Int, NEW h,
           \A z \in S : f[z] \in Int /\ h[z] = c * f[z]
    PROVE  SumFunctionOnSet(h, S) = c * SumFunctionOnSet(f, S)
<1> DEFINE D == {T \in SUBSET S : SumFunctionOnSet(h, T) = c * SumFunctionOnSet(f, T)}
<1>1. ASSUME NEW T \in SUBSET S, \A U \in SUBSET T : U # T => U \in D PROVE T \in D
  <2>1. IsFiniteSet(T) /\ (\A z \in T : f[z] \in Int /\ h[z] \in Int) BY FS_Subset
  <2>2. CASE T = {}
    <3>1. SumFunctionOnSet(f, T) = 0 /\ SumFunctionOnSet(h, T) = 0 BY <2>1, <2>2, SumBasics
    <3>2. c * 0 = 0 OBVIOUS
    <3>3. QED BY <3>1, <3>2
  <2>3. CASE T # {}
    <3>1. PICK x : x \in T BY <2>3
    <3> DEFINE R == T \ {x}
    <3>2. /\ SumFunctionOnSet(f, T) = f[x] + SumFunctionOnSet(f, R)
          /\ SumFunctionOnSet(h, T) = h[x] + SumFunctionOnSet(h, R)
      BY <2>1, <3>1, SumBasics
    <3>3. R \in D BY <1>1, <3>1
    <3>4. SumFunctionOnSet(h, R) = c * SumFunctionOnSet(f, R) BY <3>3
    <3>5. SumFunctionOnSet(f, R) \in Int
      <4>1. IsFiniteSet(R) /\ (\A z \in R : f[z] \in Int) BY <2>1, FS_RemoveElement
      <4>2. QED BY <4>1, SumBasics
    <3>6. h[x] = c * f[x] /\ f[x] \in Int BY <3>1
    <3> HIDE DEF R
    <3>7. c * (f[x] + SumFunctionOnSet(f, R)) = c * f[x] + c * SumFunctionOnSet(f, R)
      BY <3>5, <3>6, Distributes
    <3>8. SumFunctionOnSet(h, T) = c * SumFunctionOnSet(f, T) BY <3>2, <3>4, <3>6, <3>7
    <3>9. QED BY <3>8
  <2>4. QED BY <2>2, <2>3
<1>2. S \in D
  <2> HIDE DEF D
  <2>1. QED BY <1>1, SubsetInduction
<1>3. QED BY <1>2

\* A sum grows with its entries.
LEMMA SumGrows ==
    ASSUME NEW S, IsFiniteSet(S), NEW f, NEW g, \A z \in S : f[z] \in Int /\ g[z] \in Int /\ f[z] <= g[z]
    PROVE  SumFunctionOnSet(f, S) <= SumFunctionOnSet(g, S)
<1> DEFINE d == [z \in S |-> g[z] - f[z]]
<1>1. \A z \in S : d[z] \in Nat /\ d[z] \in Int /\ g[z] = f[z] + d[z] OBVIOUS
<1> HIDE DEF d
<1>2. SumFunctionOnSet(g, S) = SumFunctionOnSet(f, S) + SumFunctionOnSet(d, S) BY <1>1, SumPlus
<1>3. SumFunctionOnSet(d, S) \in Nat BY <1>1, SumNat
<1>4. SumFunctionOnSet(f, S) \in Int BY SumBasics
<1>5. QED BY <1>2, <1>3, <1>4

\* Sums by key: what the entries give to each key comes to the sum of the entries.
LEMMA SumByKey ==
    ASSUME NEW S, IsFiniteSet(S), NEW f, \A z \in S : f[z] \in Int,
           NEW U, IsFiniteSet(U), NEW key, \A z \in S : key[z] \in U,
           NEW part, \A u \in U : part[u] \subseteq S /\ \A z \in S : z \in part[u] <=> key[z] = u,
           NEW g, \A u \in U : g[u] = SumFunctionOnSet(f, part[u])
    PROVE  SumFunctionOnSet(g, U) = SumFunctionOnSet(f, S)
<1> DEFINE Of(T) == {z \in S : key[z] \in T}
           D == {T \in SUBSET U : SumFunctionOnSet(g, T) = SumFunctionOnSet(f, Of(T))}
<1>1. \A T : Of(T) \in SUBSET S /\ IsFiniteSet(Of(T)) /\ SumFunctionOnSet(f, Of(T)) \in Int
  <2>1. ASSUME NEW T PROVE IsFiniteSet(Of(T)) /\ \A z \in Of(T) : f[z] \in Int BY FS_Subset
  <2>2. ASSUME NEW T PROVE SumFunctionOnSet(f, Of(T)) \in Int
    <3>1. IsFiniteSet(Of(T)) /\ \A z \in Of(T) : f[z] \in Int BY <2>1
    <3> HIDE DEF Of
    <3>2. QED BY <3>1, SumBasics
  <2>3. QED BY <2>1, <2>2
<1>2. \A u \in U : g[u] \in Int
  <2>1. ASSUME NEW u \in U PROVE g[u] \in Int
    <3>1. Of({u}) = part[u] OBVIOUS
    <3>2. g[u] = SumFunctionOnSet(f, Of({u})) BY <3>1
    <3> HIDE DEF Of
    <3>3. QED BY <1>1, <3>2
  <2>2. QED BY <2>1
<1>3. ASSUME NEW T \in SUBSET U, \A V \in SUBSET T : V # T => V \in D PROVE T \in D
  <2>0. IsFiniteSet(T) BY FS_Subset
  <2>1. CASE T = {}
    <3>1. Of(T) = {} BY <2>1
    <3>2. SumFunctionOnSet(g, T) = 0 /\ SumFunctionOnSet(f, {}) = 0 BY <2>0, <2>1, SumOfZeros, FS_EmptySet
    <3>3. QED BY <3>1, <3>2
  <2>2. CASE T # {}
    <3>1. PICK u \in T : TRUE BY <2>2
    <3> DEFINE V == T \ {u}
    <3>2. V \in D BY <1>3, <3>1
    <3>3. SumFunctionOnSet(g, T) = g[u] + SumFunctionOnSet(g, V) BY <1>2, <2>0, <3>1, SumBasics
    <3>4. SumFunctionOnSet(f, Of(T)) = SumFunctionOnSet(f, Of({u})) + SumFunctionOnSet(f, Of(V))
      <4>1. Of({u}) \in SUBSET Of(T) /\ Of(T) \ Of({u}) = Of(V) BY <3>1
      <4>2. IsFiniteSet(Of(T)) /\ \A z \in Of(T) : f[z] \in Int BY <1>1
      <4> DEFINE P == Of(T)
                 Q == Of({u})
      <4>3. Q \in SUBSET P /\ P \ Q = Of(V) /\ IsFiniteSet(P) /\ \A z \in P : f[z] \in Int BY <4>1, <4>2
      <4> HIDE DEF Of, V, P, Q
      <4>4. SumFunctionOnSet(f, P) = SumFunctionOnSet(f, Q) + SumFunctionOnSet(f, P \ Q) BY <4>3, SumSplit
      <4>5. QED BY <4>3, <4>4 DEF P, Q
    <3>5. Of({u}) = part[u] BY <3>1
    <3>6. g[u] = SumFunctionOnSet(f, Of({u})) BY <3>1, <3>5
    <3>7. SumFunctionOnSet(g, V) = SumFunctionOnSet(f, Of(V)) BY <3>2
    <3> HIDE DEF V, Of
    <3>8. QED BY <3>3, <3>4, <3>6, <3>7
  <2>3. QED BY <2>1, <2>2
<1>4. U \in D
  <2> HIDE DEF D
  <2>1. QED BY <1>3, SubsetInduction
<1>5. Of(U) = S OBVIOUS
<1>6. QED BY <1>4, <1>5

----
(* Folds of other operators.  The operator is given by its table on a set  *)
(* that it does not leave, or a set for each part of what is folded.       *)

\* A nonempty finite set of numbers has a greatest element.
LEMMA TopExists ==
    ASSUME NEW S \in SUBSET Int, IsFiniteSet(S)
    PROVE  \A T \in SUBSET S : T # {} => \E x \in T : \A y \in T : x >= y
<1> DEFINE D == {T \in SUBSET S : T # {} => \E x \in T : \A y \in T : x >= y}
<1>1. ASSUME NEW T \in SUBSET S, \A U \in SUBSET T : U # T => U \in D PROVE T \in D
  <2> SUFFICES ASSUME T # {} PROVE \E x \in T : \A y \in T : x >= y OBVIOUS
  <2>1. PICK z \in T : TRUE OBVIOUS
  <2> DEFINE U == T \ {z}
  <2>2. U \in D BY <1>1, <2>1
  <2>3. T \subseteq Int OBVIOUS
  <2>4. CASE U = {} BY <2>1, <2>3, <2>4
  <2>5. CASE U # {}
    <3>1. PICK x \in U : \A y \in U : x >= y BY <2>2, <2>5
    <3>2. x \in Int /\ z \in Int BY <2>1, <2>3
    <3>3. CASE x >= z BY <3>1, <3>3
    <3>4. CASE z >= x
      <4>1. \A y \in U : z >= y BY <2>3, <3>1, <3>2, <3>4
      <4>2. QED BY <2>1, <3>2, <4>1
    <3>5. QED BY <3>2, <3>3, <3>4
  <2>6. QED BY <2>4, <2>5
<1>2. \A T \in SUBSET S : T \in D
  <2> HIDE DEF D
  <2>1. QED BY <1>1, SubsetInduction
<1>3. QED BY <1>2

\* F gives the fold of step over every subset T of S, within X[T].
IsFold(F, S, X, b, pick, step) ==
    /\ F = [T \in SUBSET S |-> F[T]]
    /\ \A T \in SUBSET S : F[T] \in X[T]
    /\ \A T \in SUBSET S : F[T] = IF T = {} THEN b ELSE step[pick[T]][F[T \ {pick[T]}]]

\* The recursive function behind a fold exists: it picks an element of each subset,
\* and applies that element's step to the fold of the others.
LEMMA FoldTableExists ==
    ASSUME NEW S, IsFiniteSet(S), NEW X, NEW b \in X[{}],
           NEW pick, \A T \in SUBSET S : T # {} => pick[T] \in T,
           NEW step, \A T \in SUBSET S : T # {} => \A x \in X[T \ {pick[T]}] : step[pick[T]][x] \in X[T]
    PROVE  \E F : IsFold(F, S, X, b, pick, step)
<1> DEFINE Good(F, T) == F[T] \in X[T] /\ F[T] = IF T = {} THEN b ELSE step[pick[T]][F[T \ {pick[T]}]]
           D == {n \in Nat : \E F : \A T \in SUBSET S : Cardinality(T) <= n => Good(F, T)}
<1>0. \A T \in SUBSET S : IsFiniteSet(T) /\ Cardinality(T) \in Nat BY FS_Subset, FS_CardinalityType
<1>1. 0 \in D
  <2> DEFINE F == [T \in SUBSET S |-> b]
  <2>1. \A T \in SUBSET S : Cardinality(T) <= 0 => T = {} BY <1>0, FS_EmptySet
  <2>2. \A T \in SUBSET S : Cardinality(T) <= 0 => Good(F, T) BY <2>1
  <2>3. QED BY <2>2
<1>2. ASSUME NEW n \in Nat, n \in D PROVE n + 1 \in D
  <2>1. PICK F : \A T \in SUBSET S : Cardinality(T) <= n => Good(F, T) BY <1>2
  <2> DEFINE G == [T \in SUBSET S |-> IF T = {} THEN b
                                      ELSE IF Cardinality(T) <= n THEN F[T] ELSE step[pick[T]][F[T \ {pick[T]}]]]
  <2>2. ASSUME NEW T \in SUBSET S, Cardinality(T) <= n PROVE G[T] = F[T]
    <3>1. T = {} => F[T] = b BY <2>1, <2>2
    <3>2. QED BY <2>2, <3>1
  <2>3. ASSUME NEW T \in SUBSET S, Cardinality(T) <= n + 1 PROVE Good(G, T)
    <3>1. CASE T = {} BY <3>1
    <3>2. CASE T # {}
      <4> DEFINE c == pick[T]
                 R == T \ {c}
      <4>1. c \in T /\ c \in S /\ R \in SUBSET S BY <3>2
      <4>2. Cardinality(R) <= n
        <5>1. Cardinality(R) = Cardinality(T) - 1 BY <1>0, <4>1, FS_RemoveElement
        <5>2. QED BY <1>0, <2>3, <5>1
      <4>3. G[R] = F[R] /\ F[R] \in X[R] BY <2>1, <2>2, <4>1, <4>2
      <4>4. G[T] = step[c][F[R]]
        <5>1. CASE Cardinality(T) <= n
          <6>1. Good(F, T) BY <2>1, <5>1
          <6>2. QED BY <3>2, <5>1, <6>1
        <5>2. CASE ~(Cardinality(T) <= n) BY <3>2, <5>2
        <5>3. QED BY <5>1, <5>2
      <4>5. step[c][F[R]] \in X[T] BY <3>2, <4>3
      <4> HIDE DEF G
      <4>6. QED BY <3>2, <4>3, <4>4, <4>5
    <3>3. QED BY <3>1, <3>2
  <2> HIDE DEF G, Good
  <2>4. n + 1 \in Nat OBVIOUS
  <2>5. QED BY <2>3, <2>4
<1>3. \A n \in Nat : n \in D
  <2> HIDE DEF D
  <2>1. QED BY <1>1, <1>2, NumberInduction
<1>4. Cardinality(S) \in D BY <1>0, <1>3
<1>5. PICK F : \A T \in SUBSET S : Cardinality(T) <= Cardinality(S) => Good(F, T) BY <1>4
<1>6. \A T \in SUBSET S : Cardinality(T) <= Cardinality(S) BY FS_Subset
<1>7. \A T \in SUBSET S : Good(F, T) BY <1>5, <1>6
<1> DEFINE H == [T \in SUBSET S |-> F[T]]
<1>8. \A T \in SUBSET S : H[T] = F[T] /\ (T # {} => H[T \ {pick[T]}] = F[T \ {pick[T]}]) OBVIOUS
<1>9. H = [T \in SUBSET S |-> H[T]] /\ \A T \in SUBSET S : H[T] \in X[T] BY <1>7, <1>8
<1> HIDE DEF H
<1>10. \A T \in SUBSET S : H[T] = IF T = {} THEN b ELSE step[pick[T]][H[T \ {pick[T]}]] BY <1>7, <1>8
<1>11. IsFold(H, S, X, b, pick, step) BY <1>9, <1>10 DEF IsFold
<1>12. QED BY <1>11

\* What a fold keeps from part to part, it has at the end.
LEMMA FoldStays ==
    ASSUME NEW S, IsFiniteSet(S), NEW X, NEW pick, \A T \in SUBSET S : T # {} => pick[T] \in T,
           NEW G, G[{}] \in X[{}],
           \A T \in SUBSET S : T # {} => (G[T \ {pick[T]}] \in X[T \ {pick[T]}] => G[T] \in X[T])
    PROVE  G[S] \in X[S]
<1> DEFINE D == {T \in SUBSET S : G[T] \in X[T]}
<1>1. ASSUME NEW T \in SUBSET S, \A U \in SUBSET T : U # T => U \in D PROVE T \in D
  <2>1. CASE T = {} BY <2>1
  <2>2. CASE T # {}
    <3>1. pick[T] \in T BY <2>2
    <3>2. T \ {pick[T]} \in D BY <1>1, <3>1
    <3>3. QED BY <2>2, <3>2
  <2>3. QED BY <2>1, <2>2
<1>2. S \in D
  <2> HIDE DEF D
  <2>1. QED BY <1>1, SubsetInduction
<1>3. QED BY <1>2

\* The positions of a list are a finite set, and each part of them has a last one.
LEMMA Positions ==
    ASSUME NEW n \in Nat
    PROVE  /\ IsFiniteSet(1..n)
           /\ \A T \in SUBSET (1..n) : T # {} => (CHOOSE x \in T : \A y \in T : x >= y) \in T
<1>1. IsFiniteSet(1..n) BY FS_Interval
<1>2. 1..n \in SUBSET Int OBVIOUS
<1>3. ASSUME NEW T \in SUBSET (1..n), T # {} PROVE (CHOOSE x \in T : \A y \in T : x >= y) \in T
  <2>1. \E x \in T : \A y \in T : x >= y BY <1>1, <1>2, <1>3, TopExists
  <2>2. QED BY <2>1
<1>4. QED BY <1>1, <1>3
====
