------------------------------ MODULE SumTheorems ------------------------------
(***************************************************************************)
(* Finite sums, for the theorems about sums of tickets, receipts, entries, *)
(* wages and downtimes: what SumFunctionOnSet and SumFunction of module    *)
(* Functions compute on a finite set of any size.                          *)
(*                                                                         *)
(* They are folds, and a fold is a CHOOSE of a function that is defined on *)
(* all subsets by its own values on smaller ones. Where a proof would go   *)
(* by induction it takes a least counterexample here: of the subsets of a  *)
(* finite set for which the law fails one has the fewest elements          *)
(* (LeastSubset), and the law holds for it after all, because it holds     *)
(* without the element chosen from it.                                     *)
(***************************************************************************)
EXTENDS Integers, FiniteSetsExt, FiniteSetTheorems, WellFoundedInduction, TLAPS

-----------------------------------------------------------------------------
(* Induction: a least counterexample.                                        *)

\* A set of naturals that is not empty has a least element.
LEMMA LeastNatural ==
    ASSUME NEW T, T \subseteq Nat, T # {}
    PROVE  \E n \in T : \A m \in T : n <= m
<1>. DEFINE Below == {p \in Nat \X Nat : p[1] < p[2]}
<1>1. IsWellFoundedOn(Below, Nat)
  BY NatLessThanWellFounded DEF OpToRel
<1>2. \E n \in T : \A m \in T : ~(<<m, n>> \in Below)
  <2>. HIDE DEF Below
  <2>. QED BY <1>1, WFMin
<1>3. PICK n \in T : \A m \in T : <<m, n>> \notin Below
  BY <1>2
<1>4. ASSUME NEW m \in T PROVE n <= m
  <2>1. n \in Nat /\ m \in Nat
    OBVIOUS
  <2>2. <<m, n>> \in Nat \X Nat
    BY <2>1
  <2>3. ~(m < n)
    BY <1>3, <2>2
  <2>. QED BY <2>1, <2>3
<1>. QED BY <1>4

\* Of some subsets of a finite set one has the fewest elements.
LEMMA LeastSubset ==
    ASSUME NEW S, IsFiniteSet(S), NEW B, B \subseteq SUBSET S, B # {}
    PROVE  \E t \in B : \A u \in B : Cardinality(t) <= Cardinality(u)
<1>. DEFINE Sizes == {Cardinality(t) : t \in B}
<1>1. \A t \in B : Cardinality(t) \in Nat
  BY FS_Subset, FS_CardinalityType
<1>2. Sizes \subseteq Nat /\ Sizes # {}
  BY <1>1
<1>3. PICK n \in Sizes : \A m \in Sizes : n <= m
  <2>. HIDE DEF Sizes
  <2>. QED BY <1>2, LeastNatural
<1>4. PICK t \in B : n = Cardinality(t)
  OBVIOUS
<1>. QED BY <1>3, <1>4

\* The set with the fewest elements keeps every smaller one out.
LEMMA FewerElements ==
    ASSUME NEW T, IsFiniteSet(T), NEW x \in T
    PROVE  /\ IsFiniteSet(T \ {x})
           /\ Cardinality(T \ {x}) \in Nat
           /\ ~(Cardinality(T) <= Cardinality(T \ {x}))
<1>1. IsFiniteSet(T \ {x}) /\ Cardinality(T \ {x}) = Cardinality(T) - 1
  BY FS_RemoveElement
<1>2. Cardinality(T) \in Nat /\ Cardinality(T \ {x}) \in Nat
  BY <1>1, FS_CardinalityType
<1>. QED BY <1>1, <1>2

-----------------------------------------------------------------------------
(* What is defined by recursion over the naturals.                           *)

\* The first m steps from x0.
IsRun(g, m, X, x0, S) ==
    /\ g \in [0 .. m -> X]
    /\ g[0] = x0
    /\ \A k \in 0 .. m : k # m => g[k + 1] = S[g[k]]

\* A step can be repeated any number of times.
LEMMA RunsExist ==
    ASSUME NEW X, NEW x0 \in X, NEW S \in [X -> X], NEW m \in Nat
    PROVE  \E g : IsRun(g, m, X, x0, S)
  <1> DEFINE T == {n \in Nat : ~ \E g : IsRun(g, n, X, x0, S)}
  <1> SUFFICES ASSUME T # {} PROVE FALSE
    OBVIOUS
  <1>1. PICK n \in T : \A k \in T : n <= k
    BY LeastNatural
  <1>2. n \in Nat /\ ~ \E g : IsRun(g, n, X, x0, S)
    OBVIOUS
  <1>3. CASE n = 0
    <2>1. IsRun([k \in 0 .. 0 |-> x0], 0, X, x0, S)
      BY DEF IsRun
    <2> QED BY <1>2, <1>3, <2>1
  <1>4. CASE n # 0
    <2>1. n - 1 \in Nat /\ n - 1 \notin T
      BY <1>1, <1>2, <1>4
    <2>2. PICK g : IsRun(g, n - 1, X, x0, S)
      BY <2>1
    <2> DEFINE h == [k \in 0 .. n |-> IF k = n THEN S[g[n - 1]] ELSE g[k]]
    <2>3. \A k \in 0 .. n : k # n => k \in 0 .. n - 1
      BY <1>2
    <2>4. g \in [0 .. n - 1 -> X] /\ g[0] = x0 /\ n - 1 \in 0 .. n - 1
      BY <2>1, <2>2 DEF IsRun
    <2>5. h \in [0 .. n -> X]
      BY <2>3, <2>4
    <2>6. h[0] = x0
      BY <1>2, <1>4, <2>4
    <2>7. ASSUME NEW k \in 0 .. n, k # n PROVE h[k + 1] = S[h[k]]
      <3>1. k \in Nat /\ k + 1 \in 0 .. n /\ k \in 0 .. n - 1
        BY <1>2, <2>7
      <3>2. h[k] = g[k]
        BY <2>7
      <3>3. CASE k + 1 = n
        <4>1. k = n - 1 /\ h[k + 1] = S[g[n - 1]]
          BY <1>2, <3>1, <3>3
        <4> QED BY <3>2, <4>1
      <3>4. CASE k + 1 # n
        <4>1. k # n - 1 /\ h[k + 1] = g[k + 1]
          BY <1>2, <3>1, <3>4
        <4>2. g[k + 1] = S[g[k]]
          BY <2>2, <3>1, <4>1 DEF IsRun
        <4> QED BY <3>2, <4>1, <4>2
      <3> QED BY <3>3, <3>4
    <2> HIDE DEF h
    <2> QED BY <1>2, <2>5, <2>6, <2>7 DEF IsRun
  <1> QED BY <1>3, <1>4

\* Two runs do the same as long as both go on.
LEMMA RunsAgree ==
    ASSUME NEW X, NEW x0 \in X, NEW S \in [X -> X], NEW m \in Nat, NEW n \in Nat,
           NEW g, IsRun(g, m, X, x0, S), NEW h, IsRun(h, n, X, x0, S),
           NEW k \in Nat, k <= m, k <= n
    PROVE  g[k] = h[k]
  <1> DEFINE T == {i \in Nat : i <= m /\ i <= n /\ g[i] # h[i]}
  <1> SUFFICES ASSUME T # {} PROVE FALSE
    OBVIOUS
  <1>1. PICK i \in T : \A j \in T : i <= j
    BY LeastNatural
  <1>2. i \in Nat /\ i <= m /\ i <= n /\ g[i] # h[i]
    OBVIOUS
  <1>3. i # 0
    BY <1>2 DEF IsRun
  <1>4. PICK j \in Nat : i = j + 1
    <2>1. i - 1 \in Nat /\ i = (i - 1) + 1
      BY <1>2, <1>3
    <2> QED BY <2>1
  <1>5. j \notin T
    BY <1>1, <1>2, <1>4
  <1>6. g[j] = h[j]
    BY <1>2, <1>4, <1>5
  <1>7. j \in 0 .. m /\ j # m /\ j \in 0 .. n /\ j # n
    BY <1>2, <1>4
  <1>8. g[j + 1] = S[g[j]] /\ h[j + 1] = S[h[j]]
    BY <1>7 DEF IsRun
  <1> QED BY <1>2, <1>4, <1>6, <1>8

\* And so for ever.
LEMMA StepsExist ==
    ASSUME NEW X, NEW x0 \in X, NEW S \in [X -> X]
    PROVE  \E f \in [Nat -> X] : f[0] = x0 /\ \A n \in Nat : f[n + 1] = S[f[n]]
  <1> DEFINE g(n) == CHOOSE r : IsRun(r, n, X, x0, S)
             f == [n \in Nat |-> g(n)[n]]
  <1>1. ASSUME NEW n \in Nat PROVE IsRun(g(n), n, X, x0, S)
    <2>1. \E r : IsRun(r, n, X, x0, S)
      BY RunsExist
    <2> QED BY <2>1
  <1> HIDE DEF g
  <1>2. f \in [Nat -> X]
    <2>1. ASSUME NEW n \in Nat PROVE g(n)[n] \in X
      <3>1. g(n) \in [0 .. n -> X] /\ n \in 0 .. n
        BY <1>1 DEF IsRun
      <3> QED BY <3>1
    <2> QED BY <2>1
  <1>3. f[0] = x0
    BY <1>1 DEF IsRun
  <1>4. ASSUME NEW n \in Nat PROVE f[n + 1] = S[f[n]]
    <2>1. n + 1 \in Nat /\ n \in 0 .. n + 1 /\ n # n + 1 /\ n <= n /\ n <= n + 1
      OBVIOUS
    <2>2. g(n + 1)[n + 1] = S[g(n + 1)[n]]
      BY <1>1, <2>1 DEF IsRun
    <2>3. g(n + 1)[n] = g(n)[n]
      <3>1. IsRun(g(n), n, X, x0, S) /\ IsRun(g(n + 1), n + 1, X, x0, S)
        BY <1>1, <2>1
      <3> QED BY <2>1, <3>1, RunsAgree
    <2> QED BY <2>1, <2>2, <2>3
  <1> HIDE DEF f
  <1> QED BY <1>2, <1>3, <1>4

\* A start and a step that can be repeated, and what comes of them.
CanIterate(X, x0, S)     == x0 \in X /\ S \in [X -> X]
IsIteration(f, X, x0, S) == f \in [Nat -> X] /\ f[0] = x0 /\ \A n \in Nat : f[n + 1] = S[f[n]]

\* What is defined by recursion over the naturals exists: the lists that the
\* models build level by level, or row by row, are what they are written to be.
THEOREM Iterates ==
    ASSUME NEW X, NEW x0, NEW S, CanIterate(X, x0, S)
    PROVE  \E f : IsIteration(f, X, x0, S)
  BY StepsExist DEF CanIterate, IsIteration

\* A set that gets smaller with every step, until it is empty, is empty after
\* as many steps as it may have elements.
THEOREM Vanishes ==
    ASSUME NEW P, IsFiniteSet(P), NEW U \in [Nat -> SUBSET P],
           \A n \in Nat : U[n + 1] \subseteq U[n] /\ (U[n] # {} => U[n + 1] # U[n])
    PROVE  Cardinality(P) \in Nat /\ U[Cardinality(P)] = {}
  <1> DEFINE N == Cardinality(P)
             size(n) == Cardinality(U[n])
             T == {k \in Nat : U[k] # {} /\ ~(size(k) <= N - k)}
  <1>1. N \in Nat
    BY FS_CardinalityType
  <1>2. ASSUME NEW n \in Nat
        PROVE  IsFiniteSet(U[n]) /\ size(n) \in Nat /\ size(n) <= N
    <2>1. U[n] \subseteq P
      OBVIOUS
    <2> QED BY <2>1, FS_Subset, FS_CardinalityType
  <1>3. T = {}
    <2> SUFFICES ASSUME T # {} PROVE FALSE
      OBVIOUS
    <2>1. PICK k \in T : \A j \in T : k <= j
      BY LeastNatural
    <2>2. k \in Nat /\ U[k] # {} /\ ~(size(k) <= N - k)
      OBVIOUS
    <2>3. k # 0
      BY <1>1, <1>2, <2>2
    <2>4. PICK j \in Nat : k = j + 1
      <3>1. k - 1 \in Nat /\ k = (k - 1) + 1
        BY <2>2, <2>3
      <3> QED BY <3>1
    <2>5. U[k] \subseteq U[j] /\ U[j] # {} /\ U[k] # U[j]
      BY <2>2, <2>4
    <2>6. size(j) <= N - j
      BY <2>1, <2>4, <2>5
    <2>7. size(k) < size(j)
      <3>1. IsFiniteSet(U[j]) /\ size(j) \in Nat /\ size(k) \in Nat
        BY <1>2, <2>2
      <3> QED BY <2>5, <3>1, FS_Subset
    <2>8. size(j) \in Nat /\ size(k) \in Nat
      BY <1>2, <2>2
    <2> HIDE DEF size, N
    <2> QED BY <1>1, <2>2, <2>4, <2>6, <2>7, <2>8
  <1>4. U[N] = {} \/ size(N) <= N - N
    BY <1>1, <1>3
  <1>5. IsFiniteSet(U[N]) /\ size(N) \in Nat
    BY <1>1, <1>2
  <1>6. size(N) <= N - N => U[N] = {}
    <2>1. size(N) <= N - N => size(N) = 0
      <3> HIDE DEF N, size
      <3> QED BY <1>1, <1>5
    <2> QED BY <1>5, <2>1, FS_EmptySet
  <1> QED BY <1>1, <1>4, <1>6

-----------------------------------------------------------------------------
(* What SumFunctionOnSet computes.                                           *)

ChosenFrom(s) == CHOOSE x \in s : TRUE

PartialTally(f, s, g) == IF s = {} THEN 0 ELSE f[ChosenFrom(s)] + g[s \ {ChosenFrom(s)}]

\* The partial sums of f over the subsets of S.
ArePartialSums(g, f, S) == g = [s \in SUBSET S |-> PartialTally(f, s, g)]

\* The element the fold takes first.
LEMMA ChosenIsMember ==
    ASSUME NEW s, s # {}
    PROVE  ChosenFrom(s) \in s
BY DEF ChosenFrom

\* A sum is one of the partial sums, whichever function of them is chosen.
LEMMA SumIsPartialSum ==
    ASSUME NEW f, NEW S
    PROVE  SumFunctionOnSet(f, S) = (CHOOSE g : ArePartialSums(g, f, S))[S]
BY DEF SumFunctionOnSet, FoldFunctionOnSet, MapThenFoldSet, ArePartialSums, PartialTally, ChosenFrom

\* What partial sums are, set by set.
LEMMA PartialSums ==
    ASSUME NEW f, NEW S, NEW g, ArePartialSums(g, f, S)
    PROVE  /\ g[{}] = 0
           /\ \A s \in SUBSET S : s # {} => g[s] = f[ChosenFrom(s)] + g[s \ {ChosenFrom(s)}]
BY DEF ArePartialSums, PartialTally

LEMMA LastPartialSum ==
    ASSUME NEW f, NEW S, NEW g, ArePartialSums(g, f, S), S # {}
    PROVE  g[S] = f[ChosenFrom(S)] + g[S \ {ChosenFrom(S)}]
<1>1. g = [s \in SUBSET S |-> PartialTally(f, s, g)] /\ S \in SUBSET S
  BY DEF ArePartialSums
<1>2. g[S] = PartialTally(f, S, g)
  BY <1>1
<1>. QED BY <1>2 DEF PartialTally

\* Two readings of the partial sums agree on a set they both know.
LEMMA PartialSumsAgree ==
    ASSUME NEW f, NEW S, IsFiniteSet(S), NEW S1, NEW S2, S \subseteq S1, S \subseteq S2,
           NEW g, ArePartialSums(g, f, S1), NEW h, ArePartialSums(h, f, S2)
    PROVE  g[S] = h[S]
<1>. DEFINE B == {s \in SUBSET S : g[s] # h[s]}
<1>. SUFFICES ASSUME B # {} PROVE FALSE
  OBVIOUS
<1>1. PICK t \in B : \A u \in B : Cardinality(t) <= Cardinality(u)
  <2>1. B \subseteq SUBSET S
    OBVIOUS
  <2>. HIDE DEF B
  <2>. QED BY <2>1, LeastSubset
<1>2. t # {}
  BY PartialSums
<1>3. IsFiniteSet(t)
  BY FS_Subset
<1>4. ChosenFrom(t) \in t
  BY <1>2, ChosenIsMember
<1>5. t \ {ChosenFrom(t)} \notin B
  BY <1>1, <1>3, <1>4, FewerElements
<1>6. g[t \ {ChosenFrom(t)}] = h[t \ {ChosenFrom(t)}]
  BY <1>5
<1>7. g[t] = f[ChosenFrom(t)] + g[t \ {ChosenFrom(t)}] /\ h[t] = f[ChosenFrom(t)] + h[t \ {ChosenFrom(t)}]
  <2>1. t \in SUBSET S1 /\ t \in SUBSET S2
    OBVIOUS
  <2>2. /\ \A s \in SUBSET S1 : s # {} => g[s] = f[ChosenFrom(s)] + g[s \ {ChosenFrom(s)}]
        /\ \A s \in SUBSET S2 : s # {} => h[s] = f[ChosenFrom(s)] + h[s \ {ChosenFrom(s)}]
    BY PartialSums
  <2>. QED BY <1>2, <2>1, <2>2
<1>. QED BY <1>6, <1>7

\* A finite set has partial sums.
LEMMA PartialSumsExist ==
    ASSUME NEW f, NEW S, IsFiniteSet(S)
    PROVE  \E g : ArePartialSums(g, f, S)
<1>. DEFINE B == {s \in SUBSET S : ~ \E g : ArePartialSums(g, f, s)}
<1>. SUFFICES ASSUME B # {} PROVE FALSE
  OBVIOUS
<1>1. PICK t \in B : \A u \in B : Cardinality(t) <= Cardinality(u)
  <2>1. B \subseteq SUBSET S
    OBVIOUS
  <2>. HIDE DEF B
  <2>. QED BY <2>1, LeastSubset
<1>2. t \in SUBSET S /\ IsFiniteSet(t) /\ ~ \E g : ArePartialSums(g, f, t)
  BY FS_Subset
<1>3. ASSUME NEW x \in t PROVE \E g : ArePartialSums(g, f, t \ {x})
  <2>1. t \ {x} \notin B
    BY <1>1, <1>2, FewerElements
  <2>. QED BY <1>2, <2>1
<1>. DEFINE h(s) == (CHOOSE g : ArePartialSums(g, f, s))[s]
            k == [s \in SUBSET t |-> IF s = t THEN PartialTally(f, t, [r \in SUBSET t |-> h(r)]) ELSE h(s)]
<1>4. ASSUME NEW s \in SUBSET t, s # t PROVE \E g : ArePartialSums(g, f, s)
  <2>1. PICK x \in t : x \notin s
    BY <1>4
  <2>2. PICK g : ArePartialSums(g, f, t \ {x})
    BY <1>3
  <2>3. s \in SUBSET (t \ {x})
    BY <2>1
  <2>4. ArePartialSums([r \in SUBSET s |-> g[r]], f, s)
    <3>1. ASSUME NEW r \in SUBSET s
          PROVE  g[r] = PartialTally(f, r, [q \in SUBSET s |-> g[q]])
      <4>1. r \in SUBSET (t \ {x})
        BY <2>3
      <4>2. g[r] = PartialTally(f, r, g)
        BY <2>2, <4>1 DEF ArePartialSums
      <4>3. r \ {ChosenFrom(r)} \in SUBSET s
        OBVIOUS
      <4>. QED BY <4>2, <4>3 DEF PartialTally
    <3>. QED BY <3>1 DEF ArePartialSums
  <2>. QED BY <2>4
<1>5. ASSUME NEW s \in SUBSET t, s # t PROVE h(s) = PartialTally(f, s, k)
  <2>1. PICK g : ArePartialSums(g, f, s) /\ h(s) = g[s]
    BY <1>4, <1>5
  <2>2. CASE s = {}
    BY <2>1, <2>2, PartialSums DEF PartialTally
  <2>3. CASE s # {}
    <3>. DEFINE r == s \ {ChosenFrom(s)}
    <3>1. r \in SUBSET s /\ r \in SUBSET t /\ r # t
      BY <1>5
    <3>2. PICK e : ArePartialSums(e, f, r) /\ h(r) = e[r]
      BY <1>4, <3>1
    <3>3. IsFiniteSet(r)
      BY <1>2, <3>1, FS_Subset
    <3>4. g[r] = e[r]
      <4>. HIDE DEF r
      <4>. QED BY <2>1, <3>1, <3>2, <3>3, PartialSumsAgree
    <3>5. k[r] = h(r)
      <4>. HIDE DEF h, r
      <4>. QED BY <3>1
    <3>6. g[s] = f[ChosenFrom(s)] + g[r]
      BY <2>1, <2>3, PartialSums
    <3>. HIDE DEF k, h
    <3>. QED BY <2>1, <2>3, <3>2, <3>4, <3>5, <3>6 DEF PartialTally
  <2>. QED BY <2>2, <2>3
<1>6. PartialTally(f, t, [r \in SUBSET t |-> h(r)]) = PartialTally(f, t, k)
  <2>1. CASE t = {}
    BY <2>1 DEF PartialTally
  <2>2. CASE t # {}
    <3>1. t \ {ChosenFrom(t)} \in SUBSET t /\ t \ {ChosenFrom(t)} # t
      BY <2>2, ChosenIsMember
    <3>2. k[t \ {ChosenFrom(t)}] = [r \in SUBSET t |-> h(r)][t \ {ChosenFrom(t)}]
      <4>. HIDE DEF h
      <4>. QED BY <3>1
    <3>. HIDE DEF k, h
    <3>. QED BY <2>2, <3>2 DEF PartialTally
  <2>. QED BY <2>1, <2>2
<1>7. ArePartialSums(k, f, t)
  <2>1. \A s \in SUBSET t : k[s] = PartialTally(f, s, k)
    <3>1. ASSUME NEW s \in SUBSET t, s # t PROVE k[s] = PartialTally(f, s, k)
      <4>1. k[s] = h(s)
        <5>. HIDE DEF h
        <5>. QED BY <3>1
      <4>. HIDE DEF h, k
      <4>. QED BY <1>5, <3>1, <4>1
    <3>2. k[t] = PartialTally(f, t, [r \in SUBSET t |-> h(r)])
      <4>. HIDE DEF h
      <4>. QED OBVIOUS
    <3>. HIDE DEF h, k
    <3>. QED BY <1>6, <3>1, <3>2
  <2>2. k = [s \in SUBSET t |-> k[s]]
    <3>. HIDE DEF h
    <3>. QED OBVIOUS
  <2>. HIDE DEF k
  <2>. QED BY <2>1, <2>2 DEF ArePartialSums
<1>. QED BY <1>2, <1>7

-----------------------------------------------------------------------------
(* The laws of a sum over a finite set.                                      *)

\* The sum over nothing.
LEMMA SumEmpty ==
    ASSUME NEW f
    PROVE  SumFunctionOnSet(f, {}) = 0
<1>1. IsFiniteSet({})
  BY FS_EmptySet
<1>2. ArePartialSums(CHOOSE g : ArePartialSums(g, f, {}), f, {})
  BY <1>1, PartialSumsExist
<1>. QED BY <1>2, PartialSums, SumIsPartialSum

\* The step of the fold, for sums.
LEMMA SumChosen ==
    ASSUME NEW f, NEW S, IsFiniteSet(S), S # {}
    PROVE  SumFunctionOnSet(f, S) = f[ChosenFrom(S)] + SumFunctionOnSet(f, S \ {ChosenFrom(S)})
<1>. DEFINE r == S \ {ChosenFrom(S)}
            g == CHOOSE g : ArePartialSums(g, f, S)
            h == CHOOSE h : ArePartialSums(h, f, r)
<1>1. IsFiniteSet(r) /\ r \subseteq S
  BY FS_Subset
<1>2. ArePartialSums(g, f, S)
  BY PartialSumsExist
<1>3. ArePartialSums(h, f, r)
  <2>. HIDE DEF r
  <2>. QED BY <1>1, PartialSumsExist
<1>4. g[r] = h[r]
  <2>. HIDE DEF r, g, h
  <2>. QED BY <1>1, <1>2, <1>3, PartialSumsAgree
<1>5. g[S] = f[ChosenFrom(S)] + g[r]
  <2>. HIDE DEF g
  <2>. QED BY <1>2, LastPartialSum
<1>6. SumFunctionOnSet(f, S) = g[S] /\ SumFunctionOnSet(f, r) = h[r]
  BY SumIsPartialSum
<1>. QED BY <1>4, <1>5, <1>6

\* A sum of integers is an integer.
THEOREM SumIsInteger ==
    ASSUME NEW f, NEW S, IsFiniteSet(S), \A x \in S : f[x] \in Int
    PROVE  SumFunctionOnSet(f, S) \in Int
<1>. DEFINE B == {s \in SUBSET S : SumFunctionOnSet(f, s) \notin Int}
<1>. SUFFICES ASSUME B # {} PROVE FALSE
  OBVIOUS
<1>1. PICK t \in B : \A u \in B : Cardinality(t) <= Cardinality(u)
  <2>1. B \subseteq SUBSET S
    OBVIOUS
  <2>. HIDE DEF B
  <2>. QED BY <2>1, LeastSubset
<1>2. t # {} /\ IsFiniteSet(t)
  <2>1. SumFunctionOnSet(f, {}) \in Int
    BY SumEmpty
  <2>2. t \subseteq S /\ SumFunctionOnSet(f, t) \notin Int
    OBVIOUS
  <2>. HIDE DEF B
  <2>. QED BY <2>1, <2>2, FS_Subset
<1>3. ChosenFrom(t) \in t
  BY <1>2, ChosenIsMember
<1>4. SumFunctionOnSet(f, t \ {ChosenFrom(t)}) \in Int
  <2>1. t \ {ChosenFrom(t)} \notin B
    BY <1>1, <1>2, <1>3, FewerElements
  <2>. QED BY <2>1
<1>5. SumFunctionOnSet(f, t) = f[ChosenFrom(t)] + SumFunctionOnSet(f, t \ {ChosenFrom(t)})
  BY <1>2, SumChosen
<1>. QED BY <1>3, <1>4, <1>5

\* Any element can be taken out first.
THEOREM SumRemove ==
    ASSUME NEW f, NEW S, IsFiniteSet(S), \A y \in S : f[y] \in Int, NEW x \in S
    PROVE  SumFunctionOnSet(f, S) = f[x] + SumFunctionOnSet(f, S \ {x})
<1>. DEFINE Sum(s) == SumFunctionOnSet(f, s)
            B == {s \in SUBSET S : \E y \in s : Sum(s) # f[y] + Sum(s \ {y})}
<1>1. \A s \in SUBSET S : IsFiniteSet(s) /\ Sum(s) \in Int
  BY FS_Subset, SumIsInteger
<1>2. \A s \in SUBSET S : s # {} => Sum(s) = f[ChosenFrom(s)] + Sum(s \ {ChosenFrom(s)})
  BY <1>1, SumChosen
<1>. HIDE DEF Sum
<1>. SUFFICES ASSUME B # {} PROVE FALSE
  BY DEF Sum
<1>3. PICK t \in B : \A u \in B : Cardinality(t) <= Cardinality(u)
  <2>1. B \subseteq SUBSET S
    OBVIOUS
  <2>. HIDE DEF B
  <2>. QED BY <2>1, LeastSubset
<1>4. PICK y \in t : Sum(t) # f[y] + Sum(t \ {y})
  OBVIOUS
<1>5. PICK p \in t : p = ChosenFrom(t)
  BY ChosenIsMember
<1>6. Sum(t) = f[p] + Sum(t \ {p})
  BY <1>2, <1>5
<1>7. p # y
  BY <1>4, <1>6
<1>8. ASSUME NEW a \in t, NEW b \in t, a # b
      PROVE  Sum(t \ {a}) = f[b] + Sum((t \ {a}) \ {b})
  <2>1. IsFiniteSet(t)
    BY <1>1
  <2>2. t \ {a} \notin B
    BY <1>3, <2>1, FewerElements
  <2>. QED BY <1>8, <2>2
<1>9. (t \ {p}) \ {y} = (t \ {y}) \ {p}
  OBVIOUS
<1>10. PICK rest \in Int : rest = Sum((t \ {p}) \ {y})
  BY <1>1
<1>11. Sum(t \ {p}) = f[y] + rest /\ Sum(t \ {y}) = f[p] + rest
  BY <1>7, <1>8, <1>9, <1>10
<1>. QED BY <1>4, <1>6, <1>11

\* Only the values on the set matter.
THEOREM SumSameValues ==
    ASSUME NEW f, NEW g, NEW S, IsFiniteSet(S), \A x \in S : f[x] = g[x]
    PROVE  SumFunctionOnSet(f, S) = SumFunctionOnSet(g, S)
<1>. DEFINE B == {s \in SUBSET S : SumFunctionOnSet(f, s) # SumFunctionOnSet(g, s)}
<1>. SUFFICES ASSUME B # {} PROVE FALSE
  OBVIOUS
<1>1. PICK t \in B : \A u \in B : Cardinality(t) <= Cardinality(u)
  <2>1. B \subseteq SUBSET S
    OBVIOUS
  <2>. HIDE DEF B
  <2>. QED BY <2>1, LeastSubset
<1>2. t # {} /\ IsFiniteSet(t)
  <2>1. SumFunctionOnSet(f, {}) = 0 /\ SumFunctionOnSet(g, {}) = 0
    BY SumEmpty
  <2>. QED BY <2>1, FS_Subset
<1>3. ChosenFrom(t) \in t
  BY <1>2, ChosenIsMember
<1>4. SumFunctionOnSet(f, t \ {ChosenFrom(t)}) = SumFunctionOnSet(g, t \ {ChosenFrom(t)})
  <2>1. t \ {ChosenFrom(t)} \notin B
    BY <1>1, <1>2, <1>3, FewerElements
  <2>. QED BY <2>1
<1>5. /\ SumFunctionOnSet(f, t) = f[ChosenFrom(t)] + SumFunctionOnSet(f, t \ {ChosenFrom(t)})
      /\ SumFunctionOnSet(g, t) = g[ChosenFrom(t)] + SumFunctionOnSet(g, t \ {ChosenFrom(t)})
  BY <1>2, SumChosen
<1>6. f[ChosenFrom(t)] = g[ChosenFrom(t)]
  BY <1>3
<1>. QED BY <1>4, <1>5, <1>6

\* One more element adds its value.
THEOREM SumInsert ==
    ASSUME NEW f, NEW S, IsFiniteSet(S), NEW x, x \notin S,
           \A y \in S \union {x} : f[y] \in Int
    PROVE  SumFunctionOnSet(f, S \union {x}) = f[x] + SumFunctionOnSet(f, S)
<1>1. IsFiniteSet(S \union {x})
  BY FS_AddElement
<1>2. (S \union {x}) \ {x} = S
  OBVIOUS
<1>. QED BY <1>1, <1>2, SumRemove

\* A sum of naturals is a natural, and none of them exceeds it.
THEOREM SumIsNatural ==
    ASSUME NEW f, NEW S, IsFiniteSet(S), \A x \in S : f[x] \in Nat
    PROVE  /\ SumFunctionOnSet(f, S) \in Nat
           /\ \A x \in S : f[x] <= SumFunctionOnSet(f, S)
<1>. DEFINE B == {s \in SUBSET S : SumFunctionOnSet(f, s) \notin Nat}
<1>0. B = {}
  <2>. SUFFICES ASSUME B # {} PROVE FALSE
    OBVIOUS
  <2>1. PICK t \in B : \A u \in B : Cardinality(t) <= Cardinality(u)
    <3>1. B \subseteq SUBSET S
      OBVIOUS
    <3>. HIDE DEF B
    <3>. QED BY <3>1, LeastSubset
  <2>2. t # {} /\ IsFiniteSet(t)
    <3>1. SumFunctionOnSet(f, {}) \in Nat
      BY SumEmpty
    <3>2. t \subseteq S /\ SumFunctionOnSet(f, t) \notin Nat
      OBVIOUS
    <3>. HIDE DEF B
    <3>. QED BY <3>1, <3>2, FS_Subset
  <2>3. ChosenFrom(t) \in t
    BY <2>2, ChosenIsMember
  <2>4. SumFunctionOnSet(f, t \ {ChosenFrom(t)}) \in Nat
    <3>1. t \ {ChosenFrom(t)} \notin B
      BY <2>1, <2>2, <2>3, FewerElements
    <3>. QED BY <3>1
  <2>5. SumFunctionOnSet(f, t) = f[ChosenFrom(t)] + SumFunctionOnSet(f, t \ {ChosenFrom(t)})
    BY <2>2, SumChosen
  <2>. QED BY <2>3, <2>4, <2>5
<1>1. SumFunctionOnSet(f, S) \in Nat
  BY <1>0
<1>2. ASSUME NEW x \in S PROVE f[x] <= SumFunctionOnSet(f, S)
  <2>1. SumFunctionOnSet(f, S \ {x}) \in Nat
    BY <1>0
  <2>2. SumFunctionOnSet(f, S) = f[x] + SumFunctionOnSet(f, S \ {x})
    <3>1. \A y \in S : f[y] \in Int
      OBVIOUS
    <3>. QED BY <3>1, SumRemove
  <2>. QED BY <1>1, <2>1, <2>2
<1>. QED BY <1>1, <1>2

\* A sum over two sets without a common element.
THEOREM SumUnion ==
    ASSUME NEW f, NEW S, IsFiniteSet(S), NEW T, IsFiniteSet(T), S \intersect T = {},
           \A x \in S \union T : f[x] \in Int
    PROVE  SumFunctionOnSet(f, S \union T) = SumFunctionOnSet(f, S) + SumFunctionOnSet(f, T)
<1>. DEFINE Sum(s) == SumFunctionOnSet(f, s)
            B == {s \in SUBSET T : Sum(S \union s) # Sum(S) + Sum(s)}
<1>1. \A s \in SUBSET T : /\ IsFiniteSet(s) /\ IsFiniteSet(S \union s)
                          /\ Sum(s) \in Int /\ Sum(S \union s) \in Int
  <2> SUFFICES ASSUME NEW s \in SUBSET T
               PROVE  /\ IsFiniteSet(s) /\ IsFiniteSet(S \union s)
                      /\ Sum(s) \in Int /\ Sum(S \union s) \in Int
    OBVIOUS
  <2>1. IsFiniteSet(s) /\ IsFiniteSet(S \union s)
    BY FS_Subset, FS_Union
  <2>2. \A x \in S \union s : f[x] \in Int
    OBVIOUS
  <2>. QED BY <2>1, <2>2, SumIsInteger
<1>2. Sum(S) \in Int
  BY SumIsInteger
<1>3. Sum({}) = 0
  BY SumEmpty
<1>4. \A s \in SUBSET T : \A x \in s : /\ Sum(s) = f[x] + Sum(s \ {x})
                                       /\ Sum(S \union s) = f[x] + Sum(S \union (s \ {x}))
  <2> SUFFICES ASSUME NEW s \in SUBSET T, NEW x \in s
               PROVE  /\ Sum(s) = f[x] + Sum(s \ {x})
                      /\ Sum(S \union s) = f[x] + Sum(S \union (s \ {x}))
    OBVIOUS
  <2>1. (S \union s) \ {x} = S \union (s \ {x})
    OBVIOUS
  <2>2. (\A y \in s : f[y] \in Int) /\ (\A y \in S \union s : f[y] \in Int) /\ x \in S \union s
    OBVIOUS
  <2>3. Sum(s) = f[x] + Sum(s \ {x})
    <3>1. IsFiniteSet(s)
      BY <1>1
    <3>. QED BY <3>1, <2>2, SumRemove
  <2>4. Sum(S \union s) = f[x] + Sum((S \union s) \ {x})
    <3>1. IsFiniteSet(S \union s)
      BY <1>1
    <3>. QED BY <3>1, <2>2, SumRemove
  <2>. HIDE DEF Sum
  <2>. QED BY <2>1, <2>3, <2>4
<1>. HIDE DEF Sum
<1>. SUFFICES ASSUME B # {} PROVE FALSE
  <2>1. T \notin B => Sum(S \union T) = Sum(S) + Sum(T)
    OBVIOUS
  <2>. QED BY <2>1 DEF Sum
<1>5. PICK t \in B : \A u \in B : Cardinality(t) <= Cardinality(u)
  <2>1. B \subseteq SUBSET T
    OBVIOUS
  <2>. HIDE DEF B
  <2>. QED BY <2>1, LeastSubset
<1>6. t \in SUBSET T /\ Sum(S \union t) # Sum(S) + Sum(t)
  OBVIOUS
<1>7. t # {}
  <2>1. S \union {} = S
    OBVIOUS
  <2>2. Sum(S \union {}) = Sum(S) + Sum({})
    BY <1>2, <1>3, <2>1
  <2>. HIDE DEF B
  <2>. QED BY <1>6, <2>2
<1>8. PICK x \in t : TRUE
  BY <1>7
<1>9. Sum(S \union (t \ {x})) = Sum(S) + Sum(t \ {x})
  <2>1. t \ {x} \notin B
    BY <1>1, <1>5, <1>6, FewerElements
  <2>. QED BY <1>6, <2>1
<1>10. /\ Sum(t) = f[x] + Sum(t \ {x})
       /\ Sum(S \union t) = f[x] + Sum(S \union (t \ {x}))
  BY <1>4, <1>6
<1>11. Sum(t \ {x}) \in Int /\ f[x] \in Int
  BY <1>1, <1>6
<1>. QED BY <1>2, <1>6, <1>9, <1>10, <1>11

\* What the proofs use of multiplication.
LEMMA Products ==
    ASSUME NEW a \in Int, NEW b \in Int, NEW c \in Int
    PROVE  /\ a * b \in Int /\ a * b = b * a /\ a * 0 = 0 /\ 0 * a = 0 /\ 1 * a = a
           /\ a * (b + c) = a * b + a * c /\ a * (b * c) = (a * b) * c /\ a * (b * c) = b * (a * c)
  OBVIOUS

\* Sums add up and can be multiplied.
THEOREM SumIsLinear ==
    ASSUME NEW f, NEW g, NEW h, NEW k \in Int, NEW S, IsFiniteSet(S),
           \A x \in S : f[x] \in Int /\ g[x] \in Int /\ h[x] = f[x] + k * g[x]
    PROVE  SumFunctionOnSet(h, S) = SumFunctionOnSet(f, S) + k * SumFunctionOnSet(g, S)
<1>. DEFINE F(s) == SumFunctionOnSet(f, s)
            G(s) == SumFunctionOnSet(g, s)
            H(s) == SumFunctionOnSet(h, s)
            B == {s \in SUBSET S : H(s) # F(s) + k * G(s)}
<1>1. \A s \in SUBSET S : IsFiniteSet(s) /\ F(s) \in Int /\ G(s) \in Int /\ H(s) \in Int
  BY FS_Subset, SumIsInteger
<1>2. \A s \in SUBSET S : \A x \in s :
         F(s) = f[x] + F(s \ {x}) /\ G(s) = g[x] + G(s \ {x}) /\ H(s) = h[x] + H(s \ {x})
  <2>. SUFFICES ASSUME NEW s \in SUBSET S, NEW x \in s
                PROVE  F(s) = f[x] + F(s \ {x}) /\ G(s) = g[x] + G(s \ {x}) /\ H(s) = h[x] + H(s \ {x})
    OBVIOUS
  <2>1. IsFiniteSet(s) /\ \A y \in s : f[y] \in Int /\ g[y] \in Int /\ h[y] \in Int
    BY <1>1
  <2>2. F(s) = f[x] + F(s \ {x})
    BY <2>1, SumRemove
  <2>3. G(s) = g[x] + G(s \ {x})
    BY <2>1, SumRemove
  <2>4. H(s) = h[x] + H(s \ {x})
    BY <2>1, SumRemove
  <2>. QED BY <2>2, <2>3, <2>4
<1>3. F({}) = 0 /\ G({}) = 0 /\ H({}) = 0
  BY SumEmpty
<1>. SUFFICES ASSUME B # {} PROVE FALSE
  OBVIOUS
<1>. HIDE DEF F, G, H
<1>4. PICK t \in B : \A u \in B : Cardinality(t) <= Cardinality(u)
  <2>1. B \subseteq SUBSET S
    OBVIOUS
  <2>. HIDE DEF B
  <2>. QED BY <2>1, LeastSubset
<1>5. t \in SUBSET S /\ H(t) # F(t) + k * G(t)
  OBVIOUS
<1>. HIDE DEF B
<1>6. 0 + k * 0 = 0
  OBVIOUS
<1>7. t # {}
  <2>. SUFFICES ASSUME t = {} PROVE FALSE
    OBVIOUS
  <2>1. H(t) = 0 /\ F(t) = 0 /\ G(t) = 0
    BY <1>3
  <2>. QED BY <1>5, <1>6, <2>1
<1>8. PICK x \in t : TRUE
  BY <1>7
<1>9. t \ {x} \in SUBSET S /\ t \ {x} \notin B
  <2>1. IsFiniteSet(t)
    BY <1>1, <1>5
  <2>. QED BY <1>4, <1>5, <2>1, FewerElements
<1>10. PICK p \in Int, q \in Int, r \in Int : p = F(t \ {x}) /\ q = G(t \ {x}) /\ r = H(t \ {x})
  BY <1>1, <1>9
<1>11. r = p + k * q
  BY <1>9, <1>10 DEF B
<1>12. PICK a \in Int, b \in Int : a = f[x] /\ b = g[x]
  BY <1>5
<1>13. h[x] = a + k * b
  BY <1>5, <1>12
<1>14. k * (b + q) = k * b + k * q
  BY <1>10, <1>12
<1>15. F(t) = a + p /\ G(t) = b + q /\ H(t) = (a + k * b) + (p + k * q)
  <2>1. F(t) = f[x] + F(t \ {x}) /\ G(t) = g[x] + G(t \ {x}) /\ H(t) = h[x] + H(t \ {x})
    BY <1>2, <1>5
  <2>. QED BY <1>10, <1>11, <1>12, <1>13, <2>1
<1>16. k * b \in Int /\ k * q \in Int
  OBVIOUS
<1>. QED BY <1>5, <1>14, <1>15, <1>16

\* Where all values are 0 the sum is.
LEMMA SumOfZeros ==
    ASSUME NEW f, NEW S, IsFiniteSet(S), \A x \in S : f[x] = 0
    PROVE  SumFunctionOnSet(f, S) = 0
  <1>1. SumFunctionOnSet(f, S) = SumFunctionOnSet(f, S) + (-1) * SumFunctionOnSet(f, S)
    <2>1. -1 \in Int /\ \A x \in S : f[x] \in Int /\ f[x] = f[x] + (-1) * f[x]
      OBVIOUS
    <2> QED BY <2>1, SumIsLinear
  <1>2. SumFunctionOnSet(f, S) \in Int
    BY SumIsInteger
  <1> QED BY <1>1, <1>2

\* Values of 0 can be left out.
THEOREM SumSupport ==
    ASSUME NEW f, NEW S, IsFiniteSet(S), NEW T, T \subseteq S,
           \A x \in T : f[x] \in Int, \A x \in S \ T : f[x] = 0
    PROVE  SumFunctionOnSet(f, S) = SumFunctionOnSet(f, T)
  <1>1. /\ IsFiniteSet(T) /\ IsFiniteSet(S \ T) /\ T \union (S \ T) = S
        /\ T \intersect (S \ T) = {} /\ \A x \in S : f[x] \in Int
    BY FS_Subset
  <1>2. SumFunctionOnSet(f, S) = SumFunctionOnSet(f, T) + SumFunctionOnSet(f, S \ T)
    <2>1. \A x \in T \union (S \ T) : f[x] \in Int
      BY <1>1
    <2>2. SumFunctionOnSet(f, T \union (S \ T)) = SumFunctionOnSet(f, T) + SumFunctionOnSet(f, S \ T)
      BY <1>1, <2>1, SumUnion
    <2> QED BY <1>1, <2>2
  <1>3. SumFunctionOnSet(f, S \ T) = 0
    BY <1>1, SumOfZeros
  <1>4. SumFunctionOnSet(f, T) \in Int
    BY <1>1, SumIsInteger
  <1> QED BY <1>2, <1>3, <1>4

\* The rows and the columns of the table F, which turned is G, have these totals.
AreTotals(byRow, byCol, F, G, A, C) ==
    /\ \A a \in A : \A c \in C : F[a][c] \in Int
    /\ \A c \in C : \A a \in A : G[c][a] = F[a][c]
    /\ \A a \in A : byRow[a] = SumFunctionOnSet(F[a], C)
    /\ \A c \in C : byCol[c] = SumFunctionOnSet(G[c], A)

\* A table of numbers has one sum, by rows or by columns.
THEOREM SumExchange ==
    ASSUME NEW A, IsFiniteSet(A), NEW C, IsFiniteSet(C), NEW F, NEW G, NEW byRow, NEW byCol,
           AreTotals(byRow, byCol, F, G, A, C)
    PROVE  SumFunctionOnSet(byRow, A) = SumFunctionOnSet(byCol, C)
<1>0. /\ \A a \in A : \A c \in C : F[a][c] \in Int
      /\ \A c \in C : \A a \in A : G[c][a] = F[a][c]
      /\ \A a \in A : byRow[a] = SumFunctionOnSet(F[a], C)
      /\ \A c \in C : byCol[c] = SumFunctionOnSet(G[c], A)
  BY DEF AreTotals
<1>. DEFINE row(a)    == [c \in C |-> F[a][c]]
            col(c)    == [a \in A |-> F[a][c]]
            rows      == [a \in A |-> SumFunctionOnSet(row(a), C)]
            cols(s)   == [c \in C |-> SumFunctionOnSet(col(c), s)]
            R(s)      == SumFunctionOnSet(rows, s)
            K(s)      == SumFunctionOnSet(cols(s), C)
            B         == {s \in SUBSET A : R(s) # K(s)}
<1>1. ASSUME NEW s \in SUBSET A
      PROVE  /\ IsFiniteSet(s)
             /\ \A c \in C : cols(s)[c] = SumFunctionOnSet(col(c), s) /\ cols(s)[c] \in Int
             /\ K(s) \in Int /\ R(s) \in Int
  <2>1. IsFiniteSet(s)
    BY FS_Subset
  <2>2. ASSUME NEW c \in C
        PROVE  cols(s)[c] = SumFunctionOnSet(col(c), s) /\ SumFunctionOnSet(col(c), s) \in Int
    <3>1. \A a \in s : col(c)[a] \in Int
      BY <1>0
    <3>2. SumFunctionOnSet(col(c), s) \in Int
      <4>. HIDE DEF col
      <4>. QED BY <2>1, <3>1, SumIsInteger
    <3>3. cols(s)[c] = SumFunctionOnSet(col(c), s)
      <4>. HIDE DEF col
      <4>. QED OBVIOUS
    <3>. QED BY <3>2, <3>3
  <2>3. \A c \in C : cols(s)[c] \in Int
    <3>. HIDE DEF cols, col
    <3>. QED BY <2>2
  <2>4. K(s) \in Int
    <3>. HIDE DEF cols
    <3>. QED BY <2>3, SumIsInteger
  <2>5. \A a \in A : rows[a] \in Int
    <3>. SUFFICES ASSUME NEW a \in A PROVE rows[a] \in Int
      OBVIOUS
    <3>1. \A c \in C : row(a)[c] \in Int
      BY <1>0
    <3>2. rows[a] = SumFunctionOnSet(row(a), C)
      <4>. HIDE DEF row
      <4>. QED OBVIOUS
    <3>3. SumFunctionOnSet(row(a), C) \in Int
      <4>. HIDE DEF row
      <4>. QED BY <3>1, SumIsInteger
    <3>. QED BY <3>2, <3>3
  <2>6. R(s) \in Int
    <3>. HIDE DEF rows
    <3>. QED BY <2>1, <2>5, SumIsInteger
  <2>. HIDE DEF K, R, cols
  <2>. QED BY <2>1, <2>2, <2>3, <2>4, <2>6
<1>2. ASSUME NEW s \in SUBSET A, NEW x \in s, R(s \ {x}) = K(s \ {x})
      PROVE  R(s) = K(s)
  <2>1. s \ {x} \in SUBSET A /\ x \in A /\ IsFiniteSet(s)
    BY <1>1
  <2>2. R(s) = rows[x] + R(s \ {x})
    <3>1. \A a \in s : rows[a] \in Int
      <4>1. ASSUME NEW a \in s PROVE rows[a] \in Int
        <5>1. {a} \in SUBSET A
          OBVIOUS
        <5>2. rows[a] = SumFunctionOnSet(row(a), C) /\ \A c \in C : row(a)[c] \in Int
          BY <1>0
        <5>3. SumFunctionOnSet(row(a), C) \in Int
          <6>. HIDE DEF row
          <6>. QED BY <5>2, SumIsInteger
        <5>. QED BY <5>2, <5>3
      <4>. QED BY <4>1
    <3>. HIDE DEF rows
    <3>. QED BY <2>1, <3>1, SumRemove
  <2>3. \A c \in C : /\ cols(s)[c] = cols(s \ {x})[c] + 1 * row(x)[c]
                     /\ cols(s \ {x})[c] \in Int /\ row(x)[c] \in Int
    <3>. SUFFICES ASSUME NEW c \in C
                  PROVE  /\ cols(s)[c] = cols(s \ {x})[c] + 1 * row(x)[c]
                         /\ cols(s \ {x})[c] \in Int /\ row(x)[c] \in Int
      OBVIOUS
    <3>1. \A a \in s : col(c)[a] \in Int
      BY <1>0
    <3>2. row(x)[c] = col(c)[x] /\ row(x)[c] \in Int
      BY <1>0, <2>1
    <3>3. /\ cols(s)[c] = SumFunctionOnSet(col(c), s)
          /\ cols(s \ {x})[c] = SumFunctionOnSet(col(c), s \ {x}) /\ cols(s \ {x})[c] \in Int
      <4>. HIDE DEF cols, col
      <4>. QED BY <1>1, <2>1
    <3>. HIDE DEF cols, col, row
    <3>4. SumFunctionOnSet(col(c), s) = col(c)[x] + SumFunctionOnSet(col(c), s \ {x})
      BY <2>1, <3>1, SumRemove
    <3>. QED BY <3>2, <3>3, <3>4
  <2>4. K(s) = K(s \ {x}) + 1 * SumFunctionOnSet(row(x), C)
    <3>. HIDE DEF cols, row
    <3>1. PICK one, f, g, h : one = 1 /\ f = cols(s \ {x}) /\ g = row(x) /\ h = cols(s)
      OBVIOUS
    <3>2. one \in Int /\ \A c \in C : f[c] \in Int /\ g[c] \in Int /\ h[c] = f[c] + one * g[c]
      <4>1. one \in Int
        BY <3>1
      <4>2. ASSUME NEW c \in C
            PROVE  f[c] \in Int /\ g[c] \in Int /\ h[c] = f[c] + one * g[c]
        <5>1. /\ cols(s)[c] = cols(s \ {x})[c] + 1 * row(x)[c]
              /\ cols(s \ {x})[c] \in Int /\ row(x)[c] \in Int
          BY <2>3
        <5>. QED BY <3>1, <5>1
      <4>. QED BY <4>1, <4>2
    <3>3. SumFunctionOnSet(h, C) = SumFunctionOnSet(f, C) + one * SumFunctionOnSet(g, C)
      BY <3>2, SumIsLinear
    <3>. QED BY <3>1, <3>3
  <2>5. rows[x] = SumFunctionOnSet(row(x), C)
    <3>. HIDE DEF row
    <3>. QED BY <2>1
  <2>6. SumFunctionOnSet(row(x), C) \in Int
    <3>. HIDE DEF row
    <3>. QED BY <2>3, SumIsInteger
  <2>7. K(s \ {x}) \in Int
    BY <1>1, <2>1
  <2>. HIDE DEF K, R, rows, row
  <2>. QED BY <1>2, <2>2, <2>4, <2>5, <2>6, <2>7
<1>3. R({}) = K({})
  <2>1. R({}) = 0
    BY SumEmpty
  <2>2. \A c \in C : cols({})[c] = 0
    <3>1. \A c \in C : cols({})[c] = SumFunctionOnSet(col(c), {})
      <4>. HIDE DEF col
      <4>. QED OBVIOUS
    <3>. HIDE DEF cols, col
    <3>. QED BY <3>1, SumEmpty
  <2>3. K({}) = 0
    <3>. HIDE DEF cols
    <3>. QED BY <2>2, SumOfZeros
  <2>. QED BY <2>1, <2>3
<1>4. R(A) = K(A)
  <2>. SUFFICES ASSUME B # {} PROVE FALSE
    OBVIOUS
  <2>. HIDE DEF R, K
  <2>1. PICK t \in B : \A u \in B : Cardinality(t) <= Cardinality(u)
    <3>1. B \subseteq SUBSET A
      OBVIOUS
    <3>. HIDE DEF B
    <3>. QED BY <3>1, LeastSubset
  <2>2. t \in SUBSET A /\ R(t) # K(t)
    OBVIOUS
  <2>3. t # {}
    BY <1>3, <2>2
  <2>4. PICK x \in t : TRUE
    BY <2>3
  <2>5. t \ {x} \in SUBSET A /\ t \ {x} \notin B
    <3>1. IsFiniteSet(t)
      BY <1>1, <2>2
    <3>. QED BY <2>1, <2>2, <3>1, FewerElements
  <2>6. R(t \ {x}) = K(t \ {x})
    BY <2>5
  <2>. QED BY <1>2, <2>2, <2>4, <2>6
<1>5. SumFunctionOnSet(byRow, A) = R(A)
  <2>1. ASSUME NEW a \in A PROVE byRow[a] = rows[a]
    <3>1. \A c \in C : F[a][c] = row(a)[c]
      OBVIOUS
    <3>2. rows[a] = SumFunctionOnSet(row(a), C)
      <4>. HIDE DEF row
      <4>. QED OBVIOUS
    <3>. HIDE DEF row, rows
    <3>3. SumFunctionOnSet(F[a], C) = SumFunctionOnSet(row(a), C)
      BY <3>1, SumSameValues
    <3>. QED BY <1>0, <3>2, <3>3
  <2>. HIDE DEF rows
  <2>. QED BY <2>1, SumSameValues
<1>6. SumFunctionOnSet(byCol, C) = K(A)
  <2>1. ASSUME NEW c \in C PROVE byCol[c] = cols(A)[c]
    <3>1. \A a \in A : G[c][a] = col(c)[a]
      BY <1>0
    <3>2. cols(A)[c] = SumFunctionOnSet(col(c), A)
      <4>. HIDE DEF col
      <4>. QED OBVIOUS
    <3>. HIDE DEF col, cols
    <3>3. SumFunctionOnSet(G[c], A) = SumFunctionOnSet(col(c), A)
      BY <3>1, SumSameValues
    <3>. QED BY <1>0, <3>2, <3>3
  <2>. HIDE DEF cols
  <2>. QED BY <2>1, SumSameValues
<1>. HIDE DEF R, K
<1>. QED BY <1>4, <1>5, <1>6


\* A sum over the image of a set under an injection.
THEOREM SumOverImage ==
    ASSUME NEW S, IsFiniteSet(S), NEW h, NEW f,
           \A x, y \in S : h[x] = h[y] => x = y, \A x \in S : f[h[x]] \in Int
    PROVE  SumFunctionOnSet(f, {h[x] : x \in S}) = SumFunction([x \in S |-> f[h[x]]])
<1>. DEFINE Im(s) == {h[x] : x \in s}
            g == [x \in S |-> f[h[x]]]
            B == {s \in SUBSET S : SumFunctionOnSet(f, Im(s)) # SumFunctionOnSet(g, s)}
<1>1. SumFunction(g) = SumFunctionOnSet(g, S)
  BY DEF SumFunction
<1>. SUFFICES ASSUME B # {} PROVE FALSE
  BY <1>1
<1>2. PICK t \in B : \A u \in B : Cardinality(t) <= Cardinality(u)
  <2>1. B \subseteq SUBSET S
    OBVIOUS
  <2>. HIDE DEF B
  <2>. QED BY <2>1, LeastSubset
<1>3. t \in SUBSET S /\ SumFunctionOnSet(f, Im(t)) # SumFunctionOnSet(g, t)
  OBVIOUS
<1>4. IsFiniteSet(t) /\ IsFiniteSet(Im(t))
  <2>1. IsFiniteSet(t)
    BY <1>3, FS_Subset
  <2>2. [x \in t |-> h[x]] \in Surjection(t, Im(t))
    BY DEF Surjection
  <2>. HIDE DEF Im
  <2>. QED BY <2>1, <2>2, FS_Surjection
<1>5. PICK x \in t : TRUE
  <2>1. SumFunctionOnSet(f, {}) = 0 /\ SumFunctionOnSet(g, {}) = 0
    BY SumEmpty
  <2>2. t = {} => Im(t) = {}
    OBVIOUS
  <2>. HIDE DEF Im, g, B
  <2>. QED BY <1>3, <2>1, <2>2
<1>6. Im(t \ {x}) = Im(t) \ {h[x]}
  BY <1>3
<1>7. SumFunctionOnSet(f, Im(t \ {x})) = SumFunctionOnSet(g, t \ {x})
  <2>1. t \ {x} \notin B
    <3>. HIDE DEF B
    <3>. QED BY <1>2, <1>4, FewerElements
  <2>. QED BY <1>3, <2>1
<1>8. SumFunctionOnSet(f, Im(t)) = f[h[x]] + SumFunctionOnSet(f, Im(t) \ {h[x]})
  <2>1. h[x] \in Im(t) /\ \A y \in Im(t) : f[y] \in Int
    BY <1>3
  <2>. HIDE DEF Im
  <2>. QED BY <1>4, <2>1, SumRemove
<1>9. SumFunctionOnSet(g, t) = g[x] + SumFunctionOnSet(g, t \ {x})
  <2>1. \A y \in t : g[y] \in Int
    BY <1>3
  <2>. HIDE DEF g
  <2>. QED BY <1>4, <2>1, SumRemove
<1>10. g[x] = f[h[x]]
  BY <1>3
<1>. HIDE DEF Im, g
<1>. QED BY <1>3, <1>6, <1>7, <1>8, <1>9, <1>10

\* Term by term, and with more terms, a sum of naturals grows.
THEOREM SumGrows ==
    ASSUME NEW f, NEW S, IsFiniteSet(S), NEW T, T \subseteq S, \A x \in S : f[x] \in Nat
    PROVE  SumFunctionOnSet(f, T) <= SumFunctionOnSet(f, S)
<1>1. IsFiniteSet(T) /\ IsFiniteSet(S \ T) /\ T \union (S \ T) = S /\ T \intersect (S \ T) = {}
  BY FS_Subset
<1>2. SumFunctionOnSet(f, S) = SumFunctionOnSet(f, T) + SumFunctionOnSet(f, S \ T)
  <2>1. \A x \in T \union (S \ T) : f[x] \in Int
    OBVIOUS
  <2>2. SumFunctionOnSet(f, T \union (S \ T)) = SumFunctionOnSet(f, T) + SumFunctionOnSet(f, S \ T)
    BY <1>1, <2>1, SumUnion
  <2>. QED BY <1>1, <2>2
<1>3. SumFunctionOnSet(f, T) \in Nat /\ SumFunctionOnSet(f, S \ T) \in Nat
  BY <1>1, SumIsNatural
<1>. QED BY <1>2, <1>3

\* Sets hold together no more than one by one, and as much where they are apart.
THEOREM SizeOfUnion ==
    ASSUME NEW S, IsFiniteSet(S), NEW C, \A x \in S : IsFiniteSet(C[x])
    PROVE  /\ IsFiniteSet(UNION {C[x] : x \in S})
           /\ Cardinality(UNION {C[x] : x \in S}) <= SumFunction([x \in S |-> Cardinality(C[x])])
           /\ (\A x, y \in S : x # y => C[x] \intersect C[y] = {}) =>
                 Cardinality(UNION {C[x] : x \in S}) = SumFunction([x \in S |-> Cardinality(C[x])])
<1>. DEFINE n == [x \in S |-> Cardinality(C[x])]
            U(s) == UNION {C[x] : x \in s}
            Apart == \A x, y \in S : x # y => C[x] \intersect C[y] = {}
            Fine(s) == /\ IsFiniteSet(U(s))
                       /\ Cardinality(U(s)) <= SumFunctionOnSet(n, s)
                       /\ Apart => Cardinality(U(s)) = SumFunctionOnSet(n, s)
            B == {s \in SUBSET S : ~ Fine(s)}
<1>1. SumFunction(n) = SumFunctionOnSet(n, S)
  BY DEF SumFunction
<1>2. SUFFICES ASSUME B # {} PROVE FALSE
  BY <1>1
<1>3. PICK t \in B : \A u \in B : Cardinality(t) <= Cardinality(u)
  <2>1. B \subseteq SUBSET S
    OBVIOUS
  <2>. HIDE DEF B
  <2>. QED BY <1>2, <2>1, LeastSubset
<1>4. t \in SUBSET S /\ ~ Fine(t)
  OBVIOUS
<1>5. IsFiniteSet(t)
  BY <1>4, FS_Subset
<1>6. \A x \in S : n[x] \in Nat /\ n[x] = Cardinality(C[x])
  BY FS_CardinalityType
<1>. HIDE DEF n, U
<1>7. PICK x \in t : TRUE
  <2>1. U({}) = {} /\ SumFunctionOnSet(n, {}) = 0 /\ IsFiniteSet({}) /\ Cardinality({}) = 0
    BY SumEmpty, FS_EmptySet DEF U
  <2>2. Fine({})
    BY <2>1
  <2>. QED BY <1>4, <2>2
<1>8. t \ {x} \in SUBSET S /\ Fine(t \ {x})
  <2>1. t \ {x} \notin B
    <3>. HIDE DEF B
    <3>. QED BY <1>3, <1>5, FewerElements
  <2>. QED BY <1>4, <2>1
<1>9. U(t) = C[x] \union U(t \ {x})
  BY DEF U
<1>10. IsFiniteSet(C[x]) /\ IsFiniteSet(U(t \ {x}))
  BY <1>4, <1>8
<1>11. /\ IsFiniteSet(U(t))
       /\ Cardinality(U(t)) = Cardinality(C[x]) + Cardinality(U(t \ {x}))
                              - Cardinality(C[x] \intersect U(t \ {x}))
  <2>. DEFINE a == C[x]
              b == U(t \ {x})
  <2>1. IsFiniteSet(a) /\ IsFiniteSet(b) /\ U(t) = a \union b
    BY <1>9, <1>10
  <2>. HIDE DEF a, b
  <2>2. /\ IsFiniteSet(a \union b)
        /\ Cardinality(a \union b) = Cardinality(a) + Cardinality(b) - Cardinality(a \intersect b)
    BY <2>1, FS_Union
  <2>3. /\ IsFiniteSet(U(t))
        /\ Cardinality(U(t)) = Cardinality(a) + Cardinality(b) - Cardinality(a \intersect b)
    BY <2>1, <2>2
  <2>. QED BY <2>3 DEF a, b
<1>12. SumFunctionOnSet(n, t) = n[x] + SumFunctionOnSet(n, t \ {x})
  BY <1>4, <1>5, <1>6, SumRemove
<1>13. SumFunctionOnSet(n, t \ {x}) \in Nat
  <2>1. IsFiniteSet(t \ {x}) /\ \A y \in t \ {x} : n[y] \in Nat
    BY <1>4, <1>5, <1>6, FS_Subset
  <2>. QED BY <2>1, SumIsNatural
<1>14. /\ Cardinality(U(t \ {x})) \in Nat
       /\ Cardinality(C[x] \intersect U(t \ {x})) \in Nat
  BY <1>10, FS_Subset, FS_CardinalityType
<1>15. Cardinality(U(t)) <= SumFunctionOnSet(n, t)
  BY <1>4, <1>6, <1>8, <1>11, <1>12, <1>13, <1>14
<1>16. ASSUME Apart PROVE Cardinality(U(t)) = SumFunctionOnSet(n, t)
  <2>1. C[x] \intersect U(t \ {x}) = {}
    BY <1>4, <1>16 DEF U
  <2>2. Cardinality({}) = 0
    BY FS_EmptySet
  <2>3. Cardinality(U(t)) = Cardinality(C[x]) + Cardinality(U(t \ {x})) - 0
    BY <1>11, <2>1, <2>2
  <2>. QED BY <1>4, <1>6, <1>8, <1>12, <1>13, <1>14, <1>16, <2>3
<1>. QED BY <1>4, <1>11, <1>15, <1>16

-----------------------------------------------------------------------------
(* The greater and the smaller of two numbers.                               *)

LEMMA MaxOfTwo ==
    ASSUME NEW a \in Int, NEW b \in Int
    PROVE  Max({a, b}) = IF a >= b THEN a ELSE b
  <1>1. \A x, y \in {a, b} : (\A z \in {a, b} : x >= z) /\ (\A z \in {a, b} : y >= z) => x = y
    OBVIOUS
  <1>2. \E x \in {a, b} : \A y \in {a, b} : x >= y
    OBVIOUS
  <1> QED BY <1>1, <1>2 DEF Max

LEMMA MinOfTwo ==
    ASSUME NEW a \in Int, NEW b \in Int
    PROVE  Min({a, b}) = IF a <= b THEN a ELSE b
  <1>1. \A x, y \in {a, b} : (\A z \in {a, b} : x <= z) /\ (\A z \in {a, b} : y <= z) => x = y
    OBVIOUS
  <1>2. \E x \in {a, b} : \A y \in {a, b} : x <= y
    OBVIOUS
  <1> QED BY <1>1, <1>2 DEF Min
=============================================================================
