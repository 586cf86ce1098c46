---- MODULE SetLemmas ----
(***************************************************************************)
(* Facts about finite sets that the proofs of several components need: a   *)
(* set of finite sets has a least member, which stands for induction, and  *)
(* a sum over a finite set is what it should be.  SumOf is the fold that   *)
(* ScrapeTask and Interactions add up totals and weights with.             *)
(***************************************************************************)
EXTENDS Integers, Functions, FiniteSetTheorems, WellFoundedInduction, TLAPS

SumOf(w, S) == FoldFunctionOnSet(+, 0, w, S)

(* A set of finite sets has a member that none of them is a part of.       *)
LEMMA LeastSet ==
  ASSUME NEW S, NEW F \in SUBSET FiniteSubsetsOf(S), F # {}
  PROVE  \E T \in F : \A U \in F : U \subseteq T => U = T
<1> DEFINE R == StrictSubsetOrdering(S)
<1>1. \E T \in F : \A U \in F : ~(<<U, T>> \in R)
  BY FS_StrictSubsetOrderingWellFounded, WFMin
<1>2. F \subseteq SUBSET S
  BY DEF FiniteSubsetsOf
<1> QED
  BY <1>1, <1>2 DEF StrictSubsetOrdering

(* So a set of subsets of a finite set that has the empty set, and has a   *)
(* set when it has all of one element less, has them all.                  *)
LEMMA AllSubsets ==
  ASSUME NEW S, IsFiniteSet(S), NEW F, {} \in F,
         \A T \in SUBSET S : T # {} /\ (\A x \in T : T \ {x} \in F) => T \in F
  PROVE  \A T \in SUBSET S : T \in F
<1> DEFINE Missing == {T \in SUBSET S : T \notin F}
<1> SUFFICES ASSUME Missing # {} PROVE FALSE
  OBVIOUS
<1>1. Missing \in SUBSET FiniteSubsetsOf(S)
  BY FS_Subset DEF FiniteSubsetsOf
<1>2. \A T : T \in Missing <=> T \in SUBSET S /\ T \notin F
  OBVIOUS
<1> HIDE DEF Missing
<1>3. PICK T \in Missing : \A U \in Missing : U \subseteq T => U = T
  BY <1>1, LeastSet
<1>4. \A x \in T : T \ {x} \in F
  BY <1>2, <1>3
<1> QED
  BY <1>2, <1>3, <1>4

\* g adds up w over each subset of S.
Adds(g, w, S) ==
    /\ g \in [SUBSET S -> Int] /\ g[{}] = 0
    /\ \A T \in SUBSET S : \A x \in T : g[T] = g[T \ {x}] + w[x]

(* There is such a function. *)
LEMMA AddsExists ==
  ASSUME NEW D, NEW w \in [D -> Int], NEW S \in SUBSET D, IsFiniteSet(S)
  PROVE  \E g : Adds(g, w, S)
<1> DEFINE F == {T \in SUBSET S : \E g : Adds(g, w, T)}
<1>1. {} \in F
  <2> DEFINE g == [T \in SUBSET {} |-> 0]
  <2>1. Adds(g, w, {})
    BY DEF Adds
  <2> QED
    BY <2>1
<1>2. ASSUME NEW T \in SUBSET S, T # {}, \A x \in T : T \ {x} \in F PROVE T \in F
  <2>0. PICK x \in T : T \ {x} \in F
    BY <1>2
  <2>1. PICK h : Adds(h, w, T \ {x})
    BY <2>0
  <2> DEFINE g == [U \in SUBSET T |-> IF x \in U THEN h[U \ {x}] + w[x] ELSE h[U]]
  <2>2. w[x] \in Int
    OBVIOUS
  <2>3. \A U \in SUBSET T : U \ {x} \in SUBSET (T \ {x}) /\ h[U \ {x}] \in Int
    BY <2>1 DEF Adds
  <2>4. \A U \in SUBSET T : x \notin U => U \ {x} = U
    OBVIOUS
  <2>5. g \in [SUBSET T -> Int]
    <3>1. \A U \in SUBSET T : (IF x \in U THEN h[U \ {x}] + w[x] ELSE h[U]) \in Int
      <4>1. \A U \in SUBSET T : x \in U => h[U \ {x}] + w[x] \in Int
        BY <2>2, <2>3
      <4>2. \A U \in SUBSET T : x \notin U => h[U] \in Int
        BY <2>3, <2>4
      <4> QED
        BY <4>1, <4>2
    <3> QED
      BY <3>1
  <2>6. g[{}] = 0
    BY <2>1 DEF Adds
  <2>7. ASSUME NEW U \in SUBSET T, NEW y \in U PROVE g[U] = g[U \ {y}] + w[y]
    <3>1. g[U] = IF x \in U THEN h[U \ {x}] + w[x] ELSE h[U]
      OBVIOUS
    <3>2. g[U \ {y}] = IF x \in U \ {y} THEN h[(U \ {y}) \ {x}] + w[x] ELSE h[U \ {y}]
      OBVIOUS
    <3>3. CASE y = x
      BY <3>1, <3>2, <3>3
    <3>4. CASE y # x
      <4>1. (U \ {y}) \ {x} = (U \ {x}) \ {y} /\ y \in U \ {x}
        BY <3>4
      <4>2. h[U \ {x}] = h[(U \ {x}) \ {y}] + w[y]
        BY <2>1, <2>3, <4>1 DEF Adds
      <4>3. (U \ {x}) \ {y} \in SUBSET (T \ {x}) /\ h[(U \ {x}) \ {y}] \in Int /\ w[y] \in Int
        BY <2>1 DEF Adds
      <4> DEFINE b == h[(U \ {x}) \ {y}]
      <4>4. CASE x \in U
        <5>1. g[U] = b + w[y] + w[x]
          BY <3>1, <4>2, <4>4
        <5>2. g[U \ {y}] = b + w[x]
          BY <3>2, <3>4, <4>1, <4>4
        <5> HIDE DEF g, b
        <5> QED
          BY <2>2, <4>3, <5>1, <5>2 DEF b
      <4>5. CASE x \notin U
        <5>1. g[U] = b + w[y] /\ U \ {x} = U
          BY <2>4, <3>1, <4>2, <4>5
        <5>2. g[U \ {y}] = b
          BY <3>2, <4>5, <5>1
        <5> QED
          BY <5>1, <5>2
      <4> QED
        BY <4>4, <4>5
    <3> QED
      BY <3>3, <3>4
  <2> HIDE DEF g
  <2> QED
    BY <2>5, <2>6, <2>7 DEF Adds
<1> HIDE DEF F
<1>3. S \in F
  BY <1>1, <1>2, AllSubsets
<1> QED
  BY <1>3 DEF F

(* And it is the sum. *)
LEMMA SumIs ==
  ASSUME NEW D, NEW w \in [D -> Int], NEW S \in SUBSET D, IsFiniteSet(S),
         NEW g, Adds(g, w, S), NEW T \in SUBSET S
  PROVE  SumOf(w, T) = g[T]
<1> DEFINE pick(s) == CHOOSE x \in s : TRUE
           Step(f, s) == IF s = {} THEN 0 ELSE w[pick(s)] + f[s \ {pick(s)}]
           Folds(f) == f = [s \in SUBSET T |-> Step(f, s)]
           it == CHOOSE f : Folds(f)
           h == [s \in SUBSET T |-> g[s]]
<1>1. SumOf(w, T) = it[T]
  BY DEF SumOf, FoldFunctionOnSet, MapThenFoldSet
<1>2. \A s \in SUBSET T : s # {} => pick(s) \in s /\ s \ {pick(s)} \in SUBSET T /\ w[pick(s)] \in Int
  OBVIOUS
<1> HIDE DEF pick
<1>3. \A s \in SUBSET T : s # {} => g[s] = g[s \ {pick(s)}] + w[pick(s)]
  BY <1>2 DEF Adds
<1>4. g[{}] = 0 /\ \A s \in SUBSET T : g[s] \in Int
  BY DEF Adds
<1>5. \A s \in SUBSET T : g[s] = Step(h, s)
  <2> SUFFICES ASSUME NEW s \in SUBSET T, s # {}
               PROVE  g[s] = w[pick(s)] + h[s \ {pick(s)}]
    BY <1>4
  <2>1. h[s \ {pick(s)}] = g[s \ {pick(s)}] /\ g[s \ {pick(s)}] \in Int
    BY <1>2, <1>4
  <2>2. w[pick(s)] \in Int /\ g[s] = g[s \ {pick(s)}] + w[pick(s)]
    BY <1>2, <1>3
  <2> HIDE DEF h
  <2> QED
    BY <2>1, <2>2
<1>6. Folds(h)
  BY <1>5
<1> HIDE DEF h
<1>7. Folds(it)
  BY <1>6
<1> HIDE DEF it
<1>8. \A s \in SUBSET T : it[s] = Step(it, s)
  BY <1>7
<1> DEFINE F == {s \in SUBSET T : it[s] = g[s]}
<1>9. {} \in F
  BY <1>4, <1>8
<1>10. ASSUME NEW s \in SUBSET T, s # {}, \A x \in s : s \ {x} \in F PROVE s \in F
  <2>1. /\ it[s] = w[pick(s)] + it[s \ {pick(s)}] /\ pick(s) \in s /\ w[pick(s)] \in Int
        /\ g[s] = g[s \ {pick(s)}] + w[pick(s)] /\ g[s \ {pick(s)}] \in Int
    BY <1>2, <1>3, <1>4, <1>8, <1>10
  <2>2. s \ {pick(s)} \in F
    BY <1>10, <2>1
  <2>3. it[s \ {pick(s)}] = g[s \ {pick(s)}]
    BY <2>2
  <2> QED
    BY <2>1, <2>3
<1>11. IsFiniteSet(T)
  BY FS_Subset
<1> HIDE DEF F
<1>12. T \in F
  BY <1>9, <1>10, <1>11, AllSubsets
<1> QED
  BY <1>1, <1>12 DEF F

(* A sum grows by the value of an element that is put in. *)
LEMMA SumAdd ==
  ASSUME NEW D, NEW w \in [D -> Int], NEW S \in SUBSET D, IsFiniteSet(S), NEW x \in D, x \notin S
  PROVE  /\ SumOf(w, S) \in Int /\ SumOf(w, S \cup {x}) = SumOf(w, S) + w[x]
         /\ SumOf(w, {}) = 0
<1> DEFINE T == S \cup {x}
<1>1. IsFiniteSet(T) /\ T \subseteq D
  BY FS_AddElement
<1>2. PICK g : Adds(g, w, T)
  BY <1>1, AddsExists
<1>3. SumOf(w, T) = g[T] /\ SumOf(w, S) = g[S] /\ SumOf(w, {}) = g[{}]
  BY <1>1, <1>2, SumIs
<1>4. T \ {x} = S
  OBVIOUS
<1>5. g[T] = g[T \ {x}] + w[x] /\ g[S] \in Int /\ g[{}] = 0
  BY <1>2 DEF Adds
<1> QED
  BY <1>3, <1>4, <1>5

LEMMA SumType ==
  ASSUME NEW D, NEW w \in [D -> Int], NEW S \in SUBSET D, IsFiniteSet(S)
  PROVE  SumOf(w, S) \in Int /\ SumOf(w, {}) = 0
<1>1. PICK g : Adds(g, w, S)
  BY AddsExists
<1>2. SumOf(w, S) = g[S] /\ SumOf(w, {}) = g[{}]
  BY <1>1, SumIs
<1> QED
  BY <1>1, <1>2 DEF Adds

(* It depends on the values over the set alone. *)
LEMMA SumSame ==
  ASSUME NEW D, NEW w \in [D -> Int], NEW C, NEW v \in [C -> Int],
         NEW S \in SUBSET (D \cap C), IsFiniteSet(S), \A x \in S : w[x] = v[x]
  PROVE  SumOf(w, S) = SumOf(v, S)
<1>0. S \in SUBSET D /\ S \in SUBSET C
  OBVIOUS
<1>1. PICK g : Adds(g, w, S)
  BY <1>0, AddsExists
<1>2. Adds(g, v, S)
  BY <1>1 DEF Adds
<1>3. SumOf(w, S) = g[S]
  BY <1>0, <1>1, SumIs
<1>4. SumOf(v, S) = g[S]
  BY <1>0, <1>2, SumIs
<1> QED
  BY <1>3, <1>4

(* Parts that are apart, each at least as large as its value, are together *)
(* at least as large as the sum.                                           *)
LEMMA SumOfParts ==
  ASSUME NEW D, NEW w \in [D -> Int], NEW S \in SUBSET D, IsFiniteSet(S),
         NEW U, IsFiniteSet(U), NEW owner,
         \A x \in S : w[x] <= Cardinality({e \in U : owner[e] = x})
  PROVE  SumOf(w, S) <= Cardinality({e \in U : owner[e] \in S})
<1> DEFINE Part(T) == {e \in U : owner[e] \in T}
           One(x) == {e \in U : owner[e] = x}
           F == {T \in SUBSET S : SumOf(w, T) <= Cardinality(Part(T))}
<1>1. \A T \in SUBSET S : IsFiniteSet(T) /\ SumOf(w, T) \in Int /\ SumOf(w, {}) = 0
  BY FS_Subset, SumType
<1>2. \A V \in SUBSET U : IsFiniteSet(V) /\ Cardinality(V) \in Nat
  BY FS_Subset, FS_CardinalityType
<1>3. {} \in F
  <2>1. Part({}) = {} /\ Cardinality({}) = 0
    BY FS_EmptySet
  <2> QED
    BY <1>1, <2>1
<1>4. ASSUME NEW T \in SUBSET S, T # {}, \A x \in T : T \ {x} \in F PROVE T \in F
  <2>0. PICK x \in T : T \ {x} \in F
    BY <1>4
  <2>1. /\ SumOf(w, (T \ {x}) \cup {x}) = SumOf(w, T \ {x}) + w[x] /\ (T \ {x}) \cup {x} = T
        /\ w[x] \in Int /\ SumOf(w, T \ {x}) \in Int
    <3>1. IsFiniteSet(T \ {x}) /\ T \ {x} \in SUBSET D /\ x \in D /\ x \notin T \ {x}
      BY <1>1
    <3>2. (T \ {x}) \cup {x} = T
      OBVIOUS
    <3>3. SumOf(w, (T \ {x}) \cup {x}) = SumOf(w, T \ {x}) + w[x] /\ SumOf(w, T \ {x}) \in Int
      BY <3>1, SumAdd
    <3>4. w[x] \in Int
      BY <3>1
    <3> QED
      BY <3>2, <3>3, <3>4
  <2>2. Part(T) = Part(T \ {x}) \cup One(x) /\ Part(T \ {x}) \cap One(x) = {}
    OBVIOUS
  <2>3. /\ Part(T \ {x}) \in SUBSET U /\ One(x) \in SUBSET U /\ Part(T) \in SUBSET U
    OBVIOUS
  <2>4. w[x] <= Cardinality(One(x)) /\ SumOf(w, T \ {x}) <= Cardinality(Part(T \ {x}))
    BY <2>0
  <2> HIDE DEF Part, One
  <2>5. Cardinality(Part(T)) = Cardinality(Part(T \ {x})) + Cardinality(One(x))
    <3>1. IsFiniteSet(Part(T \ {x})) /\ IsFiniteSet(One(x))
      BY <1>2, <2>3
    <3>2. Cardinality(Part(T \ {x}) \cup One(x)) = Cardinality(Part(T \ {x}))
             + Cardinality(One(x)) - Cardinality(Part(T \ {x}) \cap One(x))
      BY <3>1, FS_Union
    <3>3. Cardinality(Part(T \ {x}) \cap One(x)) = 0
      BY <2>2, FS_EmptySet
    <3>4. Cardinality(Part(T \ {x})) \in Nat /\ Cardinality(One(x)) \in Nat
      BY <1>2, <2>3
    <3> QED
      BY <2>2, <3>2, <3>3, <3>4
  <2>6. /\ Cardinality(Part(T \ {x})) \in Nat /\ Cardinality(One(x)) \in Nat
        /\ SumOf(w, T) = SumOf(w, T \ {x}) + w[x]
    BY <1>2, <2>1, <2>3
  <2>7. SumOf(w, T) <= Cardinality(Part(T))
    BY <2>1, <2>4, <2>5, <2>6
  <2> QED
    BY <2>7
<1> HIDE DEF F
<1>5. S \in F
  BY <1>3, <1>4, AllSubsets
<1> QED
  BY <1>5 DEF F
====
