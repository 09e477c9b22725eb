----------------------------- MODULE FiniteLemmas -----------------------------
(* The least and the greatest of a set of naturals; induction on naturals and *)
(* on finite sets; functions defined by recursion on the subsets of a finite  *)
(* set; sums over disjoint sets; ranks in a finite order; induction on        *)
(* sequences, folds over them, what is kept of them, and when they are sorted *)
(* or without repetitions; what is least and greatest in a sequence.          *)
EXTENDS StableSort, FiniteSetsExt, FunctionTheorems, FiniteSetTheorems, SequenceTheorems,
        WellFoundedInduction, TLAPS

\* A nonempty set of naturals has a least element, which Min returns.
LEMMA MinExists ==
  ASSUME NEW S, S \subseteq Nat, S # {}
  PROVE  /\ Min(S) \in S
         /\ \A x \in S : Min(S) <= x
<1> DEFINE Less == {ss \in Nat \X Nat : ss[1] < ss[2]}
<1>1. IsWellFoundedOn(Less, Nat)
  BY NatLessThanWellFounded DEF OpToRel
<1>2. PICK x \in S : \A y \in S : ~ (<<y, x>> \in Less)
  <2> HIDE DEF Less
  <2> QED BY <1>1, WFMin
<1>3. ASSUME NEW y \in S PROVE x <= y
  <2>1. <<y, x>> \in Nat \X Nat /\ ~ (<<y, x>> \in Less)
    BY <1>2
  <2>2. ~ (y < x)
    BY <2>1
  <2>3. QED
    BY <2>2
<1>4. QED
  BY <1>3 DEF Min

\* A nonempty bounded set of naturals has a greatest element, which Max returns.
LEMMA MaxExists ==
  ASSUME NEW n \in Nat, NEW S, S \subseteq 0 .. n, S # {}
  PROVE  /\ Max(S) \in S
         /\ \A x \in S : x <= Max(S)
<1> DEFINE Mirror == {n - x : x \in S}
<1>1. Mirror \subseteq Nat /\ Mirror # {}
  <2>1. PICK x \in S : TRUE
    OBVIOUS
  <2>2. n - x \in Mirror
    OBVIOUS
  <2>3. \A x1 \in S : n - x1 \in Nat
    OBVIOUS
  <2>4. QED
    BY <2>2, <2>3
<1>2. /\ Min(Mirror) \in Mirror
      /\ \A y \in Mirror : Min(Mirror) <= y
  <2> HIDE DEF Mirror
  <2> QED BY <1>1, MinExists
<1>3. PICK x \in S : Min(Mirror) = n - x
  BY <1>2
<1>4. \A y \in S : y <= x
  <2>1. TAKE y \in S
  <2>2. n - y \in Mirror
    OBVIOUS
  <2>3. n - x <= n - y
    BY <1>2, <1>3, <2>2
  <2>4. QED
    BY <2>3
<1>5. QED
  BY <1>4 DEF Max

\* The lesser and the greater of two numbers are among them and bound them.
LEMMA PairBounds ==
  ASSUME NEW a \in Int, NEW b \in Int
  PROVE  /\ Min({a, b}) \in {a, b} /\ Min({a, b}) <= a /\ Min({a, b}) <= b
         /\ Max({a, b}) \in {a, b} /\ Max({a, b}) >= a /\ Max({a, b}) >= b
<1>1. Min({a, b}) \in {a, b} /\ Min({a, b}) <= a /\ Min({a, b}) <= b
  BY DEF Min
<1>2. Max({a, b}) \in {a, b} /\ Max({a, b}) >= a /\ Max({a, b}) >= b
  BY DEF Max
<1>3. QED
  BY <1>1, <1>2

-----------------------------------------------------------------------------

\* Induction on naturals, for a set.
LEMMA NatSetInduction ==
  ASSUME NEW S, 0 \in S, \A n \in Nat : n \in S => n + 1 \in S
  PROVE  Nat \subseteq S
<1> DEFINE Bad == Nat \ S
<1> SUFFICES ASSUME Bad # {} PROVE FALSE
  OBVIOUS
<1>1. PICK n \in Bad : \A m \in Bad : n <= m
  <2> HIDE DEF Bad
  <2>1. Bad \subseteq Nat
    BY DEF Bad
  <2> QED
    BY <2>1, MinExists
<1>2. n \in Nat \ {0} /\ n \notin S
  BY <1>1
<1>3. n - 1 \in Nat /\ ~ (n <= n - 1)
  BY <1>2
<1>4. n - 1 \in S
  BY <1>1, <1>3
<1>5. n - 1 + 1 = n
  BY <1>2
<1> QED
  BY <1>2, <1>3, <1>4, <1>5

\* Induction on the subsets of a finite set: a nonempty one may rely on all that
\* lack one of its elements.
LEMMA SubsetInduction ==
  ASSUME NEW D, IsFiniteSet(D), NEW T, {} \in T,
         \A s \in SUBSET D : s # {} /\ (\A x \in s : s \ {x} \in T) => s \in T
  PROVE  SUBSET D \subseteq T
<1> DEFINE Sizes == {n \in Nat : \A s \in SUBSET D : Cardinality(s) = n => s \in T}
<1>1. 0 \in Sizes
  BY FS_Subset, FS_EmptySet
<1>2. ASSUME NEW n \in Nat, n \in Sizes PROVE n + 1 \in Sizes
  <2>1. \A s \in SUBSET D : Cardinality(s) = n => s \in T
    BY <1>2
  <2> HIDE DEF Sizes
  <2>2. ASSUME NEW s \in SUBSET D, Cardinality(s) = n + 1 PROVE s \in T
    <3>1. IsFiniteSet(s)
      BY FS_Subset
    <3>2. Cardinality({}) = 0 /\ n + 1 # 0
      BY FS_EmptySet
    <3>3. s # {}
      BY <2>2, <3>2
    <3>4. ASSUME NEW x \in s PROVE s \ {x} \in T
      <4>1. Cardinality(s \ {x}) = Cardinality(s) - 1
        BY <3>1, FS_RemoveElement
      <4>2. Cardinality(s \ {x}) = n
        BY <2>2, <4>1
      <4> QED
        BY <2>1, <4>2
    <3> QED
      BY <3>3, <3>4
  <2> QED
    BY <2>2 DEF Sizes
<1>3. Nat \subseteq Sizes
  <2> HIDE DEF Sizes
  <2> QED BY <1>1, <1>2, NatSetInduction
<1>4. ASSUME NEW s \in SUBSET D PROVE s \in T
  <2>1. Cardinality(s) \in Nat
    BY FS_Subset, FS_CardinalityType
  <2> QED
    BY <1>3, <2>1
<1> QED
  BY <1>4

\* What a definition by recursion on the subsets of D needs: a value for the
\* empty set, an element to take from any other, and a value from that of the rest.
Recursion(D, V, base, pick, step) ==
  /\ IsFiniteSet(D)
  /\ base \in V
  /\ \A s \in SUBSET D : s # {} => pick[s] \in s
  /\ step \in [D -> [V -> V]]

\* The function so defined,
Recursive(g, D, V, base, pick, step) ==
  /\ g \in [SUBSET D -> V]
  /\ \A s \in SUBSET D : g[s] = IF s = {} THEN base ELSE step[pick[s]][g[s \ {pick[s]}]]

\* which exists.
LEMMA SubsetRecursion ==
  ASSUME NEW D, NEW V, NEW base, NEW pick, NEW step, Recursion(D, V, base, pick, step)
  PROVE  \E g : Recursive(g, D, V, base, pick, step)
<1> DEFINE UpTo(n) == {s \in SUBSET D : Cardinality(s) <= n}
           Defines(g, n) == \A s \in UpTo(n) :
             g[s] = IF s = {} THEN base ELSE step[pick[s]][g[s \ {pick[s]}]]
           Reached == {n \in Nat : \E g \in [UpTo(n) -> V] : Defines(g, n)}
<1>0. /\ IsFiniteSet(D) /\ base \in V /\ step \in [D -> [V -> V]]
      /\ \A s \in SUBSET D : s # {} => pick[s] \in s
  BY DEF Recursion
<1>1. \A s \in SUBSET D :
        IsFiniteSet(s) /\ Cardinality(s) \in Nat /\ Cardinality(s) <= Cardinality(D)
  BY <1>0, FS_Subset, FS_CardinalityType
<1>2. \A n, s : s \in UpTo(n) <=> s \in SUBSET D /\ Cardinality(s) <= n
  OBVIOUS
<1>3. \A n, g : Defines(g, n) <=>
        \A s \in UpTo(n) :
          g[s] = IF s = {} THEN base ELSE step[pick[s]][g[s \ {pick[s]}]]
  OBVIOUS
<1>4. \A n : n \in Reached <=> n \in Nat /\ \E g \in [UpTo(n) -> V] : Defines(g, n)
  OBVIOUS
<1> HIDE DEF UpTo, Defines, Reached
<1>5. 0 \in Reached
  <2>1. ASSUME NEW s \in UpTo(0) PROVE s = {}
    <3>1. IsFiniteSet(s) /\ Cardinality(s) \in Nat /\ Cardinality(s) <= 0
      BY <1>1, <1>2
    <3> QED
      BY <3>1, FS_EmptySet
  <2> DEFINE g == [s \in UpTo(0) |-> base]
  <2>2. g \in [UpTo(0) -> V]
    BY <1>0
  <2>3. Defines(g, 0)
    BY <1>3, <2>1
  <2> HIDE DEF g
  <2> QED
    BY <1>4, <2>2, <2>3
<1>6. ASSUME NEW n \in Nat, n \in Reached PROVE n + 1 \in Reached
  <2>1. PICK g \in [UpTo(n) -> V] : Defines(g, n)
    BY <1>4, <1>6
  <2> DEFINE h == [s \in UpTo(n + 1) |->
                     IF s = {} THEN base ELSE step[pick[s]][g[s \ {pick[s]}]]]
  <2>2. ASSUME NEW s \in UpTo(n + 1), s # {}
        PROVE  pick[s] \in D /\ s \ {pick[s]} \in UpTo(n)
    <3>1. s \in SUBSET D /\ Cardinality(s) <= n + 1
      BY <1>2
    <3>2. pick[s] \in s /\ IsFiniteSet(s) /\ Cardinality(s) \in Nat
      BY <1>0, <1>1, <2>2, <3>1
    <3>3. Cardinality(s \ {pick[s]}) = Cardinality(s) - 1
      BY <3>2, FS_RemoveElement
    <3>4. Cardinality(s \ {pick[s]}) <= n
      BY <3>1, <3>2, <3>3
    <3> QED
      BY <1>2, <3>1, <3>2, <3>4
  <2>3. h \in [UpTo(n + 1) -> V]
    <3>1. ASSUME NEW s \in UpTo(n + 1), s # {}
          PROVE  step[pick[s]][g[s \ {pick[s]}]] \in V
      <4>1. pick[s] \in D /\ g[s \ {pick[s]}] \in V
        BY <2>2, <3>1
      <4> QED
        BY <1>0, <4>1
    <3> QED
      BY <1>0, <3>1
  <2>4. ASSUME NEW s \in UpTo(n) PROVE s \in UpTo(n + 1) /\ h[s] = g[s]
    <3>1. s \in SUBSET D /\ Cardinality(s) <= n
      BY <1>2
    <3>2. Cardinality(s) \in Nat
      BY <1>1, <3>1
    <3>3. Cardinality(s) <= n + 1
      BY <3>1, <3>2
    <3>4. s \in UpTo(n + 1)
      BY <1>2, <3>1, <3>3
    <3>5. g[s] = IF s = {} THEN base ELSE step[pick[s]][g[s \ {pick[s]}]]
      BY <1>3, <2>1
    <3> QED
      BY <3>4, <3>5
  <2>5. Defines(h, n + 1)
    <3>1. ASSUME NEW s \in UpTo(n + 1)
          PROVE  h[s] = IF s = {} THEN base ELSE step[pick[s]][h[s \ {pick[s]}]]
      <4>1. CASE s = {}
        BY <4>1
      <4>2. CASE s # {}
        <5>1. h[s \ {pick[s]}] = g[s \ {pick[s]}]
          BY <2>2, <2>4, <4>2
        <5>2. h[s] = step[pick[s]][g[s \ {pick[s]}]]
          BY <4>2
        <5> HIDE DEF h
        <5> QED
          BY <4>2, <5>1, <5>2
      <4> QED
        BY <4>1, <4>2
    <3> HIDE DEF h
    <3> QED
      BY <1>3, <3>1
  <2> HIDE DEF h
  <2> QED
    BY <1>4, <2>3, <2>5
<1>7. Nat \subseteq Reached
  BY <1>5, <1>6, NatSetInduction
<1>8. PICK g \in [UpTo(Cardinality(D)) -> V] : Defines(g, Cardinality(D))
  BY <1>1, <1>4, <1>7
<1>9. UpTo(Cardinality(D)) = SUBSET D
  BY <1>1, <1>2
<1> QED
  BY <1>3, <1>8, <1>9 DEF Recursive

\* A fold from left to right over n steps, as the library defines it,
Folds(g, n, V, base, step) ==
  /\ g \in [SUBSET (1 .. n) -> V]
  /\ g = [s \in SUBSET (1 .. n) |->
            IF s = {} THEN base ELSE LET x == Max(s) IN step[x][g[s \ {x}]]]

\* exists.
LEMMA FoldsExist ==
  ASSUME NEW n \in Nat, NEW V, NEW base, NEW step, base \in V, step \in [1 .. n -> [V -> V]]
  PROVE  \E g : Folds(g, n, V, base, step)
<1> DEFINE pick == [s \in SUBSET (1 .. n) |-> Max(s)]
<1>1. IsFiniteSet(1 .. n)
  BY FS_Interval
<1>2. ASSUME NEW s \in SUBSET (1 .. n), s # {} PROVE Max(s) \in s
  <2>1. s \subseteq 0 .. n
    OBVIOUS
  <2> QED
    BY <1>2, <2>1, MaxExists
<1>3. \A s \in SUBSET (1 .. n) : pick[s] = Max(s)
  OBVIOUS
<1> HIDE DEF pick
<1>4. Recursion(1 .. n, V, base, pick, step)
  BY <1>1, <1>2, <1>3 DEF Recursion
<1>5. PICK g : Recursive(g, 1 .. n, V, base, pick, step)
  BY <1>4, SubsetRecursion
<1>6. ASSUME NEW s \in SUBSET (1 .. n)
      PROVE  g[s] = IF s = {} THEN base ELSE LET x == Max(s) IN step[x][g[s \ {x}]]
  BY <1>3, <1>5 DEF Recursive
<1>7. Folds(g, n, V, base, step)
  BY <1>5, <1>6 DEF Recursive, Folds
<1> QED
  BY <1>7

\* The value of a fold at 1 .. k depends on that at 1 .. k - 1.
LEMMA PrefixOf ==
  ASSUME NEW n \in Nat, NEW k \in 1 .. n
  PROVE  /\ 1 .. k \subseteq 1 .. n
         /\ 1 .. k # {}
         /\ Max(1 .. k) = k
         /\ (1 .. k) \ {k} = 1 .. k - 1
<1>1. 1 .. k \subseteq 1 .. n /\ k \in 1 .. k
  OBVIOUS
<1>2. Max(1 .. k) = k
  <2>1. 1 .. k \subseteq 0 .. n
    OBVIOUS
  <2>2. Max(1 .. k) \in 1 .. k /\ \A x \in 1 .. k : x <= Max(1 .. k)
    BY <1>1, <2>1, MaxExists
  <2> QED
    BY <1>1, <2>2
<1>3. (1 .. k) \ {k} = 1 .. k - 1
  OBVIOUS
<1> QED
  BY <1>1, <1>2, <1>3

\* The sums of the values of F over the subsets of D, taken in any order,
Sums(g, D, F) ==
  g = [s \in SUBSET D |->
         IF s = {} THEN 0 ELSE LET x == CHOOSE y \in s : TRUE IN F[x] + g[s \ {x}]]

\* exist.
LEMMA SumsExist ==
  ASSUME NEW D, IsFiniteSet(D), NEW F, F \in [D -> Int]
  PROVE  \E g : Sums(g, D, F)
<1> DEFINE AnyOf(s) == CHOOSE y \in s : TRUE
           pick == [s \in SUBSET D |-> AnyOf(s)]
           step == [x \in D |-> [v \in Int |-> F[x] + v]]
           V == Int
           base == 0
<1>1. \A s \in SUBSET D : s # {} => AnyOf(s) \in s /\ pick[s] = AnyOf(s)
  OBVIOUS
<1>2. step \in [D -> [V -> V]]
  OBVIOUS
<1>3. \A x \in D, v \in Int : step[x][v] = F[x] + v
  OBVIOUS
<1>4. \A s \in SUBSET D : s # {} => pick[s] \in s
  BY <1>1
<1>5. base \in V /\ V = Int /\ base = 0
  OBVIOUS
<1> HIDE DEF AnyOf, pick, step, V, base
<1>6. Recursion(D, V, base, pick, step)
  BY <1>2, <1>4, <1>5 DEF Recursion
<1>7. PICK g : Recursive(g, D, V, base, pick, step)
  BY <1>6, SubsetRecursion
<1>8. g \in [SUBSET D -> Int]
  BY <1>5, <1>7 DEF Recursive
<1>9. ASSUME NEW s \in SUBSET D
      PROVE  g[s] = IF s = {} THEN 0 ELSE F[AnyOf(s)] + g[s \ {AnyOf(s)}]
  <2>1. g[s] = IF s = {} THEN 0 ELSE step[pick[s]][g[s \ {pick[s]}]]
    BY <1>5, <1>7 DEF Recursive
  <2>2. CASE s = {}
    BY <2>1, <2>2
  <2>3. CASE s # {}
    <3>1. AnyOf(s) \in D /\ g[s \ {AnyOf(s)}] \in Int /\ pick[s] = AnyOf(s)
      BY <1>1, <1>8, <2>3
    <3>2. step[AnyOf(s)][g[s \ {AnyOf(s)}]] = F[AnyOf(s)] + g[s \ {AnyOf(s)}]
      BY <1>3, <3>1
    <3> QED
      BY <2>1, <2>3, <3>1, <3>2
  <2> QED
    BY <2>2, <2>3
<1>10. g = [s \in SUBSET D |->
              IF s = {} THEN 0 ELSE LET x == CHOOSE y \in s : TRUE IN F[x] + g[s \ {x}]]
  BY <1>8, <1>9 DEF AnyOf
<1> QED
  BY <1>10 DEF Sums

AddsUp(g, D, F) == IsFiniteSet(D) /\ F \in [D -> Int] /\ Sums(g, D, F)

\* Sums are integers,
LEMMA SumsTyped ==
  ASSUME NEW D, NEW F, NEW g, AddsUp(g, D, F)
  PROVE  g[{}] = 0 /\ \A s \in SUBSET D : g[s] \in Int
<1> DEFINE AnyOf(s) == CHOOSE y \in s : TRUE
           T == {s \in SUBSET D : g[s] \in Int}
<1>0. IsFiniteSet(D) /\ F \in [D -> Int]
  BY DEF AddsUp
<1>1. g[{}] = 0 /\ \A s \in SUBSET D : s # {} => AnyOf(s) \in s /\ g[s] = F[AnyOf(s)] + g[s \ {AnyOf(s)}]
  BY DEF AddsUp, Sums
<1> HIDE DEF AnyOf
<1>2. {} \in T
  BY <1>1
<1>3. ASSUME NEW s \in SUBSET D, s # {}, \A x \in s : s \ {x} \in T PROVE s \in T
  <2>1. AnyOf(s) \in s /\ g[s] = F[AnyOf(s)] + g[s \ {AnyOf(s)}] /\ g[s \ {AnyOf(s)}] \in Int
    BY <1>1, <1>3
  <2>2. F[AnyOf(s)] \in Int
    BY <1>0, <2>1
  <2> QED
    BY <2>1, <2>2
<1>4. SUBSET D \subseteq T
  <2> HIDE DEF T
  <2> QED BY <1>0, <1>2, <1>3, SubsetInduction
<1> QED
  BY <1>1, <1>4

\* any element may be the first that is added,
LEMMA SumsAnyOrder ==
  ASSUME NEW D, NEW F, NEW g, AddsUp(g, D, F)
  PROVE  \A s \in SUBSET D : \A x \in s : g[s] = F[x] + g[s \ {x}]
<1> DEFINE AnyOf(s) == CHOOSE y \in s : TRUE
           T == {s \in SUBSET D : \A x \in s : g[s] = F[x] + g[s \ {x}]}
<1>0. IsFiniteSet(D) /\ F \in [D -> Int]
  BY DEF AddsUp
<1>1. \A s \in SUBSET D : s # {} => AnyOf(s) \in s /\ g[s] = F[AnyOf(s)] + g[s \ {AnyOf(s)}]
  BY DEF AddsUp, Sums
<1> HIDE DEF AnyOf
<1>2. {} \in T
  OBVIOUS
<1>3. ASSUME NEW s \in SUBSET D, s # {}, \A x \in s : s \ {x} \in T PROVE s \in T
  <2>1. PICK c : c = AnyOf(s)
    OBVIOUS
  <2>2. c \in s /\ g[s] = F[c] + g[s \ {c}]
    BY <1>1, <1>3, <2>1
  <2>3. \A x \in s : \A y \in s \ {x} : g[s \ {x}] = F[y] + g[(s \ {x}) \ {y}]
    BY <1>3
  <2>4. \A x \in s : F[x] \in Int
    BY <1>0
  <2>5. ASSUME NEW x \in s PROVE g[s] = F[x] + g[s \ {x}]
    <3>1. CASE x = c
      BY <2>2, <3>1
    <3>2. CASE x # c
      <4>1. (s \ {x}) \ {c} = (s \ {c}) \ {x}
        OBVIOUS
      <4>2. g[s \ {x}] = F[c] + g[(s \ {x}) \ {c}] /\ g[s \ {c}] = F[x] + g[(s \ {c}) \ {x}]
        BY <2>2, <2>3, <3>2
      <4>3. g[(s \ {c}) \ {x}] \in Int
        <5>1. (s \ {c}) \ {x} \in SUBSET D
          OBVIOUS
        <5> QED
          BY <5>1, SumsTyped
      <4>4. F[c] \in Int /\ F[x] \in Int
        BY <2>2, <2>4
      <4>5. PICK r \in Int : g[(s \ {c}) \ {x}] = r /\ g[(s \ {x}) \ {c}] = r
        BY <4>1, <4>3
      <4>6. g[s \ {x}] = F[c] + r /\ g[s] = F[c] + (F[x] + r)
        BY <2>2, <4>2, <4>5
      <4>7. F[c] + (F[x] + r) = F[x] + (F[c] + r)
        BY <4>4
      <4> QED
        BY <4>6, <4>7
    <3> QED
      BY <3>1, <3>2
  <2> QED
    BY <2>5
<1>4. SUBSET D \subseteq T
  <2> HIDE DEF T
  <2> QED BY <1>0, <1>2, <1>3, SubsetInduction
<1> QED
  BY <1>4

\* and they depend on nothing but what is added.
LEMMA SumsAgree ==
  ASSUME NEW D, NEW F, NEW g, AddsUp(g, D, F), NEW E, NEW G, NEW h, AddsUp(h, E, G),
         NEW s, s \subseteq D \cap E, \A x \in s : F[x] = G[x]
  PROVE  g[s] = h[s]
<1> DEFINE T == {u \in SUBSET s : g[u] = h[u]}
<1>1. {} \in T
  BY SumsTyped
<1>2. ASSUME NEW u \in SUBSET s, u # {}, \A x \in u : u \ {x} \in T PROVE u \in T
  <2>1. PICK x : x \in u
    BY <1>2
  <2>2. g[u \ {x}] = h[u \ {x}]
    BY <1>2, <2>1
  <2>3. g[u] = F[x] + g[u \ {x}]
    <3>1. u \in SUBSET D
      OBVIOUS
    <3> QED
      BY <2>1, <3>1, SumsAnyOrder
  <2>4. h[u] = G[x] + h[u \ {x}]
    <3>1. u \in SUBSET E
      OBVIOUS
    <3> QED
      BY <2>1, <3>1, SumsAnyOrder
  <2> QED
    BY <2>1, <2>2, <2>3, <2>4
<1>3. IsFiniteSet(s)
  BY FS_Subset DEF AddsUp
<1>4. SUBSET s \subseteq T
  <2> HIDE DEF T
  <2> QED BY <1>1, <1>2, <1>3, SubsetInduction
<1> QED
  BY <1>4

\* SumFunction is such a sum.
LEMMA SumFunctionSums ==
  ASSUME NEW F, IsFiniteSet(DOMAIN F), F \in [DOMAIN F -> Int]
  PROVE  \E g : AddsUp(g, DOMAIN F, F) /\ SumFunction(F) = g[DOMAIN F]
<1>1. PICK f : Sums(f, DOMAIN F, F)
  BY SumsExist
<1>2. f = [s \in SUBSET DOMAIN F |->
             IF s = {} THEN 0 ELSE LET x == CHOOSE y \in s : TRUE IN F[x] + f[s \ {x}]]
  BY <1>1 DEF Sums
<1>3. PICK g : /\ g = [s \in SUBSET DOMAIN F |->
                         IF s = {} THEN 0
                         ELSE LET x == CHOOSE y \in s : TRUE IN F[x] + g[s \ {x}]]
               /\ SumFunction(F) = g[DOMAIN F]
  BY <1>2 DEF SumFunction, SumFunctionOnSet, FoldFunctionOnSet, MapThenFoldSet
<1> QED
  BY <1>3 DEF AddsUp, Sums

\* A function on a finite set, and what is left of it without one element.
Summable(F) == IsFiniteSet(DOMAIN F) /\ F \in [DOMAIN F -> Int]
Rest(F, t) == Restrict(F, DOMAIN F \ {t})

LEMMA SumParts ==
  ASSUME NEW F, Summable(F), NEW t
  PROVE  /\ SumFunction(F) \in Int /\ SumFunction(Rest(F, t)) \in Int
         /\ t \in DOMAIN F => SumFunction(F) = F[t] + SumFunction(Rest(F, t))
         /\ t \notin DOMAIN F => Rest(F, t) = F
<1>1. IsFiniteSet(DOMAIN F) /\ F \in [DOMAIN F -> Int]
  BY DEF Summable
<1>2. PICK R : R = Rest(F, t)
  OBVIOUS
<1>3. /\ DOMAIN R = DOMAIN F \ {t} /\ R \in [DOMAIN R -> Int]
      /\ \A x \in DOMAIN R : R[x] = F[x]
  BY <1>1, <1>2 DEF Rest, Restrict
<1>4. IsFiniteSet(DOMAIN R)
  BY <1>1, <1>3, FS_Subset
<1>5. PICK g : AddsUp(g, DOMAIN F, F) /\ SumFunction(F) = g[DOMAIN F]
  BY <1>1, SumFunctionSums
<1>6. PICK h : AddsUp(h, DOMAIN R, R) /\ SumFunction(R) = h[DOMAIN R]
  BY <1>3, <1>4, SumFunctionSums
<1>7. SumFunction(F) \in Int /\ SumFunction(R) \in Int
  BY <1>5, <1>6, SumsTyped
<1>8. ASSUME t \in DOMAIN F PROVE SumFunction(F) = F[t] + SumFunction(R)
  <2>1. g[DOMAIN F] = F[t] + g[DOMAIN F \ {t}]
    BY <1>5, <1>8, SumsAnyOrder
  <2>2. DOMAIN R \subseteq DOMAIN F \cap DOMAIN R
    BY <1>3
  <2>3. g[DOMAIN R] = h[DOMAIN R]
    BY <1>3, <1>5, <1>6, <2>2, SumsAgree
  <2> QED
    BY <1>3, <1>5, <1>6, <2>1, <2>3
<1>9. ASSUME t \notin DOMAIN F PROVE R = F
  BY <1>1, <1>2, <1>9 DEF Rest, Restrict
<1> QED
  BY <1>2, <1>7, <1>8, <1>9

\* g adds up, over the subsets of D, the sizes of sets that have nothing in common.
Counts(g, D, B) ==
  /\ IsFiniteSet(D)
  /\ \A x \in D : IsFiniteSet(B[x])
  /\ \A x, y \in D : x # y => B[x] \cap B[y] = {}
  /\ g[{}] = 0
  /\ \A s \in SUBSET D : s # {} => \E x \in s : g[s] = Cardinality(B[x]) + g[s \ {x}]

\* The sum, in whatever order, is the size of all these sets together.
LEMMA DisjointSum ==
  ASSUME NEW g, NEW D, NEW B, Counts(g, D, B)
  PROVE  /\ IsFiniteSet(UNION {B[x] : x \in D})
         /\ g[D] = Cardinality(UNION {B[x] : x \in D})
<1> DEFINE All(s) == UNION {B[x] : x \in s}
           T == {s \in SUBSET D : IsFiniteSet(All(s)) /\ g[s] = Cardinality(All(s))}
<1>0. /\ IsFiniteSet(D)
      /\ \A x \in D : IsFiniteSet(B[x])
      /\ \A x, y \in D : x # y => B[x] \cap B[y] = {}
      /\ g[{}] = 0
      /\ \A s \in SUBSET D : s # {} => \E x \in s : g[s] = Cardinality(B[x]) + g[s \ {x}]
  BY DEF Counts
<1>1. {} \in T
  <2>1. All({}) = {}
    OBVIOUS
  <2> QED
    BY <1>0, <2>1, FS_EmptySet
<1>2. ASSUME NEW s \in SUBSET D, s # {}, \A x \in s : s \ {x} \in T PROVE s \in T
  <2>1. PICK x \in s : g[s] = Cardinality(B[x]) + g[s \ {x}]
    BY <1>0, <1>2
  <2>2. All(s) = All(s \ {x}) \cup B[x]
    OBVIOUS
  <2>3. All(s \ {x}) \cap B[x] = {}
    BY <1>0
  <2>4. IsFiniteSet(All(s \ {x})) /\ g[s \ {x}] = Cardinality(All(s \ {x})) /\ IsFiniteSet(B[x])
    BY <1>0, <1>2
  <2>7. Cardinality(All(s \ {x})) \in Nat /\ Cardinality(B[x]) \in Nat
    BY <2>4, FS_CardinalityType
  <2> HIDE DEF All, T
  <2>5. IsFiniteSet(All(s))
    <3>1. IsFiniteSet(All(s \ {x}) \cup B[x])
      BY <2>4, FS_Union
    <3> QED
      BY <2>2, <3>1
  <2>6. Cardinality(All(s)) = Cardinality(All(s \ {x})) + Cardinality(B[x])
    <3>1. Cardinality(All(s)) = Cardinality(All(s \ {x})) + Cardinality(B[x])
                                - Cardinality(All(s \ {x}) \cap B[x])
      BY <2>2, <2>4, FS_Union
    <3>2. Cardinality(All(s \ {x}) \cap B[x]) = 0
      BY <2>3, FS_EmptySet
    <3>3. Cardinality(All(s \ {x})) \in Nat /\ Cardinality(B[x]) \in Nat
      BY <2>4, FS_CardinalityType
    <3> QED
      BY <3>1, <3>2, <3>3
  <2> QED
    BY <2>1, <2>4, <2>5, <2>6, <2>7 DEF T
<1>3. SUBSET D \subseteq T
  <2> HIDE DEF T
  <2> QED BY <1>0, <1>1, <1>2, SubsetInduction
<1> QED
  BY <1>3

\* A finite set under a strict total order, of which B gives what lies below each
\* element.
Ordered(S, B) ==
  /\ IsFiniteSet(S)
  /\ \A x \in S : B[x] \subseteq S /\ x \notin B[x]
  /\ \A x, y \in S : x # y => x \in B[y] \/ y \in B[x]
  /\ \A x, y \in S : x \in B[y] => B[x] \subseteq B[y]

\* It has exactly one element of each rank.
LEMMA Ranks ==
  ASSUME NEW S, NEW B, Ordered(S, B)
  PROVE  /\ Cardinality(S) \in Nat
         /\ \A x \in S : Cardinality(B[x]) \in 0 .. Cardinality(S) - 1
         /\ \A x, y \in S : x \in B[y] <=> Cardinality(B[x]) < Cardinality(B[y])
         /\ \A x, y \in S : Cardinality(B[x]) = Cardinality(B[y]) => x = y
         /\ \A i \in 0 .. Cardinality(S) - 1 : \E x \in S : Cardinality(B[x]) = i
<1> DEFINE n == Cardinality(S)
           place == [x \in S |-> Cardinality(B[x]) + 1]
<1>0. /\ IsFiniteSet(S)
      /\ \A x \in S : B[x] \subseteq S /\ x \notin B[x]
      /\ \A x, y \in S : x # y => x \in B[y] \/ y \in B[x]
      /\ \A x, y \in S : x \in B[y] => B[x] \subseteq B[y]
  BY DEF Ordered
<1>1. n \in Nat
  BY <1>0, FS_CardinalityType
<1>2. ASSUME NEW x \in S, NEW T \in SUBSET S, B[x] \subseteq T, x \in T
      PROVE  /\ Cardinality(B[x]) \in Nat /\ Cardinality(T) \in Nat
             /\ Cardinality(B[x]) < Cardinality(T)
  <2>1. IsFiniteSet(T) /\ IsFiniteSet(B[x]) /\ x \notin B[x]
    BY <1>0, FS_Subset
  <2>2. Cardinality(T) \in Nat /\ Cardinality(B[x]) \in Nat
    BY <2>1, FS_CardinalityType
  <2>3. Cardinality(B[x] \cup {x}) = Cardinality(B[x]) + 1
    BY <2>1, FS_AddElement
  <2>4. Cardinality(B[x] \cup {x}) <= Cardinality(T)
    BY <1>2, <2>1, FS_Subset
  <2> QED
    BY <2>2, <2>3, <2>4
<1>3. ASSUME NEW x \in S PROVE Cardinality(B[x]) \in Nat /\ Cardinality(B[x]) < n
  BY <1>0, <1>2
<1>4. ASSUME NEW x \in S, NEW y \in S, x \in B[y] PROVE Cardinality(B[x]) < Cardinality(B[y])
  BY <1>0, <1>2, <1>4
<1>5. ASSUME NEW x \in S, NEW y \in S, x # y
      PROVE  Cardinality(B[x]) < Cardinality(B[y]) \/ Cardinality(B[y]) < Cardinality(B[x])
  BY <1>0, <1>4, <1>5
<1>6. \A x, y \in S : Cardinality(B[x]) = Cardinality(B[y]) => x = y
  BY <1>3, <1>5
<1>7. place \in Injection(S, 1 .. n)
  <2>1. place \in [S -> 1 .. n]
    BY <1>1, <1>3
  <2>2. \A x, y \in S : place[x] = place[y] => x = y
    BY <1>3, <1>6
  <2> QED
    BY <2>1, <2>2 DEF Injection, IsInjective
<1>8. place \in Surjection(S, 1 .. n)
  <2>1. IsFiniteSet(1 .. n) /\ Cardinality(1 .. n) = n
    BY <1>1, FS_Interval
  <2> QED
    BY <1>7, <2>1, FS_Injection
<1>9. ASSUME NEW i \in 0 .. n - 1 PROVE \E x \in S : Cardinality(B[x]) = i
  <2>1. i + 1 \in 1 .. n
    BY <1>1
  <2>2. PICK x \in S : place[x] = i + 1
    BY <1>8, <2>1 DEF Surjection
  <2> QED
    BY <1>3, <2>2
<1>10. \A x, y \in S : Cardinality(B[x]) < Cardinality(B[y]) => x \in B[y]
  <2> SUFFICES ASSUME NEW x \in S, NEW y \in S, Cardinality(B[x]) < Cardinality(B[y])
               PROVE  x \in B[y]
    OBVIOUS
  <2>1. Cardinality(B[x]) \in Nat /\ Cardinality(B[y]) \in Nat
    BY <1>3
  <2>2. x # y /\ ~ (Cardinality(B[y]) < Cardinality(B[x]))
    BY <2>1
  <2> QED
    BY <1>0, <1>4, <2>2
<1> QED
  BY <1>1, <1>3, <1>4, <1>6, <1>9, <1>10
-----------------------------------------------------------------------------
(* Folds over sequences.                                                   *)

\* Induction on sequences, for a set.
LEMMA SeqSetInduction ==
  ASSUME NEW X, NEW T, <<>> \in T,
         \A s \in Seq(X), x \in X : s \in T => Append(s, x) \in T
  PROVE  Seq(X) \subseteq T
<1> DEFINE Lengths == {n \in Nat : \A s \in Seq(X) : Len(s) = n => s \in T}
<1>1. 0 \in Lengths
  <2>1. \A s \in Seq(X) : Len(s) = 0 => s = <<>>
    OBVIOUS
  <2> QED
    BY <2>1
<1>2. ASSUME NEW n \in Nat, n \in Lengths PROVE n + 1 \in Lengths
  <2>1. ASSUME NEW s \in Seq(X), Len(s) = n + 1 PROVE s \in T
    <3>1. s # <<>>
      BY <2>1
    <3>2. PICK t \in Seq(X), x \in X : s = Append(t, x)
      BY <3>1, SequenceEmptyOrAppend
    <3>3. Len(t) = n
      BY <2>1, <3>2
    <3> QED
      BY <1>2, <3>2, <3>3
  <2> QED
    BY <2>1
<1>3. Nat \subseteq Lengths
  <2> HIDE DEF Lengths
  <2> QED
    BY <1>1, <1>2, NatSetInduction
<1> QED
  BY <1>3

\* The values that n steps go through.
Run(w, n, V, base, step) ==
  /\ w \in [0 .. n -> V]
  /\ w[0] = base
  /\ \A k \in 1 .. n : w[k] = step[k][w[k - 1]]

\* A fold from left to right that takes these steps, as the library defines it,
StepsOf(g, n, V, base, step) ==
  /\ n \in Nat /\ base \in V /\ step \in [1 .. n -> [V -> V]]
  /\ g[{}] = base
  /\ \A k \in 1 .. n : g[1 .. k - 1] \in V => g[1 .. k] = step[k][g[1 .. k - 1]]

\* goes through such a run.
LEMMA FoldRuns ==
  ASSUME NEW n, NEW V, NEW base, NEW step, NEW g, StepsOf(g, n, V, base, step)
  PROVE  \E w : Run(w, n, V, base, step) /\ w[n] = g[1 .. n]
<1>0. /\ n \in Nat /\ base \in V /\ step \in [1 .. n -> [V -> V]]
      /\ g[{}] = base
      /\ \A k \in 1 .. n : g[1 .. k - 1] \in V => g[1 .. k] = step[k][g[1 .. k - 1]]
  BY DEF StepsOf
<1> DEFINE w == [k \in 0 .. n |-> g[1 .. k]]
<1>1. w[0] = base /\ 0 \in 0 .. n
  <2>1. 1 .. 0 = {} /\ 0 \in 0 .. n
    BY <1>0
  <2> QED
    BY <1>0, <2>1
<1>2. w[n] = g[1 .. n] /\ w = [k \in 0 .. n |-> w[k]]
  BY <1>0
<1>3. ASSUME NEW k \in 1 .. n, w[k - 1] \in V PROVE w[k] = step[k][w[k - 1]]
  <2>1. k \in 0 .. n /\ k - 1 \in 0 .. n
    BY <1>0
  <2> QED
    BY <1>0, <1>3, <2>1
<1> HIDE DEF w
<1>4. \A k \in 0 .. n : w[k] \in V
  <2> DEFINE S == {k \in Nat : k <= n => w[k] \in V}
  <2>1. 0 \in S
    BY <1>0, <1>1
  <2>2. ASSUME NEW k \in Nat, k \in S PROVE k + 1 \in S
    <3> SUFFICES ASSUME k + 1 <= n PROVE w[k + 1] \in V
      OBVIOUS
    <3>1. PICK m \in 1 .. n : m = k + 1
      BY <1>0
    <3>2. w[m - 1] \in V
      BY <1>0, <2>2, <3>1
    <3>3. step[m][w[m - 1]] \in V
      BY <1>0, <3>2
    <3> QED
      BY <1>3, <3>1, <3>2, <3>3
  <2>3. Nat \subseteq S
    <3> HIDE DEF S
    <3> QED
      BY <2>1, <2>2, NatSetInduction
  <2> QED
    BY <1>0, <2>3
<1>5. \A k \in 1 .. n : k - 1 \in 0 .. n
  BY <1>0
<1>6. Run(w, n, V, base, step)
  BY <1>1, <1>2, <1>3, <1>4, <1>5 DEF Run
<1> QED
  BY <1>2, <1>6

\* Two runs over the same steps
SameSteps(w, v, n) ==
  n \in Nat /\ w[0] = v[0] /\ \A k \in 1 .. n : w[k - 1] = v[k - 1] => w[k] = v[k]

\* come to the same value.
LEMMA RunsAgree ==
  ASSUME NEW n, NEW w, NEW v, SameSteps(w, v, n)
  PROVE  w[n] = v[n]
<1>0. n \in Nat /\ w[0] = v[0] /\ \A k \in 1 .. n : w[k - 1] = v[k - 1] => w[k] = v[k]
  BY DEF SameSteps
<1> DEFINE S == {k \in Nat : k <= n => w[k] = v[k]}
<1>1. 0 \in S
  BY <1>0
<1>2. ASSUME NEW k \in Nat, k \in S PROVE k + 1 \in S
  <2> SUFFICES ASSUME k + 1 <= n PROVE w[k + 1] = v[k + 1]
    OBVIOUS
  <2>1. PICK m \in 1 .. n : m = k + 1
    BY <1>0
  <2>2. w[m - 1] = v[m - 1]
    BY <1>0, <1>2, <2>1
  <2> QED
    BY <1>0, <2>1, <2>2
<1>3. Nat \subseteq S
  <2> HIDE DEF S
  <2> QED
    BY <1>1, <1>2, NatSetInduction
<1> QED
  BY <1>0, <1>3

-----------------------------------------------------------------------------
(* The elements of a sequence that lie in a set.                           *)

Keeping(w, s, X, S) ==
  /\ w \in [0 .. Len(s) -> Seq(X)]
  /\ w[0] = <<>>
  /\ \A k \in 1 .. Len(s) : w[k] = IF s[k] \in S THEN Append(w[k - 1], s[k]) ELSE w[k - 1]
  /\ Keep(s, S) = w[Len(s)]

LEMMA KeepRuns ==
  ASSUME NEW X, NEW s \in Seq(X), NEW S
  PROVE  \E w : Keeping(w, s, X, S)
<1>0. PICK n \in Nat : n = Len(s) /\ DOMAIN s = 1 .. n /\ \A k \in 1 .. n : s[k] \in X
  OBVIOUS
<1> DEFINE V == Seq(X)
           step == [k \in 1 .. n |->
                      [v \in V |-> IF s[k] \in S THEN Append(v, s[k]) ELSE v]]
<1>1. step \in [1 .. n -> [V -> V]] /\ <<>> \in V
  BY <1>0
<1>2. \A k \in 1 .. n, v \in V : step[k][v] = IF s[k] \in S THEN Append(v, s[k]) ELSE v
  OBVIOUS
<1> HIDE DEF step, V
<1>3. PICK f : Folds(f, n, V, <<>>, step)
  BY <1>1, FoldsExist
<1>4. f = [t \in SUBSET DOMAIN s |->
             IF t = {} THEN <<>>
             ELSE LET i == Max(t)
                  IN  IF s[i] \in S THEN Append(f[t \ {i}], s[i]) ELSE f[t \ {i}]]
  <2>1. ASSUME NEW t \in SUBSET (1 .. n), t # {}
        PROVE  LET i == Max(t)
               IN  f[t] = IF s[i] \in S THEN Append(f[t \ {i}], s[i]) ELSE f[t \ {i}]
    <3>1. Max(t) \in t
      <4>1. t \subseteq 0 .. n
        OBVIOUS
      <4> QED
        BY <2>1, <4>1, MaxExists
    <3>2. PICK i \in t : i = Max(t)
      BY <3>1
    <3>3. f[t \ {i}] \in V /\ f[t] = step[i][f[t \ {i}]]
      BY <1>3, <2>1, <3>2 DEF Folds
    <3> QED
      BY <1>2, <3>2, <3>3
  <2>2. f[{}] = <<>> /\ f = [t \in SUBSET (1 .. n) |-> f[t]]
    BY <1>3 DEF Folds
  <2> QED
    BY <1>0, <2>1, <2>2
<1>5. PICK g : /\ g = [t \in SUBSET DOMAIN s |->
                         IF t = {} THEN <<>>
                         ELSE LET i == Max(t)
                              IN  IF s[i] \in S THEN Append(g[t \ {i}], s[i]) ELSE g[t \ {i}]]
               /\ Keep(s, S) = g[DOMAIN s]
  BY <1>4 DEF Keep, FoldLeft, MapThenFoldSet
<1>6. g[{}] = <<>>
  BY <1>5
<1>7. ASSUME NEW k \in 1 .. n, g[1 .. k - 1] \in V PROVE g[1 .. k] = step[k][g[1 .. k - 1]]
  <2>1. 1 .. k \subseteq 1 .. n /\ 1 .. k # {} /\ Max(1 .. k) = k /\ (1 .. k) \ {k} = 1 .. k - 1
    BY PrefixOf
  <2>2. g[1 .. k] = IF s[k] \in S THEN Append(g[1 .. k - 1], s[k]) ELSE g[1 .. k - 1]
    BY <1>0, <1>5, <2>1
  <2> QED
    BY <1>2, <1>7, <2>2
<1>8. PICK w : Run(w, n, V, <<>>, step) /\ w[n] = g[1 .. n]
  <2>1. StepsOf(g, n, V, <<>>, step)
    BY <1>1, <1>6, <1>7 DEF StepsOf
  <2> QED
    BY <2>1, FoldRuns
<1>9. \A k \in 1 .. n : w[k] = IF s[k] \in S THEN Append(w[k - 1], s[k]) ELSE w[k - 1]
  <2>1. \A k \in 1 .. n : k - 1 \in 0 .. n
    OBVIOUS
  <2> QED
    BY <1>2, <1>8, <2>1 DEF Run
<1>10. w \in [0 .. n -> Seq(X)] /\ w[0] = <<>> /\ Keep(s, S) = w[n]
  BY <1>0, <1>5, <1>8 DEF Run, V
<1> QED
  BY <1>0, <1>9, <1>10 DEF Keeping

LEMMA KeepEmpty ==
  ASSUME NEW S
  PROVE  Keep(<<>>, S) = <<>>
<1>1. PICK s : s = <<>>
  OBVIOUS
<1>2. s \in Seq({}) /\ Len(s) = 0
  BY <1>1
<1>3. PICK w : Keeping(w, s, {}, S)
  BY <1>2, KeepRuns
<1> QED
  BY <1>1, <1>2, <1>3 DEF Keeping

\* What Keep does, element by element.
LEMMA KeepAppend ==
  ASSUME NEW X, NEW s \in Seq(X), NEW x \in X, NEW S
  PROVE  /\ Keep(s, S) \in Seq(X)
         /\ Keep(Append(s, x), S) = IF x \in S THEN Append(Keep(s, S), x) ELSE Keep(s, S)
<1>2. PICK n \in Nat : n = Len(s)
  OBVIOUS
<1>3. PICK w : Keeping(w, s, X, S)
  BY KeepRuns
<1>4. PICK t \in Seq(X) : t = Append(s, x)
  BY AppendProperties
<1>5. Len(t) = n + 1 /\ t[n + 1] = x /\ \A k \in 1 .. n : t[k] = s[k]
  BY <1>2, <1>4
<1>6. PICK v : Keeping(v, t, X, S)
  BY KeepRuns
<1>7. w[n] = v[n]
  <2>1. \A k \in 1 .. n : w[k] = IF s[k] \in S THEN Append(w[k - 1], s[k]) ELSE w[k - 1]
    BY <1>2, <1>3 DEF Keeping
  <2>2. \A k \in 1 .. n : v[k] = IF s[k] \in S THEN Append(v[k - 1], s[k]) ELSE v[k - 1]
    BY <1>2, <1>5, <1>6 DEF Keeping
  <2>3. w[0] = <<>> /\ v[0] = <<>>
    BY <1>3, <1>6 DEF Keeping
  <2>4. SameSteps(w, v, n)
    BY <2>1, <2>2, <2>3 DEF SameSteps
  <2> QED
    BY <2>4, RunsAgree
<1>8. v[n + 1] = IF x \in S THEN Append(v[n], x) ELSE v[n]
  <2>1. n + 1 \in 1 .. n + 1 /\ (n + 1) - 1 = n
    OBVIOUS
  <2> QED
    BY <1>5, <1>6, <2>1 DEF Keeping
<1>9. Keep(s, S) = w[n] /\ Keep(t, S) = v[n + 1] /\ w[n] \in Seq(X)
  BY <1>2, <1>3, <1>5, <1>6 DEF Keeping
<1> QED
  BY <1>4, <1>7, <1>8, <1>9

LEMMA RangeAppend ==
  ASSUME NEW X, NEW s \in Seq(X), NEW x \in X
  PROVE  /\ Range(<<>>) = {}
         /\ Range(s) \subseteq X
         /\ Range(Append(s, x)) = Range(s) \cup {x}
<1>1. Range(<<>>) = {}
  BY DEF Range
<1>2. Range(s) \subseteq X
  BY RangeOfSeq
<1>3. Append(s, x) = s \o <<x>> /\ <<x>> \in Seq(X)
  BY AppendIsConcat
<1>4. Range(<<x>>) = {x}
  <2>1. DOMAIN <<x>> = {1} /\ <<x>>[1] = x
    OBVIOUS
  <2> QED
    BY <2>1 DEF Range
<1>5. Range(s \o <<x>>) = Range(s) \cup Range(<<x>>)
  BY <1>3, RangeConcatenation
<1> QED
  BY <1>1, <1>2, <1>3, <1>4, <1>5

LEMMA ConcatAppend ==
  ASSUME NEW X, NEW s \in Seq(X), NEW t \in Seq(X), NEW x \in X
  PROVE  s \o Append(t, x) = Append(s \o t, x)
<1>1. Append(t, x) = t \o <<x>> /\ <<x>> \in Seq(X) /\ s \o t \in Seq(X)
  BY AppendIsConcat, ConcatProperties
<1>2. Append(s \o t, x) = (s \o t) \o <<x>>
  BY <1>1, AppendIsConcat
<1> QED
  BY <1>1, <1>2, ConcatAssociative

\* It keeps exactly those,
LEMMA KeepRange ==
  ASSUME NEW X, NEW S, NEW s \in Seq(X)
  PROVE  Keep(s, S) \in Seq(X) /\ Range(Keep(s, S)) = Range(s) \cap S
<1> DEFINE T == {t \in Seq(X) : Keep(t, S) \in Seq(X) /\ Range(Keep(t, S)) = Range(t) \cap S}
<1>1. <<>> \in T
  <2>1. Keep(<<>>, S) = <<>> /\ Range(<<>>) = {} /\ <<>> \in Seq(X)
    BY KeepEmpty DEF Range
  <2> QED
    BY <2>1
<1>2. ASSUME NEW t \in Seq(X), NEW x \in X, t \in T PROVE Append(t, x) \in T
  <2>1. Keep(Append(t, x), S) = IF x \in S THEN Append(Keep(t, S), x) ELSE Keep(t, S)
    BY KeepAppend
  <2>2. Keep(t, S) \in Seq(X) /\ Range(Keep(t, S)) = Range(t) \cap S
    BY <1>2
  <2>3. Range(Append(t, x)) = Range(t) \cup {x}
    BY RangeAppend
  <2>4. Range(Append(Keep(t, S), x)) = Range(Keep(t, S)) \cup {x}
    BY <2>2, RangeAppend
  <2>5. Append(t, x) \in Seq(X) /\ Append(Keep(t, S), x) \in Seq(X)
    BY <2>2
  <2>6. CASE x \in S
    BY <2>1, <2>2, <2>3, <2>4, <2>5, <2>6
  <2>7. CASE x \notin S
    BY <2>1, <2>2, <2>3, <2>5, <2>7
  <2> QED
    BY <2>6, <2>7
<1>3. Seq(X) \subseteq T
  <2> HIDE DEF T
  <2> QED
    BY <1>1, <1>2, SeqSetInduction
<1> QED
  BY <1>3

\* keeps of what it kept those it is to keep again,
LEMMA KeepKeep ==
  ASSUME NEW X, NEW A, NEW B, NEW s \in Seq(X)
  PROVE  Keep(Keep(s, A), B) = Keep(s, A \cap B)
<1> DEFINE T == {t \in Seq(X) : Keep(Keep(t, A), B) = Keep(t, A \cap B)}
<1>1. <<>> \in T
  <2>1. Keep(<<>>, A) = <<>> /\ Keep(<<>>, B) = <<>> /\ Keep(<<>>, A \cap B) = <<>>
    BY KeepEmpty
  <2>2. <<>> \in Seq(X)
    OBVIOUS
  <2> QED
    BY <2>1, <2>2
<1>2. ASSUME NEW t \in Seq(X), NEW x \in X, t \in T PROVE Append(t, x) \in T
  <2>1. Keep(t, A) \in Seq(X) /\ Append(t, x) \in Seq(X)
    BY KeepAppend, AppendProperties
  <2>2. Keep(Append(t, x), A) = IF x \in A THEN Append(Keep(t, A), x) ELSE Keep(t, A)
    BY KeepAppend
  <2>0. PICK C : C = A \cap B
    OBVIOUS
  <2>3. Keep(Append(t, x), C) = IF x \in C THEN Append(Keep(t, C), x) ELSE Keep(t, C)
    BY KeepAppend
  <2>4. Keep(Append(Keep(t, A), x), B)
          = IF x \in B THEN Append(Keep(Keep(t, A), B), x) ELSE Keep(Keep(t, A), B)
    BY <2>1, KeepAppend
  <2>5. Keep(Keep(t, A), B) = Keep(t, C)
    BY <1>2, <2>0
  <2>6. Keep(Keep(Append(t, x), A), B) = Keep(Append(t, x), C)
    <3>1. CASE x \in A
      BY <2>0, <2>2, <2>3, <2>4, <2>5, <3>1
    <3>2. CASE x \notin A
      BY <2>0, <2>2, <2>3, <2>5, <3>2
    <3> QED
      BY <3>1, <3>2
  <2> QED
    BY <2>0, <2>1, <2>6
<1>3. Seq(X) \subseteq T
  <2> HIDE DEF T
  <2> QED
    BY <1>1, <1>2, SeqSetInduction
<1> QED
  BY <1>3

\* depends on the set only as far as the sequence goes,
LEMMA KeepSame ==
  ASSUME NEW X, NEW A, NEW B, NEW s \in Seq(X), Range(s) \cap A = Range(s) \cap B
  PROVE  Keep(s, A) = Keep(s, B)
<1> DEFINE T == {t \in Seq(X) : Range(t) \cap A = Range(t) \cap B => Keep(t, A) = Keep(t, B)}
<1>1. <<>> \in T
  <2>1. Keep(<<>>, A) = <<>> /\ Keep(<<>>, B) = <<>>
    BY KeepEmpty
  <2>2. <<>> \in Seq(X)
    OBVIOUS
  <2> QED
    BY <2>1, <2>2
<1>2. ASSUME NEW t \in Seq(X), NEW x \in X, t \in T PROVE Append(t, x) \in T
  <2>1. Append(t, x) \in Seq(X) /\ Range(Append(t, x)) = Range(t) \cup {x}
    BY RangeAppend, AppendProperties
  <2> SUFFICES ASSUME Range(Append(t, x)) \cap A = Range(Append(t, x)) \cap B
               PROVE  Keep(Append(t, x), A) = Keep(Append(t, x), B)
    BY <2>1
  <2>2. Keep(Append(t, x), A) = IF x \in A THEN Append(Keep(t, A), x) ELSE Keep(t, A)
    BY KeepAppend
  <2>3. Keep(Append(t, x), B) = IF x \in B THEN Append(Keep(t, B), x) ELSE Keep(t, B)
    BY KeepAppend
  <2>4. Range(t) \cap A = Range(t) \cap B /\ (x \in A <=> x \in B)
    BY <2>1
  <2>5. Keep(t, A) = Keep(t, B)
    BY <1>2, <2>4
  <2> QED
    BY <2>2, <2>3, <2>4, <2>5
<1>3. Seq(X) \subseteq T
  <2> HIDE DEF T
  <2> QED
    BY <1>1, <1>2, SeqSetInduction
<1> QED
  BY <1>3

\* keeps all or nothing where the set holds all or nothing of the sequence,
LEMMA KeepAll ==
  ASSUME NEW X, NEW s \in Seq(X)
  PROVE  Keep(s, X) = s /\ Keep(s, {}) = <<>>
<1> DEFINE T == {t \in Seq(X) : Keep(t, X) = t /\ Keep(t, {}) = <<>>}
<1>1. <<>> \in T
  <2>1. Keep(<<>>, X) = <<>> /\ Keep(<<>>, {}) = <<>>
    BY KeepEmpty
  <2>2. <<>> \in Seq(X)
    OBVIOUS
  <2> QED
    BY <2>1, <2>2
<1>2. ASSUME NEW t \in Seq(X), NEW x \in X, t \in T PROVE Append(t, x) \in T
  <2>1. Append(t, x) \in Seq(X)
    BY AppendProperties
  <2>2. Keep(Append(t, x), X) = IF x \in X THEN Append(Keep(t, X), x) ELSE Keep(t, X)
    BY KeepAppend
  <2>3. Keep(Append(t, x), {}) = IF x \in {} THEN Append(Keep(t, {}), x) ELSE Keep(t, {})
    BY KeepAppend
  <2> QED
    BY <1>2, <2>1, <2>2, <2>3
<1>3. Seq(X) \subseteq T
  <2> HIDE DEF T
  <2> QED
    BY <1>1, <1>2, SeqSetInduction
<1> QED
  BY <1>3

LEMMA KeepAllOrNone ==
  ASSUME NEW X, NEW A, NEW s \in Seq(X)
  PROVE  /\ Range(s) \subseteq A => Keep(s, A) = s
         /\ Range(s) \cap A = {} => Keep(s, A) = <<>>
<1>1. ASSUME Range(s) \subseteq A PROVE Keep(s, A) = s
  <2>1. Range(s) \subseteq X
    BY RangeOfSeq
  <2>2. Range(s) \cap A = Range(s) \cap X
    BY <1>1, <2>1
  <2>3. Keep(s, A) = Keep(s, X)
    BY <2>2, KeepSame
  <2> QED
    BY <2>3, KeepAll
<1>2. ASSUME Range(s) \cap A = {} PROVE Keep(s, A) = <<>>
  <2>1. Range(s) \cap A = Range(s) \cap {}
    BY <1>2
  <2>2. Keep(s, A) = Keep(s, {})
    BY <2>1, KeepSame
  <2> QED
    BY <2>2, KeepAll
<1> QED
  BY <1>1, <1>2

\* and does so piece by piece.
LEMMA KeepConcat ==
  ASSUME NEW X, NEW A, NEW s \in Seq(X), NEW u \in Seq(X)
  PROVE  Keep(s \o u, A) = Keep(s, A) \o Keep(u, A)
<1> DEFINE T == {t \in Seq(X) : Keep(s \o t, A) = Keep(s, A) \o Keep(t, A)}
<1>0. Keep(s, A) \in Seq(X)
  BY KeepRange
<1>01. \A x \in X : \A v \in Seq(X) :
         Keep(Append(v, x), A) = IF x \in A THEN Append(Keep(v, A), x) ELSE Keep(v, A)
  BY KeepAppend
<1>1. <<>> \in T
  <2>1. Keep(<<>>, A) = <<>>
    BY KeepEmpty
  <2>2. <<>> \in Seq(X)
    OBVIOUS
  <2>3. s \o <<>> = s /\ Keep(s, A) \o <<>> = Keep(s, A)
    BY <1>0, ConcatEmptySeq
  <2> QED
    BY <2>1, <2>2, <2>3
<1>2. ASSUME NEW t \in Seq(X), NEW x \in X, t \in T PROVE Append(t, x) \in T
  <2>1. /\ Append(t, x) \in Seq(X) /\ s \o t \in Seq(X) /\ Keep(t, A) \in Seq(X)
        /\ Keep(s, A) \o Keep(t, A) \in Seq(X)
    BY <1>0, AppendProperties, ConcatProperties, KeepRange
  <2>2. s \o Append(t, x) = Append(s \o t, x)
    BY <2>1, ConcatAppend
  <2>3. Keep(s, A) \o Append(Keep(t, A), x) = Append(Keep(s, A) \o Keep(t, A), x)
    BY <1>0, <2>1, ConcatAppend
  <2>4. Keep(Append(t, x), A) = IF x \in A THEN Append(Keep(t, A), x) ELSE Keep(t, A)
    BY KeepAppend
  <2>6. Keep(s \o t, A) = Keep(s, A) \o Keep(t, A)
    BY <1>2
  <2>50. Keep(Append(s \o t, x), A)
          = IF x \in A THEN Append(Keep(s \o t, A), x) ELSE Keep(s \o t, A)
    BY <1>01, <2>1
  <2>7. CASE x \in A
    BY <2>1, <2>2, <2>3, <2>4, <2>50, <2>6, <2>7
  <2>8. CASE x \notin A
    BY <2>1, <2>2, <2>4, <2>50, <2>6, <2>8
  <2> QED
    BY <2>7, <2>8
<1>3. Seq(X) \subseteq T
  <2> HIDE DEF T
  <2> QED
    BY <1>1, <1>2, SeqSetInduction
<1> QED
  BY <1>3

-----------------------------------------------------------------------------
(* Sorted sequences.                                                       *)

\* Keys do not fall along s; no element of s is repeated.
Rising(s, key) == \A i, j \in 1 .. Len(s) : i < j => key[s[i]] <= key[s[j]]
Distinct(s) == \A i, j \in 1 .. Len(s) : s[i] = s[j] => i = j

LEMMA InRange ==
  ASSUME NEW X, NEW s \in Seq(X)
  PROVE  /\ \A i \in 1 .. Len(s) : s[i] \in Range(s) /\ s[i] \in X
         /\ \A x \in Range(s) : x \in X /\ \E i \in 1 .. Len(s) : s[i] = x
<1>1. DOMAIN s = 1 .. Len(s) /\ \A i \in 1 .. Len(s) : s[i] \in X
  OBVIOUS
<1> QED
  BY <1>1 DEF Range

LEMMA RisingConcat ==
  ASSUME NEW X, NEW key, key \in [X -> Int], NEW s \in Seq(X), NEW t \in Seq(X)
  PROVE  Rising(s \o t, key) <=>
           Rising(s, key) /\ Rising(t, key) /\ \A x \in Range(s), y \in Range(t) : key[x] <= key[y]
<1> DEFINE n == Len(s)
           m == Len(t)
           u == s \o t
<1>1. /\ n \in Nat /\ m \in Nat /\ Len(u) = n + m
      /\ \A i \in 1 .. n : u[i] = s[i]
      /\ \A i \in 1 .. m : u[n + i] = t[i]
  <2>1. /\ Len(u) = n + m
        /\ \A i \in 1 .. n + m : u[i] = IF i <= n THEN s[i] ELSE t[i - n]
    BY ConcatProperties
  <2>2. n \in Nat /\ m \in Nat
    OBVIOUS
  <2>3. \A i \in 1 .. m : n + i \in 1 .. n + m /\ ~ (n + i <= n) /\ (n + i) - n = i
    BY <2>2
  <2> HIDE DEF n, m, u
  <2> QED
    BY <2>1, <2>2, <2>3
<1>2. /\ \A i \in 1 .. n : s[i] \in Range(s)
      /\ \A x \in Range(s) : \E i \in 1 .. n : s[i] = x
      /\ \A i \in 1 .. m : t[i] \in Range(t)
      /\ \A x \in Range(t) : \E i \in 1 .. m : t[i] = x
  BY InRange
<1>3. Rising(u, key) <=> \A i, j \in 1 .. n + m : i < j => key[u[i]] <= key[u[j]]
  BY <1>1 DEF Rising
<1>4. Rising(s, key) <=> \A i, j \in 1 .. n : i < j => key[s[i]] <= key[s[j]]
  BY DEF Rising
<1>5. Rising(t, key) <=> \A i, j \in 1 .. m : i < j => key[t[i]] <= key[t[j]]
  BY DEF Rising
<1> HIDE DEF n, m, u
<1>6. ASSUME Rising(u, key)
      PROVE  /\ Rising(s, key) /\ Rising(t, key)
             /\ \A x \in Range(s), y \in Range(t) : key[x] <= key[y]
  <2>1. Rising(s, key)
    BY <1>1, <1>3, <1>4, <1>6
  <2>2. ASSUME NEW i \in 1 .. m, NEW j \in 1 .. m, i < j PROVE key[t[i]] <= key[t[j]]
    <3>1. n + i \in 1 .. n + m /\ n + j \in 1 .. n + m /\ n + i < n + j
      BY <1>1, <2>2
    <3>2. key[u[n + i]] <= key[u[n + j]]
      BY <1>3, <1>6, <3>1
    <3> QED
      BY <1>1, <3>2
  <2>3. ASSUME NEW i \in 1 .. n, NEW j \in 1 .. m PROVE key[s[i]] <= key[t[j]]
    <3>1. i \in 1 .. n + m /\ n + j \in 1 .. n + m /\ i < n + j
      BY <1>1
    <3>2. key[u[i]] <= key[u[n + j]]
      BY <1>3, <1>6, <3>1
    <3> QED
      BY <1>1, <3>2
  <2>4. Rising(t, key)
    BY <1>5, <2>2
  <2> QED
    BY <1>2, <2>1, <2>3, <2>4
<1>7. ASSUME Rising(s, key), Rising(t, key),
             \A x \in Range(s), y \in Range(t) : key[x] <= key[y]
      PROVE  Rising(u, key)
  <2>1. ASSUME NEW i \in 1 .. n + m, NEW j \in 1 .. n + m, i < j PROVE key[u[i]] <= key[u[j]]
    <3>1. CASE j <= n
      <4>1. i \in 1 .. n /\ j \in 1 .. n
        BY <1>1, <2>1, <3>1
      <4> QED
        BY <1>1, <1>4, <1>7, <2>1, <4>1
    <3>2. CASE i > n
      <4>1. PICK a \in 1 .. m, b \in 1 .. m : i = n + a /\ j = n + b /\ a < b
        <5>1. i - n \in 1 .. m /\ j - n \in 1 .. m /\ i - n < j - n
              /\ i = n + (i - n) /\ j = n + (j - n)
          BY <1>1, <2>1, <3>2
        <5> QED
          BY <5>1
      <4>2. key[t[a]] <= key[t[b]]
        BY <1>5, <1>7, <4>1
      <4> QED
        BY <1>1, <4>1, <4>2
    <3>3. CASE i <= n /\ j > n
      <4>1. i \in 1 .. n
        BY <1>1, <3>3
      <4>2. PICK b \in 1 .. m : j = n + b
        <5>1. j - n \in 1 .. m /\ j = n + (j - n)
          BY <1>1, <3>3
        <5> QED
          BY <5>1
      <4>3. key[s[i]] <= key[t[b]]
        BY <1>2, <1>7, <4>1
      <4> QED
        BY <1>1, <4>1, <4>2, <4>3
    <3> QED
      BY <1>1, <3>1, <3>2, <3>3
  <2> QED
    BY <1>3, <2>1
<1> QED
  BY <1>6, <1>7 DEF u

LEMMA Single ==
  ASSUME NEW X, NEW x \in X
  PROVE  <<x>> \in Seq(X) /\ Range(<<x>>) = {x} /\ \A key : Rising(<<x>>, key)
<1>1. <<x>> \in Seq(X) /\ DOMAIN <<x>> = {1} /\ <<x>>[1] = x /\ Len(<<x>>) = 1
  OBVIOUS
<1>2. Range(<<x>>) = {x}
  BY <1>1 DEF Range
<1>3. \A i, j \in 1 .. 1 : ~ (i < j)
  OBVIOUS
<1>4. \A key : Rising(<<x>>, key)
  BY <1>1, <1>3 DEF Rising
<1> QED
  BY <1>1, <1>2, <1>4

LEMMA RisingAppend ==
  ASSUME NEW X, NEW key, key \in [X -> Int], NEW s \in Seq(X), NEW x \in X
  PROVE  Rising(Append(s, x), key) <=> Rising(s, key) /\ \A y \in Range(s) : key[y] <= key[x]
<1>1. Append(s, x) = s \o <<x>>
  BY AppendIsConcat
<1>2. PICK t : t = <<x>>
  OBVIOUS
<1>3. t \in Seq(X) /\ Range(t) = {x} /\ Rising(t, key)
  BY <1>2, Single
<1>4. Rising(s \o t, key) <=>
        Rising(s, key) /\ Rising(t, key) /\ \A y \in Range(s), z \in Range(t) : key[y] <= key[z]
  BY <1>3, RisingConcat
<1> QED
  BY <1>1, <1>2, <1>3, <1>4

\* What is kept of a sorted sequence is sorted.
LEMMA RisingKeep ==
  ASSUME NEW X, NEW key, key \in [X -> Int], NEW s \in Seq(X), NEW A, Rising(s, key)
  PROVE  Rising(Keep(s, A), key)
<1> DEFINE T == {t \in Seq(X) : Rising(t, key) => Rising(Keep(t, A), key)}
<1>01. \A x \in X : \A v \in Seq(X) :
         Keep(Append(v, x), A) = IF x \in A THEN Append(Keep(v, A), x) ELSE Keep(v, A)
  BY KeepAppend
<1>1. <<>> \in T
  <2>1. Keep(<<>>, A) = <<>> /\ <<>> \in Seq(X)
    BY KeepEmpty
  <2> QED
    BY <2>1
<1>2. ASSUME NEW t \in Seq(X), NEW x \in X, t \in T PROVE Append(t, x) \in T
  <2>1. Append(t, x) \in Seq(X)
    BY AppendProperties
  <2> SUFFICES ASSUME Rising(Append(t, x), key) PROVE Rising(Keep(Append(t, x), A), key)
    BY <2>1
  <2>2. Rising(t, key) /\ \A y \in Range(t) : key[y] <= key[x]
    BY RisingAppend
  <2>3. PICK k : k = Keep(t, A)
    OBVIOUS
  <2>4. k \in Seq(X) /\ Range(k) \subseteq Range(t) /\ Rising(k, key)
    BY <1>2, <2>2, <2>3, KeepRange
  <2>5. Rising(Append(k, x), key)
    <3>1. \A y \in Range(k) : key[y] <= key[x]
      BY <2>2, <2>4
    <3> QED
      BY <2>4, <3>1, RisingAppend
  <2>6. Keep(Append(t, x), A) = IF x \in A THEN Append(k, x) ELSE k
    BY <1>01, <2>3
  <2> QED
    BY <2>4, <2>5, <2>6
<1>3. Seq(X) \subseteq T
  <2> HIDE DEF T
  <2> QED
    BY <1>1, <1>2, SeqSetInduction
<1> QED
  BY <1>3

LEMMA DistinctAppend ==
  ASSUME NEW X, NEW s \in Seq(X), NEW x \in X
  PROVE  Distinct(Append(s, x)) <=> Distinct(s) /\ x \notin Range(s)
<1>1. PICK n \in Nat : n = Len(s)
  OBVIOUS
<1>2. PICK t : t = Append(s, x)
  OBVIOUS
<1>3. Len(t) = n + 1 /\ t[n + 1] = x /\ \A i \in 1 .. n : t[i] = s[i]
  BY <1>1, <1>2, AppendProperties
<1>4. /\ \A i \in 1 .. n : s[i] \in Range(s)
      /\ \A y \in Range(s) : \E i \in 1 .. n : s[i] = y
  BY <1>1, InRange
<1>5. Distinct(t) <=> \A i, j \in 1 .. n + 1 : t[i] = t[j] => i = j
  BY <1>3 DEF Distinct
<1>6. Distinct(s) <=> \A i, j \in 1 .. n : s[i] = s[j] => i = j
  BY <1>1 DEF Distinct
<1>7. ASSUME Distinct(t) PROVE Distinct(s) /\ x \notin Range(s)
  <2>1. Distinct(s)
    BY <1>3, <1>5, <1>6, <1>7
  <2>2. x \notin Range(s)
    BY <1>3, <1>4, <1>5, <1>7
  <2> QED
    BY <2>1, <2>2
<1>8. ASSUME Distinct(s), x \notin Range(s) PROVE Distinct(t)
  BY <1>3, <1>4, <1>5, <1>6, <1>8
<1> QED
  BY <1>2, <1>7, <1>8

\* What is kept of a sequence without repetitions has none.
LEMMA DistinctKeep ==
  ASSUME NEW X, NEW s \in Seq(X), NEW A, Distinct(s)
  PROVE  Distinct(Keep(s, A))
<1> DEFINE T == {t \in Seq(X) : Distinct(t) => Distinct(Keep(t, A))}
<1>01. \A x \in X : \A v \in Seq(X) :
         Keep(Append(v, x), A) = IF x \in A THEN Append(Keep(v, A), x) ELSE Keep(v, A)
  BY KeepAppend
<1>1. <<>> \in T
  <2>1. Keep(<<>>, A) = <<>> /\ <<>> \in Seq(X)
    BY KeepEmpty
  <2> QED
    BY <2>1
<1>2. ASSUME NEW t \in Seq(X), NEW x \in X, t \in T PROVE Append(t, x) \in T
  <2>1. Append(t, x) \in Seq(X)
    BY AppendProperties
  <2> SUFFICES ASSUME Distinct(Append(t, x)) PROVE Distinct(Keep(Append(t, x), A))
    BY <2>1
  <2>2. Distinct(t) /\ x \notin Range(t)
    BY DistinctAppend
  <2>3. PICK k : k = Keep(t, A)
    OBVIOUS
  <2>4. k \in Seq(X) /\ Range(k) \subseteq Range(t) /\ Distinct(k)
    BY <1>2, <2>2, <2>3, KeepRange
  <2>5. Distinct(Append(k, x))
    BY <2>2, <2>4, DistinctAppend
  <2>6. Keep(Append(t, x), A) = IF x \in A THEN Append(k, x) ELSE k
    BY <1>01, <2>3
  <2> QED
    BY <2>4, <2>5, <2>6
<1>3. Seq(X) \subseteq T
  <2> HIDE DEF T
  <2> QED
    BY <1>1, <1>2, SeqSetInduction
<1> QED
  BY <1>3
-----------------------------------------------------------------------------
(* Insertion into a sorted sequence.                                       *)

Inserted(t, x, order) ==
  LET later == {y \in Range(t) : <<x, y>> \in order}
  IN  Keep(t, Range(t) \ later) \o <<x>> \o Keep(t, later)

Inserting(w, s, X, order) ==
  /\ w \in [0 .. Len(s) -> Seq(X)]
  /\ w[0] = <<>>
  /\ \A k \in 1 .. Len(s) : w[k] = Inserted(w[k - 1], s[k], order)
  /\ SortedBy(s, order) = w[Len(s)]

\* The elements come to be those of before and the new one.
LEMMA InsertedRange ==
  ASSUME NEW X, NEW order, NEW t \in Seq(X), NEW x \in X
  PROVE  /\ Inserted(t, x, order) \in Seq(X)
         /\ \A y : y \in Range(Inserted(t, x, order)) <=> y \in Range(t) \/ y = x
<1>1. PICK later : later = {y \in Range(t) : <<x, y>> \in order}
  OBVIOUS
<1>2. PICK a, b, c : a = Keep(t, Range(t) \ later) /\ b = <<x>> /\ c = Keep(t, later)
  OBVIOUS
<1>3. /\ a \in Seq(X) /\ Range(a) = Range(t) \cap (Range(t) \ later)
      /\ b \in Seq(X) /\ Range(b) = {x}
      /\ c \in Seq(X) /\ Range(c) = Range(t) \cap later
  BY <1>2, KeepRange, Single
<1>4. Inserted(t, x, order) = a \o b \o c
  BY <1>1, <1>2 DEF Inserted
<1>5. a \o b \in Seq(X) /\ Range(a \o b) = Range(a) \cup Range(b)
  BY <1>3, ConcatProperties, RangeConcatenation
<1>6. PICK d \in Seq(X) : d = a \o b
  BY <1>5
<1>60. d \o c \in Seq(X) /\ Range(d \o c) = Range(d) \cup Range(c)
  BY <1>3, ConcatProperties, RangeConcatenation
<1>7. later \subseteq Range(t)
  BY <1>1
<1> QED
  BY <1>3, <1>4, <1>5, <1>6, <1>60, <1>7

LEMMA InsertRuns ==
  ASSUME NEW X, NEW order, NEW s \in Seq(X)
  PROVE  \E w : Inserting(w, s, X, order)
<1>0. PICK n \in Nat : n = Len(s) /\ DOMAIN s = 1 .. n /\ \A k \in 1 .. n : s[k] \in X
  OBVIOUS
<1> DEFINE V == Seq(X)
           step == [k \in 1 .. n |-> [v \in V |-> Inserted(v, s[k], order)]]
<1>01. \A k \in 1 .. n : \A v \in V : Inserted(v, s[k], order) \in V
  BY <1>0, InsertedRange
<1>1. step \in [1 .. n -> [V -> V]] /\ <<>> \in V
  BY <1>01
<1>2. \A k \in 1 .. n, v \in V : step[k][v] = Inserted(v, s[k], order)
  OBVIOUS
<1> HIDE DEF step, V
<1>3. PICK f : Folds(f, n, V, <<>>, step)
  BY <1>1, FoldsExist
<1>4. f = [t \in SUBSET DOMAIN s |->
             IF t = {} THEN <<>>
             ELSE LET i == Max(t) IN Inserted(f[t \ {i}], s[i], order)]
  <2>1. ASSUME NEW t \in SUBSET (1 .. n), t # {}
        PROVE  LET i == Max(t) IN f[t] = Inserted(f[t \ {i}], s[i], order)
    <3>1. Max(t) \in t
      <4>1. t \subseteq 0 .. n
        OBVIOUS
      <4> QED
        BY <2>1, <4>1, MaxExists
    <3>2. PICK i \in t : i = Max(t)
      BY <3>1
    <3>3. f[t \ {i}] \in V /\ f[t] = step[i][f[t \ {i}]]
      BY <1>3, <2>1, <3>2 DEF Folds
    <3> QED
      BY <1>2, <3>2, <3>3
  <2>2. f[{}] = <<>> /\ f = [t \in SUBSET (1 .. n) |-> f[t]]
    BY <1>3 DEF Folds
  <2> QED
    BY <1>0, <2>1, <2>2
<1>5. PICK g : /\ g = [t \in SUBSET DOMAIN s |->
                         IF t = {} THEN <<>>
                         ELSE LET i == Max(t) IN Inserted(g[t \ {i}], s[i], order)]
               /\ SortedBy(s, order) = g[DOMAIN s]
  BY <1>4 DEF SortedBy, FoldLeft, MapThenFoldSet, Inserted
<1>6. g[{}] = <<>>
  BY <1>5
<1>7. ASSUME NEW k \in 1 .. n, g[1 .. k - 1] \in V PROVE g[1 .. k] = step[k][g[1 .. k - 1]]
  <2>1. 1 .. k \subseteq 1 .. n /\ 1 .. k # {} /\ Max(1 .. k) = k /\ (1 .. k) \ {k} = 1 .. k - 1
    BY PrefixOf
  <2>2. g[1 .. k] = Inserted(g[1 .. k - 1], s[k], order)
    BY <1>0, <1>5, <2>1
  <2> QED
    BY <1>2, <1>7, <2>2
<1>8. PICK w : Run(w, n, V, <<>>, step) /\ w[n] = g[1 .. n]
  <2>1. StepsOf(g, n, V, <<>>, step)
    BY <1>1, <1>6, <1>7 DEF StepsOf
  <2> QED
    BY <2>1, FoldRuns
<1>9. \A k \in 1 .. n : w[k] = Inserted(w[k - 1], s[k], order)
  <2>1. \A k \in 1 .. n : k - 1 \in 0 .. n
    OBVIOUS
  <2> QED
    BY <1>2, <1>8, <2>1 DEF Run
<1>10. w \in [0 .. n -> Seq(X)] /\ w[0] = <<>> /\ SortedBy(s, order) = w[n]
  BY <1>0, <1>5, <1>8 DEF Run, V
<1> QED
  BY <1>0, <1>9, <1>10 DEF Inserting

LEMMA SortedEmpty ==
  ASSUME NEW order
  PROVE  SortedBy(<<>>, order) = <<>>
<1>1. PICK s : s = <<>>
  OBVIOUS
<1>2. s \in Seq({}) /\ Len(s) = 0
  BY <1>1
<1>3. PICK w : Inserting(w, s, {}, order)
  BY <1>2, InsertRuns
<1> QED
  BY <1>1, <1>2, <1>3 DEF Inserting

\* What SortedBy does, element by element.
LEMMA SortedAppend ==
  ASSUME NEW X, NEW order, NEW s \in Seq(X), NEW x \in X
  PROVE  /\ SortedBy(s, order) \in Seq(X)
         /\ SortedBy(Append(s, x), order) = Inserted(SortedBy(s, order), x, order)
<1>1. PICK n \in Nat : n = Len(s)
  OBVIOUS
<1>2. PICK w : Inserting(w, s, X, order)
  BY InsertRuns
<1>3. PICK t \in Seq(X) : t = Append(s, x)
  BY AppendProperties
<1>4. Len(t) = n + 1 /\ t[n + 1] = x /\ \A k \in 1 .. n : t[k] = s[k]
  BY <1>1, <1>3, AppendProperties
<1>5. PICK v : Inserting(v, t, X, order)
  BY InsertRuns
<1>6. v[n] = w[n]
  <2>1. \A k \in 1 .. n : w[k] = Inserted(w[k - 1], s[k], order)
    BY <1>1, <1>2 DEF Inserting
  <2>2. \A k \in 1 .. n : v[k] = Inserted(v[k - 1], s[k], order)
    BY <1>4, <1>5 DEF Inserting
  <2>3. w[0] = v[0]
    BY <1>2, <1>5 DEF Inserting
  <2>4. SameSteps(v, w, n)
    BY <2>1, <2>2, <2>3 DEF SameSteps
  <2> QED
    BY <2>4, RunsAgree
<1>7. v[n + 1] = Inserted(v[n], x, order)
  <2>1. n + 1 \in 1 .. n + 1 /\ (n + 1) - 1 = n
    OBVIOUS
  <2> QED
    BY <1>4, <1>5, <2>1 DEF Inserting
<1>8. SortedBy(s, order) = w[n] /\ w[n] \in Seq(X) /\ SortedBy(t, order) = v[n + 1]
  BY <1>1, <1>2, <1>4, <1>5 DEF Inserting
<1> QED
  BY <1>3, <1>6, <1>7, <1>8

\* Sorting keeps the elements.
LEMMA SortedRange ==
  ASSUME NEW X, NEW order, NEW s \in Seq(X)
  PROVE  SortedBy(s, order) \in Seq(X) /\ Range(SortedBy(s, order)) = Range(s)
<1> DEFINE T == {t \in Seq(X) : /\ SortedBy(t, order) \in Seq(X)
                                /\ Range(SortedBy(t, order)) = Range(t)}
<1>01. \A x \in X : \A v \in Seq(X) :
         SortedBy(Append(v, x), order) = Inserted(SortedBy(v, order), x, order)
  BY SortedAppend
<1>1. <<>> \in T
  <2>1. SortedBy(<<>>, order) = <<>> /\ <<>> \in Seq(X)
    BY SortedEmpty
  <2> QED
    BY <2>1
<1>2. ASSUME NEW t \in Seq(X), NEW x \in X, t \in T PROVE Append(t, x) \in T
  <2>1. PICK u \in Seq(X) : u = SortedBy(t, order) /\ Range(u) = Range(t)
    BY <1>2
  <2>2. PICK r : r = Inserted(u, x, order)
    OBVIOUS
  <2>3. r \in Seq(X) /\ Range(r) = Range(u) \cup {x}
    <3>1. Inserted(u, x, order) \in Seq(X)
      BY InsertedRange
    <3>2. \A y : y \in Range(Inserted(u, x, order)) <=> y \in Range(u) \/ y = x
      BY InsertedRange
    <3> QED
      BY <2>2, <3>1, <3>2
  <2>4. Append(t, x) \in Seq(X) /\ Range(Append(t, x)) = Range(t) \cup {x}
    BY AppendProperties, RangeAppend
  <2>5. SortedBy(Append(t, x), order) = r
    BY <1>01, <2>1, <2>2
  <2> QED
    BY <2>1, <2>3, <2>4, <2>5
<1>3. Seq(X) \subseteq T
  <2> HIDE DEF T
  <2> QED
    BY <1>1, <1>2, SeqSetInduction
<1> QED
  BY <1>3

\* The order of a key, and elements that have one key.
OrderOf(order, key, X) ==
  key \in [X -> Int] /\ \A x, y \in X : <<x, y>> \in order <=> key[x] < key[y]
Alike(A, key, X) == \A x, y \in A \cap X : key[x] = key[y]

LEMMA InsertSorted ==
  ASSUME NEW X, NEW order, NEW key, OrderOf(order, key, X),
         NEW t \in Seq(X), NEW x \in X, Rising(t, key)
  PROVE  Rising(Inserted(t, x, order), key)
<1>1. PICK later : later = {y \in Range(t) : <<x, y>> \in order}
  OBVIOUS
<1>2. PICK a, b, c : a = Keep(t, Range(t) \ later) /\ b = <<x>> /\ c = Keep(t, later)
  OBVIOUS
<1>3. /\ a \in Seq(X) /\ Range(a) = Range(t) \cap (Range(t) \ later)
      /\ b \in Seq(X) /\ Range(b) = {x} /\ Rising(b, key)
      /\ c \in Seq(X) /\ Range(c) = Range(t) \cap later
  BY <1>2, KeepRange, Single
<1>4. key \in [X -> Int]
  BY DEF OrderOf
<1>5. Rising(a, key) /\ Rising(c, key)
  BY <1>2, <1>4, RisingKeep
<1>6. Range(t) \subseteq X
  BY RangeAppend
<1>7. /\ \A y \in Range(a) : y \in X /\ key[y] <= key[x]
      /\ \A y \in Range(c) : y \in X /\ key[x] <= key[y]
  <2>1. \A y \in X : key[y] \in Int /\ (<<x, y>> \in order <=> key[x] < key[y])
    BY <1>4 DEF OrderOf
  <2>2. ASSUME NEW y \in Range(a) PROVE y \in X /\ key[y] <= key[x]
    <3>1. y \in X /\ ~ (<<x, y>> \in order)
      BY <1>1, <1>3, <1>6
    <3>2. key[y] \in Int /\ key[x] \in Int /\ ~ (key[x] < key[y])
      BY <2>1, <3>1
    <3> QED
      BY <3>1, <3>2
  <2>3. ASSUME NEW y \in Range(c) PROVE y \in X /\ key[x] <= key[y]
    <3>1. y \in X /\ <<x, y>> \in order
      BY <1>1, <1>3, <1>6
    <3>2. key[y] \in Int /\ key[x] \in Int /\ key[x] < key[y]
      BY <2>1, <3>1
    <3> QED
      BY <3>1, <3>2
  <2> QED
    BY <2>2, <2>3
<1>80. PICK d \in Seq(X) : d = a \o b
  BY <1>3, ConcatProperties
<1>8. d = a \o b /\ Range(d) = Range(a) \cup Range(b)
  BY <1>3, <1>80, RangeConcatenation
<1>9. Rising(d, key)
  <2>1. \A y \in Range(a), z \in Range(b) : key[y] <= key[z]
    BY <1>3, <1>7
  <2> QED
    BY <1>3, <1>4, <1>5, <1>8, <2>1, RisingConcat
<1>10. \A y \in Range(d), z \in Range(c) : key[y] <= key[z]
  <2>1. ASSUME NEW y \in Range(a), NEW z \in Range(c) PROVE key[y] <= key[z]
    <3>1. key[x] \in Int /\ key[y] \in Int /\ key[z] \in Int
      BY <1>4, <1>7
    <3> QED
      BY <1>7, <3>1
  <2> QED
    BY <1>3, <1>7, <1>8, <2>1
<1>11. Rising(d \o c, key)
  BY <1>3, <1>4, <1>5, <1>9, <1>10, RisingConcat
<1> QED
  BY <1>1, <1>2, <1>8, <1>11 DEF Inserted

\* Of elements that are alike, the new one comes last.
LEMMA InsertStable ==
  ASSUME NEW X, NEW order, NEW key, OrderOf(order, key, X), NEW A, Alike(A, key, X),
         NEW t \in Seq(X), NEW x \in X
  PROVE  Keep(Inserted(t, x, order), A) = IF x \in A THEN Append(Keep(t, A), x) ELSE Keep(t, A)
<1>1. PICK later : later = {y \in Range(t) : <<x, y>> \in order}
  OBVIOUS
<1>2. PICK a, b, c : a = Keep(t, Range(t) \ later) /\ b = <<x>> /\ c = Keep(t, later)
  OBVIOUS
<1>3. /\ a \in Seq(X) /\ b \in Seq(X) /\ Range(b) = {x} /\ c \in Seq(X)
  BY <1>2, KeepRange, Single
<1>4. PICK d \in Seq(X) : d = a \o b
  BY <1>3, ConcatProperties
<1>5. Inserted(t, x, order) = d \o c
  BY <1>1, <1>2, <1>4 DEF Inserted
<1>6. PICK ka, kb, kc : ka = Keep(a, A) /\ kb = Keep(b, A) /\ kc = Keep(c, A)
  OBVIOUS
<1>7. Keep(d \o c, A) = (ka \o kb) \o kc
  <2>1. Keep(d, A) = ka \o kb
    BY <1>3, <1>4, <1>6, KeepConcat
  <2>2. Keep(d \o c, A) = Keep(d, A) \o Keep(c, A)
    BY <1>3, KeepConcat
  <2> QED
    BY <1>6, <2>1, <2>2
<1>8. ka = Keep(t, (Range(t) \ later) \cap A) /\ kc = Keep(t, later \cap A)
  BY <1>2, <1>6, KeepKeep
<1>9. ka \in Seq(X) /\ kb \in Seq(X) /\ kc \in Seq(X) /\ Keep(t, A) \in Seq(X)
  BY <1>3, <1>6, KeepRange
<1>10. \A y \in X : /\ key[y] \in Int /\ key[x] \in Int
                    /\ <<x, y>> \in order <=> key[x] < key[y]
  BY DEF OrderOf
<1>11. Range(t) \subseteq X
  BY RangeAppend
<1>12. \A B : /\ Range(t) \cap B = Range(t) \cap A => Keep(t, B) = Keep(t, A)
              /\ Range(t) \cap B = {} => Keep(t, B) = <<>>
  BY KeepSame, KeepAllOrNone
<1>13. ASSUME NEW u \in Seq(X) PROVE u \o <<>> = u /\ <<>> \o u = u
  BY ConcatEmptySeq
<1>14. CASE x \in A
  <2>1. kb = b
    BY <1>3, <1>6, <1>14, KeepAllOrNone
  <2>2. later \cap A = {}
    <3>1. ASSUME NEW y \in later \cap A PROVE FALSE
      <4>1. y \in X /\ <<x, y>> \in order
        BY <1>1, <1>11, <3>1
      <4>2. key[x] = key[y]
        BY <1>14, <3>1, <4>1 DEF Alike
      <4> QED
        BY <1>10, <4>1, <4>2
    <3> QED
      BY <3>1
  <2>3. Range(t) \cap ((Range(t) \ later) \cap A) = Range(t) \cap A
    BY <2>2
  <2>4. ka = Keep(t, A) /\ kc = <<>>
    BY <1>8, <1>12, <2>2, <2>3
  <2>5. ka \o kb = Append(Keep(t, A), x)
    BY <1>2, <1>9, <2>1, <2>4, AppendIsConcat
  <2>6. ka \o kb \in Seq(X)
    BY <1>9, ConcatProperties
  <2>7. (ka \o kb) \o kc = ka \o kb
    BY <1>13, <2>4, <2>6
  <2> QED
    BY <1>5, <1>7, <1>14, <2>5, <2>7
<1>15. CASE x \notin A
  <2>1. kb = <<>>
    BY <1>3, <1>6, <1>15, KeepAllOrNone
  <2>2. ka \o kb = ka
    BY <1>9, <1>13, <2>1
  <2>3. ka \o kc = Keep(t, A)
    <3>1. CASE later \cap A = {}
      <4>1. Range(t) \cap ((Range(t) \ later) \cap A) = Range(t) \cap A
        BY <3>1
      <4>2. ka = Keep(t, A) /\ kc = <<>>
        BY <1>8, <1>12, <3>1, <4>1
      <4> QED
        BY <1>9, <1>13, <4>2
    <3>2. CASE later \cap A # {}
      <4>1. PICK z \in later \cap A : TRUE
        BY <3>2
      <4>2. z \in X /\ <<x, z>> \in order /\ z \in A
        BY <1>1, <1>11, <4>1
      <4>3. \A y \in Range(t) \cap A : y \in later
        <5>1. ASSUME NEW y \in Range(t) \cap A PROVE y \in later
          <6>1. y \in X /\ key[y] = key[z]
            BY <1>11, <4>2 DEF Alike
          <6>2. <<x, y>> \in order
            BY <1>10, <4>2, <6>1
          <6> QED
            BY <1>1, <6>2
        <5> QED
          BY <5>1
      <4>4. (Range(t) \ later) \cap A = {} /\ Range(t) \cap (later \cap A) = Range(t) \cap A
        BY <4>3
      <4>5. ka = <<>> /\ kc = Keep(t, A)
        BY <1>8, <1>12, <4>4
      <4> QED
        BY <1>9, <1>13, <4>5
    <3> QED
      BY <3>1, <3>2
  <2> QED
    BY <1>5, <1>7, <1>15, <2>2, <2>3
<1> QED
  BY <1>14, <1>15

\* Sorting by a key sorts, and leaves elements that are alike in their order.
LEMMA SortedStable ==
  ASSUME NEW X, NEW order, NEW key, OrderOf(order, key, X), NEW s \in Seq(X)
  PROVE  /\ Rising(SortedBy(s, order), key)
         /\ \A A : Alike(A, key, X) => Keep(SortedBy(s, order), A) = Keep(s, A)
<1> DEFINE T == {t \in Seq(X) :
                   /\ Rising(SortedBy(t, order), key)
                   /\ \A A : Alike(A, key, X) => Keep(SortedBy(t, order), A) = Keep(t, A)}
<1>01. \A x \in X : \A v \in Seq(X) :
         /\ SortedBy(v, order) \in Seq(X)
         /\ SortedBy(Append(v, x), order) = Inserted(SortedBy(v, order), x, order)
  BY SortedAppend
<1>02. \A x \in X : \A v \in Seq(X) : Rising(v, key) => Rising(Inserted(v, x, order), key)
  BY InsertSorted
<1>03. \A A : Alike(A, key, X) => \A x \in X : \A v \in Seq(X) :
         Keep(Inserted(v, x, order), A) = IF x \in A THEN Append(Keep(v, A), x) ELSE Keep(v, A)
  BY InsertStable
<1>04. \A A : \A x \in X : \A v \in Seq(X) :
         Keep(Append(v, x), A) = IF x \in A THEN Append(Keep(v, A), x) ELSE Keep(v, A)
  BY KeepAppend
<1>1. <<>> \in T
  <2>1. SortedBy(<<>>, order) = <<>> /\ <<>> \in Seq(X)
    BY SortedEmpty
  <2>2. Rising(<<>>, key)
    BY DEF Rising
  <2> QED
    BY <2>1, <2>2
<1>2. ASSUME NEW t \in Seq(X), NEW x \in X, t \in T PROVE Append(t, x) \in T
  <2>1. PICK u \in Seq(X) : u = SortedBy(t, order) /\ Rising(u, key)
    BY <1>01, <1>2
  <2>2. \A A : Alike(A, key, X) => Keep(u, A) = Keep(t, A)
    BY <1>2, <2>1
  <2>3. SortedBy(Append(t, x), order) = Inserted(u, x, order)
    BY <1>01, <2>1
  <2>4. Append(t, x) \in Seq(X)
    BY AppendProperties
  <2>5. Rising(Inserted(u, x, order), key)
    BY <1>02, <2>1
  <2>6. ASSUME NEW A, Alike(A, key, X)
        PROVE  Keep(Inserted(u, x, order), A) = Keep(Append(t, x), A)
    <3>1. Keep(Inserted(u, x, order), A) = IF x \in A THEN Append(Keep(u, A), x) ELSE Keep(u, A)
      BY <1>03, <2>6
    <3>2. Keep(Append(t, x), A) = IF x \in A THEN Append(Keep(t, A), x) ELSE Keep(t, A)
      BY <1>04
    <3> QED
      BY <2>2, <2>6, <3>1, <3>2
  <2> QED
    BY <2>3, <2>4, <2>5, <2>6
<1>3. Seq(X) \subseteq T
  <2> HIDE DEF T
  <2> QED
    BY <1>1, <1>2, SeqSetInduction
<1> QED
  BY <1>3

-----------------------------------------------------------------------------
(* Sequences laid end to end.                                              *)

Flattening(w, ss, X) ==
  /\ w \in [0 .. Len(ss) -> Seq(X)]
  /\ w[0] = <<>>
  /\ \A k \in 1 .. Len(ss) : w[k] = w[k - 1] \o ss[k]
  /\ FlattenSeq(ss) = w[Len(ss)]

LEMMA FlattenRuns ==
  ASSUME NEW X, NEW ss \in Seq(Seq(X))
  PROVE  \E w : Flattening(w, ss, X)
<1>0. PICK n \in Nat : n = Len(ss) /\ DOMAIN ss = 1 .. n /\ \A k \in 1 .. n : ss[k] \in Seq(X)
  OBVIOUS
<1> DEFINE V == Seq(X)
           step == [k \in 1 .. n |-> [v \in V |-> v \o ss[k]]]
<1>01. \A k \in 1 .. n : \A v \in V : v \o ss[k] \in V
  BY <1>0, ConcatProperties
<1>1. step \in [1 .. n -> [V -> V]] /\ <<>> \in V
  BY <1>01
<1>2. \A k \in 1 .. n, v \in V : step[k][v] = v \o ss[k]
  OBVIOUS
<1> HIDE DEF step, V
<1>3. PICK f : Folds(f, n, V, <<>>, step)
  BY <1>1, FoldsExist
<1>4. ASSUME NEW k \in 1 .. n, f[1 .. k - 1] \in V PROVE f[1 .. k] = step[k][f[1 .. k - 1]]
  <2>1. 1 .. k \subseteq 1 .. n /\ 1 .. k # {} /\ Max(1 .. k) = k /\ (1 .. k) \ {k} = 1 .. k - 1
    BY PrefixOf
  <2> QED
    BY <1>3, <2>1 DEF Folds
<1>5. PICK w : Run(w, n, V, <<>>, step) /\ w[n] = f[1 .. n]
  <2>1. StepsOf(f, n, V, <<>>, step)
    BY <1>1, <1>3, <1>4 DEF StepsOf, Folds
  <2> QED
    BY <2>1, FoldRuns
<1>6. /\ w \in [0 .. n -> Seq(X)] /\ w[0] = <<>>
      /\ \A k \in 1 .. n : w[k] = w[k - 1] \o ss[k]
  <2>1. \A k \in 1 .. n : k - 1 \in 0 .. n
    OBVIOUS
  <2> QED
    BY <1>2, <1>5, <2>1 DEF Run, V
<1>7. CASE n = 0
  <2>1. FlattenSeq(ss) = ss /\ ss = <<>>
    BY <1>0, <1>7 DEF FlattenSeq
  <2> QED
    BY <1>0, <1>6, <1>7, <2>1 DEF Flattening
<1>8. CASE n # 0
  <2>1. n \in 1 .. n
    BY <1>8
  <2>2. PICK h : h = [i \in 1 .. n |-> w[i]]
    OBVIOUS
  <2>3. h = [i \in 1 .. Len(ss) |-> IF i = 1 THEN ss[i] ELSE h[i - 1] \o ss[i]]
    <3>1. ASSUME NEW i \in 1 .. n PROVE h[i] = IF i = 1 THEN ss[i] ELSE h[i - 1] \o ss[i]
      <4>1. h[i] = w[i] /\ w[i] = w[i - 1] \o ss[i]
        BY <1>6, <2>2
      <4>2. CASE i = 1
        <5>1. ss[i] \in Seq(X) /\ w[i - 1] = <<>>
          BY <1>0, <1>6, <4>2
        <5> QED
          BY <4>1, <4>2, <5>1, ConcatEmptySeq
      <4>3. CASE i # 1
        <5>1. i - 1 \in 1 .. n
          BY <4>3
        <5> QED
          BY <2>2, <4>1, <4>3, <5>1
      <4> QED
        BY <4>2, <4>3
    <3> QED
      BY <1>0, <2>2, <3>1
  <2>4. PICK g : /\ g = [i \in 1 .. Len(ss) |-> IF i = 1 THEN ss[i] ELSE g[i - 1] \o ss[i]]
                 /\ FlattenSeq(ss) = g[Len(ss)]
    BY <1>0, <1>8, <2>3 DEF FlattenSeq
  <2>5. PICK v : v = [i \in 0 .. n |-> IF i = 0 THEN <<>> ELSE g[i]]
    OBVIOUS
  <2>6. v[n] = g[n] /\ v[0] = <<>>
    BY <1>8, <2>5
  <2>7. ASSUME NEW k \in 1 .. n, w[k - 1] = v[k - 1] PROVE w[k] = v[k]
    <3>1. v[k] = IF k = 1 THEN ss[k] ELSE g[k - 1] \o ss[k]
      <4>1. k \in 0 .. n /\ k # 0
        OBVIOUS
      <4>2. v[k] = g[k]
        BY <2>5, <4>1
      <4> QED
        BY <1>0, <2>4, <4>2
    <3>2. CASE k = 1
      <4>1. ss[k] \in Seq(X) /\ w[k] = w[k - 1] \o ss[k]
        BY <1>0, <1>6
      <4>11. k - 1 = 0
        BY <3>2
      <4>2. <<>> \o ss[k] = ss[k]
        BY <4>1, ConcatEmptySeq
      <4> QED
        BY <1>6, <3>1, <3>2, <4>1, <4>11, <4>2
    <3>3. CASE k # 1
      <4>1. k - 1 \in 0 .. n /\ k - 1 # 0
        BY <3>3
      <4>2. v[k - 1] = g[k - 1]
        BY <2>5, <4>1
      <4> QED
        BY <1>6, <2>7, <3>1, <3>3, <4>2
    <3> QED
      BY <3>2, <3>3
  <2>8. w[n] = v[n]
    <3>1. SameSteps(w, v, n)
      BY <1>6, <2>6, <2>7 DEF SameSteps
    <3> QED
      BY <3>1, RunsAgree
  <2> QED
    BY <1>0, <1>6, <2>4, <2>6, <2>8 DEF Flattening
<1> QED
  BY <1>7, <1>8

\* It has the elements of all,
LEMMA FlattenRange ==
  ASSUME NEW X, NEW ss \in Seq(Seq(X))
  PROVE  /\ FlattenSeq(ss) \in Seq(X)
         /\ \A x : x \in Range(FlattenSeq(ss)) <=> \E k \in 1 .. Len(ss) : x \in Range(ss[k])
<1>0. PICK n \in Nat : n = Len(ss) /\ \A k \in 1 .. n : ss[k] \in Seq(X)
  OBVIOUS
<1>1. PICK w : Flattening(w, ss, X)
  BY FlattenRuns
<1>2. /\ \A k \in 0 .. n : w[k] \in Seq(X)
      /\ w[0] = <<>> /\ FlattenSeq(ss) = w[n]
      /\ \A k \in 1 .. n : w[k] = w[k - 1] \o ss[k]
  BY <1>0, <1>1 DEF Flattening
<1> DEFINE T == {k \in Nat : k <= n => \A x : x \in Range(w[k]) <=>
                                              \E i \in 1 .. k : x \in Range(ss[i])}
<1>3. 0 \in T
  BY <1>2, RangeAppend
<1>4. ASSUME NEW k \in Nat, k \in T PROVE k + 1 \in T
  <2> SUFFICES ASSUME k + 1 <= n
               PROVE  \A x : x \in Range(w[k + 1]) <=> \E i \in 1 .. k + 1 : x \in Range(ss[i])
    OBVIOUS
  <2>1. k + 1 \in 1 .. n /\ k \in 0 .. n /\ (k + 1) - 1 = k
    OBVIOUS
  <2>2. PICK u, v \in Seq(X) : u = w[k] /\ v = ss[k + 1]
    BY <1>0, <1>2, <2>1
  <2>3. w[k + 1] = u \o v
    BY <1>2, <2>1, <2>2
  <2>4. Range(u \o v) = Range(u) \cup Range(v)
    BY <2>2, RangeConcatenation
  <2>5. \A x : x \in Range(u) <=> \E i \in 1 .. k : x \in Range(ss[i])
    BY <1>4, <2>1, <2>2
  <2>6. \A i : i \in 1 .. k + 1 <=> i \in 1 .. k \/ i = k + 1
    OBVIOUS
  <2> QED
    BY <2>2, <2>3, <2>4, <2>5, <2>6
<1>5. n \in T
  <2> HIDE DEF T
  <2>1. Nat \subseteq T
    BY <1>3, <1>4, NatSetInduction
  <2> QED
    BY <2>1
<1> QED
  BY <1>0, <1>2, <1>5

\* Where one of them lies in a set and the others outside of it.
OnlyOne(A, g, ss) ==
  /\ g \in 1 .. Len(ss) /\ Range(ss[g]) \subseteq A
  /\ \A k \in 1 .. Len(ss) \ {g} : Range(ss[k]) \cap A = {}

\* that one is what is kept.
LEMMA FlattenKeep ==
  ASSUME NEW X, NEW ss \in Seq(Seq(X)), NEW A, NEW g, OnlyOne(A, g, ss)
  PROVE  Keep(FlattenSeq(ss), A) = ss[g]
<1>0. PICK n \in Nat : n = Len(ss) /\ \A k \in 1 .. n : ss[k] \in Seq(X)
  OBVIOUS
<1>1. PICK w : Flattening(w, ss, X)
  BY FlattenRuns
<1>2. /\ \A k \in 0 .. n : w[k] \in Seq(X)
      /\ w[0] = <<>> /\ FlattenSeq(ss) = w[n]
      /\ \A k \in 1 .. n : w[k] = w[k - 1] \o ss[k]
  BY <1>0, <1>1 DEF Flattening
<1>3. g \in 1 .. n /\ ss[g] \in Seq(X)
  BY <1>0 DEF OnlyOne
<1>4. ASSUME NEW k \in 1 .. n PROVE Keep(ss[k], A) = IF k = g THEN ss[g] ELSE <<>>
  <2>1. PICK t \in Seq(X) : t = ss[k]
    BY <1>0
  <2>2. IF k = g THEN Range(t) \subseteq A ELSE Range(t) \cap A = {}
    BY <1>0, <2>1 DEF OnlyOne
  <2> QED
    BY <2>1, <2>2, KeepAllOrNone
<1> DEFINE T == {k \in Nat : k <= n => Keep(w[k], A) = IF g <= k THEN ss[g] ELSE <<>>}
<1>5. 0 \in T
  BY <1>2, <1>3, KeepEmpty
<1>51. \A u \in Seq(X) : \A v \in Seq(X) : Keep(u \o v, A) = Keep(u, A) \o Keep(v, A)
  BY KeepConcat
<1>6. ASSUME NEW k \in Nat, k \in T PROVE k + 1 \in T
  <2> SUFFICES ASSUME k + 1 <= n
               PROVE  Keep(w[k + 1], A) = IF g <= k + 1 THEN ss[g] ELSE <<>>
    OBVIOUS
  <2>1. k + 1 \in 1 .. n /\ k \in 0 .. n /\ (k + 1) - 1 = k
    OBVIOUS
  <2>2. PICK u, v \in Seq(X) : u = w[k] /\ v = ss[k + 1]
    BY <1>0, <1>2, <2>1
  <2>3. w[k + 1] = u \o v
    BY <1>2, <2>1, <2>2
  <2>4. Keep(u \o v, A) = Keep(u, A) \o Keep(v, A)
    BY <1>51, <2>2
  <2>5. Keep(u, A) = IF g <= k THEN ss[g] ELSE <<>>
    BY <1>6, <2>1, <2>2
  <2>6. Keep(v, A) = IF k + 1 = g THEN ss[g] ELSE <<>>
    BY <1>4, <2>1, <2>2
  <2>7. ss[g] \o <<>> = ss[g] /\ <<>> \o ss[g] = ss[g] /\ <<>> \o <<>> = <<>>
    <3>1. PICK e : e = <<>>
      OBVIOUS
    <3>2. e \in Seq(X)
      BY <3>1
    <3> QED
      BY <1>3, <3>1, <3>2, ConcatEmptySeq
  <2>8. /\ g <= k => g <= k + 1 /\ k + 1 # g
        /\ k + 1 = g => g <= k + 1 /\ ~ (g <= k)
        /\ ~ (g <= k) /\ k + 1 # g => ~ (g <= k + 1)
    BY <1>3
  <2> QED
    BY <2>3, <2>4, <2>5, <2>6, <2>7, <2>8
<1>7. n \in T
  <2> HIDE DEF T
  <2>1. Nat \subseteq T
    BY <1>5, <1>6, NatSetInduction
  <2> QED
    BY <2>1
<1> QED
  BY <1>2, <1>3, <1>7
-----------------------------------------------------------------------------
(* Counting.                                                               *)

\* A one-to-one map of S onto T.
Matches(f, S, T) ==
  /\ f \in [S -> T]
  /\ \A x, y \in S : f[x] = f[y] => x = y
  /\ \A z \in T : \E x \in S : f[x] = z

LEMMA SameSize ==
  ASSUME NEW S, NEW T, NEW f, Matches(f, S, T), IsFiniteSet(S)
  PROVE  IsFiniteSet(T) /\ Cardinality(T) = Cardinality(S)
<1>1. f \in Bijection(S, T)
  BY DEF Matches, Bijection, Injection, Surjection, IsInjective
<1>2. ExistsBijection(S, T)
  BY <1>1 DEF ExistsBijection
<1> QED
  BY <1>2, FS_Bijection

LEMMA WithoutSize ==
  ASSUME NEW S, NEW T, IsFiniteSet(S), IsFiniteSet(T)
  PROVE  /\ IsFiniteSet(S \ T)
         /\ Cardinality(S) \in Nat /\ Cardinality(T) \in Nat /\ Cardinality(S \ T) \in Nat
         /\ Cardinality(S \ T) >= Cardinality(S) - Cardinality(T)
<1>1. PICK D : D = S \ T
  OBVIOUS
<1>2. IsFiniteSet(D) /\ IsFiniteSet(D \cup T) /\ IsFiniteSet(D \cap T)
  <2>1. D \in SUBSET S /\ D \cap T \in SUBSET S
    BY <1>1
  <2> QED
    BY <2>1, FS_Subset, FS_Union
<1>3. Cardinality(D \cup T) = Cardinality(D) + Cardinality(T) - Cardinality(D \cap T)
  BY <1>2, FS_Union
<1>4. Cardinality(D \cap T) = 0
  <2>1. D \cap T = {}
    BY <1>1
  <2> QED
    BY <2>1, FS_EmptySet
<1>5. Cardinality(S) <= Cardinality(D \cup T)
  <2>1. S \in SUBSET (D \cup T)
    BY <1>1
  <2> QED
    BY <1>2, <2>1, FS_Subset
<1>6. /\ Cardinality(S) \in Nat /\ Cardinality(T) \in Nat /\ Cardinality(D) \in Nat
      /\ Cardinality(D \cup T) \in Nat
  BY <1>2, FS_CardinalityType
<1> QED
  BY <1>1, <1>2, <1>3, <1>4, <1>5, <1>6

LEMMA RangeFinite ==
  ASSUME NEW X, NEW s \in Seq(X)
  PROVE  IsFiniteSet(Range(s))
<1> DEFINE T == {t \in Seq(X) : IsFiniteSet(Range(t))}
<1>1. <<>> \in T
  <2>1. Range(<<>>) = {} /\ <<>> \in Seq(X)
    BY DEF Range
  <2> QED
    BY <2>1, FS_EmptySet
<1>2. ASSUME NEW t \in Seq(X), NEW x \in X, t \in T PROVE Append(t, x) \in T
  <2>1. Append(t, x) \in Seq(X) /\ Range(Append(t, x)) = Range(t) \cup {x}
    BY AppendProperties, RangeAppend
  <2>2. IsFiniteSet(Range(t) \cup {x})
    BY <1>2, FS_AddElement
  <2> QED
    BY <2>1, <2>2
<1>3. Seq(X) \subseteq T
  <2> HIDE DEF T
  <2> QED
    BY <1>1, <1>2, SeqSetInduction
<1> QED
  BY <1>3

\* Of n places, those of one kind, and those before a place that are of its kind.
Kin(kind, n, b) == {g \in 1 .. n : kind[g] = b}
EarlierKin(kind, g) == {h \in 1 .. g - 1 : kind[h] = kind[g]}
FirstKin(kind, n, b, few) == {g \in Kin(kind, n, b) : Cardinality(EarlierKin(kind, g)) < few}

\* The first few places of every kind are that few of each, or all there are.
LEMMA FirstOfEach ==
  ASSUME NEW n \in Nat, NEW kind, NEW few \in Nat, NEW b
  PROVE  /\ IsFiniteSet(Kin(kind, n, b)) /\ IsFiniteSet(FirstKin(kind, n, b, few))
         /\ Cardinality(Kin(kind, n, b)) \in Nat
         /\ Cardinality(FirstKin(kind, n, b, few)) =
              IF Cardinality(Kin(kind, n, b)) < few THEN Cardinality(Kin(kind, n, b)) ELSE few
<1> DEFINE D == Kin(kind, n, b)
           E == {g \in D : Cardinality(EarlierKin(kind, g)) < few}
<1>1. PICK B : B = [g \in D |-> EarlierKin(kind, g)]
  OBVIOUS
<1>2. IsFiniteSet(D)
  <2>1. IsFiniteSet(1 .. n) /\ D \in SUBSET (1 .. n)
    BY FS_Interval DEF Kin
  <2> QED
    BY <2>1, FS_Subset
<1>3. Ordered(D, B)
  <2>1. \A g \in D : g \in 1 .. n /\ B[g] = {h \in D : h < g}
    <3>1. ASSUME NEW g \in D PROVE B[g] = {h \in D : h < g}
      <4>1. g \in 1 .. n /\ kind[g] = b
        BY DEF Kin
      <4>2. \A h : h \in 1 .. g - 1 <=> h \in 1 .. n /\ h < g
        BY <4>1
      <4>3. B[g] = EarlierKin(kind, g)
        BY <1>1
      <4> QED
        BY <4>1, <4>2, <4>3 DEF Kin, EarlierKin
    <3> QED
      BY <3>1 DEF Kin
  <2> HIDE DEF D
  <2>2. \A x, y \in D : x \in Int /\ y \in Int /\ ~ (x < x) /\ (x # y => x < y \/ y < x)
    BY <2>1
  <2>3. \A x, y, z \in D : x < y /\ y < z => x < z
    BY <2>1
  <2>4. \A x \in D : B[x] \subseteq D /\ x \notin B[x]
    BY <2>1, <2>2
  <2>5. \A x, y \in D : x # y => x \in B[y] \/ y \in B[x]
    BY <2>1, <2>2
  <2>6. \A x, y \in D : x \in B[y] => B[x] \subseteq B[y]
    BY <2>1, <2>3
  <2> QED
    BY <1>2, <2>4, <2>5, <2>6 DEF Ordered
<1>4. PICK N \in Nat : N = Cardinality(D)
  BY <1>2, FS_CardinalityType
<1>5. /\ \A g \in D : Cardinality(B[g]) \in 0 .. N - 1
      /\ \A g, h \in D : Cardinality(B[g]) = Cardinality(B[h]) => g = h
      /\ \A i \in 0 .. N - 1 : \E g \in D : Cardinality(B[g]) = i
  BY <1>3, <1>4, Ranks
<1>6. PICK m \in Nat : m = IF N < few THEN N ELSE few
  OBVIOUS
<1>7. \A g \in D : B[g] = EarlierKin(kind, g)
  BY <1>1
<1> HIDE DEF D
<1>8. PICK r : r = [g \in E |-> Cardinality(B[g])]
  OBVIOUS
<1>9. Matches(r, E, 0 .. m - 1)
  <2>1. \A i \in 0 .. m - 1 : i \in 0 .. N - 1 /\ i < few
    BY <1>6
  <2>2. \A i \in 0 .. N - 1 : i < few => i \in 0 .. m - 1
    BY <1>6
  <2>3. \A g \in E : g \in D /\ r[g] = Cardinality(B[g]) /\ r[g] < few
    BY <1>7, <1>8
  <2>4. \A g \in D : Cardinality(B[g]) < few => g \in E
    BY <1>7
  <2> HIDE DEF E
  <2>5. \A g \in E : r[g] \in 0 .. m - 1
    BY <1>5, <2>2, <2>3
  <2>6. \A g, h \in E : r[g] = r[h] => g = h
    BY <1>5, <2>3
  <2>7. ASSUME NEW i \in 0 .. m - 1 PROVE \E g \in E : r[g] = i
    <3>1. PICK g \in D : Cardinality(B[g]) = i
      BY <1>5, <2>1
    <3>2. g \in E
      BY <2>1, <2>4, <3>1
    <3> QED
      BY <2>3, <3>1, <3>2
  <2>8. r \in [E -> 0 .. m - 1]
    BY <1>8, <2>5
  <2> QED
    BY <2>6, <2>7, <2>8 DEF Matches
<1>10. IsFiniteSet(E)
  <2>1. E \in SUBSET D
    OBVIOUS
  <2> QED
    BY <1>2, <2>1, FS_Subset
<1>11. Cardinality(0 .. m - 1) = Cardinality(E)
  <2> HIDE DEF E
  <2> QED
    BY <1>9, <1>10, SameSize
<1>12. Cardinality(0 .. m - 1) = m
  <2>1. m - 1 \in Int /\ 0 \in Int
    OBVIOUS
  <2>2. Cardinality(0 .. m - 1) = IF 0 > m - 1 THEN 0 ELSE (m - 1) - 0 + 1
    BY <2>1, FS_Interval
  <2> QED
    BY <2>2
<1> QED
  BY <1>2, <1>4, <1>6, <1>10, <1>11, <1>12 DEF D, FirstKin

-----------------------------------------------------------------------------
\* Sequences that climb without a rest are the same if their elements are.
Climbs(s, key) == \A i, j \in 1 .. Len(s) : i < j => key[s[i]] < key[s[j]]

\* Two sequences that climb along the same elements are one.
LEMMA ClimbsUnique ==
  ASSUME NEW X, NEW key, key \in [X -> Int], NEW s \in Seq(X), NEW u \in Seq(X),
         Climbs(s, key), Climbs(u, key), Range(s) = Range(u)
  PROVE  s = u
<1>1. PICK n \in Nat, m \in Nat : n = Len(s) /\ m = Len(u)
  OBVIOUS
<1>2. /\ \A i \in 1 .. n : s[i] \in X /\ \E j \in 1 .. m : u[j] = s[i]
      /\ \A i \in 1 .. m : u[i] \in X /\ \E j \in 1 .. n : s[j] = u[i]
  BY <1>1, InRange
<1>3. PICK a, b : a = [i \in 1 .. n |-> key[s[i]]] /\ b = [i \in 1 .. m |-> key[u[i]]]
  OBVIOUS
<1>4. /\ \A i \in 1 .. n : a[i] = key[s[i]] /\ a[i] \in Int
      /\ \A i \in 1 .. m : b[i] = key[u[i]] /\ b[i] \in Int
  BY <1>2, <1>3
<1>5. /\ \A i, j \in 1 .. n : i < j => a[i] < a[j]
      /\ \A i, j \in 1 .. m : i < j => b[i] < b[j]
  BY <1>1, <1>4 DEF Climbs
<1> DEFINE P == {k \in Nat : \A i \in 1 .. k : /\ i <= n <=> i <= m
                                               /\ i <= n => s[i] = u[i]}
<1>6. 0 \in P
  OBVIOUS
<1>7. ASSUME NEW k \in Nat, k \in P PROVE k + 1 \in P
  <2>1. \A i \in 1 .. k : (i <= n <=> i <= m) /\ (i <= n => s[i] = u[i])
    BY <1>7
  <2>2. ASSUME k + 1 <= n PROVE \E j \in k + 1 .. m : u[j] = s[k + 1]
    <3>1. k + 1 \in 1 .. n
      BY <2>2
    <3>2. PICK j \in 1 .. m : u[j] = s[k + 1]
      BY <1>2, <3>1
    <3>3. ASSUME j <= k PROVE FALSE
      <4>1. j \in 1 .. k
        BY <3>3
      <4>2. j \in 1 .. n /\ s[j] = u[j] /\ j < k + 1
        BY <2>1, <4>1
      <4>3. a[j] = a[k + 1] /\ a[j] < a[k + 1] /\ a[j] \in Int
        BY <1>4, <1>5, <3>1, <3>2, <4>2
      <4> QED
        BY <4>3
    <3> QED
      BY <3>2, <3>3
  <2>3. ASSUME k + 1 <= m PROVE \E j \in k + 1 .. n : s[j] = u[k + 1]
    <3>1. k + 1 \in 1 .. m
      BY <2>3
    <3>2. PICK j \in 1 .. n : s[j] = u[k + 1]
      BY <1>2, <3>1
    <3>3. ASSUME j <= k PROVE FALSE
      <4>1. j \in 1 .. k
        BY <3>3
      <4>2. j \in 1 .. m /\ s[j] = u[j] /\ j < k + 1
        BY <2>1, <4>1
      <4>3. b[j] = b[k + 1] /\ b[j] < b[k + 1] /\ b[j] \in Int
        BY <1>4, <1>5, <3>1, <3>2, <4>2
      <4> QED
        BY <4>3
    <3> QED
      BY <3>2, <3>3
  <2>4. k + 1 <= n <=> k + 1 <= m
    BY <2>2, <2>3
  <2>5. ASSUME k + 1 <= n PROVE s[k + 1] = u[k + 1]
    <3>0. k + 1 \in 1 .. n /\ k + 1 \in 1 .. m
      BY <2>4, <2>5
    <3>1. PICK j \in k + 1 .. m : u[j] = s[k + 1]
      BY <2>2, <2>5
    <3>2. PICK l \in k + 1 .. n : s[l] = u[k + 1]
      BY <2>3, <2>4, <2>5
    <3>3. j \in 1 .. m /\ l \in 1 .. n
      OBVIOUS
    <3>4. b[j] = a[k + 1] /\ a[l] = b[k + 1]
      BY <1>4, <3>0, <3>1, <3>2, <3>3
    <3>5. (j = k + 1 \/ b[k + 1] < b[j]) /\ (l = k + 1 \/ a[k + 1] < a[l])
      BY <1>5, <3>0, <3>1, <3>2, <3>3
    <3>6. j = k + 1 \/ l = k + 1
      <4>1. a[k + 1] \in Int /\ b[k + 1] \in Int
        BY <1>4, <3>0
      <4> QED
        BY <3>4, <3>5, <4>1
    <3> QED
      BY <3>1, <3>2, <3>6
  <2> SUFFICES ASSUME NEW i \in 1 .. k + 1
               PROVE  (i <= n <=> i <= m) /\ (i <= n => s[i] = u[i])
    OBVIOUS
  <2>6. CASE i \in 1 .. k
    BY <2>1, <2>6
  <2>7. CASE i = k + 1
    BY <2>4, <2>5, <2>7
  <2> QED
    BY <2>6, <2>7
<1>8. Nat \subseteq P
  <2> HIDE DEF P
  <2> QED
    BY <1>6, <1>7, NatSetInduction
<1>9. n = m
  <2>1. ASSUME n < m PROVE FALSE
    <3>1. m \in P /\ m \in 1 .. m
      BY <1>8, <2>1
    <3> QED
      BY <2>1, <3>1
  <2>2. ASSUME m < n PROVE FALSE
    <3>1. n \in P /\ n \in 1 .. n
      BY <1>8, <2>2
    <3>2. \A i \in 1 .. n : i <= n <=> i <= m
      BY <3>1
    <3>3. n <= n <=> n <= m
      BY <3>1, <3>2
    <3> QED
      BY <2>2, <3>3
  <2> QED
    BY <2>1, <2>2
<1>10. \A i \in 1 .. n : s[i] = u[i]
  <2>1. n \in P
    BY <1>8
  <2> QED
    BY <2>1
<1>11. Len(s) = Len(u) /\ \A i \in 1 .. Len(s) : s[i] = u[i]
  BY <1>1, <1>9, <1>10
<1> QED
  BY <1>11, SeqEqual

\* Sequences without repetitions and without a common element, one after the other.
LEMMA DistinctConcat ==
  ASSUME NEW X, NEW s \in Seq(X), NEW t \in Seq(X), Distinct(s), Distinct(t),
         Range(s) \cap Range(t) = {}
  PROVE  Distinct(s \o t)
<1>1. PICK n \in Nat, m \in Nat : n = Len(s) /\ m = Len(t)
  OBVIOUS
<1>2. PICK u : u = s \o t
  OBVIOUS
<1>3. Len(u) = n + m /\ \A i \in 1 .. n + m : u[i] = IF i <= n THEN s[i] ELSE t[i - n]
  BY <1>1, <1>2, ConcatProperties
<1>4. (\A i \in 1 .. n : s[i] \in Range(s)) /\ (\A i \in 1 .. m : t[i] \in Range(t))
  BY <1>1, InRange
<1>5. /\ \A i, j \in 1 .. n : s[i] = s[j] => i = j
      /\ \A i, j \in 1 .. m : t[i] = t[j] => i = j
  BY <1>1 DEF Distinct
<1>6. ASSUME NEW i \in 1 .. n + m, NEW j \in 1 .. n + m, u[i] = u[j] PROVE i = j
  <2>1. CASE i <= n /\ j <= n
    BY <1>3, <1>5, <1>6, <2>1
  <2>2. CASE i > n /\ j > n
    <3>1. i - n \in 1 .. m /\ j - n \in 1 .. m /\ t[i - n] = t[j - n]
      BY <1>3, <1>6, <2>2
    <3>2. i - n = j - n
      BY <1>5, <3>1
    <3> QED
      BY <3>2
  <2>3. CASE i <= n /\ j > n
    <3>1. i \in 1 .. n /\ j - n \in 1 .. m /\ s[i] = t[j - n]
      BY <1>3, <1>6, <2>3
    <3> QED
      BY <1>4, <3>1
  <2>4. CASE i > n /\ j <= n
    <3>1. j \in 1 .. n /\ i - n \in 1 .. m /\ s[j] = t[i - n]
      BY <1>3, <1>6, <2>4
    <3> QED
      BY <1>4, <3>1
  <2> QED
    BY <2>1, <2>2, <2>3, <2>4
<1> QED
  BY <1>2, <1>3, <1>6 DEF Distinct

\* Sorting keeps distinct what was.
LEMMA SortedDistinct ==
  ASSUME NEW X, NEW order, NEW s \in Seq(X), Distinct(s)
  PROVE  Distinct(SortedBy(s, order))
<1> DEFINE T == {t \in Seq(X) : Distinct(t) => Distinct(SortedBy(t, order))}
<1>1. <<>> \in T
  <2>1. SortedBy(<<>>, order) = <<>>
    BY SortedEmpty
  <2> QED
    BY <2>1
<1>2. ASSUME NEW t \in Seq(X), NEW x \in X, t \in T PROVE Append(t, x) \in T
  <2>1. Append(t, x) \in Seq(X)
    BY AppendProperties
  <2> SUFFICES ASSUME Distinct(Append(t, x)) PROVE Distinct(SortedBy(Append(t, x), order))
    BY <2>1
  <2>2. Distinct(t) /\ x \notin Range(t)
    BY DistinctAppend
  <2>3. PICK v : v = SortedBy(t, order)
    OBVIOUS
  <2>4. v \in Seq(X) /\ Range(v) = Range(t)
    BY <2>3, SortedRange
  <2>40. Distinct(v)
    BY <1>2, <2>2, <2>3
  <2>5. PICK later : later = {y \in Range(v) : <<x, y>> \in order}
    OBVIOUS
  <2>6. PICK a, b, c : a = Keep(v, Range(v) \ later) /\ b = <<x>> /\ c = Keep(v, later)
    OBVIOUS
  <2>7. /\ a \in Seq(X) /\ Range(a) = Range(v) \cap (Range(v) \ later)
        /\ b \in Seq(X) /\ Range(b) = {x}
        /\ c \in Seq(X) /\ Range(c) = Range(v) \cap later
    BY <2>4, <2>6, KeepRange, Single
  <2>8. Distinct(a) /\ Distinct(c)
    BY <2>4, <2>40, <2>6, DistinctKeep
  <2>9. Distinct(b)
    BY <2>6 DEF Distinct
  <2>10. PICK d : d = a \o b
    OBVIOUS
  <2>11. d \in Seq(X) /\ Range(d) = Range(a) \cup Range(b)
    BY <2>7, <2>10, ConcatProperties, RangeConcatenation
  <2>12. Distinct(d)
    <3>1. Range(a) \cap Range(b) = {}
      BY <2>2, <2>4, <2>7
    <3> QED
      BY <2>7, <2>8, <2>9, <2>10, <3>1, DistinctConcat
  <2>13. Distinct(d \o c)
    <3>1. Range(d) \cap Range(c) = {}
      BY <2>2, <2>4, <2>7, <2>11
    <3> QED
      BY <2>7, <2>8, <2>11, <2>12, <3>1, DistinctConcat
  <2>14. SortedBy(Append(t, x), order) = Inserted(v, x, order)
    BY <2>3, SortedAppend
  <2>15. Inserted(v, x, order) = d \o c
    BY <2>5, <2>6, <2>10 DEF Inserted
  <2> QED
    BY <2>13, <2>14, <2>15
<1>3. Seq(X) \subseteq T
  <2> HIDE DEF T
  <2> QED
    BY <1>1, <1>2, SeqSetInduction
<1> QED
  BY <1>3

\* So the sorted sequence of things with different keys is the one that climbs.
LEMMA SortedUnique ==
  ASSUME NEW X, NEW order, NEW key, OrderOf(order, key, X), NEW s \in Seq(X), Distinct(s),
         NEW u \in Seq(X), Climbs(u, key), Range(s) = Range(u)
  PROVE  SortedBy(s, order) = u
<1>1. PICK v : v = SortedBy(s, order)
  OBVIOUS
<1>2. v \in Seq(X) /\ Range(v) = Range(u) /\ Distinct(v) /\ Rising(v, key)
  BY <1>1, SortedRange, SortedDistinct, SortedStable
<1>3. key \in [X -> Int]
  BY DEF OrderOf
<1>4. ASSUME NEW i \in 1 .. Len(v), NEW j \in 1 .. Len(v), i < j PROVE key[v[i]] < key[v[j]]
  <2>1. v[i] \in Range(u) /\ v[j] \in Range(u) /\ v[i] \in X /\ v[j] \in X
    BY <1>2, InRange
  <2>02. \A x \in Range(u) : \E k \in 1 .. Len(u) : u[k] = x
    BY InRange
  <2>2. PICK k \in 1 .. Len(u) : u[k] = v[i]
    BY <2>1, <2>02
  <2>20. PICK l \in 1 .. Len(u) : u[l] = v[j]
    BY <2>1, <2>02
  <2>3. v[i] # v[j] /\ key[v[i]] <= key[v[j]]
    BY <1>2, <1>4 DEF Distinct, Rising
  <2>4. key[v[i]] \in Int /\ key[v[j]] \in Int
    BY <1>3, <2>1
  <2>5. Len(u) \in Nat /\ k # l
    BY <2>2, <2>20, <2>3
  <2>6. key[u[k]] < key[u[l]] \/ key[u[l]] < key[u[k]]
    BY <2>5 DEF Climbs
  <2> QED
    BY <2>2, <2>20, <2>3, <2>4, <2>6
<1>5. Climbs(v, key)
  BY <1>4 DEF Climbs
<1> QED
  BY <1>1, <1>2, <1>3, <1>5, ClimbsUnique

\* A function on the first n numbers is a sequence.
LEMMA FunctionIsSeq ==
  ASSUME NEW X, NEW n \in Nat, NEW u, u \in [1..n -> X]
  PROVE  u \in Seq(X) /\ Len(u) = n /\ DOMAIN u = 1..n
<1>1. u \in Seq(X) /\ DOMAIN u = 1..n
  OBVIOUS
<1> QED
  BY <1>1


\* Intervals that meet end to end are in order.
LEMMA StepsOrder ==
  ASSUME NEW m \in Nat, NEW a, NEW b,
         \A i \in 1..m : a[i] \in Nat /\ b[i] \in Nat /\ a[i] <= b[i],
         \A i \in 1..m - 1 : a[i + 1] = b[i]
  PROVE  \A i, j \in 1..m : i < j => b[i] <= a[j]
<1> SUFFICES ASSUME NEW i \in 1..m, NEW l \in 1..m, i < l PROVE b[i] <= a[l]
  OBVIOUS
<1> DEFINE P == {j \in Nat : i < j /\ j <= m => b[i] <= a[j]}
<1>1. 0 \in P
  OBVIOUS
<1>2. ASSUME NEW j \in Nat, j \in P PROVE j + 1 \in P
  <2> SUFFICES ASSUME i < j + 1, j + 1 <= m PROVE b[i] <= a[j + 1]
    OBVIOUS
  <2>1. j \in 1..m - 1 /\ j \in 1..m /\ j + 1 \in 1..m
    OBVIOUS
  <2>2. a[j + 1] = b[j] /\ a[j] \in Nat /\ b[j] \in Nat /\ a[j] <= b[j] /\ b[i] \in Nat
    BY <2>1
  <2>3. CASE i = j
    BY <2>2, <2>3
  <2>4. CASE i < j
    <3>1. b[i] <= a[j]
      BY <1>2, <2>1, <2>4
    <3> QED
      BY <2>2, <3>1
  <2> QED
    BY <2>3, <2>4
<1>3. Nat \subseteq P
  <2> HIDE DEF P
  <2> QED
    BY <1>1, <1>2, NatSetInduction
<1>4. l \in P
  <2>1. l \in Nat
    OBVIOUS
  <2> QED
    BY <1>3, <2>1
<1> QED
  BY <1>4

\* The place of the last of the greatest, and of the first of the least.
GreatestIn(s, key, i) ==
  /\ i \in DOMAIN s
  /\ \A j \in DOMAIN s : key[s[j]] < key[s[i]] \/ (key[s[i]] = key[s[j]] /\ j <= i)

LeastIn(s, key, i) ==
  /\ i \in DOMAIN s
  /\ \A j \in DOMAIN s : key[s[i]] < key[s[j]] \/ (key[s[i]] = key[s[j]] /\ i <= j)

\* The last of the greatest is among those of the greatest key.
LEMMA GreatestExists ==
  ASSUME NEW X, NEW s \in Seq(X), NEW key, NEW G, NEW top \in Int, Range(s) \cap G # {},
         \A y \in Range(s) : /\ key[y] \in Int
                             /\ y \in G => key[y] = top
                             /\ y \notin G => key[y] < top
  PROVE  /\ \E i : GreatestIn(s, key, i)
         /\ \A i : GreatestIn(s, key, i) => s[i] \in G
<1>1. PICK n \in Nat : n = Len(s) /\ DOMAIN s = 1..n
  OBVIOUS
<1>2. \A i \in 1..n : s[i] \in Range(s)
  BY <1>1, InRange
<1>02. \A y \in Range(s) : \E i \in 1..n : s[i] = y
  BY <1>1, InRange
<1>3. PICK P : P = {i \in 1..n : s[i] \in G}
  OBVIOUS
<1>4. P \subseteq 0..n /\ P # {}
  <2>1. PICK y \in Range(s) \cap G : TRUE
    OBVIOUS
  <2>2. PICK i \in 1..n : s[i] = y
    BY <1>02, <2>1
  <2> QED
    BY <1>3, <2>1, <2>2
<1>5. PICK i : i = Max(P)
  OBVIOUS
<1>6. i \in P /\ \A j \in P : j <= i
  BY <1>1, <1>4, <1>5, MaxExists
<1>7. GreatestIn(s, key, i)
  <2>1. i \in 1..n /\ s[i] \in G /\ key[s[i]] = top
    BY <1>2, <1>3, <1>6
  <2>2. ASSUME NEW j \in 1..n
        PROVE  key[s[j]] < key[s[i]] \/ (key[s[i]] = key[s[j]] /\ j <= i)
    <3>1. CASE s[j] \in G
      <4>1. j \in P
        BY <1>3, <3>1
      <4> QED
        BY <1>2, <1>6, <2>1, <3>1, <4>1
    <3>2. CASE s[j] \notin G
      BY <1>2, <2>1, <3>2
    <3> QED
      BY <3>1, <3>2
  <2> QED
    BY <1>1, <2>1, <2>2 DEF GreatestIn
<1>8. ASSUME NEW l, GreatestIn(s, key, l) PROVE s[l] \in G
  <2>1. l \in 1..n /\ i \in 1..n /\ s[i] \in G /\ key[s[i]] = top
    BY <1>1, <1>2, <1>3, <1>6, <1>8 DEF GreatestIn
  <2>2. key[s[i]] < key[s[l]] \/ key[s[l]] = key[s[i]]
    BY <1>1, <1>8, <2>1 DEF GreatestIn
  <2>3. key[s[l]] \in Int /\ (s[l] \notin G => key[s[l]] < top)
    BY <1>2, <2>1
  <2> QED
    BY <2>1, <2>2, <2>3
<1> QED
  BY <1>7, <1>8

\* The first of the least is the only one of its key.
LEMMA LeastExists ==
  ASSUME NEW X, NEW s \in Seq(X), NEW key, NEW x \in Range(s),
         \A y \in Range(s) : key[y] \in Int /\ (y # x => key[x] < key[y])
  PROVE  /\ \E i : LeastIn(s, key, i)
         /\ \A i : LeastIn(s, key, i) => s[i] = x
<1>1. PICK n \in Nat : n = Len(s) /\ DOMAIN s = 1..n
  OBVIOUS
<1>2. \A i \in 1..n : s[i] \in Range(s)
  BY <1>1, InRange
<1>02. \A y \in Range(s) : \E i \in 1..n : s[i] = y
  BY <1>1, InRange
<1>3. PICK P : P = {i \in 1..n : s[i] = x}
  OBVIOUS
<1>4. P \subseteq Nat /\ P # {}
  <2>2. PICK i \in 1..n : s[i] = x
    BY <1>02
  <2> QED
    BY <1>3, <2>2
<1>5. PICK i : i = Min(P)
  OBVIOUS
<1>6. i \in P /\ \A j \in P : i <= j
  BY <1>4, <1>5, MinExists
<1>7. LeastIn(s, key, i)
  <2>1. i \in 1..n /\ s[i] = x
    BY <1>3, <1>6
  <2>2. ASSUME NEW j \in 1..n
        PROVE  key[s[i]] < key[s[j]] \/ (key[s[i]] = key[s[j]] /\ i <= j)
    <3>1. CASE s[j] = x
      <4>1. j \in P
        BY <1>3, <3>1
      <4> QED
        BY <1>6, <2>1, <3>1, <4>1
    <3>2. CASE s[j] # x
      BY <1>2, <2>1, <3>2
    <3> QED
      BY <3>1, <3>2
  <2> QED
    BY <1>1, <2>1, <2>2 DEF LeastIn
<1>8. ASSUME NEW l, LeastIn(s, key, l) PROVE s[l] = x
  <2>1. l \in 1..n /\ i \in 1..n /\ s[i] = x
    BY <1>1, <1>3, <1>6, <1>8 DEF LeastIn
  <2>2. key[s[l]] < key[x] \/ key[s[l]] = key[x]
    BY <1>1, <1>8, <2>1 DEF LeastIn
  <2>3. key[s[l]] \in Int /\ key[x] \in Int /\ (s[l] # x => key[x] < key[s[l]])
    BY <1>2, <2>1
  <2> QED
    BY <2>2, <2>3
<1> QED
  BY <1>7, <1>8

\* Reversed, a sequence keeps its elements.
LEMMA ReverseKeeps ==
  ASSUME NEW X, NEW s \in Seq(X), NEW t, t = Reverse(s)
  PROVE  t \in Seq(X) /\ Range(t) = Range(s) /\ (Distinct(s) => Distinct(t))
<1>1. PICK n \in Nat : n = Len(s)
  OBVIOUS
<1>2. t = [i \in 1..n |-> s[(n - i) + 1]]
  BY <1>1 DEF Reverse
<1>3. \A i \in 1..n : (n - i) + 1 \in 1..n /\ t[i] = s[(n - i) + 1] /\ t[i] \in X
  <2>1. \A i \in 1..n : (n - i) + 1 \in 1..n
    OBVIOUS
  <2> QED
    BY <1>1, <1>2, <2>1, InRange
<1>4. t \in Seq(X) /\ Len(t) = n
  <2>1. t \in [1..n -> X]
    BY <1>2, <1>3
  <2> QED
    BY <2>1, FunctionIsSeq
<1>50. (\A i \in 1..n : s[i] \in Range(s)) /\ (\A y \in Range(s) : \E i \in 1..n : s[i] = y)
  BY <1>1, InRange
<1>51. (\A i \in 1..n : t[i] \in Range(t)) /\ (\A y \in Range(t) : \E i \in 1..n : t[i] = y)
  BY <1>4, InRange
<1>5. Range(t) = Range(s)
  <2>1. ASSUME NEW y \in Range(t) PROVE y \in Range(s)
    BY <1>3, <1>50, <1>51
  <2>2. ASSUME NEW y \in Range(s) PROVE y \in Range(t)
    <3>1. PICK i \in 1..n : s[i] = y
      BY <1>50
    <3>2. PICK l : l = (n - i) + 1
      OBVIOUS
    <3>3. l \in 1..n /\ (n - l) + 1 = i
      BY <3>2
    <3>4. t[l] = y
      BY <1>3, <3>1, <3>3
    <3> QED
      BY <1>51, <3>3, <3>4
  <2> QED
    BY <2>1, <2>2
<1>6. ASSUME Distinct(s) PROVE Distinct(t)
  <2>1. \A i, j \in 1..n : s[i] = s[j] => i = j
    BY <1>1, <1>6 DEF Distinct
  <2>2. ASSUME NEW i \in 1..n, NEW j \in 1..n, t[i] = t[j] PROVE i = j
    <3>1. (n - i) + 1 = (n - j) + 1
      BY <1>3, <2>1, <2>2
    <3> QED
      BY <3>1
  <2> QED
    BY <1>4, <2>2 DEF Distinct
<1> QED
  BY <1>4, <1>5, <1>6

\* The size of an interval.
LEMMA Counted ==
  ASSUME NEW a \in Int, NEW b \in Int, a <= b
  PROVE  Cardinality(a..b) = b - a + 1
BY FS_Interval
===============================================================================
