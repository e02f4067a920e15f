----------------------------- MODULE NatLemmas -----------------------------
(***************************************************************************)
(* Facts about natural numbers and sums that the other proofs use.          *)
(* Induction is written as a minimal counterexample: a set of numbers that  *)
(* is not empty has a least element, below which what is to be shown holds. *)
(***************************************************************************)
EXTENDS Integers, FiniteSetsExt, Functions, FiniteSetTheorems, WellFoundedInduction, TLAPS

LEMMA LeastElement ==
  ASSUME NEW T \in SUBSET Nat, T # {}
  PROVE  \E m \in T : \A n \in T : m <= n
<1> DEFINE R == OpToRel(<, Nat)
<1>1. \A x, y \in Nat : x < y => <<x, y>> \in R
  BY DEF OpToRel
<1>2. IsWellFoundedOn(R, Nat)
  BY NatLessThanWellFounded
<1> HIDE DEF R
<1>3. PICK m \in T : \A n \in T : ~ (<<n, m>> \in R)
  BY <1>2, WFMin
<1>4. ASSUME NEW n \in T
      PROVE  m <= n
  <2>1. m \in Nat /\ n \in Nat
    OBVIOUS
  <2>2. ~ (n < m)
    BY <1>1, <1>3, <2>1
  <2>3. QED
    BY <2>1, <2>2
<1>5. QED
  BY <1>4, Zenon

LEMMA MinProperties ==
  ASSUME NEW T \in SUBSET Nat, T # {}
  PROVE  Min(T) \in T /\ \A n \in T : Min(T) <= n
BY LeastElement DEF Min

-----------------------------------------------------------------------------
(* Sums over finite sets. *)

Some(s) == CHOOSE x \in s : TRUE

\* g is how a sum over f is computed, on every subset of S.
Sums(f, S, g) ==
    g = [s \in SUBSET S |-> IF s = {} THEN 0 ELSE f[Some(s)] + g[s \ {Some(s)}]]

IntegersOn(f, S) == \A x \in S : f[x] \in Int

\* What the definition of g says of a subset.
LEMMA SumsCompute ==
  ASSUME NEW S, NEW f, NEW g, Sums(f, S, g), NEW s \in SUBSET S
  PROVE  /\ g[{}] = 0
         /\ s # {} => Some(s) \in s /\ g[s] = f[Some(s)] + g[s \ {Some(s)}]
BY DEF Sums, Some

\* On a finite set there is such a g, by induction over the size of the subsets.
LEMMA SumsExist ==
  ASSUME NEW S, IsFiniteSet(S), NEW f, IntegersOn(f, S)
  PROVE  \E g : Sums(f, S, g)
<1> DEFINE Upto(n, g) ==
             \A s \in SUBSET S : Cardinality(s) <= n =>
                g[s] = IF s = {} THEN 0 ELSE f[Some(s)] + g[s \ {Some(s)}]
           Good(n) == \E g \in [SUBSET S -> Int] : Upto(n, g)
           Bad == {n \in Nat : ~ Good(n)}
<1>1. \A s \in SUBSET S : /\ IsFiniteSet(s) /\ Cardinality(s) \in Nat
                          /\ Cardinality(s) = 0 <=> s = {}
  BY FS_Subset, FS_CardinalityType, FS_EmptySet
<1>2. \A s \in SUBSET S : s # {} =>
         /\ Some(s) \in s /\ s \ {Some(s)} \in SUBSET S
         /\ Cardinality(s \ {Some(s)}) = Cardinality(s) - 1
  BY <1>1, FS_RemoveElement DEF Some
<1>3. Good(0)
  <2> DEFINE h == [s \in SUBSET S |-> 0]
  <2>1. h \in [SUBSET S -> Int] /\ Upto(0, h)
    BY <1>1
  <2> HIDE DEF h, Upto
  <2>2. QED
    BY <2>1
<1>4. ASSUME NEW n \in Nat, Good(n)
      PROVE  Good(n + 1)
  <2>1. PICK g \in [SUBSET S -> Int] : Upto(n, g)
    BY <1>4
  <2> DEFINE h == [s \in SUBSET S |-> IF Cardinality(s) = n + 1
                                       THEN f[Some(s)] + g[s \ {Some(s)}] ELSE g[s]]
  <2>2. h \in [SUBSET S -> Int]
    BY <1>1, <1>2 DEF IntegersOn
  <2>3. ASSUME NEW s \in SUBSET S, Cardinality(s) <= n + 1
        PROVE  h[s] = IF s = {} THEN 0 ELSE f[Some(s)] + h[s \ {Some(s)}]
    <3>1. CASE s = {}
      BY <1>1, <2>1, <3>1
    <3>2. CASE s # {}
      <4>1. h[s \ {Some(s)}] = g[s \ {Some(s)}]
        BY <1>1, <1>2, <2>3, <3>2
      <4>2. h[s] = f[Some(s)] + g[s \ {Some(s)}]
        BY <1>1, <2>1, <2>3, <3>2
      <4>3. QED
        BY <3>2, <4>1, <4>2
    <3>3. QED
      BY <3>1, <3>2
  <2>4. QED
    BY <2>2, <2>3
<1> HIDE DEF Good
<1>5. Bad = {}
  <2>1. SUFFICES ASSUME Bad # {} PROVE FALSE
    OBVIOUS
  <2>2. PICK m \in Bad : \A n \in Bad : m <= n
    BY <2>1, LeastElement
  <2>3. m # 0 /\ m \in Nat
    BY <1>3, <2>2
  <2>4. m - 1 \in Nat /\ ~ (m - 1 \in Bad)
    BY <2>2, <2>3
  <2>5. Good(m - 1)
    BY <2>4
  <2>6. Good((m - 1) + 1)
    BY <1>4, <2>4, <2>5
  <2>7. QED
    BY <2>2, <2>3, <2>6
<1>6. Good(Cardinality(S))
  BY <1>1, <1>5
<1>7. PICK g \in [SUBSET S -> Int] : Upto(Cardinality(S), g)
  BY <1>6 DEF Good
<1>8. \A s \in SUBSET S : Cardinality(s) <= Cardinality(S)
  BY FS_Subset
<1>9. \A s \in SUBSET S : g[s] = IF s = {} THEN 0 ELSE f[Some(s)] + g[s \ {Some(s)}]
  BY <1>7, <1>8
<1>10. QED
  BY <1>7, <1>9 DEF Sums

LEMMA SumIsSums ==
  ASSUME NEW S, IsFiniteSet(S), NEW f, IntegersOn(f, S)
  PROVE  \E g : Sums(f, S, g) /\ SumFunctionOnSet(f, S) = g[S]
<1> DEFINE h == CHOOSE g : Sums(f, S, g)
<1>1. Sums(f, S, h)
  BY SumsExist
<1>2. SumFunctionOnSet(f, S) = h[S]
  BY DEF SumFunctionOnSet, FoldFunctionOnSet, MapThenFoldSet, Sums, Some
<1>3. QED
  BY <1>1, <1>2

TakesAny(f, S, g) ==
    \A s \in SUBSET S : g[s] \in Int /\ \A x \in s : g[s] = f[x] + g[s \ {x}]

\* The element taken first need not be the one that CHOOSE gives.
LEMMA SumsTake ==
  ASSUME NEW S, IsFiniteSet(S), NEW f, IntegersOn(f, S), NEW g, Sums(f, S, g)
  PROVE  TakesAny(f, S, g)
<1> DEFINE Good(s) == g[s] \in Int /\ \A x \in s : g[s] = f[x] + g[s \ {x}]
           Bad == {n \in Nat : \E s \in SUBSET S : Cardinality(s) = n /\ ~ Good(s)}
<1>1. \A s \in SUBSET S : IsFiniteSet(s) /\ Cardinality(s) \in Nat
  BY FS_Subset, FS_CardinalityType
<1>2. \A s \in SUBSET S : \A x \in s :
         s \ {x} \in SUBSET S /\ Cardinality(s \ {x}) = Cardinality(s) - 1
  BY <1>1, FS_RemoveElement
<1>3. SUFFICES Bad = {}
  BY <1>1 DEF TakesAny
<1>4. SUFFICES ASSUME Bad # {} PROVE FALSE
  OBVIOUS
<1>5. PICK n \in Bad : \A k \in Bad : n <= k
  BY <1>4, LeastElement
<1>6. PICK s \in SUBSET S : Cardinality(s) = n /\ ~ Good(s)
  BY <1>5
<1>7. \A t \in SUBSET S : Cardinality(t) < n => Good(t)
  <2>1. ASSUME NEW t \in SUBSET S, Cardinality(t) < n, ~ Good(t)
        PROVE  FALSE
    <3>1. Cardinality(t) \in Bad
      BY <1>1, <2>1
    <3>2. QED
      BY <1>1, <1>5, <2>1, <3>1
  <2>2. QED
    BY <2>1
<1> HIDE DEF Good, Bad
<1>8. s # {}
  <2>1. g[{}] = 0
    BY SumsCompute
  <2>2. ASSUME s = {} PROVE Good(s)
    BY <2>1, <2>2 DEF Good
  <2>3. QED
    BY <1>6, <2>2
<1> DEFINE y == Some(s)
<1>9. y \in s /\ g[s] = f[y] + g[s \ {y}]
  <2>1. s \in SUBSET S
    BY <1>6
  <2>2. QED
    BY <1>8, <2>1, SumsCompute
<1> HIDE DEF y
<1>10. \A x \in s : Good(s \ {x})
  BY <1>1, <1>2, <1>6, <1>7
<1>11. \A x \in s : f[x] \in Int /\ g[s \ {x}] \in Int
  BY <1>10 DEF Good, IntegersOn
<1>12. ASSUME NEW x \in s, x # y
       PROVE  g[s] = f[x] + g[s \ {x}]
  <2>1. y \in s \ {x} /\ x \in s \ {y} /\ (s \ {x}) \ {y} = (s \ {y}) \ {x}
    BY <1>9, <1>12
  <2>2. g[s \ {x}] = f[y] + g[(s \ {x}) \ {y}] /\ g[s \ {y}] = f[x] + g[(s \ {y}) \ {x}]
    BY <1>9, <1>10, <2>1 DEF Good
  <2>3. PICK v : v = g[(s \ {x}) \ {y}]
    OBVIOUS
  <2>4. v \in Int
    <3>1. s \ {x} \in SUBSET S
      OBVIOUS
    <3>2. Cardinality((s \ {x}) \ {y}) < n
      <4>1. Cardinality(s \ {x}) = n - 1
        BY <1>2, <1>6
      <4>2. Cardinality((s \ {x}) \ {y}) = Cardinality(s \ {x}) - 1
        BY <1>2, <2>1, <3>1
      <4>3. QED
        BY <1>1, <1>6, <4>1, <4>2
    <3>3. Good((s \ {x}) \ {y})
      BY <1>7, <3>2
    <3>4. QED
      BY <2>3, <3>3 DEF Good
  <2>5. f[x] \in Int /\ f[y] \in Int
    BY <1>9, <1>11
  <2>6. g[s \ {x}] = f[y] + v /\ g[s \ {y}] = f[x] + v
    BY <2>1, <2>2, <2>3
  <2>7. QED
    BY <1>9, <2>4, <2>5, <2>6
<1>13. Good(s)
  <2>1. g[s] \in Int
    BY <1>9, <1>11
  <2>2. \A x \in s : g[s] = f[x] + g[s \ {x}]
    BY <1>9, <1>12
  <2>3. QED
    BY <2>1, <2>2 DEF Good
<1>14. QED
  BY <1>6, <1>13

\* Sums of functions that agree on a set agree there.
LEMMA SumsAgree ==
  ASSUME NEW S, IsFiniteSet(S), NEW f, NEW g, Sums(f, S, g),
         NEW T, NEW e, NEW h, Sums(e, T, h),
         NEW R \in SUBSET (S \intersect T), \A x \in R : e[x] = f[x]
  PROVE  h[R] = g[R]
<1> DEFINE Bad == {n \in Nat : \E s \in SUBSET R : Cardinality(s) = n /\ h[s] # g[s]}
<1>1. \A s \in SUBSET R : IsFiniteSet(s) /\ Cardinality(s) \in Nat
  BY FS_Subset, FS_CardinalityType
<1>2. SUFFICES ASSUME Bad # {} PROVE FALSE
  BY <1>1
<1>3. PICK n \in Bad : \A k \in Bad : n <= k
  BY <1>2, LeastElement
<1>4. PICK s \in SUBSET R : Cardinality(s) = n /\ h[s] # g[s]
  BY <1>3
<1>5. /\ g[{}] = 0 /\ h[{}] = 0
      /\ s # {} => /\ Some(s) \in s
                   /\ g[s] = f[Some(s)] + g[s \ {Some(s)}]
                   /\ h[s] = e[Some(s)] + h[s \ {Some(s)}]
  BY <1>4, SumsCompute
<1>6. s # {} /\ Some(s) \in R
  BY <1>4, <1>5
<1>7. Cardinality(s \ {Some(s)}) = n - 1
  BY <1>1, <1>4, <1>5, <1>6, FS_RemoveElement
<1>8. h[s \ {Some(s)}] = g[s \ {Some(s)}]
  <2>1. s \ {Some(s)} \in SUBSET R /\ Cardinality(s \ {Some(s)}) \in Nat
    BY <1>1
  <2>2. ~ (n - 1 \in Bad)
    BY <1>3
  <2>3. QED
    BY <1>7, <2>1, <2>2
<1>9. QED
  BY <1>4, <1>5, <1>6, <1>8

\* A sum over no elements is 0.
LEMMA SumOfNone ==
  ASSUME NEW f
  PROVE  SumFunctionOnSet(f, {}) = 0
<1>1. IsFiniteSet({}) /\ IntegersOn(f, {})
  BY FS_EmptySet DEF IntegersOn
<1>2. PICK g : Sums(f, {}, g) /\ SumFunctionOnSet(f, {}) = g[{}]
  BY <1>1, SumIsSums
<1>3. QED
  BY <1>2, SumsCompute

\* A sum of integers is one.
LEMMA SumIsInt ==
  ASSUME NEW S, IsFiniteSet(S), NEW f, IntegersOn(f, S)
  PROVE  SumFunctionOnSet(f, S) \in Int
<1>1. PICK g : Sums(f, S, g) /\ SumFunctionOnSet(f, S) = g[S]
  BY SumIsSums
<1>2. TakesAny(f, S, g)
  BY <1>1, SumsTake
<1>3. QED
  BY <1>1, <1>2 DEF TakesAny

\* An element more adds its value, whichever it is.
LEMMA SumOfOneMore ==
  ASSUME NEW S, IsFiniteSet(S), NEW x, x \notin S, NEW f, IntegersOn(f, S \union {x})
  PROVE  SumFunctionOnSet(f, S \union {x}) = SumFunctionOnSet(f, S) + f[x]
<1> DEFINE T == S \union {x}
<1>1. IsFiniteSet(T)
  BY FS_AddElement
<1>2. PICK g : Sums(f, T, g) /\ SumFunctionOnSet(f, T) = g[T]
  BY <1>1, SumIsSums
<1>3. IntegersOn(f, S)
  BY DEF IntegersOn
<1>4. PICK h : Sums(f, S, h) /\ SumFunctionOnSet(f, S) = h[S]
  BY <1>3, SumIsSums
<1>5. S \in SUBSET (S \intersect T) /\ T \ {x} = S /\ f[x] \in Int
  BY DEF IntegersOn
<1>6. g[S] = h[S]
  BY <1>1, <1>2, <1>4, <1>5, SumsAgree
<1>7. g[T] = f[x] + g[T \ {x}] /\ g[S] \in Int
  <2>1. T \in SUBSET T /\ S \in SUBSET T /\ x \in T
    OBVIOUS
  <2>2. TakesAny(f, T, g)
    BY <1>1, <1>2, SumsTake
  <2>3. QED
    BY <2>1, <2>2 DEF TakesAny
<1>8. f[x] + h[S] = h[S] + f[x]
  BY <1>5, <1>6, <1>7
<1>9. QED
  BY <1>2, <1>4, <1>5, <1>6, <1>7, <1>8

\* Only the values on the set matter.
LEMMA SumOfSame ==
  ASSUME NEW S, IsFiniteSet(S), NEW f, IntegersOn(f, S),
         NEW e, \A x \in S : e[x] = f[x]
  PROVE  SumFunctionOnSet(e, S) = SumFunctionOnSet(f, S)
<1>1. IntegersOn(e, S)
  BY DEF IntegersOn
<1>2. PICK g : Sums(f, S, g) /\ SumFunctionOnSet(f, S) = g[S]
  BY SumIsSums
<1>3. PICK h : Sums(e, S, h) /\ SumFunctionOnSet(e, S) = h[S]
  BY <1>1, SumIsSums
<1>4. h[S] = g[S]
  BY <1>2, <1>3, SumsAgree
<1>5. QED
  BY <1>2, <1>3, <1>4
=============================================================================
