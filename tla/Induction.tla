------------------------------ MODULE Induction --------------------------------
(* Induction, and sums over finite sets, in a form the provers can use.      *)
(* The library's induction theorems take the statement to be proved as an    *)
(* operator; here it is a set: the numbers, or the subsets, for which the    *)
(* statement holds.  From them follows what the community modules'           *)
(* SumFunctionOnSet, a recursive function over sets, computes.               *)
EXTENDS Functions, FiniteSetTheorems, TLAPS

\* A set of natural numbers has a least element.
LEMMA LeastNat ==
  ASSUME NEW T \in SUBSET Nat, T # {}
  PROVE  \E n \in T : \A m \in T : n <= m
<1> DEFINE R == OpToRel(<, Nat)
<1>1. IsWellFoundedOn(R, Nat)
  BY NatLessThanWellFounded
<1> HIDE DEF R
<1>2. PICK n \in T : \A m \in T : ~ (<<m, n>> \in R)
  BY <1>1, WFMin
<1>3. \A m \in T : ~ (m < n)
  BY <1>2 DEF R, OpToRel
<1> QED
  BY <1>3

\* Induction over the natural numbers, for the set Good of those where it holds.
LEMMA InductionOverNat ==
  ASSUME NEW Good, 0 \in Good, \A n \in Nat : n \in Good => n + 1 \in Good
  PROVE  Nat \subseteq Good
<1> SUFFICES ASSUME Nat \ Good # {} PROVE FALSE
  OBVIOUS
<1>1. PICK n \in Nat \ Good : \A m \in Nat \ Good : n <= m
  BY LeastNat
<1> QED
  BY <1>1

\* A start and a step determine a function on the natural numbers.
IsSegment(h, n, V, v, F) ==
  /\ h \in [0..n -> V] /\ h[0] = v
  /\ \A m \in 0..(n - 1) : h[m + 1] = F[m][h[m]]

Solves(g, V, v, F) ==
  g \in [Nat -> V] /\ g[0] = v /\ \A n \in Nat : g[n + 1] = F[n][g[n]]

LEMMA SegmentsAgree ==
  ASSUME NEW V, NEW v \in V, NEW F, NEW n \in Nat, NEW k \in Nat,
         NEW h, NEW l, IsSegment(h, n, V, v, F), IsSegment(l, k, V, v, F), n <= k
  PROVE  h[n] = l[n]
<1> DEFINE Good == {m \in Nat : m <= n => h[m] = l[m]}
<1>1. 0 \in Good
  BY DEF IsSegment
<1>2. ASSUME NEW m \in Nat, m \in Good PROVE m + 1 \in Good
  <2> SUFFICES ASSUME m + 1 <= n PROVE h[m + 1] = l[m + 1]
    OBVIOUS
  <2>1. m \in 0..(n - 1) /\ m \in 0..(k - 1) /\ h[m] = l[m]
    BY <1>2
  <2> QED
    BY <2>1 DEF IsSegment
<1>3. Nat \subseteq Good
  <2> HIDE DEF Good
  <2> QED
    BY <1>1, <1>2, InductionOverNat
<1> QED
  BY <1>3

LEMMA RecursionOverNat ==
  ASSUME NEW V, NEW v \in V, NEW F \in [Nat -> [V -> V]]
  PROVE  \E g : Solves(g, V, v, F)
<1> DEFINE Good == {n \in Nat : \E h : IsSegment(h, n, V, v, F)}
<1>1. 0 \in Good
  <2> DEFINE h == [m \in 0..0 |-> v]
  <2>1. IsSegment(h, 0, V, v, F)
    BY DEF IsSegment
  <2> QED
    BY <2>1
<1>2. ASSUME NEW n \in Nat, n \in Good PROVE n + 1 \in Good
  <2>1. PICK h : IsSegment(h, n, V, v, F)
    BY <1>2
  <2>2. h \in [0..n -> V] /\ h[n] \in V /\ h[0] = v
    BY <2>1 DEF IsSegment
  <2>3. F[n][h[n]] \in V
    BY <2>2
  <2> DEFINE l == [m \in 0..(n + 1) |-> IF m \in 0..n THEN h[m] ELSE F[n][h[n]]]
  <2>4. l \in [0..(n + 1) -> V]
    BY <2>2, <2>3
  <2>5. \A m \in 0..n : l[m] = h[m]
    OBVIOUS
  <2>6. l[n + 1] = F[n][h[n]]
    OBVIOUS
  <2> HIDE DEF l
  <2>7. l[0] = v
    BY <2>2, <2>5
  <2>8. ASSUME NEW m \in 0..n PROVE l[m + 1] = F[m][l[m]]
    <3>1. CASE m = n
      BY <2>5, <2>6, <3>1
    <3>2. CASE m # n
      <4>1. m \in 0..(n - 1) /\ m + 1 \in 0..n
        BY <3>2
      <4> QED
        BY <2>1, <2>5, <4>1 DEF IsSegment
    <3> QED
      BY <3>1, <3>2
  <2>9. IsSegment(l, n + 1, V, v, F)
    <3>1. (n + 1) - 1 = n
      OBVIOUS
    <3> QED
      BY <2>4, <2>7, <2>8, <3>1 DEF IsSegment
  <2> QED
    BY <2>9
<1>3. Nat \subseteq Good
  <2> HIDE DEF Good
  <2> QED
    BY <1>1, <1>2, InductionOverNat
<1> DEFINE Seg == [n \in Nat |-> CHOOSE h : IsSegment(h, n, V, v, F)]
           g == [n \in Nat |-> Seg[n][n]]
<1>4. \A n \in Nat : IsSegment(Seg[n], n, V, v, F)
  BY <1>3
<1> HIDE DEF Seg
<1>5. \A n \in Nat : Seg[n][n] \in V
  BY <1>4 DEF IsSegment
<1>6. g \in [Nat -> V]
  BY <1>5
<1>7. g[0] = v
  BY <1>4 DEF IsSegment
<1>8. ASSUME NEW n \in Nat PROVE g[n + 1] = F[n][g[n]]
  <2>1. Seg[n + 1][n + 1] = F[n][Seg[n + 1][n]]
    <3>1. n \in 0..((n + 1) - 1)
      OBVIOUS
    <3> QED
      BY <1>4, <3>1 DEF IsSegment
  <2>2. Seg[n][n] = Seg[n + 1][n]
    BY <1>4, SegmentsAgree
  <2> QED
    BY <2>1, <2>2
<1> QED
  BY <1>6, <1>7, <1>8 DEF Solves

\* Induction over the subsets of a finite set, one element at a time.
LEMMA InductionOverSubsets ==
  ASSUME NEW S, IsFiniteSet(S), NEW Good,
         {} \in Good,
         \A T \in SUBSET S : \A x \in S \ T : T \in Good => T \cup {x} \in Good
  PROVE  S \in Good
<1> SUFFICES ASSUME S \notin Good PROVE FALSE
  OBVIOUS
<1> DEFINE Bad == (SUBSET S) \ Good
<1>1. IsWellFoundedOn(StrictSubsetOrdering(S), SUBSET S)
  BY FS_StrictSubsetOrderingWellFounded, FS_FiniteSubsetsOfFinite
<1>2. PICK T \in Bad : \A U \in Bad : ~ (<<U, T>> \in StrictSubsetOrdering(S))
  BY <1>1, WFMin
<1>3. PICK x \in T : TRUE
  BY <1>2
<1>4. <<T \ {x}, T>> \in StrictSubsetOrdering(S)
  BY <1>2, <1>3, T \ {x} # T DEF StrictSubsetOrdering
<1>5. T \ {x} \in Good
  BY <1>2, <1>4
<1>6. (T \ {x}) \cup {x} = T /\ T \ {x} \in SUBSET S /\ x \in S \ (T \ {x})
  BY <1>2, <1>3
<1> QED
  BY <1>2, <1>5, <1>6

\* The values a function takes on a finite set are finitely many.
LEMMA FiniteImage ==
  ASSUME NEW S, IsFiniteSet(S), NEW f
  PROVE  IsFiniteSet({f[x] : x \in S})
<1> DEFINE Good == {T \in SUBSET S : IsFiniteSet({f[x] : x \in T})}
<1>1. {} \in Good
  <2>1. {f[x] : x \in {}} = {}
    OBVIOUS
  <2> QED
    BY <2>1, FS_EmptySet
<1>2. ASSUME NEW T \in SUBSET S, NEW y \in S \ T, T \in Good PROVE T \cup {y} \in Good
  <2>1. {f[x] : x \in T \cup {y}} = {f[x] : x \in T} \cup {f[y]}
    OBVIOUS
  <2>2. IsFiniteSet({f[x] : x \in T} \cup {f[y]})
    BY <1>2, FS_AddElement
  <2> QED
    BY <2>1, <2>2
<1> HIDE DEF Good
<1>3. S \in Good
  BY <1>1, <1>2, InductionOverSubsets
<1> QED
  BY <1>3 DEF Good

-----------------------------------------------------------------------------
\* The recursion SumFunctionOnSet stands for.
Picked(s) == CHOOSE x \in s : TRUE
SumStep(f, g, s) == IF s = {} THEN 0 ELSE f[Picked(s)] + g[s \ {Picked(s)}]
IsSum(g, f, S) == g = [s \in SUBSET S |-> SumStep(f, g, s)]
UpTo(S, n) == {s \in SUBSET S : Cardinality(s) <= n}

\* Each level of the recursion extends the one below.
LEMMA SumIsDefined ==
  ASSUME NEW f, NEW S, IsFiniteSet(S)
  PROVE  \E g : IsSum(g, f, S)
<1> DEFINE Defines(g, n) == g = [s \in UpTo(S, n) |-> SumStep(f, g, s)]
           Good == {n \in Nat : \E g : Defines(g, n)}
<1>0. \A s \in SUBSET S : IsFiniteSet(s) /\ Cardinality(s) \in Nat
  BY FS_Subset, FS_CardinalityType
<1>1. 0 \in Good
  <2> DEFINE g == [s \in UpTo(S, 0) |-> 0]
  <2>1. \A s \in UpTo(S, 0) : s = {}
    BY <1>0, FS_EmptySet DEF UpTo
  <2>2. Defines(g, 0)
    BY <2>1 DEF SumStep
  <2> QED
    BY <2>2
<1>2. ASSUME NEW n \in Nat, n \in Good PROVE n + 1 \in Good
  <2>1. PICK g : Defines(g, n)
    BY <1>2
  <2> DEFINE h == [s \in UpTo(S, n + 1) |-> IF s \in UpTo(S, n) THEN g[s] ELSE SumStep(f, g, s)]
  <2>2. ASSUME NEW s \in UpTo(S, n + 1), s # {}
        PROVE  s \ {Picked(s)} \in UpTo(S, n)
    <3>1. Picked(s) \in s
      BY <2>2 DEF Picked
    <3>2. Cardinality(s \ {Picked(s)}) = Cardinality(s) - 1
      BY <1>0, <3>1, FS_RemoveElement DEF UpTo
    <3> QED
      BY <1>0, <3>2 DEF UpTo
  <2>3. UpTo(S, n) \subseteq UpTo(S, n + 1)
    BY <1>0 DEF UpTo
  <2>4. \A s \in UpTo(S, n) : h[s] = g[s]
    BY <2>3
  <2>5. ASSUME NEW s \in UpTo(S, n + 1) PROVE h[s] = SumStep(f, h, s)
    <3>1. h[s] = SumStep(f, g, s)
      BY <2>1
    <3> HIDE DEF h
    <3>2. SumStep(f, g, s) = SumStep(f, h, s)
      BY <2>2, <2>4 DEF SumStep
    <3> QED
      BY <3>1, <3>2
  <2>6. Defines(h, n + 1)
    BY <2>5
  <2> HIDE DEF h
  <2> QED
    BY <2>6
<1>3. Cardinality(S) \in Good
  <2> HIDE DEF Good
  <2> QED
    BY <1>0, <1>1, <1>2, InductionOverNat
<1>4. UpTo(S, Cardinality(S)) = SUBSET S
  BY <1>0, FS_Subset DEF UpTo
<1> QED
  BY <1>3, <1>4 DEF IsSum

\* A subset less one of its elements.
LEMMA OneLess ==
  ASSUME NEW S, IsFiniteSet(S), NEW s \in SUBSET S
  PROVE  /\ IsFiniteSet(s) /\ Cardinality(s) \in Nat
         /\ Cardinality(s) = 0 => s = {}
         /\ \A y \in s : s \ {y} \in SUBSET S /\ Cardinality(s \ {y}) = Cardinality(s) - 1
<1>1. IsFiniteSet(s) /\ Cardinality(s) \in Nat /\ (Cardinality(s) = 0 => s = {})
  BY FS_Subset, FS_CardinalityType, FS_EmptySet
<1>2. ASSUME NEW y \in s
      PROVE  s \ {y} \in SUBSET S /\ Cardinality(s \ {y}) = Cardinality(s) - 1
  <2>1. s \ {y} \in SUBSET S
    OBVIOUS
  <2>2. Cardinality(s \ {y}) = Cardinality(s) - 1
    BY <1>1, FS_RemoveElement
  <2> QED
    BY <2>1, <2>2
<1> QED
  BY <1>1, <1>2

\* The sum of part of a set is the same by whichever recursion it is reached.
LEMMA SumsAgree ==
  ASSUME NEW f, NEW S, IsFiniteSet(S), NEW T \in SUBSET S, NEW g, NEW h,
         IsSum(g, f, S), IsSum(h, f, T)
  PROVE  \A s \in SUBSET T : g[s] = h[s]
<1> DEFINE Good == {n \in Nat : \A s \in SUBSET T : Cardinality(s) = n => g[s] = h[s]}
<1>0. IsFiniteSet(T)
  BY FS_Subset
<1>1. \A s \in SUBSET T : g[s] = SumStep(f, g, s) /\ h[s] = SumStep(f, h, s)
  BY DEF IsSum
<1>2. 0 \in Good
  <2> SUFFICES ASSUME NEW s \in SUBSET T, Cardinality(s) = 0 PROVE g[s] = h[s]
    OBVIOUS
  <2>1. s = {}
    BY <1>0, OneLess
  <2> QED
    BY <1>1, <2>1 DEF SumStep
<1>3. ASSUME NEW n \in Nat, n \in Good PROVE n + 1 \in Good
  <2> SUFFICES ASSUME NEW s \in SUBSET T, Cardinality(s) = n + 1 PROVE g[s] = h[s]
    OBVIOUS
  <2>1. s # {}
    BY FS_EmptySet
  <2>2. Picked(s) \in s
    BY <2>1 DEF Picked
  <2>3. s \ {Picked(s)} \in SUBSET T /\ Cardinality(s \ {Picked(s)}) = n
    BY <1>0, <2>2, OneLess
  <2>4. g[s \ {Picked(s)}] = h[s \ {Picked(s)}]
    BY <1>3, <2>3
  <2> QED
    BY <1>1, <2>1, <2>4 DEF SumStep
<1>4. Nat \subseteq Good
  <2> HIDE DEF Good
  <2> QED
    BY <1>2, <1>3, InductionOverNat
<1>5. \A s \in SUBSET T : Cardinality(s) \in Nat
  BY <1>0, OneLess
<1> QED
  BY <1>4, <1>5

\* Whichever element the recursion takes first, any can be split off.
LEMMA SumSplits ==
  ASSUME NEW f, NEW S, IsFiniteSet(S), \A x \in S : f[x] \in Int, NEW g, IsSum(g, f, S)
  PROVE  \A s \in SUBSET S : g[s] \in Int /\ \A y \in s : g[s] = f[y] + g[s \ {y}]
<1> DEFINE Splits(s) == g[s] \in Int /\ \A y \in s : g[s] = f[y] + g[s \ {y}]
           Good == {n \in Nat : \A s \in SUBSET S : Cardinality(s) <= n => Splits(s)}
<1>1. \A s \in SUBSET S : g[s] = SumStep(f, g, s)
  BY DEF IsSum
<1>0. Splits({})
  <2>1. g[{}] = 0
    BY <1>1 DEF SumStep
  <2> QED
    BY <2>1
<1>2. 0 \in Good
  <2> SUFFICES ASSUME NEW s \in SUBSET S, Cardinality(s) <= 0 PROVE Splits(s)
    OBVIOUS
  <2>1. s = {}
    BY OneLess
  <2> QED
    BY <1>0, <2>1
<1>3. ASSUME NEW n \in Nat, n \in Good PROVE n + 1 \in Good
  <2> SUFFICES ASSUME NEW s \in SUBSET S, Cardinality(s) <= n + 1 PROVE Splits(s)
    OBVIOUS
  <2>1. CASE s = {}
    BY <1>0, <2>1
  <2>2. CASE s # {}
    <3> DEFINE c == Picked(s)
    <3>1. c \in s
      BY <2>2 DEF Picked
    <3>2. g[s] = f[c] + g[s \ {c}]
      BY <1>1, <2>2 DEF SumStep
    <3> HIDE DEF c
    <3>3. ASSUME NEW y \in s PROVE s \ {y} \in SUBSET S /\ Splits(s \ {y})
      <4>1. s \ {y} \in SUBSET S /\ Cardinality(s \ {y}) = Cardinality(s) - 1 /\ Cardinality(s) \in Nat
        BY OneLess
      <4>2. Cardinality(s \ {y}) <= n
        BY <4>1
      <4> QED
        BY <1>3, <4>1, <4>2
    <3>4. f[c] \in Int /\ g[s \ {c}] \in Int
      BY <3>1, <3>3
    <3>5. g[s] \in Int
      BY <3>2, <3>4
    <3>6. ASSUME NEW y \in s, y # c PROVE g[s] = f[y] + g[s \ {y}]
      <4>1. c \in s \ {y} /\ y \in s \ {c}
        BY <3>1, <3>6
      <4> DEFINE d == (s \ {c}) \ {y}
      <4>2. d = (s \ {y}) \ {c}
        OBVIOUS
      <4>3. g[s \ {c}] = f[y] + g[d]
        BY <3>1, <3>3, <4>1
      <4>4. g[s \ {y}] = f[c] + g[d]
        BY <3>3, <4>1, <4>2
      <4>5. s \ {c} \in SUBSET S /\ Cardinality(s \ {c}) = Cardinality(s) - 1 /\ Cardinality(s) \in Nat
        BY <3>1, OneLess
      <4>6. d \in SUBSET S /\ Cardinality(d) = Cardinality(s \ {c}) - 1
        <5> DEFINE r == s \ {c}
        <5>1. r \in SUBSET S /\ y \in r
          BY <4>1, <4>5
        <5> HIDE DEF r
        <5>2. r \ {y} \in SUBSET S /\ Cardinality(r \ {y}) = Cardinality(r) - 1
          BY <5>1, OneLess
        <5> QED
          BY <5>2 DEF r
      <4>7. Cardinality(d) <= n
        BY <4>5, <4>6
      <4>8. g[d] \in Int
        BY <1>3, <4>6, <4>7
      <4>9. f[y] \in Int
        OBVIOUS
      <4> HIDE DEF Splits, Good, d
      <4> QED
        BY <3>2, <3>4, <4>3, <4>4, <4>8, <4>9
    <3> QED
      BY <3>2, <3>5, <3>6
  <2> QED
    BY <2>1, <2>2
<1>4. Nat \subseteq Good
  <2> HIDE DEF Good
  <2> QED
    BY <1>2, <1>3, InductionOverNat
<1>5. \A s \in SUBSET S : Cardinality(s) \in Nat
  BY OneLess
<1>6. \A s \in SUBSET S : Cardinality(s) <= Cardinality(s)
  BY <1>5
<1> QED
  BY <1>4, <1>5, <1>6
\* SumFunctionOnSet is the recursion.
LEMMA SumUnfolds ==
  ASSUME NEW f, NEW S, IsFiniteSet(S)
  PROVE  \E g : IsSum(g, f, S) /\ SumFunctionOnSet(f, S) = g[S]
<1>1. SumFunctionOnSet(f, S) = (CHOOSE g : IsSum(g, f, S))[S]
  BY DEF SumFunctionOnSet, FoldFunctionOnSet, MapThenFoldSet, IsSum, SumStep, Picked
<1>2. IsSum(CHOOSE g : IsSum(g, f, S), f, S)
  BY SumIsDefined
<1> QED
  BY <1>1, <1>2

\* A sum over nothing, and a sum's type.
LEMMA SumEmpty ==
  ASSUME NEW f PROVE SumFunctionOnSet(f, {}) = 0
<1>1. PICK g : IsSum(g, f, {}) /\ SumFunctionOnSet(f, {}) = g[{}]
  BY SumUnfolds, FS_EmptySet
<1> QED
  BY <1>1 DEF IsSum, SumStep

LEMMA SumType ==
  ASSUME NEW f, NEW S, IsFiniteSet(S), \A x \in S : f[x] \in Int
  PROVE  SumFunctionOnSet(f, S) \in Int
<1>1. PICK g : IsSum(g, f, S) /\ SumFunctionOnSet(f, S) = g[S]
  BY SumUnfolds
<1> QED
  BY <1>1, SumSplits

\* Any element of the set can be taken out of the sum.
LEMMA SumLess ==
  ASSUME NEW f, NEW S, IsFiniteSet(S), \A x \in S : f[x] \in Int, NEW y \in S
  PROVE  SumFunctionOnSet(f, S) = f[y] + SumFunctionOnSet(f, S \ {y})
<1>1. PICK g : IsSum(g, f, S) /\ SumFunctionOnSet(f, S) = g[S]
  BY SumUnfolds
<1>2. PICK h : IsSum(h, f, S \ {y}) /\ SumFunctionOnSet(f, S \ {y}) = h[S \ {y}]
  BY SumUnfolds, FS_RemoveElement
<1>3. g[S \ {y}] = h[S \ {y}]
  BY <1>1, <1>2, SumsAgree
<1>4. g[S] = f[y] + g[S \ {y}]
  BY <1>1, SumSplits
<1> QED
  BY <1>1, <1>2, <1>3, <1>4

\* A sum over one element more.
LEMMA SumInsert ==
  ASSUME NEW f, NEW S, IsFiniteSet(S), NEW x, x \notin S,
         \A y \in S \cup {x} : f[y] \in Int
  PROVE  SumFunctionOnSet(f, S \cup {x}) = f[x] + SumFunctionOnSet(f, S)
<1>1. IsFiniteSet(S \cup {x}) /\ (S \cup {x}) \ {x} = S
  BY FS_AddElement
<1> QED
  BY <1>1, SumLess

\* Two sums over a set are in the order of their terms.
LEMMA SumMonotone ==
  ASSUME NEW f, NEW h, NEW S, IsFiniteSet(S),
         \A x \in S : f[x] \in Int /\ h[x] \in Int /\ f[x] <= h[x]
  PROVE  SumFunctionOnSet(f, S) <= SumFunctionOnSet(h, S)
<1> DEFINE Good == {T \in SUBSET S : SumFunctionOnSet(f, T) <= SumFunctionOnSet(h, T)}
<1>1. {} \in Good
  BY SumEmpty
<1>2. ASSUME NEW T \in SUBSET S, NEW x \in S \ T, T \in Good
      PROVE  T \cup {x} \in Good
  <2>1. IsFiniteSet(T)
    BY FS_Subset
  <2>2. /\ SumFunctionOnSet(f, T \cup {x}) = f[x] + SumFunctionOnSet(f, T)
        /\ SumFunctionOnSet(h, T \cup {x}) = h[x] + SumFunctionOnSet(h, T)
    BY <2>1, SumInsert
  <2>3. SumFunctionOnSet(f, T) \in Int /\ SumFunctionOnSet(h, T) \in Int
    BY <2>1, SumType
  <2>4. SumFunctionOnSet(f, T) <= SumFunctionOnSet(h, T)
    BY <1>2
  <2>5. f[x] \in Int /\ h[x] \in Int /\ f[x] <= h[x]
    OBVIOUS
  <2>6. SumFunctionOnSet(f, T \cup {x}) <= SumFunctionOnSet(h, T \cup {x})
    BY <2>2, <2>3, <2>4, <2>5
  <2> QED
    BY <2>6
<1> HIDE DEF Good
<1>3. S \in Good
  BY <1>1, <1>2, InductionOverSubsets
<1> QED
  BY <1>3 DEF Good

\* Equal terms, equal sums.
LEMMA SumCongruence ==
  ASSUME NEW f, NEW h, NEW S, IsFiniteSet(S), \A x \in S : f[x] \in Int /\ f[x] = h[x]
  PROVE  SumFunctionOnSet(f, S) = SumFunctionOnSet(h, S)
<1>1. SumFunctionOnSet(f, S) <= SumFunctionOnSet(h, S) /\ SumFunctionOnSet(h, S) <= SumFunctionOnSet(f, S)
  BY SumMonotone
<1> QED
  BY <1>1, SumType

\* A sum of equal terms.
LEMMA SumOfEqual ==
  ASSUME NEW f, NEW S, IsFiniteSet(S), NEW x \in Int, \A y \in S : f[y] = x
  PROVE  SumFunctionOnSet(f, S) = Cardinality(S) * x
<1> DEFINE Good == {T \in SUBSET S : SumFunctionOnSet(f, T) = Cardinality(T) * x}
<1>1. {} \in Good
  BY SumEmpty, FS_EmptySet
<1>2. ASSUME NEW T \in SUBSET S, NEW y \in S \ T, T \in Good
      PROVE  T \cup {y} \in Good
  <2>1. IsFiniteSet(T)
    BY FS_Subset
  <2>2. Cardinality(T) \in Nat /\ Cardinality(T \cup {y}) = Cardinality(T) + 1
    BY <2>1, FS_CardinalityType, FS_AddElement
  <2>3. SumFunctionOnSet(f, T \cup {y}) = f[y] + SumFunctionOnSet(f, T)
    <3>1. \A z \in T \cup {y} : f[z] \in Int
      OBVIOUS
    <3> QED
      BY <2>1, <3>1, SumInsert
  <2>4. SumFunctionOnSet(f, T) = Cardinality(T) * x /\ f[y] = x
    BY <1>2
  <2>5. \A c \in Nat : x + c * x = (c + 1) * x
    OBVIOUS
  <2>6. SumFunctionOnSet(f, T \cup {y}) = Cardinality(T \cup {y}) * x
    BY <2>2, <2>3, <2>4, <2>5
  <2> QED
    BY <2>6
<1> HIDE DEF Good
<1>3. S \in Good
  BY <1>1, <1>2, InductionOverSubsets
<1> QED
  BY <1>3 DEF Good

\* One more term in the inequality of Cauchy.
LEMMA OneMoreSquare ==
  ASSUME NEW k \in Nat, NEW a \in Int, NEW b \in Int, NEW e \in Int, b >= 0, a * a <= k * b
  PROVE  (e + a) * (e + a) <= (k + 1) * (e * e + b)
<1>1. 2 * (a * e) <= k * (e * e) + b
  <2>1. CASE k = 0
    <3>1. a * a <= 0
      BY <2>1
    <3>2. a = 0
      BY <3>1
    <3> QED
      BY <2>1, <3>2
  <2>2. CASE k > 0
    <3> DEFINE l == k * (e * e) + b - 2 * (a * e)
    <3>1. k * l = k * k * (e * e) + k * b - 2 * (k * (a * e))
      OBVIOUS
    <3>2. (k * e - a) * (k * e - a) = k * k * (e * e) - 2 * (k * (a * e)) + a * a
      OBVIOUS
    <3>3. \A z \in Int : z * z >= 0
      OBVIOUS
    <3>4. k * e - a \in Int
      OBVIOUS
    <3>5. (k * e - a) * (k * e - a) >= 0
      BY <3>3, <3>4
    <3>6. /\ k * k * (e * e) \in Int /\ k * (a * e) \in Int /\ k * b \in Int /\ a * a \in Int
          /\ l \in Int /\ k * (e * e) \in Int /\ a * e \in Int
      OBVIOUS
    <3>7. k * l >= 0
      BY <3>1, <3>2, <3>5, <3>6
    <3> HIDE DEF l
    <3>8. l >= 0
      BY <2>2, <3>6, <3>7
    <3> QED
      BY <3>6, <3>8 DEF l
  <2> QED
    BY <2>1, <2>2
<1>2. (e + a) * (e + a) = e * e + 2 * (a * e) + a * a
  OBVIOUS
<1>3. (k + 1) * (e * e + b) = k * (e * e) + k * b + e * e + b
  OBVIOUS
<1>4. /\ e * e \in Int /\ a * e \in Int /\ a * a \in Int /\ k * (e * e) \in Int /\ k * b \in Int
  OBVIOUS
<1> QED
  BY <1>1, <1>2, <1>3, <1>4

\* The inequality of Cauchy: the square of a sum, and the sum of the squares.
LEMMA SquareOfSum ==
  ASSUME NEW f, NEW h, NEW S, IsFiniteSet(S), \A y \in S : f[y] \in Int /\ h[y] = f[y] * f[y]
  PROVE  /\ SumFunctionOnSet(h, S) >= 0
         /\ SumFunctionOnSet(f, S) * SumFunctionOnSet(f, S) <= Cardinality(S) * SumFunctionOnSet(h, S)
<1> DEFINE Good == {T \in SUBSET S : /\ SumFunctionOnSet(h, T) >= 0
                                     /\ SumFunctionOnSet(f, T) * SumFunctionOnSet(f, T)
                                          <= Cardinality(T) * SumFunctionOnSet(h, T)}
<1>1. {} \in Good
  BY SumEmpty, FS_EmptySet
<1>2. ASSUME NEW T \in SUBSET S, NEW y \in S \ T, T \in Good
      PROVE  T \cup {y} \in Good
  <2>1. IsFiniteSet(T)
    BY FS_Subset
  <2>2. Cardinality(T) \in Nat /\ Cardinality(T \cup {y}) = Cardinality(T) + 1
    BY <2>1, FS_CardinalityType, FS_AddElement
  <2>3. /\ \A z \in T \cup {y} : f[z] \in Int
        /\ \A z \in T \cup {y} : h[z] \in Int
        /\ \A z \in T : f[z] \in Int
        /\ \A z \in T : h[z] \in Int
    OBVIOUS
  <2>4. /\ SumFunctionOnSet(f, T \cup {y}) = f[y] + SumFunctionOnSet(f, T)
        /\ SumFunctionOnSet(h, T \cup {y}) = h[y] + SumFunctionOnSet(h, T)
    BY <2>1, <2>3, SumInsert
  <2>5. SumFunctionOnSet(f, T) \in Int /\ SumFunctionOnSet(h, T) \in Int
    BY <2>1, <2>3, SumType
  <2> DEFINE a == SumFunctionOnSet(f, T)
             b == SumFunctionOnSet(h, T)
             e == f[y]
             k == Cardinality(T)
  <2>6. a * a <= k * b /\ b >= 0
    BY <1>2
  <2>7. e \in Int /\ h[y] = e * e
    OBVIOUS
  <2>8. a \in Int /\ b \in Int /\ k \in Nat
    BY <2>2, <2>5
  <2>9. /\ SumFunctionOnSet(f, T \cup {y}) = e + a /\ SumFunctionOnSet(h, T \cup {y}) = e * e + b
        /\ Cardinality(T \cup {y}) = k + 1
    BY <2>2, <2>4, <2>7
  <2> HIDE DEF a, b, e, k
  <2>10. (e + a) * (e + a) <= (k + 1) * (e * e + b)
    BY <2>6, <2>7, <2>8, OneMoreSquare
  <2>11. e * e + b >= 0
    BY <2>6, <2>7, <2>8
  <2> QED
    BY <2>9, <2>10, <2>11
<1> HIDE DEF Good
<1>3. S \in Good
  BY <1>1, <1>2, InductionOverSubsets
<1> QED
  BY <1>3 DEF Good

\* The elements of a finite set in a strict total order have ranks, one each: pred
\* tells which come before.
LEMMA Ranks ==
  ASSUME NEW P, IsFiniteSet(P), NEW pred \in [P -> SUBSET P],
         \A n \in P : n \notin pred[n],
         \A m, n \in P : m \in pred[n] => pred[m] \subseteq pred[n],
         \A m, n \in P : m = n \/ m \in pred[n] \/ n \in pred[m]
  PROVE  /\ \A n \in P : Cardinality(pred[n]) \in 0..(Cardinality(P) - 1)
         /\ \A i \in 0..(Cardinality(P) - 1) : \E n \in P : Cardinality(pred[n]) = i
<1> DEFINE rank == [n \in P |-> Cardinality(pred[n])]
           size == Cardinality(P)
           places == 0..(size - 1)
           T == {rank[n] : n \in P}
<1>1. \A n \in P : IsFiniteSet(pred[n]) /\ Cardinality(pred[n]) \in Nat
  BY FS_Subset, FS_CardinalityType
<1>2. size \in Nat
  BY FS_CardinalityType
<1>3. \A n \in P : rank[n] = Cardinality(pred[n])
  OBVIOUS
<1>4. ASSUME NEW m \in P, NEW n \in P, m \in pred[n]
      PROVE  rank[m] < rank[n]
  <2>1. IsFiniteSet(pred[n]) /\ pred[m] \subseteq pred[n] /\ pred[m] # pred[n]
    BY <1>1, <1>4
  <2>2. Cardinality(pred[m]) <= Cardinality(pred[n]) /\ Cardinality(pred[m]) # Cardinality(pred[n])
    BY <2>1, FS_Subset
  <2> QED
    BY <1>1, <1>3, <2>2
<1>5. \A n \in P : rank[n] \in places
  <2> SUFFICES ASSUME NEW n \in P PROVE rank[n] \in places
    OBVIOUS
  <2>1. pred[n] \subseteq P /\ pred[n] # P
    OBVIOUS
  <2>2. Cardinality(pred[n]) <= size /\ Cardinality(pred[n]) # size
    BY <2>1, FS_Subset
  <2> QED
    BY <1>1, <1>2, <1>3, <2>2
<1> HIDE DEF rank, size, T, places
<1>6. rank \in [P -> T] /\ \A t \in T : \E n \in P : rank[n] = t
  BY DEF T, rank
<1>7. \A m, n \in P : rank[m] = rank[n] => m = n
  <2>1. \A n \in P : rank[n] \in Int
    BY <1>1, <1>3
  <2> QED
    BY <1>4, <2>1
<1>8. IsFiniteSet(T) /\ Cardinality(T) = size
  <2>1. rank \in Bijection(P, T)
    BY <1>6, <1>7 DEF Bijection, Injection, Surjection, IsInjective
  <2> QED
    BY <2>1, FS_Bijection DEF ExistsBijection, size
<1>9. T \subseteq places
  BY <1>5 DEF T
<1>10. IsFiniteSet(places) /\ Cardinality(places) = size
  <2>1. 0 \in Int /\ size - 1 \in Int
    BY <1>2
  <2>2. /\ IsFiniteSet(0..(size - 1))
        /\ Cardinality(0..(size - 1)) = IF 0 > size - 1 THEN 0 ELSE (size - 1) - 0 + 1
    BY <2>1, FS_Interval
  <2> QED
    BY <1>2, <2>2 DEF places
<1>11. T = places
  BY <1>8, <1>9, <1>10, FS_Subset
<1>12. \A i \in places : \E n \in P : Cardinality(pred[n]) = i
  BY <1>3, <1>11 DEF T
<1> QED
  BY <1>3, <1>5, <1>12 DEF places, size
=============================================================================
