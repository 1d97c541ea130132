----------------------------- MODULE UnitLemmas -----------------------------
(* Facts about capacity units: what determineCapacityChange promises for every *)
(* rule and every reading of the counts, and what becomes of the sums of units *)
(* that the models take over instance types, bids and iterations.              *)
EXTENDS CapacityChange, Functions, FiniteSetTheorems, FiniteSetsExt, TLAPS

(* Dividing a natural number by a positive one gives a natural number.         *)
LEMMA DivNat ==
    ASSUME NEW a \in Nat, NEW b \in Nat \ {0}
    PROVE  a \div b \in Nat
BY SMT

(* Division by a positive number rounds down.                                  *)
LEMMA DivBounds ==
    ASSUME NEW a \in Nat, NEW b \in Nat \ {0}
    PROVE  b * (a \div b) <= a /\ a < b * (a \div b) + b
BY SMT

(* The number of tasks left waiting on purpose is a natural number.            *)
LEMMA DesiredPendingNat ==
    ASSUME NEW d \in ScalingRule, NEW running \in Nat
    PROVE  DesiredPending(d, running) \in Nat
<1>1. d.scalingRatio \in Nat
  BY DEF ScalingRule
<1>2. 2 * d.scalingRatio * running + RatioDen \in Nat
  BY <1>1, RatioDenAssumption
<1>3. 2 * RatioDen \in Nat \ {0}
  BY RatioDenAssumption
<1> QED
  BY <1>2, <1>3, DivNat DEF DesiredPending

(* What is asked for is a whole number of units.                               *)
LEMMA CapacityChangeInt ==
    ASSUME NEW d \in ScalingRule,
           NEW running \in Nat, NEW pending \in Nat, NEW tasks \in Nat
    PROVE  DetermineCapacityChange(d, running, pending, tasks) \in Int
BY DesiredPendingNat
DEF DetermineCapacityChange, IdealChange, ScalingRule

(* A worker type never asks for more units than lead it to the larger of its   *)
(* two limits, whatever it is told of tasks and instances: the two limit       *)
(* branches of determineCapacityChange.                                        *)
THEOREM ChangeStaysBelowCeiling ==
    ASSUME NEW d \in ScalingRule,
           NEW running \in Nat, NEW pending \in Nat, NEW tasks \in Nat
    PROVE  running + pending + DetermineCapacityChange(d, running, pending, tasks)
             <= Ceiling(d)
BY DesiredPendingNat
DEF DetermineCapacityChange, IdealChange, Ceiling, ScalingRule

(* With the limits in order a worker type is always led to its minimum.        *)
THEOREM ChangeReachesMinimum ==
    ASSUME NEW d \in ScalingRule, d.minCapacity <= d.maxCapacity,
           NEW running \in Nat, NEW pending \in Nat, NEW tasks \in Nat
    PROVE  d.minCapacity <=
             running + pending + DetermineCapacityChange(d, running, pending, tasks)
BY DesiredPendingNat
DEF DetermineCapacityChange, IdealChange, ScalingRule

(* Once the units asked for, or more, are pending, nothing more is asked for   *)
(* until something else changes: the pending counts of workerTypeStats are     *)
(* subtracted from the demand exactly once.                                    *)
THEOREM ChangeIsAnsweredOnce ==
    ASSUME NEW d \in ScalingRule,
           NEW running \in Nat, NEW pending \in Nat, NEW tasks \in Nat,
           NEW more \in Nat,
           more >= DetermineCapacityChange(d, running, pending, tasks)
    PROVE  DetermineCapacityChange(d, running, pending + more, tasks) <= 0
BY DesiredPendingNat
DEF DetermineCapacityChange, IdealChange, ScalingRule

-----------------------------------------------------------------------------
(* Induction over the subsets of a finite set, as a fact about sets: those that *)
(* are good are all of them, if a set is good when its proper subsets are.     *)
LEMMA SubsetInduction ==
    ASSUME NEW S, IsFiniteSet(S), NEW Good,
           \A T \in SUBSET S : (\A U \in SUBSET T : U # T => U \in Good) => T \in Good
    PROVE  SUBSET S \subseteq Good
<1> DEFINE Bad == (SUBSET S) \ Good
<1> SUFFICES ASSUME Bad # {} PROVE FALSE
  OBVIOUS
<1>1. IsWellFoundedOn(StrictSubsetOrdering(S), SUBSET S)
  <2>1. IsWellFoundedOn(StrictSubsetOrdering(S), FiniteSubsetsOf(S))
    BY FS_StrictSubsetOrderingWellFounded
  <2>2. QED
    BY <2>1, FS_FiniteSubsetsOfFinite
<1>2. PICK T \in Bad : \A U \in Bad : ~ (<<U, T>> \in StrictSubsetOrdering(S))
  <2>1. Bad \subseteq SUBSET S
    OBVIOUS
  <2> HIDE DEF Bad
  <2>2. QED
    BY <1>1, <2>1, WFMin
<1>3. PICK U \in SUBSET T : U # T /\ U \notin Good
  OBVIOUS
<1>4. U \in Bad
  BY <1>3
<1>5. <<U, T>> \in StrictSubsetOrdering(S)
  BY <1>3 DEF StrictSubsetOrdering
<1>6. QED
  BY <1>2, <1>4, <1>5

(* The element a sum takes off first, and the function a sum is computed by.   *)
One(s) == CHOOSE x \in s : TRUE

Sums(g, f, A) ==
    g = [s \in SUBSET A |-> IF s = {} THEN 0 ELSE f[One(s)] + g[s \ {One(s)}]]

LEMMA SumsAgree ==
    ASSUME NEW f, NEW A, NEW B, IsFiniteSet(A), NEW g, NEW h,
           Sums(g, f, A), Sums(h, f, B)
    PROVE  \A s \in SUBSET (A \cap B) : g[s] = h[s]
<1> DEFINE C    == A \cap B
           Good == {s \in SUBSET C : g[s] = h[s]}
<1>1. IsFiniteSet(C)
  BY FS_Subset
<1>2. ASSUME NEW T \in SUBSET C, \A U \in SUBSET T : U # T => U \in Good
      PROVE  T \in Good
  <2>1. CASE T = {}
    BY <2>1 DEF Sums
  <2>2. CASE T # {}
    <3>1. One(T) \in T
      BY <2>2 DEF One
    <3>2. T \ {One(T)} \in Good
      BY <1>2, <3>1
    <3>3. T \in SUBSET A /\ T \in SUBSET B
      OBVIOUS
    <3>4. g[T] = f[One(T)] + g[T \ {One(T)}]
      BY <2>2, <3>3 DEF Sums
    <3>5. h[T] = f[One(T)] + h[T \ {One(T)}]
      BY <2>2, <3>3 DEF Sums
    <3>6. QED
      BY <3>2, <3>4, <3>5
  <2>3. QED
    BY <2>1, <2>2
<1> HIDE DEF Good, C
<1>3. SUBSET C \subseteq Good
  BY <1>1, <1>2, SubsetInduction
<1>4. QED
  BY <1>3 DEF Good, C

(* The recursion of a sum defines a function, for each subset out of those of  *)
(* its subsets, which agree.                                                   *)
LEMMA SumsExist ==
    ASSUME NEW S, IsFiniteSet(S), NEW f
    PROVE  \E g : Sums(g, f, S)
<1> DEFINE Good == {T \in SUBSET S : \E g : Sums(g, f, T)}
<1>1. ASSUME NEW T \in SUBSET S, \A U \in SUBSET T : U # T => U \in Good
      PROVE  T \in Good
  <2> DEFINE At(s) == CHOOSE g : Sums(g, f, s)
             Of(s) == At(s)[s]
             F(s)  == IF s = {} THEN 0 ELSE f[One(s)] + Of(s \ {One(s)})
             h     == [s \in SUBSET T |-> F(s)]
  <2>1. \A s \in SUBSET T : s # T => Sums(At(s), f, s)
    BY <1>1
  <2>2. ASSUME NEW s \in SUBSET T, s # T
        PROVE  Of(s) = F(s)
    <3>1. Sums(At(s), f, s)
      BY <2>1, <2>2
    <3>2. CASE s = {}
      BY <3>1, <3>2 DEF Sums
    <3>3. CASE s # {}
      <4> DEFINE r == s \ {One(s)}
      <4>1. One(s) \in s
        BY <3>3 DEF One
      <4>2. r \in SUBSET T /\ r # T /\ r \subseteq s
        BY <4>1
      <4>3. Sums(At(r), f, r)
        BY <2>1, <4>2
      <4>4. IsFiniteSet(s)
        BY FS_Subset
      <4>5. At(s)[r] = At(r)[r]
        <5> HIDE DEF At, r
        <5>1. r \in SUBSET (s \cap r)
          BY <4>2
        <5>2. QED
          BY <5>1, <3>1, <4>3, <4>4, SumsAgree
      <4>6. At(s)[s] = f[One(s)] + At(s)[r]
        <5> HIDE DEF At
        <5> QED
          BY <3>1, <3>3 DEF Sums
      <4>7. QED
        BY <4>5, <4>6, <3>3
    <3>4. QED
      BY <3>2, <3>3
  <2>3. Sums(h, f, T)
    <3>1. ASSUME NEW s \in SUBSET T, s # {}
          PROVE  h[s] = f[One(s)] + h[s \ {One(s)}]
      <4>1. One(s) \in s
        BY <3>1 DEF One
      <4> DEFINE r == s \ {One(s)}
      <4>2. r \in SUBSET T /\ r # T
        BY <4>1
      <4>3. h[r] = F(r)
        BY <4>2
      <4>4. F(r) = Of(r)
        BY <2>2, <4>2
      <4>5. QED
        BY <3>1, <4>3, <4>4
    <3> HIDE DEF h
    <3>2. h = [s \in SUBSET T |-> h[s]] /\ h[{}] = 0
      BY DEF h
    <3>3. QED
      BY <3>1, <3>2 DEF Sums
  <2>4. QED
    BY <2>3
<1> HIDE DEF Good
<1>2. SUBSET S \subseteq Good
  BY <1>1, SubsetInduction
<1>3. QED
  BY <1>2 DEF Good

LEMMA SumIsSums ==
    ASSUME NEW S, IsFiniteSet(S), NEW f
    PROVE  \E g : Sums(g, f, S) /\ SumFunctionOnSet(f, S) = g[S]
<1> DEFINE g == CHOOSE g : Sums(g, f, S)
<1>1. Sums(g, f, S)
  BY SumsExist
<1>2. SumFunctionOnSet(f, S) = g[S]
  BY DEF SumFunctionOnSet, FoldFunctionOnSet, MapThenFoldSet, Sums, One
<1>3. QED
  BY <1>1, <1>2

-----------------------------------------------------------------------------
(* What is needed of sums: the empty one, ...                                  *)
LEMMA SumEmpty == ASSUME NEW f PROVE SumFunctionOnSet(f, {}) = 0
BY SumIsSums, FS_EmptySet DEF Sums

LEMMA SumOne ==
    ASSUME NEW S, IsFiniteSet(S), S # {}, NEW f
    PROVE  SumFunctionOnSet(f, S) = f[One(S)] + SumFunctionOnSet(f, S \ {One(S)})
<1> DEFINE R == S \ {One(S)}
<1>1. IsFiniteSet(R)
  BY FS_RemoveElement
<1>2. PICK g : Sums(g, f, S) /\ SumFunctionOnSet(f, S) = g[S]
  BY SumIsSums
<1>3. PICK h : Sums(h, f, R) /\ SumFunctionOnSet(f, R) = h[R]
  BY <1>1, SumIsSums
<1>4. g[R] = h[R]
  <2>1. R \in SUBSET (S \cap R)
    OBVIOUS
  <2> HIDE DEF R
  <2>2. QED
    BY <2>1, <1>2, <1>3, SumsAgree
<1>5. g[S] = f[One(S)] + g[R]
  BY <1>2 DEF Sums
<1>6. QED
  BY <1>2, <1>3, <1>4, <1>5

LEMMA SumNat ==
    ASSUME NEW S, IsFiniteSet(S), NEW f, \A x \in S : f[x] \in Nat
    PROVE  SumFunctionOnSet(f, S) \in Nat
<1> DEFINE Good == {T \in SUBSET S : SumFunctionOnSet(f, T) \in Nat}
<1>1. ASSUME NEW T \in SUBSET S, \A U \in SUBSET T : U # T => U \in Good
      PROVE  T \in Good
  <2>1. CASE T = {}
    BY <2>1, SumEmpty
  <2>2. CASE T # {}
    <3>1. One(T) \in T
      BY <2>2 DEF One
    <3>2. T \ {One(T)} \in Good
      BY <1>1, <3>1
    <3>3. IsFiniteSet(T)
      BY FS_Subset
    <3>4. SumFunctionOnSet(f, T) = f[One(T)] + SumFunctionOnSet(f, T \ {One(T)})
      BY <3>3, <2>2, SumOne
    <3>5. f[One(T)] \in Nat /\ SumFunctionOnSet(f, T \ {One(T)}) \in Nat
      BY <3>1, <3>2
    <3>6. QED
      BY <3>4, <3>5
  <2>3. QED
    BY <2>1, <2>2
<1> HIDE DEF Good
<1>2. SUBSET S \subseteq Good
  BY <1>1, SubsetInduction
<1>3. QED
  BY <1>2 DEF Good

LEMMA SumInt ==
    ASSUME NEW S, IsFiniteSet(S), NEW f, \A x \in S : f[x] \in Int
    PROVE  SumFunctionOnSet(f, S) \in Int
<1> DEFINE Good == {T \in SUBSET S : SumFunctionOnSet(f, T) \in Int}
<1>1. ASSUME NEW T \in SUBSET S, \A U \in SUBSET T : U # T => U \in Good
      PROVE  T \in Good
  <2>1. CASE T = {}
    BY <2>1, SumEmpty
  <2>2. CASE T # {}
    <3>1. One(T) \in T
      BY <2>2 DEF One
    <3>2. T \ {One(T)} \in Good
      BY <1>1, <3>1
    <3>3. IsFiniteSet(T)
      BY FS_Subset
    <3>4. SumFunctionOnSet(f, T) = f[One(T)] + SumFunctionOnSet(f, T \ {One(T)})
      BY <3>3, <2>2, SumOne
    <3>5. f[One(T)] \in Int /\ SumFunctionOnSet(f, T \ {One(T)}) \in Int
      BY <3>1, <3>2
    <3>6. QED
      BY <3>4, <3>5
  <2>3. QED
    BY <2>1, <2>2
<1> HIDE DEF Good
<1>2. SUBSET S \subseteq Good
  BY <1>1, SubsetInduction
<1>3. QED
  BY <1>2 DEF Good

(* ... and that any summand can be taken off, whatever the order of summation. *)
LEMMA SumSplit ==
    ASSUME NEW S, IsFiniteSet(S), NEW f, \A x \in S : f[x] \in Int, NEW a \in S
    PROVE  SumFunctionOnSet(f, S) = f[a] + SumFunctionOnSet(f, S \ {a})
<1> DEFINE Sum(T) == SumFunctionOnSet(f, T)
           Good   == {T \in SUBSET S : \A x \in T : Sum(T) = f[x] + Sum(T \ {x})}
<1>1. ASSUME NEW T \in SUBSET S, \A U \in SUBSET T : U # T => U \in Good
      PROVE  T \in Good
  <2> SUFFICES ASSUME NEW x \in T PROVE Sum(T) = f[x] + Sum(T \ {x})
    OBVIOUS
  <2> DEFINE y == One(T)
  <2>1. y \in T
    BY DEF One
  <2>2. IsFiniteSet(T)
    BY FS_Subset
  <2>3. Sum(T) = f[y] + Sum(T \ {y})
    BY <2>2, SumOne
  <2>4. CASE x = y
    BY <2>3, <2>4
  <2>5. CASE x # y
    <3> DEFINE TT == T \ {x, y}
    <3>1. T \ {y} \in Good /\ T \ {x} \in Good
      BY <1>1, <2>1
    <3>2. /\ x \in T \ {y} /\ (T \ {y}) \ {x} = TT
          /\ y \in T \ {x} /\ (T \ {x}) \ {y} = TT
      BY <2>1, <2>5
    <3>3. Sum(T \ {y}) = f[x] + Sum(TT) /\ Sum(T \ {x}) = f[y] + Sum(TT)
      <4> HIDE DEF Sum, y, TT
      <4> QED
        BY <3>1, <3>2
    <3>4. Sum(TT) \in Int /\ f[x] \in Int /\ f[y] \in Int
      <4>1. IsFiniteSet(TT) /\ \A z \in TT : f[z] \in Int
        BY FS_Subset
      <4>2. Sum(TT) \in Int
        BY <4>1, SumInt
      <4>3. QED
        BY <4>2, <2>1
    <3> HIDE DEF Sum, TT, y
    <3>5. QED
      BY <2>3, <3>3, <3>4
  <2>6. QED
    BY <2>4, <2>5
<1> HIDE DEF Good
<1>2. SUBSET S \subseteq Good
  BY <1>1, SubsetInduction
<1>3. QED
  BY <1>2 DEF Good

(* Sums add up when their summands do.                                         *)
LEMMA SumPlus ==
    ASSUME NEW S, IsFiniteSet(S), NEW f, NEW g, NEW h,
           \A x \in S : f[x] \in Int /\ g[x] \in Int /\ h[x] = f[x] + g[x]
    PROVE  SumFunctionOnSet(h, S) = SumFunctionOnSet(f, S) + SumFunctionOnSet(g, S)
<1> DEFINE Good == {T \in SUBSET S :
                      SumFunctionOnSet(h, T) =
                        SumFunctionOnSet(f, T) + SumFunctionOnSet(g, T)}
<1>1. ASSUME NEW T \in SUBSET S, \A U \in SUBSET T : U # T => U \in Good
      PROVE  T \in Good
  <2>1. CASE T = {}
    BY <2>1, SumEmpty
  <2>2. CASE T # {}
    <3> DEFINE x == One(T)
               R == T \ {x}
    <3>1. x \in T
      BY <2>2 DEF One
    <3>2. R \in Good
      BY <1>1, <3>1
    <3>3. IsFiniteSet(T) /\ IsFiniteSet(R)
      BY FS_Subset
    <3>4. /\ SumFunctionOnSet(f, T) = f[x] + SumFunctionOnSet(f, R)
          /\ SumFunctionOnSet(g, T) = g[x] + SumFunctionOnSet(g, R)
          /\ SumFunctionOnSet(h, T) = h[x] + SumFunctionOnSet(h, R)
      BY <3>3, <2>2, SumOne
    <3>5. f[x] \in Int /\ g[x] \in Int /\ h[x] = f[x] + g[x]
      BY <3>1
    <3>6. SumFunctionOnSet(f, R) \in Int /\ SumFunctionOnSet(g, R) \in Int
      BY <3>3, SumInt
    <3> HIDE DEF x, R
    <3>7. QED
      BY <3>2, <3>4, <3>5, <3>6
  <2>3. QED
    BY <2>1, <2>2
<1> HIDE DEF Good
<1>2. SUBSET S \subseteq Good
  BY <1>1, SubsetInduction
<1>3. QED
  BY <1>2 DEF Good

LEMMA SumZero ==
    ASSUME NEW S, IsFiniteSet(S), NEW f, \A x \in S : f[x] = 0
    PROVE  SumFunctionOnSet(f, S) = 0
<1>1. SumFunctionOnSet(f, S) \in Nat
  BY SumNat
<1>2. PICK g, h : g = f /\ h = f
  OBVIOUS
<1>3. \A x \in S : f[x] \in Int /\ g[x] \in Int /\ h[x] = f[x] + g[x]
  BY <1>2
<1>4. SumFunctionOnSet(h, S) = SumFunctionOnSet(f, S) + SumFunctionOnSet(g, S)
  BY <1>3, SumPlus
<1>5. QED
  BY <1>1, <1>2, <1>4

(* Only the values on the set matter.                                          *)
LEMMA SumSame ==
    ASSUME NEW S, IsFiniteSet(S), NEW f, NEW g,
           \A x \in S : f[x] \in Int /\ g[x] = f[x]
    PROVE  SumFunctionOnSet(g, S) = SumFunctionOnSet(f, S)
<1> DEFINE z == [x \in S |-> 0]
<1>1. SumFunctionOnSet(z, S) = 0
  BY SumZero
<1>2. SumFunctionOnSet(g, S) = SumFunctionOnSet(f, S) + SumFunctionOnSet(z, S)
  <2>1. \A x \in S : f[x] \in Int /\ z[x] \in Int /\ g[x] = f[x] + z[x]
    OBVIOUS
  <2> HIDE DEF z
  <2>2. QED
    BY <2>1, SumPlus
<1>3. SumFunctionOnSet(f, S) \in Int
  BY SumInt
<1>4. QED
  BY <1>1, <1>2, <1>3

LEMMA SumMonotone ==
    ASSUME NEW S, IsFiniteSet(S), NEW f, NEW g,
           \A x \in S : f[x] \in Nat /\ g[x] \in Nat /\ f[x] <= g[x]
    PROVE  SumFunctionOnSet(f, S) <= SumFunctionOnSet(g, S)
<1> DEFINE d == [x \in S |-> g[x] - f[x]]
<1>1. \A x \in S : f[x] \in Nat /\ d[x] \in Nat /\ g[x] = f[x] + d[x]
  OBVIOUS
<1> HIDE DEF d
<1>2. SumFunctionOnSet(g, S) = SumFunctionOnSet(f, S) + SumFunctionOnSet(d, S)
  BY <1>1, SumPlus
<1>3. SumFunctionOnSet(f, S) \in Nat /\ SumFunctionOnSet(d, S) \in Nat
  BY <1>1, SumNat
<1>4. QED
  BY <1>2, <1>3

(* A change of one summand.                                                    *)
LEMMA SumChange ==
    ASSUME NEW S, IsFiniteSet(S), NEW f, NEW g, NEW a \in S,
           \A x \in S : f[x] \in Int /\ g[x] \in Int /\ (x # a => g[x] = f[x])
    PROVE  SumFunctionOnSet(g, S) = SumFunctionOnSet(f, S) - f[a] + g[a]
<1> DEFINE R == S \ {a}
<1>1. IsFiniteSet(R)
  BY FS_Subset
<1>2. SumFunctionOnSet(f, S) = f[a] + SumFunctionOnSet(f, R)
  BY SumSplit
<1>3. SumFunctionOnSet(g, S) = g[a] + SumFunctionOnSet(g, R)
  BY SumSplit
<1>4. SumFunctionOnSet(g, R) = SumFunctionOnSet(f, R)
  BY <1>1, SumSame
<1>5. SumFunctionOnSet(f, R) \in Int
  BY <1>1, SumInt
<1>6. QED
  BY <1>2, <1>3, <1>4, <1>5

(* One more in the set.                                                        *)
LEMMA SumAdd ==
    ASSUME NEW S, IsFiniteSet(S), NEW f, NEW a, a \notin S,
           \A x \in S \cup {a} : f[x] \in Nat
    PROVE  SumFunctionOnSet(f, S \cup {a}) = f[a] + SumFunctionOnSet(f, S)
<1> DEFINE A == S \cup {a}
<1>1. IsFiniteSet(A) /\ a \in A /\ A \ {a} = S
  BY FS_AddElement
<1> HIDE DEF A
<1>2. SumFunctionOnSet(f, A) = f[a] + SumFunctionOnSet(f, A \ {a})
  <2>1. \A x \in A : f[x] \in Nat
    BY DEF A
  <2>2. QED
    BY <1>1, <2>1, SumSplit
<1>3. QED
  BY <1>1, <1>2 DEF A

(* A sum that is not nought has a summand that is not.                         *)
LEMMA SumPositive ==
    ASSUME NEW S, IsFiniteSet(S), NEW f, \A x \in S : f[x] \in Nat,
           SumFunctionOnSet(f, S) # 0
    PROVE  \E x \in S : f[x] > 0
<1> SUFFICES ASSUME \A x \in S : ~ (f[x] > 0)
             PROVE  FALSE
  OBVIOUS
<1>1. \A x \in S : f[x] = 0
  OBVIOUS
<1>2. QED
  BY <1>1, SumZero

LEMMA SumBounded ==
    ASSUME NEW S, IsFiniteSet(S), NEW f, NEW n \in Nat,
           \A x \in S : f[x] \in 0 .. n
    PROVE  SumFunctionOnSet(f, S) <= Cardinality(S) * n
<1> DEFINE Good == {T \in SUBSET S : SumFunctionOnSet(f, T) <= Cardinality(T) * n}
<1>1. ASSUME NEW T \in SUBSET S, \A U \in SUBSET T : U # T => U \in Good
      PROVE  T \in Good
  <2>1. CASE T = {}
    BY <2>1, SumEmpty, FS_EmptySet
  <2>2. CASE T # {}
    <3> DEFINE x == One(T)
               R == T \ {x}
               c == Cardinality(R)
    <3>1. x \in T
      BY <2>2 DEF One
    <3>2. R \in Good
      BY <1>1, <3>1
    <3>3. IsFiniteSet(T) /\ IsFiniteSet(R)
      BY FS_Subset
    <3>4. SumFunctionOnSet(f, T) = f[x] + SumFunctionOnSet(f, R)
      BY <3>3, <2>2, SumOne
    <3>5. f[x] \in 0 .. n /\ SumFunctionOnSet(f, R) \in Nat
      <4>1. \A y \in R : f[y] \in Nat
        OBVIOUS
      <4>2. QED
        BY <3>1, <3>3, <4>1, SumNat
    <3>6. c \in Nat /\ Cardinality(T) = c + 1
      BY <3>1, <3>3, FS_RemoveElement, FS_CardinalityType
    <3>7. SumFunctionOnSet(f, R) <= c * n
      BY <3>2
    <3> HIDE DEF x, R, c
    <3>8. (c + 1) * n = c * n + n /\ c * n \in Nat
      BY <3>6
    <3>9. QED
      BY <3>4, <3>5, <3>6, <3>7, <3>8
  <2>3. QED
    BY <2>1, <2>2
<1> HIDE DEF Good
<1>2. SUBSET S \subseteq Good
  BY <1>1, SubsetInduction
<1>3. QED
  BY <1>2 DEF Good

-----------------------------------------------------------------------------
(* A finite set of numbers that is not empty has a largest one.                *)
LEMMA MaxIsMost ==
    ASSUME NEW S, IsFiniteSet(S), S # {}, S \subseteq Nat
    PROVE  Max(S) \in S /\ \A y \in S : y <= Max(S)
<1> DEFINE Good == {T \in SUBSET S : T # {} => \E x \in T : \A y \in T : x >= y}
<1>1. ASSUME NEW T \in SUBSET S, \A U \in SUBSET T : U # T => U \in Good
      PROVE  T \in Good
  <2> SUFFICES ASSUME T # {}
               PROVE  \E x \in T : \A y \in T : x >= y
    OBVIOUS
  <2>1. PICK a : a \in T
    OBVIOUS
  <2>2. T \ {a} \in Good
    BY <1>1, <2>1
  <2>3. CASE T \ {a} = {}
    BY <2>1, <2>3
  <2>4. CASE T \ {a} # {}
    <3>1. PICK m \in T \ {a} : \A y \in T \ {a} : m >= y
      BY <2>2, <2>4
    <3>2. a \in Nat /\ m \in Nat /\ \A y \in T : y \in Nat
      BY <2>1
    <3>3. CASE a >= m
      <4>1. \A y \in T : a >= y
        BY <3>1, <3>2, <3>3
      <4> QED
        BY <2>1, <4>1
    <3>4. CASE ~ (a >= m)
      <4>1. \A y \in T : m >= y
        BY <3>1, <3>2, <3>4
      <4> QED
        BY <4>1
    <3> QED
      BY <3>3, <3>4
  <2> QED
    BY <2>3, <2>4
<1> HIDE DEF Good
<1>2. SUBSET S \subseteq Good
  BY <1>1, SubsetInduction
<1>3. \E x \in S : \A y \in S : x >= y
  BY <1>2 DEF Good
<1>4. Max(S) \in S /\ \A y \in S : Max(S) >= y
  BY <1>3 DEF Max
<1> QED
  BY <1>4
=============================================================================
