---------------------------- MODULE DataTheorems ----------------------------
(***************************************************************************)
(* Facts about data that the proofs of the project share: induction, over  *)
(* a set instead of a predicate; sums over a finite set; the largest and   *)
(* the smallest element of a set.                                          *)
(***************************************************************************)
EXTENDS Integers, FiniteSets, FiniteSetsExt, FiniteSetTheorems,
        WellFoundedInduction, TLAPS

(* The sum of the function w over the set S. *)
SumOver(w, S) == MapThenSumSet(LAMBDA x : w[x], S)

-----------------------------------------------------------------------------
(* Induction *)

(* A set of natural numbers that is not empty has a least element. *)
LEMMA LeastNat ==
  ASSUME NEW T, T \subseteq Nat, T # {}
  PROVE  \E n \in T : \A m \in T : n <= m
<1> DEFINE R == {ss \in Nat \X Nat : ss[1] < ss[2]}
<1>1. IsWellFoundedOn(R, Nat)
  BY NatLessThanWellFounded, Zenon DEF OpToRel
<1>2. PICK n \in T : \A m \in T : ~ (<<m, n>> \in R)
  BY <1>1, WFMin
<1>3. ASSUME NEW m \in T PROVE n <= m
  <2>1. m \in Nat /\ n \in Nat
    OBVIOUS
  <2>2. ~ (<<m, n>> \in R)
    BY <1>2
  <2>3. ~ (m < n)
    BY <2>1, <2>2
  <2> QED
    BY <2>1, <2>3
<1> QED
  BY <1>3

(* A set of natural numbers that has 0 and the successors of its elements. *)
LEMMA NatSteps ==
  ASSUME NEW T, 0 \in T, \A k \in Nat : k \in T => k + 1 \in T
  PROVE  \A k \in Nat : k \in T
<1> DEFINE B == {k \in Nat : k \notin T}
<1>1. SUFFICES ASSUME B # {} PROVE FALSE
  OBVIOUS
<1>2. PICK n \in B : \A m \in B : n <= m
  <2> B \subseteq Nat
    OBVIOUS
  <2> HIDE DEF B
  <2> QED
    BY <1>1, LeastNat
<1>3. n \in Nat /\ n # 0
  BY <1>2
<1>4. n - 1 \in Nat /\ n - 1 \notin B
  BY <1>2, <1>3
<1>5. (n - 1) + 1 \in T
  BY <1>4
<1> QED
  BY <1>2, <1>3, <1>5

(* A set of subsets of a finite set S that has every subset of S all of    *)
(* whose proper subsets it has.                                            *)
LEMMA SubsetSteps ==
  ASSUME NEW S, IsFiniteSet(S), NEW T,
         \A t \in SUBSET S : (\A u \in SUBSET t : u # t => u \in T) => t \in T
  PROVE  \A t \in SUBSET S : t \in T
<1> DEFINE B == {t \in SUBSET S : t \notin T}
<1>1. SUFFICES ASSUME B # {} PROVE FALSE
  OBVIOUS
<1>2. FiniteSubsetsOf(S) = SUBSET S
  BY FS_FiniteSubsetsOfFinite
<1>3. IsWellFoundedOn(StrictSubsetOrdering(S), SUBSET S)
  BY <1>2, FS_StrictSubsetOrderingWellFounded
<1>4. PICK t \in B : \A u \in B : ~ (<<u, t>> \in StrictSubsetOrdering(S))
  <2> B \subseteq SUBSET S
    OBVIOUS
  <2> HIDE DEF B
  <2> QED
    BY <1>1, <1>3, WFMin
<1>5. \A u \in B : u \subseteq t => u = t
  BY <1>4 DEF StrictSubsetOrdering
<1>6. \A u \in SUBSET t : u # t => u \in T
  BY <1>5
<1> QED
  BY <1>6

(* The same, one element at a time. *)
LEMMA ElementSteps ==
  ASSUME NEW S, IsFiniteSet(S), NEW T, {} \in T,
         \A t \in SUBSET S : \A x \in t : t \ {x} \in T => t \in T
  PROVE  \A t \in SUBSET S : t \in T
<1>1. ASSUME NEW t \in SUBSET S, \A u \in SUBSET t : u # t => u \in T
      PROVE  t \in T
  <2>1. CASE t = {}
    BY <2>1
  <2>2. CASE t # {}
    <3>1. PICK x \in t : TRUE
      BY <2>2
    <3>2. t \ {x} \in SUBSET t /\ t \ {x} # t
      OBVIOUS
    <3>3. t \ {x} \in T
      BY <1>1, <3>2
    <3> QED
      BY <3>1, <3>3
  <2> QED
    BY <2>1, <2>2
<1> QED
  BY <1>1, SubsetSteps

-----------------------------------------------------------------------------
(* The recursion behind a sum *)

Pick(s) == CHOOSE x \in s : TRUE

Step(w, g, t) == IF t = {} THEN 0 ELSE w[Pick(t)] + g[t \ {Pick(t)}]

Solves(w, g, S) == g = [t \in SUBSET S |-> Step(w, g, t)]

LEMMA SumUnfolded ==
  ASSUME NEW w, NEW S
  PROVE  SumOver(w, S) = (CHOOSE g : Solves(w, g, S))[S]
BY DEF SumOver, MapThenSumSet, MapThenFoldSet, Solves, Step, Pick

LEMMA PickIn ==
  ASSUME NEW t, t # {}
  PROVE  Pick(t) \in t
BY DEF Pick

(* The recursion has a solution: function number k solves it for the sets *)
(* of at most k elements.                                                 *)
LEMMA Solvable ==
  ASSUME NEW S, IsFiniteSet(S), NEW w, \A x \in S : w[x] \in Int
  PROVE  \E g : Solves(w, g, S)
<1> DEFINE Upto(g, k) == \A t \in SUBSET S : Cardinality(t) <= k => g[t] = Step(w, g, t)
           T == {k \in Nat : \E g \in [SUBSET S -> Int] : Upto(g, k)}
<1>0. \A t \in SUBSET S : IsFiniteSet(t) /\ Cardinality(t) \in Nat
  BY FS_Subset, FS_CardinalityType
<1>1. 0 \in T
  <2> DEFINE g == [t \in SUBSET S |-> 0]
  <2>1. g \in [SUBSET S -> Int]
    OBVIOUS
  <2>2. \A t \in SUBSET S : Cardinality(t) <= 0 => t = {}
    BY <1>0, FS_EmptySet
  <2>3. Upto(g, 0)
    BY <2>2 DEF Step
  <2> QED
    BY <2>1, <2>3
<1>2. ASSUME NEW k \in Nat, k \in T
      PROVE  k + 1 \in T
  <2>1. PICK g \in [SUBSET S -> Int] : Upto(g, k)
    BY <1>2
  <2> DEFINE h == [t \in SUBSET S |-> Step(w, g, t)]
  <2>2. \A t \in SUBSET S : t # {} => Pick(t) \in t /\ Pick(t) \in S /\ t \ {Pick(t)} \in SUBSET S
    BY PickIn
  <2>3. h \in [SUBSET S -> Int]
    <3>1. \A t \in SUBSET S : Step(w, g, t) \in Int
      BY <2>2 DEF Step
    <3> QED
      BY <3>1
  <2>4. ASSUME NEW t \in SUBSET S, Cardinality(t) <= k + 1
        PROVE  h[t] = Step(w, h, t)
    <3>1. CASE t = {}
      BY <3>1 DEF Step
    <3>2. CASE t # {}
      <4> DEFINE u == t \ {Pick(t)}
      <4>1. u \in SUBSET S /\ Pick(t) \in t
        BY <2>2, <3>2
      <4>2. Cardinality(u) = Cardinality(t) - 1
        BY <4>1, <1>0, FS_RemoveElement
      <4>3. Cardinality(u) <= k
        BY <4>2, <1>0, <2>4
      <4>4. g[u] = Step(w, g, u)
        BY <4>1, <4>3, <2>1
      <4>5. h[u] = g[u]
        BY <4>1, <4>4
      <4> QED
        BY <3>2, <4>5 DEF Step
    <3> QED
      BY <3>1, <3>2
  <2>5. Upto(h, k + 1)
    BY <2>4
  <2> HIDE DEF h, Upto
  <2> QED
    BY <2>3, <2>5
<1>3. \A k \in Nat : k \in T
  <2> HIDE DEF T
  <2> QED
    BY <1>1, <1>2, NatSteps
<1>4. Cardinality(S) \in T
  BY <1>0, <1>3
<1>5. PICK g \in [SUBSET S -> Int] : Upto(g, Cardinality(S))
  BY <1>4
<1>6. \A t \in SUBSET S : Cardinality(t) <= Cardinality(S)
  BY FS_Subset
<1>7. \A t \in SUBSET S : g[t] = Step(w, g, t)
  BY <1>5, <1>6
<1> QED
  BY <1>7 DEF Solves

LEMMA SolutionAt ==
  ASSUME NEW w, NEW S, NEW g, Solves(w, g, S), NEW t \in SUBSET S
  PROVE  /\ t = {} => g[t] = 0
         /\ t # {} => g[t] = w[Pick(t)] + g[t \ {Pick(t)}]
<1>1. g[t] = Step(w, g, t)
  <2> DEFINE f == [u \in SUBSET S |-> Step(w, g, u)]
  <2>1. g = f
    BY Zenon DEF Solves
  <2>2. f[t] = Step(w, g, t)
    OBVIOUS
  <2> HIDE DEF f
  <2> QED
    BY <2>1, <2>2
<1> QED
  BY <1>1 DEF Step

(* Solutions for a set and for a subset agree on the subset. *)
LEMMA SolutionsAgree ==
  ASSUME NEW w, NEW S, IsFiniteSet(S), NEW U \in SUBSET S,
         NEW g, Solves(w, g, S), NEW h, Solves(w, h, U)
  PROVE  \A t \in SUBSET U : g[t] = h[t]
<1> DEFINE T == {t \in SUBSET U : g[t] = h[t]}
<1>1. IsFiniteSet(U)
  BY FS_Subset
<1>2. ASSUME NEW t \in SUBSET U, \A u \in SUBSET t : u # t => u \in T
      PROVE  t \in T
  <2>0. t \in SUBSET S
    OBVIOUS
  <2>1. CASE t = {}
    <3>1. g[t] = 0
      BY <2>0, <2>1, SolutionAt
    <3>2. h[t] = 0
      BY <2>1, SolutionAt
    <3> QED
      BY <3>1, <3>2
  <2>2. CASE t # {}
    <3>1. Pick(t) \in t
      BY <2>2, PickIn
    <3> DEFINE u == t \ {Pick(t)}
    <3>2. u \in SUBSET t /\ u # t
      BY <3>1
    <3>3. g[u] = h[u]
      BY <1>2, <3>2
    <3>4. g[t] = w[Pick(t)] + g[u]
      BY <2>0, <2>2, SolutionAt
    <3>5. h[t] = w[Pick(t)] + h[u]
      BY <2>2, SolutionAt
    <3> QED
      BY <3>3, <3>4, <3>5
  <2> QED
    BY <2>1, <2>2
<1>3. \A t \in SUBSET U : t \in T
  <2> HIDE DEF T
  <2> QED
    BY <1>1, <1>2, SubsetSteps
<1> QED
  BY <1>3

(* A sum is what any solution says, also of a set that contains it. *)
LEMMA SumIsSolution ==
  ASSUME NEW S, IsFiniteSet(S), NEW w, \A x \in S : w[x] \in Int
  PROVE  \E g : /\ Solves(w, g, S)
                /\ \A t \in SUBSET S : SumOver(w, t) = g[t]
<1>1. PICK g : Solves(w, g, S)
  BY Solvable
<1>2. ASSUME NEW t \in SUBSET S
      PROVE  SumOver(w, t) = g[t]
  <2> DEFINE h == CHOOSE f : Solves(w, f, t)
  <2>1. IsFiniteSet(t)
    BY FS_Subset
  <2>2. \E f : Solves(w, f, t)
    BY <2>1, Solvable
  <2>3. Solves(w, h, t)
    BY <2>2
  <2>4. SumOver(w, t) = h[t]
    BY SumUnfolded
  <2> HIDE DEF h
  <2>5. g[t] = h[t]
    BY <1>1, <2>3, SolutionsAgree
  <2> QED
    BY <2>4, <2>5
<1> QED
  BY <1>1, <1>2

-----------------------------------------------------------------------------
(* Sums *)

LEMMA SumEmpty ==
  ASSUME NEW w
  PROVE  SumOver(w, {}) = 0
<1>1. IsFiniteSet({})
  BY FS_EmptySet
<1>2. PICK g : /\ Solves(w, g, {})
               /\ \A t \in SUBSET {} : SumOver(w, t) = g[t]
  BY <1>1, SumIsSolution
<1>3. SumOver(w, {}) = g[{}] /\ {} \in SUBSET {}
  BY <1>2
<1>4. ASSUME NEW e, e = {} PROVE g[e] = 0
  <2>1. Solves(w, g, e) /\ e \in SUBSET e
    BY <1>2, <1>4
  <2> QED
    BY <1>4, <2>1, SolutionAt
<1> QED
  BY <1>3, <1>4

LEMMA SumPick ==
  ASSUME NEW S, IsFiniteSet(S), S # {}, NEW w, \A x \in S : w[x] \in Int
  PROVE  SumOver(w, S) = w[Pick(S)] + SumOver(w, S \ {Pick(S)})
<1>1. PICK g : /\ Solves(w, g, S)
               /\ \A t \in SUBSET S : SumOver(w, t) = g[t]
  BY SumIsSolution
<1>2. g[S] = w[Pick(S)] + g[S \ {Pick(S)}]
  BY <1>1, SolutionAt
<1>3. SumOver(w, S) = g[S] /\ SumOver(w, S \ {Pick(S)}) = g[S \ {Pick(S)}]
  BY <1>1
<1> QED
  BY <1>2, <1>3

(* Sums of integers are integers. *)
LEMMA SumInt ==
  ASSUME NEW S, IsFiniteSet(S), NEW w, \A x \in S : w[x] \in Int
  PROVE  \A t \in SUBSET S : SumOver(w, t) \in Int
<1> DEFINE T == {t \in SUBSET S : SumOver(w, t) \in Int}
<1>1. ASSUME NEW t \in SUBSET S, \A u \in SUBSET t : u # t => u \in T
      PROVE  t \in T
  <2>0. IsFiniteSet(t)
    BY FS_Subset
  <2>1. CASE t = {}
    BY <2>1, SumEmpty
  <2>2. CASE t # {}
    <3>1. Pick(t) \in t
      BY <2>2, PickIn
    <3> DEFINE u == t \ {Pick(t)}
    <3>2. u \in SUBSET t /\ u # t
      BY <3>1
    <3>3. SumOver(w, u) \in Int
      BY <1>1, <3>2
    <3>4. SumOver(w, t) = w[Pick(t)] + SumOver(w, u)
      BY <2>0, <2>2, SumPick
    <3> QED
      BY <3>1, <3>3, <3>4
  <2> QED
    BY <2>1, <2>2
<1>2. \A t \in SUBSET S : t \in T
  <2> HIDE DEF T
  <2> QED
    BY <1>1, SubsetSteps
<1> QED
  BY <1>2

(* Any element may be taken out of a sum. *)
LEMMA SumTake ==
  ASSUME NEW S, IsFiniteSet(S), NEW w, \A x \in S : w[x] \in Int
  PROVE  \A t \in SUBSET S : \A x \in t :
            SumOver(w, t) = w[x] + SumOver(w, t \ {x})
<1> DEFINE T == {t \in SUBSET S : \A x \in t : SumOver(w, t) = w[x] + SumOver(w, t \ {x})}
<1>1. ASSUME NEW t \in SUBSET S, \A u \in SUBSET t : u # t => u \in T
      PROVE  t \in T
  <2>0. IsFiniteSet(t)
    BY FS_Subset
  <2>1. ASSUME NEW x \in t
        PROVE  SumOver(w, t) = w[x] + SumOver(w, t \ {x})
    <3>1. PICK c : c = Pick(t) /\ c \in t
      BY <2>1, PickIn
    <3>2. SumOver(w, t) = w[c] + SumOver(w, t \ {c})
      BY <2>0, <3>1, SumPick
    <3>3. CASE x = c
      BY <3>2, <3>3
    <3>4. CASE x # c
      <4> DEFINE u == t \ {c}
                 v == t \ {x}
                 r == t \ {c, x}
      <4>0. u \ {x} = r /\ v \ {c} = r /\ r \in SUBSET S
        OBVIOUS
      <4>1. u \in SUBSET t /\ u # t /\ v \in SUBSET t /\ v # t /\ x \in u /\ c \in v
        BY <3>1, <3>4
      <4> HIDE DEF u, v, r
      <4>2. SumOver(w, u) = w[x] + SumOver(w, r)
        BY <1>1, <4>0, <4>1
      <4>3. SumOver(w, v) = w[c] + SumOver(w, r)
        BY <1>1, <4>0, <4>1
      <4>4. SumOver(w, r) \in Int /\ w[x] \in Int /\ w[c] \in Int
        BY <3>1, <4>0, SumInt
      <4>5. SumOver(w, t) = w[c] + SumOver(w, u)
        BY <3>2 DEF u
      <4>6. SumOver(w, t) = w[x] + SumOver(w, v)
        BY <4>2, <4>3, <4>4, <4>5
      <4> QED
        BY <4>6 DEF v
    <3> QED
      BY <3>3, <3>4
  <2> QED
    BY <2>1
<1>2. \A t \in SUBSET S : t \in T
  <2> HIDE DEF T
  <2> QED
    BY <1>1, SubsetSteps
<1> QED
  BY <1>2

(* Larger terms make a larger sum. *)
LEMMA SumMono ==
  ASSUME NEW S, IsFiniteSet(S), NEW w, NEW v,
         \A y \in S : w[y] \in Int, \A y \in S : v[y] \in Int,
         \A y \in S : w[y] <= v[y]
  PROVE  \A t \in SUBSET S : SumOver(w, t) <= SumOver(v, t)
<1> DEFINE T == {t \in SUBSET S : SumOver(w, t) <= SumOver(v, t)}
<1>1. {} \in T
  BY SumEmpty
<1>2. ASSUME NEW t \in SUBSET S, NEW x \in t, t \ {x} \in T
      PROVE  t \in T
  <2> DEFINE r == t \ {x}
  <2>1. r \in SUBSET S
    OBVIOUS
  <2>2. SumOver(w, t) = w[x] + SumOver(w, r)
    BY SumTake
  <2>3. SumOver(w, r) \in Int /\ w[x] \in Int
    BY <2>1, SumInt
  <2>4. SumOver(v, t) = v[x] + SumOver(v, r)
    BY SumTake
  <2>5. SumOver(v, r) \in Int /\ v[x] \in Int
    BY <2>1, SumInt
  <2>6. SumOver(w, r) <= SumOver(v, r)
    BY <1>2
  <2> HIDE DEF r
  <2> QED
    BY <2>2, <2>3, <2>4, <2>5, <2>6
<1>3. \A t \in SUBSET S : t \in T
  <2> HIDE DEF T
  <2> QED
    BY <1>1, <1>2, ElementSteps
<1> QED
  BY <1>3

(* Equal terms make equal sums. *)
LEMMA SumSame ==
  ASSUME NEW S, IsFiniteSet(S), NEW w, NEW v, \A y \in S : w[y] \in Int,
         \A y \in S : w[y] = v[y]
  PROVE  SumOver(w, S) = SumOver(v, S)
<1>1. \A y \in S : v[y] \in Int
  OBVIOUS
<1>2. \A y \in S : w[y] <= v[y] /\ v[y] <= w[y]
  OBVIOUS
<1>3. SumOver(w, S) <= SumOver(v, S)
  BY <1>1, <1>2, SumMono
<1>4. SumOver(v, S) <= SumOver(w, S)
  BY <1>1, <1>2, SumMono
<1>5. SumOver(w, S) \in Int /\ SumOver(v, S) \in Int
  BY <1>1, SumInt
<1> QED
  BY <1>3, <1>4, <1>5

(* A sum of sums. *)
LEMMA SumAdd ==
  ASSUME NEW S, IsFiniteSet(S), NEW w, NEW v, NEW f,
         \A y \in S : w[y] \in Int, \A y \in S : v[y] \in Int,
         \A y \in S : f[y] = w[y] + v[y]
  PROVE  SumOver(f, S) = SumOver(w, S) + SumOver(v, S)
<1> DEFINE T == {t \in SUBSET S : SumOver(f, t) = SumOver(w, t) + SumOver(v, t)}
<1>1. {} \in T
  BY SumEmpty
<1>2. ASSUME NEW t \in SUBSET S, NEW x \in t, t \ {x} \in T
      PROVE  t \in T
  <2>0. \A y \in S : f[y] \in Int
    OBVIOUS
  <2> DEFINE r == t \ {x}
  <2>1. r \in SUBSET S
    OBVIOUS
  <2>2. SumOver(w, t) = w[x] + SumOver(w, r)
    BY <2>0, SumTake
  <2>3. SumOver(w, r) \in Int /\ w[x] \in Int
    BY <2>0, <2>1, SumInt
  <2>4. SumOver(v, t) = v[x] + SumOver(v, r)
    BY <2>0, SumTake
  <2>5. SumOver(v, r) \in Int /\ v[x] \in Int
    BY <2>0, <2>1, SumInt
  <2>6. SumOver(f, t) = f[x] + SumOver(f, r)
    BY <2>0, SumTake
  <2>7. SumOver(f, r) \in Int /\ f[x] \in Int
    BY <2>0, <2>1, SumInt
  <2>8. SumOver(f, r) = SumOver(w, r) + SumOver(v, r)
    BY <1>2
  <2>9. f[x] = w[x] + v[x]
    OBVIOUS
  <2> HIDE DEF r
  <2> QED
    BY <2>2, <2>3, <2>4, <2>5, <2>6, <2>7, <2>8, <2>9
<1>3. \A t \in SUBSET S : t \in T
  <2> HIDE DEF T
  <2> QED
    BY <1>1, <1>2, ElementSteps
<1> QED
  BY <1>3

(* A multiple of a sum. *)
LEMMA SumScale ==
  ASSUME NEW S, IsFiniteSet(S), NEW w, NEW f, NEW k \in Int,
         \A y \in S : w[y] \in Int,
         \A y \in S : f[y] = k * w[y]
  PROVE  SumOver(f, S) = k * SumOver(w, S)
<1> DEFINE T == {t \in SUBSET S : SumOver(f, t) = k * SumOver(w, t)}
<1>1. {} \in T
  BY SumEmpty
<1>2. ASSUME NEW t \in SUBSET S, NEW x \in t, t \ {x} \in T
      PROVE  t \in T
  <2>0. \A y \in S : f[y] \in Int
    OBVIOUS
  <2> DEFINE r == t \ {x}
  <2>1. r \in SUBSET S
    OBVIOUS
  <2>2. SumOver(w, t) = w[x] + SumOver(w, r)
    BY <2>0, SumTake
  <2>3. SumOver(w, r) \in Int /\ w[x] \in Int
    BY <2>0, <2>1, SumInt
  <2>4. SumOver(f, t) = f[x] + SumOver(f, r)
    BY <2>0, SumTake
  <2>5. SumOver(f, r) \in Int /\ f[x] \in Int
    BY <2>0, <2>1, SumInt
  <2>6. SumOver(f, r) = k * SumOver(w, r)
    BY <1>2
  <2>7. f[x] = k * w[x]
    OBVIOUS
  <2> HIDE DEF r
  <2>8. k * (w[x] + SumOver(w, r)) = k * w[x] + k * SumOver(w, r)
    BY <2>3
  <2> QED
    BY <2>2, <2>3, <2>4, <2>5, <2>6, <2>7, <2>8
<1>3. \A t \in SUBSET S : t \in T
  <2> HIDE DEF T
  <2> QED
    BY <1>1, <1>2, ElementSteps
<1> QED
  BY <1>3

(* A sum of equal terms. *)
LEMMA SumConst ==
  ASSUME NEW S, IsFiniteSet(S), NEW w, NEW k \in Int,
         \A y \in S : w[y] = k
  PROVE  SumOver(w, S) = k * Cardinality(S)
<1> DEFINE T == {t \in SUBSET S : SumOver(w, t) = k * Cardinality(t)}
<1>1. {} \in T
  BY SumEmpty, FS_EmptySet
<1>2. ASSUME NEW t \in SUBSET S, NEW x \in t, t \ {x} \in T
      PROVE  t \in T
  <2>0. \A y \in S : w[y] \in Int
    OBVIOUS
  <2> DEFINE r == t \ {x}
  <2>1. r \in SUBSET S
    OBVIOUS
  <2>2. SumOver(w, t) = w[x] + SumOver(w, r)
    BY <2>0, SumTake
  <2>3. SumOver(w, r) \in Int /\ w[x] \in Int
    BY <2>0, <2>1, SumInt
  <2>4. SumOver(w, r) = k * Cardinality(r)
    BY <1>2
  <2>5. Cardinality(t) = Cardinality(r) + 1 /\ Cardinality(r) \in Nat
    BY FS_Subset, FS_RemoveElement, FS_CardinalityType
  <2>6. w[x] = k
    OBVIOUS
  <2> HIDE DEF r
  <2>7. k * (Cardinality(r) + 1) = k + k * Cardinality(r)
    BY <2>5
  <2> QED
    BY <2>2, <2>3, <2>4, <2>5, <2>6, <2>7
<1>3. \A t \in SUBSET S : t \in T
  <2> HIDE DEF T
  <2> QED
    BY <1>1, <1>2, ElementSteps
<1> QED
  BY <1>3

(* Terms that are zero may be left out. *)
LEMMA SumDrop ==
  ASSUME NEW S, IsFiniteSet(S), NEW w, NEW U,
         \A y \in S : w[y] \in Int,
         \A y \in S : y \notin U => w[y] = 0
  PROVE  SumOver(w, S) = SumOver(w, S \cap U)
<1> DEFINE T == {t \in SUBSET S : SumOver(w, t) = SumOver(w, t \cap U)}
<1>1. {} \in T
  BY SumEmpty
<1>2. ASSUME NEW t \in SUBSET S, NEW x \in t, t \ {x} \in T
      PROVE  t \in T
  <2> DEFINE r == t \ {x}
  <2>1. r \in SUBSET S
    OBVIOUS
  <2>2. SumOver(w, t) = w[x] + SumOver(w, r)
    BY SumTake
  <2>3. SumOver(w, r) \in Int /\ w[x] \in Int
    BY <2>1, SumInt
  <2>4. SumOver(w, r) = SumOver(w, r \cap U)
    BY <1>2
  <2>5. SumOver(w, t) = SumOver(w, t \cap U)
    <3>1. CASE x \in U
      <4>1. t \cap U \in SUBSET S /\ x \in t \cap U /\ (t \cap U) \ {x} = r \cap U
        BY <3>1
      <4>2. SumOver(w, t \cap U) = w[x] + SumOver(w, (t \cap U) \ {x})
        BY <4>1, SumTake
      <4> QED
        BY <2>2, <2>4, <4>1, <4>2
    <3>2. CASE x \notin U
      <4>1. t \cap U = r \cap U /\ w[x] = 0
        BY <3>2
      <4>2. SumOver(w, t) = SumOver(w, r)
        <5> HIDE DEF r
        <5> QED
          BY <2>2, <2>3, <4>1
      <4> QED
        BY <2>4, <4>1, <4>2
    <3> QED
      BY <3>1, <3>2
  <2> QED
    BY <2>5
<1>3. \A t \in SUBSET S : t \in T
  <2> HIDE DEF T
  <2> QED
    BY <1>1, <1>2, ElementSteps
<1> QED
  BY <1>3

(* A sum of terms that are not negative is not negative, and it is        *)
(* positive if one term is.                                               *)
LEMMA SumNat ==
  ASSUME NEW S, IsFiniteSet(S), NEW w, \A y \in S : w[y] \in Nat
  PROVE  /\ SumOver(w, S) \in Nat
         /\ \A x \in S : w[x] <= SumOver(w, S)
<1> DEFINE z == [y \in S |-> 0]
<1>1. \A y \in S : w[y] \in Int /\ z[y] \in Int /\ z[y] <= w[y] /\ z[y] = 0
  OBVIOUS
<1> HIDE DEF z
<1>2. \A t \in SUBSET S : SumOver(z, t) <= SumOver(w, t)
  BY <1>1, SumMono
<1>3. \A t \in SUBSET S : SumOver(w, t) \in Int
  BY <1>1, SumInt
<1>4. ASSUME NEW t \in SUBSET S PROVE SumOver(w, t) \in Nat
  <2>1. IsFiniteSet(t) /\ Cardinality(t) \in Nat
    BY FS_Subset, FS_CardinalityType
  <2>2. SumOver(z, t) = 0 * Cardinality(t)
    BY <1>1, <2>1, SumConst
  <2> QED
    BY <1>2, <1>3, <2>1, <2>2
<1>5. ASSUME NEW x \in S PROVE w[x] <= SumOver(w, S)
  <2>1. SumOver(w, S) = w[x] + SumOver(w, S \ {x})
    BY <1>1, SumTake
  <2>2. SumOver(w, S \ {x}) \in Nat /\ w[x] \in Nat
    BY <1>4
  <2> QED
    BY <2>1, <2>2
<1> QED
  BY <1>4, <1>5

(* A sum of terms between two bounds. *)
LEMMA SumBetween ==
  ASSUME NEW S, IsFiniteSet(S), NEW w, NEW a \in Int, NEW b \in Int,
         \A y \in S : w[y] \in a..b
  PROVE  /\ SumOver(w, S) \in Int
         /\ a * Cardinality(S) <= SumOver(w, S)
         /\ SumOver(w, S) <= b * Cardinality(S)
<1> DEFINE low == [y \in S |-> a]
           high == [y \in S |-> b]
<1>1. \A y \in S : /\ w[y] \in Int /\ low[y] \in Int /\ high[y] \in Int
                   /\ low[y] = a /\ high[y] = b
                   /\ low[y] <= w[y] /\ w[y] <= high[y]
  OBVIOUS
<1> HIDE DEF low, high
<1>2. SumOver(low, S) = a * Cardinality(S)
  BY <1>1, SumConst
<1>3. SumOver(high, S) = b * Cardinality(S)
  BY <1>1, SumConst
<1>4. SumOver(low, S) <= SumOver(w, S)
  BY <1>1, SumMono
<1>5. SumOver(w, S) <= SumOver(high, S)
  BY <1>1, SumMono
<1>6. SumOver(w, S) \in Int
  BY <1>1, SumInt
<1> QED
  BY <1>2, <1>3, <1>4, <1>5, <1>6

(* A sum over two parts of a set. *)
LEMMA SumSplit ==
  ASSUME NEW S, IsFiniteSet(S), NEW U, NEW w, \A y \in S : w[y] \in Int
  PROVE  SumOver(w, S) = SumOver(w, S \cap U) + SumOver(w, S \ U)
<1> DEFINE f == [y \in S |-> IF y \in U THEN w[y] ELSE 0]
           g == [y \in S |-> IF y \in U THEN 0 ELSE w[y]]
<1>1. \A y \in S : /\ f[y] \in Int /\ g[y] \in Int /\ w[y] = f[y] + g[y]
                   /\ y \in U => f[y] = w[y] /\ g[y] = 0
                   /\ y \notin U => f[y] = 0 /\ g[y] = w[y]
  OBVIOUS
<1> HIDE DEF f, g
<1>2. IsFiniteSet(S \cap U) /\ IsFiniteSet(S \ U)
  BY FS_Intersection, FS_Difference
<1>3. SumOver(w, S) = SumOver(f, S) + SumOver(g, S)
  BY <1>1, SumAdd
<1>4. SumOver(f, S) = SumOver(f, S \cap U)
  BY <1>1, SumDrop
<1>5. SumOver(g, S) = SumOver(g, S \ U)
  <2>1. \A y \in S : y \notin S \ U => g[y] = 0
    BY <1>1
  <2>2. SumOver(g, S) = SumOver(g, S \cap (S \ U))
    BY <1>1, <2>1, SumDrop
  <2>3. S \cap (S \ U) = S \ U
    OBVIOUS
  <2> QED
    BY <2>2, <2>3
<1>6. SumOver(f, S \cap U) = SumOver(w, S \cap U)
  <2>1. \A y \in S \cap U : f[y] \in Int /\ f[y] = w[y]
    BY <1>1
  <2> QED
    BY <1>2, <2>1, SumSame
<1>7. SumOver(g, S \ U) = SumOver(w, S \ U)
  <2>1. \A y \in S \ U : g[y] \in Int /\ g[y] = w[y]
    BY <1>1
  <2> QED
    BY <1>2, <2>1, SumSame
<1> QED
  BY <1>3, <1>4, <1>5, <1>6, <1>7

-----------------------------------------------------------------------------
(* Largest and smallest elements *)

LEMMA MaxIs ==
  ASSUME NEW S, NEW x \in S, \A y \in S : x >= y
  PROVE  Max(S) \in S /\ \A y \in S : Max(S) >= y
<1>1. \E z \in S : \A y \in S : z >= y
  OBVIOUS
<1> QED
  BY <1>1 DEF Max

LEMMA MinIs ==
  ASSUME NEW S, NEW x \in S, \A y \in S : x <= y
  PROVE  Min(S) \in S /\ \A y \in S : Min(S) <= y
<1>1. \E z \in S : \A y \in S : z <= y
  OBVIOUS
<1> QED
  BY <1>1 DEF Min

(* A finite set of integers has a largest element. *)
LEMMA MaxFinite ==
  ASSUME NEW S, IsFiniteSet(S), S # {}, S \subseteq Int
  PROVE  Max(S) \in S /\ \A y \in S : Max(S) >= y
<1> DEFINE T == {t \in SUBSET S : t # {} => \E x \in t : \A y \in t : x >= y}
<1>1. {} \in T
  OBVIOUS
<1>2. ASSUME NEW t \in SUBSET S, NEW e \in t, t \ {e} \in T
      PROVE  t \in T
  <2>1. CASE t \ {e} = {}
    <3>1. \A y \in t : e >= y
      BY <2>1
    <3> QED
      BY <3>1
  <2>2. CASE t \ {e} # {}
    <3>1. PICK x \in t \ {e} : \A y \in t \ {e} : x >= y
      BY <1>2, <2>2
    <3>2. CASE e >= x
      <4>1. \A y \in t : e >= y
        BY <3>1, <3>2
      <4> QED
        BY <4>1
    <3>3. CASE ~ (e >= x)
      <4>1. x \in t /\ \A y \in t : x >= y
        BY <3>1, <3>3
      <4> QED
        BY <4>1
    <3> QED
      BY <3>2, <3>3
  <2> QED
    BY <2>1, <2>2
<1>3. \A t \in SUBSET S : t \in T
  <2> HIDE DEF T
  <2> QED
    BY <1>1, <1>2, ElementSteps
<1>4. PICK x \in S : \A y \in S : x >= y
  BY <1>3
<1> QED
  BY <1>4, MaxIs

(* The values of a function on a finite set. *)
LEMMA ImageFinite ==
  ASSUME NEW S, IsFiniteSet(S), NEW f
  PROVE  /\ IsFiniteSet({f[x] : x \in S})
         /\ Cardinality({f[x] : x \in S}) <= Cardinality(S)
<1> DEFINE h == [x \in S |-> f[x]]
           T == {f[x] : x \in S}
<1>1. h \in Surjection(S, T)
  BY DEF Surjection
<1> HIDE DEF h
<1> QED
  BY <1>1, FS_Surjection

(* Any set of natural numbers has a smallest element. *)
LEMMA MinNat ==
  ASSUME NEW S, S \subseteq Nat, S # {}
  PROVE  Min(S) \in S /\ \A y \in S : Min(S) <= y
<1>1. PICK x \in S : \A y \in S : x <= y
  BY LeastNat
<1> QED
  BY <1>1, MinIs

(* The larger of two numbers. *)
LEMMA MaxPair ==
  ASSUME NEW a \in Int, NEW b \in Int
  PROVE  Max({a, b}) = IF a >= b THEN a ELSE b
<1>1. CASE a >= b
  <2>1. \A y \in {a, b} : a >= y
    BY <1>1
  <2>2. Max({a, b}) \in {a, b} /\ \A y \in {a, b} : Max({a, b}) >= y
    BY <2>1, MaxIs
  <2> QED
    BY <1>1, <2>2
<1>2. CASE ~ (a >= b)
  <2>1. \A y \in {a, b} : b >= y
    BY <1>2
  <2>2. Max({a, b}) \in {a, b} /\ \A y \in {a, b} : Max({a, b}) >= y
    BY <2>1, MaxIs
  <2> QED
    BY <1>2, <2>2
<1> QED
  BY <1>1, <1>2
=============================================================================
