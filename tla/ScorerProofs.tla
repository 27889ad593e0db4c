---------------------------- MODULE ScorerProofs ----------------------------
(***************************************************************************)
(* What Scorer.Propose promises of a proposal, for any finite set of       *)
(* nodes, any weights and scores and any maximum step: it is a whole, no   *)
(* node moves further than the step, and none could have moved further.    *)
(***************************************************************************)
EXTENDS Scorer, DataTheorems

LEMMA TotalIsSum ==
  ASSUME NEW w, NEW S
  PROVE  Total(w, S) = SumOver(w, S)
BY DEF Total, SumOver

-----------------------------------------------------------------------------
(* Arithmetic of fractions *)

LEMMA ProductPositive ==
  ASSUME NEW x \in Nat \ {0}, NEW y \in Nat \ {0}
  PROVE  x * y \in Nat \ {0}
OBVIOUS

LEMMA ProductNat ==
  ASSUME NEW x \in Nat, NEW y \in Nat
  PROVE  x * y \in Nat
OBVIOUS

LEMMA ProductMono ==
  ASSUME NEW x \in Int, NEW y \in Int, NEW k \in Nat, x <= y
  PROVE  k * x <= k * y
OBVIOUS

(* Where a node goes: w of the current sum d, on the way to s of the target *)
(* sum t, by the fraction a over b.                                         *)
LEMMA GoesUp ==
  ASSUME NEW w \in Nat, NEW d \in Nat, NEW s \in Nat, NEW t \in Nat,
         NEW a \in Nat, NEW b \in Nat, a <= b
  PROVE  w * t * b + a * (s * d - w * t) \in Nat
<1>1. PICK c \in Nat : b = a + c
  <2>1. b - a \in Nat /\ b = a + (b - a)
    OBVIOUS
  <2> QED
    BY <2>1
<1>2. PICK p \in Nat : p = w * t
  BY ProductNat
<1>3. PICK q \in Nat : q = s * d
  BY ProductNat
<1>4. p * (a + c) + a * (q - p) = p * c + a * q
  OBVIOUS
<1>5. p * c \in Nat /\ a * q \in Nat
  BY ProductNat
<1> QED
  BY <1>1, <1>2, <1>3, <1>4, <1>5

(* The whole way: the node is at its target. *)
LEMMA GoesAllTheWay ==
  ASSUME NEW w \in Nat, NEW d \in Nat, NEW s \in Nat, NEW t \in Nat
  PROVE  (w * t * 1 + 1 * (s * d - w * t)) * t = s * (t * d * 1)
<1>1. PICK p \in Nat : p = w * t
  BY ProductNat
<1>2. PICK q \in Nat : q = s * d
  BY ProductNat
<1>3. p * 1 + 1 * (q - p) = q
  OBVIOUS
<1>4. (s * d) * t = s * (t * d * 1)
  OBVIOUS
<1> QED
  BY <1>1, <1>2, <1>3, <1>4

(* How far it moves, over d times the denominator of the proposal. *)
LEMMA GoesBy ==
  ASSUME NEW w \in Nat, NEW d \in Nat, NEW t \in Nat, NEW g \in Int,
         NEW a \in Nat, NEW b \in Nat
  PROVE  (w * t * b + a * g) * d - w * (t * d * b) = a * d * g
<1>1. (w * t * b + a * g) * d = w * t * b * d + a * g * d
  OBVIOUS
<1>2. w * t * b * d = w * (t * d * b)
  OBVIOUS
<1>3. a * g * d = a * d * g
  OBVIOUS
<1>4. w * t * b * d \in Int /\ a * d * g \in Int
  OBVIOUS
<1> QED
  BY <1>1, <1>2, <1>3, <1>4

LEMMA AbsOfProduct ==
  ASSUME NEW k \in Nat, NEW g \in Int
  PROVE  Abs(k * g) = k * Abs(g) /\ Abs(g) \in Nat
<1>1. CASE g >= 0
  <2>1. k * g \in Nat
    BY <1>1, ProductNat
  <2> QED
    BY <1>1, <2>1 DEF Abs
<1>2. CASE g < 0
  <2>1. k * (-g) = -(k * g)
    OBVIOUS
  <2>2. k * (-g) \in Nat
    BY <1>2, ProductNat
  <2>3. Abs(g) = -g
    BY <1>2 DEF Abs
  <2>4. Abs(k * g) = -(k * g)
    <3>1. CASE k * g < 0
      BY <3>1 DEF Abs
    <3>2. CASE k * g >= 0
      <4>1. k * g = 0
        BY <2>1, <2>2, <3>2
      <4> QED
        BY <4>1 DEF Abs
    <3> QED
      BY <3>1, <3>2
  <2> QED
    BY <1>2, <2>1, <2>3, <2>4
<1> QED
  BY <1>1, <1>2

-----------------------------------------------------------------------------
(* The operators of the model *)

(* What normalizedCurrent returns for nodes S: weights of S that are not   *)
(* negative and whose sum is the denominator.                              *)
Normal(c, S) ==
  /\ c.den \in Nat \ {0}
  /\ DOMAIN c.num \subseteq S
  /\ \A n \in S : WeightOf(c, n) \in Nat
  /\ SumOver([n \in S |-> WeightOf(c, n)], S) = c.den

LEMMA NormalizedCurrentNormal ==
  ASSUME NEW S, S \subseteq Nodes, S # {}, request \in [Nodes -> Nat]
  PROVE  Normal(NormalizedCurrent(S), S)
<1> DEFINE positive == {n \in S : request[n] > 0}
           c == NormalizedCurrent(S)
           v == [n \in S |-> WeightOf(c, n)]
<1>0. IsFiniteSet(S) /\ IsFiniteSet(positive) /\ positive \subseteq S
  <2>1. IsFiniteSet(S)
    BY ScorerAssumption, FS_Subset
  <2>2. positive \in SUBSET S
    OBVIOUS
  <2> QED
    BY <2>1, <2>2, FS_Subset
<1>1. CASE positive = {}
  <2>1. c.num = [n \in S |-> 1] /\ c.den = Cardinality(S)
    BY <1>1, Zenon DEF NormalizedCurrent
  <2>2. Cardinality(S) \in Nat \ {0}
    BY <1>0, FS_EmptySet, FS_CardinalityType
  <2>3. \A n \in S : WeightOf(c, n) = 1
    <3> HIDE DEF c
    <3> QED
      BY <2>1 DEF WeightOf
  <2>4. \A n \in S : v[n] = 1
    BY <2>3
  <2>5. SumOver(v, S) = 1 * Cardinality(S)
    <3> HIDE DEF v
    <3> QED
      BY <1>0, <2>4, SumConst
  <2>6. SumOver(v, S) = c.den
    BY <2>1, <2>2, <2>5
  <2>7. DOMAIN c.num \subseteq S
    BY <2>1
  <2>8. Normal(c, S)
    <3> HIDE DEF c
    <3> QED
      BY <2>1, <2>2, <2>3, <2>6, <2>7 DEF Normal
  <2> QED
    BY <2>8
<1>2. CASE positive # {}
  <2>1. c.num = [n \in positive |-> request[n]] /\ c.den = SumOver(request, positive)
    BY <1>2, TotalIsSum DEF NormalizedCurrent
  <2>2. \A n \in positive : request[n] \in Nat
    BY <1>0
  <2>3. PICK p \in positive : request[p] > 0
    BY <1>2
  <2>4. SumOver(request, positive) \in Nat /\ request[p] <= SumOver(request, positive)
    <3> HIDE DEF positive
    <3> QED
      BY <1>0, <2>2, SumNat
  <2>5. SumOver(request, positive) \in Nat \ {0}
    BY <2>2, <2>3, <2>4
  <2>6. \A n \in S : WeightOf(c, n) = IF n \in positive THEN request[n] ELSE 0
    <3> HIDE DEF c, positive
    <3> QED
      BY <2>1 DEF WeightOf
  <2>7. \A n \in S : WeightOf(c, n) \in Nat
    BY <2>2, <2>6
  <2>8. \A n \in S : v[n] \in Int /\ (n \notin positive => v[n] = 0)
    BY <2>6, <2>7
  <2>9. \A n \in positive : v[n] = request[n] /\ v[n] \in Int
    BY <1>0, <2>2, <2>6
  <2>10. SumOver(v, S) = SumOver(v, S \cap positive)
    <3> HIDE DEF v, positive
    <3> QED
      BY <1>0, <2>8, SumDrop
  <2>11. S \cap positive = positive
    OBVIOUS
  <2>12. SumOver(v, positive) = SumOver(request, positive)
    <3> HIDE DEF v, positive
    <3> QED
      BY <1>0, <2>9, SumSame
  <2>13. SumOver(v, S) = c.den
    BY <2>1, <2>10, <2>11, <2>12
  <2>14. DOMAIN c.num \subseteq S
    BY <2>1
  <2>15. Normal(c, S)
    <3> HIDE DEF c, positive
    <3> QED
      BY <2>1, <2>5, <2>7, <2>13, <2>14 DEF Normal
  <2> QED
    BY <2>15
<1> QED
  BY <1>1, <1>2

(* Where the loop and the move happen: a set of eligible nodes with        *)
(* normalised current weights and positive scores.                         *)
Placed ==
  /\ eligible \subseteq Nodes /\ eligible # {}
  /\ score \in [Nodes -> Nat \ {0}]
  /\ Normal(current, eligible)

LEMMA TargetPositive ==
  ASSUME Placed
  PROVE  /\ IsFiniteSet(eligible)
         /\ TargetSum = SumOver(score, eligible)
         /\ TargetSum \in Nat \ {0}
         /\ Unit \in Nat \ {0}
<1>1. IsFiniteSet(eligible)
  BY ScorerAssumption, FS_Subset DEF Placed
<1>2. TargetSum = SumOver(score, eligible)
  BY TotalIsSum DEF TargetSum
<1>3. \A n \in eligible : score[n] \in Nat /\ score[n] > 0
  BY DEF Placed
<1>4. PICK n \in eligible : TRUE
  BY DEF Placed
<1>5. SumOver(score, eligible) \in Nat /\ score[n] <= SumOver(score, eligible)
  BY <1>1, <1>3, SumNat
<1>6. TargetSum \in Nat \ {0}
  BY <1>2, <1>3, <1>5
<1>7. current.den \in Nat \ {0}
  BY DEF Placed, Normal
<1>8. Unit \in Nat \ {0}
  BY <1>6, <1>7, ProductPositive DEF Unit
<1> QED
  BY <1>1, <1>2, <1>6, <1>8

LEMMA GapInt ==
  ASSUME Placed, NEW n \in eligible
  PROVE  Gap(n) \in Int /\ Abs(Gap(n)) \in Nat
<1>1. score[n] \in Nat /\ current.den \in Nat /\ WeightOf(current, n) \in Nat /\ TargetSum \in Nat
  BY TargetPositive DEF Placed, Normal
<1>2. Gap(n) \in Int
  BY <1>1 DEF Gap
<1> QED
  BY <1>2 DEF Abs

(* What some nodes gain, others lose. *)
LEMMA GapsCancel ==
  ASSUME Placed
  PROVE  SumOver([n \in eligible |-> Gap(n)], eligible) = 0
<1> DEFINE d == current.den
           t == TargetSum
           w == [n \in eligible |-> WeightOf(current, n)]
           up == [n \in eligible |-> d * score[n]]
           down == [n \in eligible |-> (-t) * w[n]]
           gap == [n \in eligible |-> Gap(n)]
<1>0. IsFiniteSet(eligible) /\ d \in Nat /\ t \in Nat /\ -t \in Int
  BY TargetPositive DEF Placed, Normal
<1>1. \A n \in eligible : score[n] \in Int /\ w[n] \in Int /\ w[n] = WeightOf(current, n)
  BY DEF Placed, Normal
<1>2. SumOver(w, eligible) = d
  BY DEF Placed, Normal
<1>3. SumOver(score, eligible) = t
  BY TargetPositive
<1>4. \A n \in eligible : up[n] = d * score[n] /\ down[n] = (-t) * w[n] /\ gap[n] = Gap(n)
  OBVIOUS
<1>5. \A n \in eligible : Gap(n) = score[n] * d - WeightOf(current, n) * t
  BY DEF Gap
<1> HIDE DEF d, t, w, up, down, gap
<1>6. \A n \in eligible : up[n] \in Int /\ down[n] \in Int /\ gap[n] = up[n] + down[n]
  <2> TAKE n \in eligible
  <2>1. up[n] \in Int /\ down[n] \in Int
    BY <1>0, <1>1, <1>4
  <2>2. (-t) * w[n] = -(w[n] * t) /\ d * score[n] = score[n] * d
    BY <1>0, <1>1
  <2> QED
    BY <1>0, <1>1, <1>4, <1>5, <2>1, <2>2
<1>7. SumOver(up, eligible) = d * t
  BY <1>0, <1>1, <1>3, <1>4, SumScale
<1>8. SumOver(down, eligible) = (-t) * d
  BY <1>0, <1>1, <1>2, <1>4, SumScale
<1>9. SumOver(gap, eligible) = SumOver(up, eligible) + SumOver(down, eligible)
  BY <1>0, <1>6, SumAdd
<1>10. d * t + (-t) * d = 0
  BY <1>0
<1>11. SumOver(gap, eligible) = 0
  BY <1>7, <1>8, <1>9, <1>10
<1> QED
  BY <1>11 DEF gap

-----------------------------------------------------------------------------
(* The inductive invariant *)

One == [num |-> 1, den |-> 1]

(* Weights have been computed, and are the ones that Compare judges. *)
Arrived == line = "compare" \/ outcome \in {"no benefit", "proposed"}

Underway == line = "limit" \/ Arrived

(* Lambda is within the limit of every node visited. *)
LimitsMet ==
  \A n \in eligible \ remaining :
     Exceeds(n) => lambda.num * StepOver(n).den <= StepOver(n).num * lambda.den

(* Lambda is the whole way or the limit of a node visited. *)
LimitUsed == lambda = One \/ \E n \in eligible \ remaining : lambda = StepOver(n)

Inv ==
  /\ TypeOK
  /\ line \in {"filter", "normalise"} => lambda = One
  /\ line = "filter" => DOMAIN current.num = {} /\ remaining = {}
  /\ outcome # "pending" => line = "done"
  /\ (line = "normalise" \/ Underway) => Cardinality(eligible) >= 2
  /\ Underway => Placed /\ LimitsMet /\ LimitUsed
  /\ Arrived => remaining = {} /\ proposed = Moved

LEMMA Frame ==
  ASSUME UNCHANGED <<score, eligible, current>>
  PROVE  /\ TargetSum' = TargetSum
         /\ Unit' = Unit
         /\ \A n : Gap(n)' = Gap(n)
         /\ \A n : StepOver(n)' = StepOver(n)
         /\ \A n : Exceeds(n)' <=> Exceeds(n)
         /\ Placed' <=> Placed
<1>1. TargetSum' = TargetSum
  BY DEF TargetSum
<1>2. Unit' = Unit
  BY <1>1 DEF Unit
<1>3. \A n : Gap(n)' = Gap(n)
  BY <1>1 DEF Gap
<1>4. \A n : StepOver(n)' = StepOver(n)
  BY <1>2, <1>3 DEF StepOver
<1>5. \A n : Exceeds(n)' <=> Exceeds(n)
  BY <1>4 DEF Exceeds
<1>6. Placed' <=> Placed
  BY DEF Placed
<1> QED
  BY <1>1, <1>2, <1>3, <1>4, <1>5, <1>6

(* The limit of a node beyond the step: a fraction between zero and one. *)
LEMMA StepOverFraction ==
  ASSUME Placed, NEW n \in eligible
  PROVE  /\ StepOver(n).num = StepNum * Unit
         /\ StepOver(n).den = StepDen * Abs(Gap(n))
         /\ StepOver(n).num \in Nat \ {0}
         /\ StepOver(n).den \in Nat
         /\ Exceeds(n) <=> StepOver(n).num < StepOver(n).den
<1>1. StepOver(n).num = StepNum * Unit /\ StepOver(n).den = StepDen * Abs(Gap(n))
  BY DEF StepOver
<1>2. StepNum * Unit \in Nat \ {0}
  BY ScorerAssumption, TargetPositive, ProductPositive
<1>3. StepDen * Abs(Gap(n)) \in Nat
  BY ScorerAssumption, GapInt, ProductNat
<1> QED
  BY <1>1, <1>2, <1>3 DEF Exceeds

LEMMA InvInit == Init => Inv
<1> SUFFICES ASSUME Init PROVE Inv
  OBVIOUS
<1> USE ScorerAssumption
<1>1. quality \in [Nodes -> Quality] /\ eligible \subseteq Nodes /\ remaining \subseteq eligible
  BY DEF Init
<1>2. request \in [Nodes -> Nat]
  BY DEF Init
<1>3. score \in [Nodes -> Nat \ {0}]
  BY DEF Init, Scores
<1>4. DOMAIN current.num \subseteq eligible
  BY DEF Init, None
<1>5. current.den \in Nat \ {0} /\ proposed.den \in Nat \ {0}
  BY DEF Init, None
<1>6. lambda \in [num : Nat \ {0}, den : Nat \ {0}] /\ lambda.num <= lambda.den /\ lambda = One
  BY DEF Init, One
<1>7. line = "filter" /\ outcome = "pending" /\ outcome \in Outcomes
  BY DEF Init, Outcomes
<1>8. DOMAIN current.num = {} /\ remaining = {}
  BY DEF Init, None
<1> QED
  BY <1>1, <1>2, <1>3, <1>4, <1>5, <1>6, <1>7, <1>8 DEF Inv, TypeOK, Underway, Arrived

(* One turn of the loop: a limit that is smaller than lambda replaces it,  *)
(* and is then within the limits of the nodes before.                      *)
LEMMA LimitKeeps ==
  ASSUME Inv, NEW n \in Nodes, Limit(n)
  PROVE  Inv'
<1>0. /\ Placed /\ LimitsMet /\ LimitUsed
      /\ line = "limit" /\ n \in eligible /\ n \in remaining /\ outcome = "pending"
  BY DEF Inv, Limit, Underway, TypeOK
<1>1. UNCHANGED <<score, eligible, current>>
  BY DEF Limit, inputs
<1>2. /\ lambda \in [num : Nat \ {0}, den : Nat \ {0}] /\ lambda.num <= lambda.den
      /\ remaining \subseteq eligible
  BY DEF Inv, TypeOK
<1>3. /\ StepOver(n).num \in Nat \ {0} /\ StepOver(n).den \in Nat
      /\ Exceeds(n) <=> StepOver(n).num < StepOver(n).den
  BY <1>0, StepOverFraction
<1>4. lambda' = lambda \/ (lambda' = StepOver(n) /\ Exceeds(n) /\ LessFraction(StepOver(n), lambda))
  BY DEF Limit, Limited
<1>5. lambda' \in [num : Nat \ {0}, den : Nat \ {0}] /\ lambda'.num <= lambda'.den
  <2>1. CASE lambda' = lambda
    BY <1>2, <2>1
  <2>2. CASE lambda' = StepOver(n) /\ Exceeds(n)
    <3>1. StepOver(n) = [num |-> StepOver(n).num, den |-> StepOver(n).den]
      BY DEF StepOver
    <3>2. StepOver(n).den \in Nat \ {0} /\ StepOver(n).num <= StepOver(n).den
      BY <1>3, <2>2
    <3> QED
      BY <1>3, <2>2, <3>1, <3>2
  <2> QED
    BY <1>4, <2>1, <2>2
<1>6. remaining' = remaining \ {n} /\ UNCHANGED <<quality, request, proposed, outcome, line>>
  BY DEF Limit, inputs
<1>7. TypeOK'
  BY <1>1, <1>2, <1>5, <1>6 DEF Inv, TypeOK
<1>8. Placed'
  BY <1>0, <1>1, Frame
<1>9. ASSUME NEW k \in eligible \ remaining', Exceeds(k)
      PROVE  lambda'.num * StepOver(k).den <= StepOver(k).num * lambda'.den
  <2>0. /\ k \in eligible
        /\ StepOver(k).num \in Nat \ {0} /\ StepOver(k).den \in Nat \ {0}
        /\ StepOver(k).num < StepOver(k).den
    BY <1>0, <1>9, StepOverFraction
  <2> DEFINE x == StepOver(k).num
             y == StepOver(k).den
             p == StepOver(n).num
             q == StepOver(n).den
             a == lambda.num
             b == lambda.den
  <2>1. x \in Nat \ {0} /\ y \in Nat \ {0} /\ p \in Nat \ {0} /\ q \in Nat
        /\ a \in Nat \ {0} /\ b \in Nat \ {0}
    BY <1>2, <1>3, <2>0
  <2>2. CASE k # n
    <3>1. a * y <= x * b
      BY <1>0, <1>6, <1>9, <2>0, <2>2 DEF LimitsMet
    <3>2. CASE lambda' = lambda
      BY <3>1, <3>2
    <3>3. CASE lambda' = StepOver(n) /\ LessFraction(StepOver(n), lambda)
      <4>1. p * b < a * q
        BY <3>3 DEF LessFraction
      <4> HIDE DEF x, y, p, q, a, b
      <4>2. y * (p * b) <= y * (a * q)
        BY <2>1, <4>1, ProductMono
      <4>3. q * (a * y) <= q * (x * b)
        BY <2>1, <3>1, ProductMono
      <4>4. y * (a * q) = q * (a * y) /\ y * (p * b) = b * (p * y) /\ q * (x * b) = b * (x * q)
        BY <2>1
      <4>5. b * (p * y) <= b * (x * q)
        BY <2>1, <4>2, <4>3, <4>4
      <4>6. p * y <= x * q
        BY <2>1, <4>5
      <4> QED
        BY <3>3, <4>6 DEF x, y, p, q
    <3> QED
      BY <1>4, <3>2, <3>3
  <2>3. CASE k = n
    <3>1. CASE lambda' = StepOver(n)
      <4>1. p * q <= p * q
        BY <2>1
      <4> QED
        BY <2>3, <3>1, <4>1
    <3>2. CASE lambda' = lambda /\ ~ LessFraction(StepOver(n), lambda)
      <4>1. a * q <= p * b
        BY <2>1, <3>2 DEF LessFraction
      <4> QED
        BY <2>3, <3>2, <4>1
    <3>3. lambda' = StepOver(n) \/ (lambda' = lambda /\ ~ LessFraction(StepOver(n), lambda))
      BY <1>9, <2>3 DEF Limit, Limited
    <3> QED
      BY <3>1, <3>2, <3>3
  <2> QED
    BY <2>2, <2>3
<1>10. LimitsMet'
  BY <1>1, <1>9, Frame DEF LimitsMet
<1>11. LimitUsed'
  <2>1. CASE lambda' = lambda
    <3>1. CASE lambda = One
      BY <2>1, <3>1 DEF LimitUsed, One
    <3>2. CASE \E k \in eligible \ remaining : lambda = StepOver(k)
      <4>1. PICK k \in eligible \ remaining : lambda = StepOver(k)
        BY <3>2
      <4>2. k \in eligible' \ remaining' /\ lambda' = StepOver(k)'
        BY <1>1, <1>6, <2>1, <4>1, Frame
      <4> QED
        BY <4>2 DEF LimitUsed
    <3> QED
      BY <1>0, <3>1, <3>2 DEF LimitUsed
  <2>2. CASE lambda' = StepOver(n)
    <3>1. n \in eligible' \ remaining' /\ lambda' = StepOver(n)'
      BY <1>0, <1>1, <1>6, <2>2, Frame
    <3> QED
      BY <3>1 DEF LimitUsed
  <2> QED
    BY <1>4, <2>1, <2>2
<1>12. ~ Arrived' /\ line' = "limit" /\ outcome' = "pending"
  BY <1>0, <1>6 DEF Arrived
<1>13. Cardinality(eligible') >= 2
  BY <1>0, <1>1 DEF Inv, Underway
<1> QED
  BY <1>7, <1>8, <1>10, <1>11, <1>12, <1>13 DEF Inv

LEMMA InvNext == Inv /\ [Next]_vars => Inv'
<1> SUFFICES ASSUME Inv, [Next]_vars PROVE Inv'
  OBVIOUS
<1>1. CASE Refuse
  <2>1. outcome' \in {"future", "stale", "insufficient"} /\ line = "filter" /\ line' = "done"
    BY <1>1 DEF Refuse
  <2>2. UNCHANGED <<quality, request, score, eligible, current, lambda, remaining, proposed>>
    BY <1>1 DEF Refuse, inputs
  <2>3. TypeOK'
    BY <2>1, <2>2 DEF Inv, TypeOK, Outcomes
  <2>4. ~ Underway'
    BY <2>1 DEF Underway, Arrived
  <2> QED
    BY <2>1, <2>3, <2>4 DEF Inv, Underway
<1>2. CASE Filter
  <2>1. /\ line = "filter" /\ line' = "normalise" /\ eligible' = Are("fit")
        /\ Cardinality(eligible') >= 2
        /\ UNCHANGED <<quality, request, score, current, lambda, remaining, proposed, outcome>>
    BY <1>2 DEF Filter, inputs
  <2>2. outcome = "pending" /\ lambda = One
    BY <2>1 DEF Inv
  <2>3. eligible' \subseteq Nodes
    BY <2>1 DEF Are
  <2>4. DOMAIN current.num = {} /\ remaining = {}
    BY <2>1 DEF Inv
  <2>5. TypeOK'
    BY <2>1, <2>3, <2>4 DEF Inv, TypeOK
  <2>6. ~ Underway' /\ lambda' = One
    BY <2>1, <2>2 DEF Underway, Arrived, One
  <2> QED
    BY <2>1, <2>2, <2>5, <2>6 DEF Inv, Underway
<1>3. CASE Normalise
  <2>1. /\ line = "normalise" /\ line' = "limit" /\ current' = NormalizedCurrent(eligible)
        /\ remaining' = eligible
        /\ UNCHANGED <<quality, request, score, eligible, lambda, proposed, outcome>>
    BY <1>3 DEF Normalise, inputs
  <2>2. outcome = "pending" /\ lambda = One /\ Cardinality(eligible) >= 2 /\ TypeOK
    BY <2>1 DEF Inv
  <2>3. eligible # {} /\ eligible \subseteq Nodes
    BY <2>2, FS_EmptySet DEF TypeOK
  <2>4. Normal(current', eligible)
    BY <2>1, <2>2, <2>3, NormalizedCurrentNormal DEF TypeOK
  <2>5. TypeOK'
    BY <2>1, <2>2, <2>4 DEF TypeOK, Normal
  <2>6. Placed'
    BY <2>1, <2>2, <2>3, <2>4 DEF Placed, TypeOK
  <2>7. LimitsMet'
    BY <2>1 DEF LimitsMet
  <2>8. LimitUsed'
    BY <2>1, <2>2 DEF LimitUsed, One
  <2>9. ~ Arrived' /\ Cardinality(eligible') >= 2
    BY <2>1, <2>2 DEF Arrived
  <2> QED
    BY <2>1, <2>2, <2>5, <2>6, <2>7, <2>8, <2>9 DEF Inv
<1>4. CASE \E n \in Nodes : Limit(n)
  BY <1>4, LimitKeeps
<1>5. CASE Move
  <2>1. /\ line = "limit" /\ line' = "compare" /\ remaining = {} /\ proposed' = Moved
        /\ UNCHANGED <<quality, request, score, eligible, current, lambda, remaining, outcome>>
    BY <1>5 DEF Move, inputs
  <2>2. /\ outcome = "pending" /\ Cardinality(eligible) >= 2
        /\ TypeOK /\ Placed /\ LimitsMet /\ LimitUsed
    BY <2>1 DEF Inv, Underway
  <2>3. proposed'.den = Unit * lambda.den
    BY <2>1 DEF Moved
  <2>4. proposed'.den \in Nat \ {0}
    <3>1. lambda.den \in Nat \ {0}
      BY <2>2 DEF TypeOK
    <3> QED
      BY <2>2, <2>3, <3>1, TargetPositive, ProductPositive
  <2>5. TypeOK'
    BY <2>1, <2>2, <2>4 DEF TypeOK
  <2>6. Placed' /\ LimitsMet' /\ LimitUsed'
    BY <2>1, <2>2, Frame DEF LimitsMet, LimitUsed, One
  <2>7. Moved' = Moved
    BY <2>1, Frame DEF Moved
  <2> QED
    BY <2>1, <2>2, <2>5, <2>6, <2>7 DEF Inv
<1>6. CASE Compare
  <2>1. /\ line = "compare" /\ line' = "done" /\ outcome' \in {"no benefit", "proposed"}
        /\ UNCHANGED <<quality, request, score, eligible, current, lambda, remaining, proposed>>
    BY <1>6 DEF Compare, inputs
  <2>2. /\ Cardinality(eligible) >= 2 /\ TypeOK /\ Placed /\ LimitsMet /\ LimitUsed
        /\ remaining = {} /\ proposed = Moved
    BY <2>1 DEF Inv, Underway, Arrived
  <2>3. TypeOK'
    BY <2>1, <2>2 DEF TypeOK, Outcomes
  <2>4. Placed' /\ LimitsMet' /\ LimitUsed'
    BY <2>1, <2>2, Frame DEF LimitsMet, LimitUsed, One
  <2>5. Moved' = Moved
    BY <2>1, Frame DEF Moved
  <2> QED
    BY <2>1, <2>2, <2>3, <2>4, <2>5 DEF Inv
<1>7. CASE UNCHANGED vars
  <2>1. UNCHANGED <<quality, request, score, eligible, current, lambda, remaining,
                    proposed, outcome, line>>
    BY <1>7 DEF vars
  <2>2. TypeOK'
    BY <2>1 DEF Inv, TypeOK
  <2>3. /\ Placed' <=> Placed
        /\ LimitsMet' <=> LimitsMet
        /\ LimitUsed' <=> LimitUsed
        /\ Moved' = Moved
    BY <2>1, Frame DEF LimitsMet, LimitUsed, One, Moved
  <2> QED
    BY <2>1, <2>2, <2>3 DEF Inv, Underway, Arrived, One
<1> QED
  BY <1>1, <1>2, <1>3, <1>4, <1>5, <1>6, <1>7 DEF Next

(* The locals of Propose stay well formed: the divisions by the sum of the *)
(* scores, by the sum of the weights and by the gap of a node are never by *)
(* zero, and the fraction of the way is above zero and at most one.        *)
THEOREM TypeCorrect == Spec => []TypeOK
<1>1. Inv => TypeOK
  BY DEF Inv
<1> QED
  BY <1>1, InvInit, InvNext, PTL DEF Spec

LEMMA SpecInv == Spec => []Inv
BY InvInit, InvNext, PTL DEF Spec

-----------------------------------------------------------------------------
(* What the invariant says of a proposal *)

LEMMA MovedTo ==
  ASSUME Inv, Arrived
  PROVE  /\ DOMAIN proposed.num = eligible
         /\ proposed.den = Unit * lambda.den
         /\ \A n \in eligible :
               proposed.num[n] = WeightOf(current, n) * TargetSum * lambda.den
                                   + lambda.num * Gap(n)
<1>1. proposed = Moved
  BY DEF Inv
<1> QED
  BY <1>1 DEF Moved

LEMMA InvWhole == Inv => ProposedWhole
<1> SUFFICES ASSUME Inv, outcome = "proposed"
             PROVE  /\ Cardinality(DOMAIN proposed.num) >= 2
                    /\ \A n \in DOMAIN proposed.num : proposed.num[n] >= 0
                    /\ Total(proposed.num, DOMAIN proposed.num) = proposed.den
  BY DEF ProposedWhole
<1>0. Arrived /\ Underway /\ Placed /\ Cardinality(eligible) >= 2
  BY DEF Arrived, Underway, Inv
<1> DEFINE a == lambda.num
           b == lambda.den
           t == TargetSum
           d == current.den
           w == [n \in eligible |-> WeightOf(current, n)]
           gap == [n \in eligible |-> Gap(n)]
           stay == [n \in eligible |-> (t * b) * w[n]]
           go == [n \in eligible |-> a * gap[n]]
           p == proposed.num
<1>1. a \in Nat /\ b \in Nat /\ a <= b
  BY DEF Inv, TypeOK
<1>2. IsFiniteSet(eligible) /\ t \in Nat /\ d \in Nat
  BY <1>0, TargetPositive DEF Placed, Normal
<1>3. \A n \in eligible : /\ w[n] = WeightOf(current, n) /\ gap[n] = Gap(n)
                          /\ stay[n] = (t * b) * w[n] /\ go[n] = a * gap[n]
  OBVIOUS
<1>4. \A n \in eligible : w[n] \in Nat /\ gap[n] \in Int /\ score[n] \in Nat
  BY <1>0, GapInt DEF Placed, Normal
<1>5. \A n \in eligible : gap[n] = score[n] * d - w[n] * t
  BY DEF Gap
<1>6. DOMAIN p = eligible /\ \A n \in eligible : p[n] = w[n] * t * b + a * gap[n]
  BY <1>0, MovedTo
<1>7. SumOver(w, eligible) = d
  BY <1>0 DEF Placed, Normal
<1>8. SumOver(gap, eligible) = 0
  BY <1>0, GapsCancel
<1>9. proposed.den = (t * d) * b
  BY <1>0, MovedTo DEF Unit
<1>10. Total(p, eligible) = SumOver(p, eligible)
  BY TotalIsSum
<1> HIDE DEF a, b, t, d, w, gap, stay, go, p
<1>11. ASSUME NEW n \in eligible PROVE p[n] >= 0
  <2>1. w[n] * t * b + a * (score[n] * d - w[n] * t) \in Nat
    BY <1>1, <1>2, <1>4, GoesUp
  <2> QED
    BY <1>5, <1>6, <2>1
<1>12. t * b \in Int
  BY <1>1, <1>2
<1>13. \A n \in eligible : stay[n] \in Int /\ go[n] \in Int /\ p[n] = stay[n] + go[n]
  <2> TAKE n \in eligible
  <2>1. w[n] * t * b = (t * b) * w[n]
    BY <1>1, <1>2, <1>4
  <2>2. (t * b) * w[n] \in Int /\ a * gap[n] \in Int
    BY <1>1, <1>4, <1>12
  <2> QED
    BY <1>3, <1>6, <2>1, <2>2
<1>14. SumOver(stay, eligible) = (t * b) * d
  <2>1. PICK k \in Int : k = t * b
    BY <1>12
  <2>2. \A n \in eligible : w[n] \in Int /\ stay[n] = k * w[n]
    BY <1>3, <1>4, <2>1
  <2>3. SumOver(stay, eligible) = k * SumOver(w, eligible)
    BY <1>2, <2>2, SumScale
  <2> QED
    BY <1>7, <2>1, <2>3
<1>15. SumOver(go, eligible) = a * 0
  <2>1. \A n \in eligible : gap[n] \in Int /\ go[n] = a * gap[n]
    BY <1>3, <1>4
  <2>2. SumOver(go, eligible) = a * SumOver(gap, eligible)
    BY <1>1, <1>2, <2>1, SumScale
  <2> QED
    BY <1>8, <2>2
<1>16. SumOver(p, eligible) = SumOver(stay, eligible) + SumOver(go, eligible)
  BY <1>2, <1>13, SumAdd
<1>17. a * 0 = 0 /\ (t * b) * d = (t * d) * b /\ (t * b) * d \in Int
  BY <1>1, <1>2
<1>18. SumOver(p, eligible) = (t * d) * b
  BY <1>14, <1>15, <1>16, <1>17
<1>19. DOMAIN p = eligible /\ Total(p, DOMAIN p) = proposed.den
  BY <1>6, <1>9, <1>10, <1>18
<1>20. Cardinality(DOMAIN p) >= 2 /\ \A n \in DOMAIN p : p[n] >= 0
  BY <1>0, <1>6, <1>11
<1> QED
  BY <1>19, <1>20 DEF p

(* How far a proposal moves a node: its share of the gap. *)
LEMMA MovesBy ==
  ASSUME Inv, Arrived, NEW n \in eligible
  PROVE  /\ Moves(n) = lambda.num * current.den * Abs(Gap(n))
         /\ proposed.den = Unit * lambda.den
         /\ Abs(Gap(n)) \in Nat
<1>0. Placed
  BY DEF Inv, Underway
<1> DEFINE a == lambda.num
           b == lambda.den
           t == TargetSum
           d == current.den
           w == WeightOf(current, n)
           g == Gap(n)
           p == proposed.num[n]
<1>1. a \in Nat /\ b \in Nat /\ t \in Nat /\ d \in Nat /\ w \in Nat /\ g \in Int
  BY <1>0, TargetPositive, GapInt DEF Inv, TypeOK, Placed, Normal
<1>2. p = w * t * b + a * g /\ proposed.den = (t * d) * b
  BY MovedTo DEF Unit
<1>3. Moves(n) = Abs(p * d - w * proposed.den)
  BY DEF Moves
<1>4. proposed.den = Unit * lambda.den
  BY MovedTo
<1> HIDE DEF a, b, t, d, w, g, p
<1>5. (w * t * b + a * g) * d - w * (t * d * b) = (a * d) * g
  BY <1>1, GoesBy
<1>6. a * d \in Nat
  BY <1>1, ProductNat
<1>7. Abs((a * d) * g) = (a * d) * Abs(g) /\ Abs(g) \in Nat
  BY <1>1, <1>6, AbsOfProduct
<1>8. Moves(n) = (a * d) * Abs(g)
  BY <1>2, <1>3, <1>5, <1>7
<1> QED
  BY <1>4, <1>7, <1>8 DEF a, d, g

LEMMA InvBounded == Inv => StepBounded
<1> SUFFICES ASSUME Inv, outcome = "proposed", NEW n \in eligible
             PROVE  Moves(n) * StepDen <= StepNum * current.den * proposed.den
  BY DEF StepBounded
<1>0. Arrived /\ Underway /\ Placed /\ LimitsMet /\ remaining = {}
  BY DEF Arrived, Underway, Inv
<1> DEFINE a == lambda.num
           b == lambda.den
           d == current.den
           u == Unit
           g == Abs(Gap(n))
<1>1. Moves(n) = a * d * g /\ proposed.den = u * b /\ g \in Nat
  BY <1>0, MovesBy
<1>2. a \in Nat /\ b \in Nat /\ a <= b /\ d \in Nat /\ u \in Nat
  BY <1>0, TargetPositive DEF Inv, TypeOK
<1>3. StepNum \in Nat /\ StepDen \in Nat
  BY ScorerAssumption
<1>4. a * (StepDen * g) <= (StepNum * u) * b
  <2>1. /\ StepOver(n).num = StepNum * u /\ StepOver(n).den = StepDen * g
        /\ Exceeds(n) <=> StepOver(n).num < StepOver(n).den
    BY <1>0, StepOverFraction
  <2>2. CASE Exceeds(n)
    BY <1>0, <2>1, <2>2 DEF LimitsMet
  <2>3. CASE ~ Exceeds(n)
    <3> HIDE DEF a, b, d, u, g
    <3>1. StepNum * u \in Nat /\ StepDen * g \in Nat
      BY <1>1, <1>2, <1>3, ProductNat
    <3>2. StepDen * g <= StepNum * u
      BY <2>1, <2>3, <3>1
    <3>3. a * (StepDen * g) <= a * (StepNum * u)
      BY <1>2, <3>1, <3>2, ProductMono
    <3>4. (StepNum * u) * a <= (StepNum * u) * b
      BY <1>2, <3>1, ProductMono
    <3>5. (StepNum * u) * a = a * (StepNum * u)
      BY <1>2, <3>1
    <3> QED
      BY <1>2, <3>1, <3>3, <3>4, <3>5
  <2> QED
    BY <2>2, <2>3
<1> HIDE DEF a, b, d, u, g
<1>5. d * (a * (StepDen * g)) <= d * ((StepNum * u) * b)
  BY <1>1, <1>2, <1>3, <1>4, ProductMono
<1>6. (a * d * g) * StepDen = d * (a * (StepDen * g))
  BY <1>1, <1>2, <1>3
<1>7. StepNum * d * (u * b) = d * ((StepNum * u) * b)
  BY <1>1, <1>2, <1>3
<1>8. Moves(n) * StepDen <= StepNum * d * proposed.den
  <2>1. Moves(n) * StepDen = d * (a * (StepDen * g))
    BY <1>1, <1>6
  <2>2. StepNum * d * proposed.den = d * ((StepNum * u) * b)
    BY <1>1, <1>7
  <2> QED
    BY <1>5, <2>1, <2>2
<1> QED
  BY <1>8 DEF d

LEMMA InvTight == Inv => StepTight
<1> SUFFICES ASSUME Inv, outcome = "proposed"
             PROVE  \/ \A n \in eligible : proposed.num[n] * TargetSum = score[n] * proposed.den
                    \/ \E n \in eligible :
                          Moves(n) * StepDen = StepNum * current.den * proposed.den
  BY DEF StepTight
<1>0. Arrived /\ Underway /\ Placed /\ LimitUsed /\ remaining = {}
  BY DEF Arrived, Underway, Inv
<1>1. CASE lambda = One
  <2>1. ASSUME NEW n \in eligible
        PROVE  proposed.num[n] * TargetSum = score[n] * proposed.den
    <3> DEFINE w == WeightOf(current, n)
               d == current.den
               s == score[n]
               t == TargetSum
    <3>1. lambda.num = 1 /\ lambda.den = 1
      BY <1>1 DEF One
    <3>2. w \in Nat /\ d \in Nat /\ s \in Nat /\ t \in Nat
      BY <1>0, TargetPositive DEF Placed, Normal
    <3>3. proposed.num[n] = w * t * 1 + 1 * (s * d - w * t) /\ proposed.den = t * d * 1
      BY <1>0, <3>1, MovedTo DEF Unit, Gap
    <3> HIDE DEF w, d, s, t
    <3>4. (w * t * 1 + 1 * (s * d - w * t)) * t = s * (t * d * 1)
      BY <3>2, GoesAllTheWay
    <3>5. proposed.num[n] * t = s * proposed.den
      BY <3>3, <3>4
    <3> QED
      BY <3>5 DEF s, t
  <2> QED
    BY <2>1
<1>2. CASE \E n \in eligible : lambda = StepOver(n)
  <2>1. PICK n \in eligible : lambda = StepOver(n)
    BY <1>2
  <2> DEFINE d == current.den
             u == Unit
             g == Abs(Gap(n))
  <2>2. lambda.num = StepNum * u /\ lambda.den = StepDen * g
    BY <1>0, <2>1, StepOverFraction
  <2>3. Moves(n) = (StepNum * u) * d * g /\ proposed.den = u * (StepDen * g) /\ g \in Nat
    BY <1>0, <2>2, MovesBy
  <2>4. d \in Nat /\ u \in Nat /\ StepNum \in Nat /\ StepDen \in Nat
    BY <1>0, ScorerAssumption, TargetPositive DEF Inv, TypeOK
  <2> HIDE DEF d, u, g
  <2>5. ((StepNum * u) * d * g) * StepDen = StepNum * d * (u * (StepDen * g))
    BY <2>3, <2>4
  <2>6. Moves(n) * StepDen = StepNum * d * proposed.den
    BY <2>3, <2>5
  <2> QED
    BY <2>6 DEF d
<1> QED
  BY <1>0, <1>1, <1>2 DEF LimitUsed

(* contracts/compatibility.md, for any request: what Propose returns is a  *)
(* share for each of at least two nodes, none negative, and the shares sum *)
(* to one exactly, also when the request gave traffic to other nodes.      *)
THEOREM Whole == Spec => []ProposedWhole
BY SpecInv, InvWhole, PTL

(* No proposal moves a node by more than the maximum step, for any number  *)
(* of nodes and whatever order Go ranges over the map of targets in.       *)
THEOREM Bounded == Spec => []StepBounded
BY SpecInv, InvBounded, PTL

(* And none is more timid than the step asks for: it is the target or some *)
(* node moves by the whole step.                                           *)
THEOREM Tight == Spec => []StepTight
BY SpecInv, InvTight, PTL
=============================================================================
