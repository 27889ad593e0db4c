------------------------------- MODULE Scorer -------------------------------
(***************************************************************************)
(* services/recommendation-api, Scorer.Propose: from the latest metrics of *)
(* the nodes, the weights of the request and the signals to bounded        *)
(* weights.  A weight is an exact fraction; the penalties that decide a    *)
(* node's score (a floating point sum of normalised metrics and of the     *)
(* severity of its signal) and the comparison with the benefit margin are  *)
(* free choices.  The loop that limits the step ranges over a Go map, in   *)
(* an order that is different from run to run.                             *)
(***************************************************************************)
EXTENDS Integers, FiniteSets, FiniteSetsExt

CONSTANTS Nodes,
          MaxWeight,       \* bound: largest weight of a request
          MaxScore,        \* bound: largest score of a node
          StepNum, StepDen \* MaximumWeightStep, a fraction

ASSUME ScorerAssumption ==
  /\ IsFiniteSet(Nodes)
  /\ MaxWeight \in Nat
  /\ MaxScore \in Nat \ {0}
  /\ StepNum \in Nat \ {0}
  /\ StepDen \in Nat \ {0}

(* What Propose asks about the latest metric of a node, in its order:      *)
(* "unfit" is not healthy, has too few requests or is saturated.           *)
Quality == {"absent", "future", "stale", "unfit", "fit"}

Outcomes == {"pending", "future", "stale", "insufficient", "no benefit",
             "proposed"}

VARIABLES quality,   \* node -> its latest metric
          request,   \* node -> its current weight; 0 when absent or not positive
          score,     \* node -> its target before division by their sum
          eligible,
          current,   \* normalised weights: numerators by node and denominator
          lambda,    \* the fraction of the way to the target
          remaining, \* nodes the limiting loop has not ranged over
          proposed,  \* numerators by node and denominator
          outcome,
          line       \* the next statement

vars == <<quality, request, score, eligible, current, lambda, remaining,
          proposed, outcome, line>>
inputs == <<quality, request, score>>

None == [num |-> <<>>, den |-> 1]

Total(w, S) == MapThenSumSet(LAMBDA n : w[n], S)

(* Reading a Go map: zero for a key that is not there. *)
WeightOf(w, n) == IF n \in DOMAIN w.num THEN w.num[n] ELSE 0

Abs(x) == IF x < 0 THEN -x ELSE x

(* Target weight less current weight, over TargetSum * current.den. *)
TargetSum == Total(score, eligible)

Gap(n) == score[n] * current.den - WeightOf(current, n) * TargetSum

Unit == TargetSum * current.den

(* The step as a fraction of the gap of n, and whether the gap exceeds it. *)
StepOver(n) == [num |-> StepNum * Unit, den |-> StepDen * Abs(Gap(n))]

Exceeds(n) == StepOver(n).num < StepOver(n).den

LessFraction(x, y) == x.num * y.den < y.num * x.den

(* The score of a node: one over its penalty, a weighted sum of normalised *)
(* metrics and the severity of its signal; any positive number.            *)
Scores == [Nodes -> 1..MaxScore]

Init ==
  /\ quality \in [Nodes -> Quality]
  /\ request \in [Nodes -> 0..MaxWeight]
  /\ score \in Scores
  /\ eligible = {}
  /\ current = None
  /\ lambda = [num |-> 1, den |-> 1]
  /\ remaining = {}
  /\ proposed = None
  /\ outcome = "pending"
  /\ line = "filter"

-----------------------------------------------------------------------------
Are(q) == {n \in Nodes : quality[n] = q}

(* The guardrails: fewer than two nodes remain. *)
Refuse ==
  /\ line = "filter"
  /\ Cardinality(Are("fit")) < 2
  /\ outcome' = CASE Are("future") # {} /\ Are("future") \cup Are("absent") = Nodes
                       -> "future"
                  [] Are("stale") # {} /\ Are("stale") \cup Are("absent") = Nodes
                       -> "stale"
                  [] OTHER -> "insufficient"
  /\ line' = "done"
  /\ UNCHANGED <<inputs, eligible, current, lambda, remaining, proposed>>

Filter ==
  /\ line = "filter"
  /\ Cardinality(Are("fit")) >= 2
  /\ eligible' = Are("fit")
  /\ line' = "normalise"
  /\ UNCHANGED <<inputs, current, lambda, remaining, proposed, outcome>>

(* Fault: the sum is taken over every node of the request. *)
NormalisedAll(S) ==
  LET positive == {n \in S : request[n] > 0}
  IN IF positive = {}
       THEN [num |-> [n \in S |-> 1], den |-> Cardinality(S)]
       ELSE [num |-> [n \in positive |-> request[n]],
             den |-> Total(request, Nodes)]

(* normalizedCurrent: the positive weights of the eligible nodes over      *)
(* their sum, without a key for the others; equal weights if there is none.*)
NormalizedCurrent(S) ==
  LET positive == {n \in S : request[n] > 0}
  IN IF positive = {}
       THEN [num |-> [n \in S |-> 1], den |-> Cardinality(S)]
       ELSE [num |-> [n \in positive |-> request[n]],
             den |-> Total(request, positive)]

Normalise ==
  /\ line = "normalise"
  /\ current' = NormalizedCurrent(eligible)
  /\ remaining' = eligible
  /\ line' = "limit"
  /\ UNCHANGED <<inputs, eligible, lambda, proposed, outcome>>

(* Faults: the limit of the last node alone; the product of the limits;    *)
(* a limit for nodes within the step too.                                  *)
LimitedLast(n) == IF Exceeds(n) THEN StepOver(n) ELSE lambda

LimitedProduct(n) ==
  IF Exceeds(n) THEN [num |-> lambda.num * StepOver(n).num,
                      den |-> lambda.den * StepOver(n).den]
                ELSE lambda

LimitedAlways(n) == IF Gap(n) # 0 /\ lambda.num = lambda.den
                      THEN StepOver(n) ELSE lambda

Limited(n) ==
  IF Exceeds(n) /\ LessFraction(StepOver(n), lambda) THEN StepOver(n) ELSE lambda

(* One turn of the loop that finds lambda, for any node not yet visited. *)
Limit(n) ==
  /\ line = "limit"
  /\ n \in remaining
  /\ lambda' = Limited(n)
  /\ remaining' = remaining \ {n}
  /\ UNCHANGED <<inputs, eligible, current, proposed, outcome, line>>

(* Every eligible node moves the same fraction of the way to its target. *)
Moved == [num |-> [n \in eligible |-> WeightOf(current, n) * TargetSum * lambda.den
                                        + lambda.num * Gap(n)],
          den |-> Unit * lambda.den]

Move ==
  /\ line = "limit"
  /\ remaining = {}
  /\ proposed' = Moved
  /\ line' = "compare"
  /\ UNCHANGED <<inputs, eligible, current, lambda, remaining, outcome>>

Compare ==
  /\ line = "compare"
  /\ outcome' \in {"no benefit", "proposed"}
  /\ line' = "done"
  /\ UNCHANGED <<inputs, eligible, current, lambda, remaining, proposed>>

Next == \/ Refuse
        \/ Filter
        \/ Normalise
        \/ \E n \in Nodes : Limit(n)
        \/ Move
        \/ Compare

Spec == Init /\ [][Next]_vars

-----------------------------------------------------------------------------
(* The locals of Propose are well formed, and the fraction of the way to   *)
(* the target is above zero and at most one.                               *)
TypeOK ==
  /\ quality \in [Nodes -> Quality]
  /\ request \in [Nodes -> Nat]
  /\ score \in [Nodes -> Nat \ {0}]
  /\ eligible \subseteq Nodes
  /\ remaining \subseteq eligible
  /\ DOMAIN current.num \subseteq eligible
  /\ current.den \in Nat \ {0}
  /\ lambda \in [num : Nat \ {0}, den : Nat \ {0}]
  /\ lambda.num <= lambda.den
  /\ proposed.den \in Nat \ {0}
  /\ outcome \in Outcomes
  /\ line \in {"filter", "normalise", "limit", "compare", "done"}

(* contracts/compatibility.md: the proposed weights of two or more nodes   *)
(* are not negative and sum to 1, whatever part of the traffic the request *)
(* gave to nodes that are not eligible.                                    *)
ProposedWhole ==
  outcome = "proposed" =>
     /\ Cardinality(DOMAIN proposed.num) >= 2
     /\ \A n \in DOMAIN proposed.num : proposed.num[n] >= 0
     /\ Total(proposed.num, DOMAIN proposed.num) = proposed.den

(* How far a proposal moves a node, over current.den * proposed.den. *)
Moves(n) == Abs(proposed.num[n] * current.den - WeightOf(current, n) * proposed.den)

(* README of the service: no proposal moves a node by more than the        *)
(* maximum step, in whatever order the limits were met.                    *)
StepBounded ==
  outcome = "proposed" =>
     \A n \in eligible :
        Moves(n) * StepDen <= StepNum * current.den * proposed.den

(* A proposal is as far on the way to the target as the step allows: it is *)
(* the target, or one of its nodes moves by exactly the maximum step.      *)
StepTight ==
  outcome = "proposed" =>
     \/ \A n \in eligible : proposed.num[n] * TargetSum = score[n] * proposed.den
     \/ \E n \in eligible :
           Moves(n) * StepDen = StepNum * current.den * proposed.den

(* contracts/compatibility.md: `current` and `proposed` of a               *)
(* recommendation contain the same node IDs.                               *)
SameNodes ==
  outcome = "proposed" => DOMAIN current.num = DOMAIN proposed.num
=============================================================================
