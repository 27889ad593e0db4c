------------------------------ MODULE Detector ------------------------------
(***************************************************************************)
(* services/recommendation-api/internal/detection: Detector.Evaluate over  *)
(* the histories of the nodes of a scope.                                  *)
(*                                                                         *)
(* The statistics are exact: a median is kept as its double, a weighted    *)
(* mean and a z-score are fractions (num over den).  Samples are whole     *)
(* milliseconds and parts per thousand, so "below 1e-9" is "zero".         *)
(* Severities, which only scale the scorer's penalty, are left out.        *)
(***************************************************************************)
EXTENDS Integers, Sequences, SequencesExt, FiniteSets, FiniteSetsExt

CONSTANTS MinimumSamples, MinimumHistory,
          ErrorThreshold,     \* parts per thousand
          LatencyMultiple, RobustZThreshold

(* One column of the rows. *)
Values(samples, column) == [i \in DOMAIN samples |-> samples[i][column]]

(* Sorted: in place k is the least value that k samples do not exceed. *)
Ascending(s) ==
  [k \in DOMAIN s |->
     Min({v \in Range(s) : Cardinality({i \in DOMAIN s : s[i] <= v}) >= k})]

(* Fault: the lower of the two middle values. *)
TwiceMedianLow(s) ==
  IF s = <<>> THEN 0 ELSE 2 * Ascending(s)[(Len(s) + 1) \div 2]

(* Twice the median. *)
TwiceMedian(s) ==
  LET middle == Len(s) \div 2
      sorted == Ascending(s)
  IN CASE s = <<>> -> 0
       [] s # <<>> /\ Len(s) % 2 = 0 -> sorted[middle] + sorted[middle + 1]
       [] OTHER -> 2 * sorted[middle + 1]

Distance(a, b) == IF a < b THEN b - a ELSE a - b

(* robustZ: 0.6745 times the distance from the median, in units of the      *)
(* median absolute deviation.  Without any spread it is 0 or infinite, and  *)
(* infinity is 1 over 0.                                                    *)
RobustZ(v, history) ==
  LET center == TwiceMedian(history)
      spread == TwiceMedian([i \in DOMAIN history |-> Distance(2 * history[i], center)])
      far    == Distance(2 * v, center)
  IN CASE history = <<>> -> [num |-> 0, den |-> 1]
       [] history # <<>> /\ spread = 0 ->
            IF far = 0 THEN [num |-> 0, den |-> 1] ELSE [num |-> 1, den |-> 0]
       [] OTHER -> [num |-> 6745 * 2 * far, den |-> 10000 * spread]

AtMost(z, k)  == z.num <= k * z.den
AtLeast(z, k) == z.num >= k * z.den

(* Fault: every sample enters the mean. *)
AcceptsAll(mean, v) == TRUE

(* The first five samples enter the mean, later ones unless they are far out. *)
Accepts(mean, v) ==
  AtMost(RobustZ(v, mean.accepted), 4) \/ Len(mean.accepted) < 5

(* One sample, weighted by EWMA_ALPHA = 1/5. *)
Smooth(mean, v) ==
  IF Accepts(mean, v)
    THEN [num |-> v * mean.den + 4 * mean.num, den |-> 5 * mean.den,
          accepted |-> Append(mean.accepted, v)]
    ELSE mean

FrozenEWMA(values) ==
  LET mean[i \in DOMAIN values] ==
        IF i = 1 THEN [num |-> values[1], den |-> 1, accepted |-> <<values[1]>>]
                 ELSE Smooth(mean[i - 1], values[i])
  IN IF values = <<>> THEN [num |-> 0, den |-> 1, accepted |-> <<>>]
                      ELSE mean[Len(values)]

-----------------------------------------------------------------------------
Past(samples) == SubSeq(samples, 1, Len(samples) - 1)

(* Twice the median of the nodes' latest p95, of whatever minute each is. *)
LocationBaseline(latest) ==
  LET nodes == SetToSeq(DOMAIN latest)
  IN TwiceMedian([i \in DOMAIN nodes |-> latest[nodes[i]].p95])

RuleAnomaly(latest, twiceBaseline) ==
  /\ latest.requests >= MinimumSamples
  /\ latest.error > ErrorThreshold
  /\ twiceBaseline > 0
  /\ 2 * latest.p95 > LatencyMultiple * twiceBaseline

(* Fault: the z-score alone decides. *)
LatencyAnomalyByZ(latest, past) ==
  AtLeast(RobustZ(latest.p95, Values(past, "p95")), RobustZThreshold)

LatencyAnomaly(latest, past) ==
  LET baseline == FrozenEWMA(Values(past, "p95"))
  IN /\ baseline.num > 0
     /\ 2 * latest.p95 * baseline.den > 3 * baseline.num
     /\ AtLeast(RobustZ(latest.p95, Values(past, "p95")), RobustZThreshold)

(* Fault: the previous row stands for the mean. *)
ErrorAnomalySincePrevious(latest, past) ==
  /\ latest.requests >= MinimumSamples
  /\ latest.error > ErrorThreshold
  /\ latest.error - Last(past).error > 10

ErrorAnomaly(latest, past) ==
  LET baseline == FrozenEWMA(Values(past, "error"))
  IN /\ latest.requests >= MinimumSamples
     /\ latest.error > ErrorThreshold
     /\ latest.error * baseline.den - baseline.num > 10 * baseline.den

MissAnomaly(latest, past) ==
  /\ latest.hit < 350
  /\ 2 * latest.hit < TwiceMedian(Values(past, "hit")) - 2 * 200

(* The reason codes of a node; it is anomalous if there is one. *)
Reasons(samples, twiceBaseline) ==
  LET latest == Last(samples)
      past == Past(samples)
      known == Len(past) >= MinimumHistory
  IN {r \in {"RULE", "LATENCY", "ERROR", "MISS"} :
        \/ r = "RULE"    /\ RuleAnomaly(latest, twiceBaseline)
        \/ r = "LATENCY" /\ known /\ LatencyAnomaly(latest, past)
        \/ r = "ERROR"   /\ known /\ ErrorAnomaly(latest, past)
        \/ r = "MISS"    /\ known /\ MissAnomaly(latest, past)}

(* Evaluate: node -> reason codes, for the nodes that have rows at all. *)
Signals(histories) ==
  LET seen == {n \in DOMAIN histories : histories[n] # <<>>}
      baseline == LocationBaseline([n \in seen |-> Last(histories[n])])
  IN [n \in seen |-> Reasons(histories[n], baseline)]
=============================================================================
