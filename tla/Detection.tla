----------------------------- MODULE Detection -----------------------------
(***************************************************************************)
(* From a fault in a scenario to the detector's verdict: the generator     *)
(* injects the faults of its configuration, the analytics job turns every  *)
(* minute of a node into one row of node_metrics_1m, and Evaluate of the   *)
(* recommendation service may read the rows of a scope at any moment.      *)
(*                                                                         *)
(* What the generator draws for a request is the seed's business: requests *)
(* that drew alike are counted together, and nothing ties the draws of a   *)
(* minute to the rates they are compared with.  The scope is one location  *)
(* and one of its networks.                                                *)
(***************************************************************************)
EXTENDS Scenario, Detector

CONSTANTS Configs,          \* configurations the generator may be started with
          Network,          \* the network of the scope
          PerMinute,        \* slots of a minute
          HistoryWindows,   \* rows of a node that the history query returns
          Seeds             \* what may be drawn: periodic over nodes and minutes

(* Requests that drew alike: the slot of their event time, the two numbers *)
(* below one that decide on miss and error (in thousandths), the noise of  *)
(* the node and of the origin.                                             *)
Draw == [slot : 0..(PerMinute - 1), cache : 0..999, status : 0..999,
         noise : Int, origin : Int, count : Nat \ {0}]

ASSUME DetectionAssumption ==
  /\ \A c \in Configs : IsConfig(c)
  /\ \A f \in Seeds : /\ IsFiniteSet(DOMAIN f) /\ DOMAIN f # {}
                      /\ DOMAIN f = 0..(Cardinality(DOMAIN f) - 1)
                      /\ \A i \in DOMAIN f : f[i] \subseteq Draw /\ IsFiniteSet(f[i])
  /\ PerMinute \in Nat \ {0}
  /\ HistoryWindows \in Nat \ {0}
  /\ MinimumHistory \in Nat \ {0}

VARIABLES phase,    \* "load", "rejected", "run", "done"
          config, seed,
          minute,   \* node -> the first minute that is not over for it
          table     \* node -> its rows in node_metrics_1m, oldest first

vars == <<phase, config, seed, minute, table>>

Nodes == DOMAIN config.nodes

(* The last minute may be cut short by the end of the run. *)
Minutes == (config.duration + PerMinute - 1) \div PerMinute

(* The event times of a minute.  Jitter puts requests before the start. *)
Slots(m) ==
  {t \in (PerMinute * m)..(PerMinute * m + PerMinute - 1) :
     t < config.duration /\ 60 * (t + 1) > - config.outOfOrder * PerMinute}

EffectsAt(n, t) == Effects(config, t, config.nodes[n].id, Network)

-----------------------------------------------------------------------------
(* The requests of a minute, and their row *)

Slot(m, d) == PerMinute * m + d.slot

(* What was drawn for a node of the scope. *)
Drawn(n, m) ==
  {d \in seed[(Len(config.nodes) * (m + 1) + n) % Cardinality(DOMAIN seed)] :
     Slot(m, d) \in Slots(m)}

IsMiss(e, d)  == d.cache < Max({80, e.miss})
IsError(e, d) == d.status < Max({2, e.error})

(* Time to first byte: a miss adds the time of the origin. *)
NodeTime(base, e, d) == Max({0, base + d.noise + e.latency})
OriginTime(e, d) ==
  IF IsMiss(e, d) THEN Max({1, 35 + d.origin + (2 * e.latency) \div 5}) ELSE 0

Served(n, m, d) ==
  LET e == EffectsAt(n, Slot(m, d))
  IN [draw |-> d, count |-> d.count, hit |-> ~ IsMiss(e, d), failed |-> IsError(e, d),
      ms |-> NodeTime(config.nodes[n].base, e, d) + OriginTime(e, d)]

Requests(n, m) == {Served(n, m, d) : d \in Drawn(n, m)}

Count(requests) ==
  LET count == [r \in requests |-> r.count]
  IN MapThenSumSet(LAMBDA r : count[r], requests)

(* MetricAccumulator.percentile(0.95): the nearest rank. *)
Percentile95(requests) ==
  Min({r.ms : r \in {q \in requests :
         100 * Count({k \in requests : k.ms <= q.ms}) >= 95 * Count(requests)}})

(* Parts per thousand, rounded down *)
Rate(some, all) == (1000 * Count(some)) \div Count(all)

(* Slots and labels are not in the table: they tell what the row is of. *)
Row(n, m) ==
  LET requests == Requests(n, m)
      slots == {Slot(m, d) : d \in Drawn(n, m)}
  IN [minute   |-> m,
      requests |-> Count(requests),
      p95      |-> Percentile95(requests),
      error    |-> Rate({r \in requests : r.failed}, requests),
      hit      |-> Rate({r \in requests : r.hit}, requests),
      slots    |-> slots,
      labels   |-> UNION {EffectsAt(n, t).labels : t \in slots}]

-----------------------------------------------------------------------------
Init ==
  /\ phase = "load"
  /\ config \in Configs
  /\ seed \in Seeds
  /\ minute = [n \in Nodes |-> -1]
  /\ table = [n \in Nodes |-> <<>>]

Load ==
  /\ phase = "load"
  /\ Validate(config)
  /\ phase' = "run"
  /\ UNCHANGED <<config, seed, minute, table>>

Reject ==
  /\ phase = "load"
  /\ ~ Validate(config)
  /\ phase' = "rejected"
  /\ UNCHANGED <<config, seed, minute, table>>

(* Fault: a row is emitted before its minute is over. *)
MinuteOverEarly(n) ==
  /\ phase = "run"
  /\ minute[n] < Minutes
  /\ \A k \in Nodes : minute[n] <= minute[k]
  /\ UNCHANGED minute

(* The minute of a node is over.  The rows of one minute arrive one by one, *)
(* in any order.                                                            *)
MinuteOver(n) ==
  /\ phase = "run"
  /\ minute[n] < Minutes
  /\ \A k \in Nodes : minute[n] <= minute[k]
  /\ minute' = [minute EXCEPT ![n] = @ + 1]

RowArrives(n) ==
  /\ MinuteOver(n)
  /\ Drawn(n, minute[n]) # {}
  /\ table' = [table EXCEPT ![n] = Append(@, Row(n, minute[n]))]
  /\ UNCHANGED <<phase, config, seed>>

(* No request of the minute was for the node and the scope. *)
NoTraffic(n) ==
  /\ MinuteOver(n)
  /\ Drawn(n, minute[n]) = {}
  /\ UNCHANGED <<phase, config, seed, table>>

Finish ==
  /\ phase = "run"
  /\ \A n \in Nodes : minute[n] = Minutes
  /\ phase' = "done"
  /\ UNCHANGED <<config, seed, minute, table>>

Next == \/ Load \/ Reject \/ Finish
        \/ \E n \in Nodes : RowArrives(n) \/ NoTraffic(n)

Spec == Init /\ [][Next]_vars

-----------------------------------------------------------------------------
(* What an evaluation sees *)

(* ORDER BY window_start DESC LIMIT windows BY node_id: the last rows of a *)
(* node, however old they are.                                             *)
History(n) ==
  SubSeq(table[n], Max({1, Len(table[n]) - HistoryWindows + 1}), Len(table[n]))

Verdict == Signals([n \in Nodes |-> History(n)])

-----------------------------------------------------------------------------
(* Properties *)

(* The rows of the scope are rows of minutes that are over, within the     *)
(* ranges that the job's ratios and the event schema allow.                *)
TypeOK ==
  /\ phase \in {"load", "rejected", "run", "done"}
  /\ config \in Configs
  /\ minute \in [Nodes -> -1..Max({-1, Minutes})]
  /\ \A n \in Nodes : \A r \in Range(table[n]) :
       /\ r.minute \in -1..(minute[n] - 1)
       /\ r.requests \in Nat \ {0} /\ r.p95 \in Nat
       /\ r.error \in 0..1000 /\ r.hit \in 0..1000
       /\ r.slots \subseteq Slots(r.minute) /\ r.labels \subseteq ScenarioTypes

(* The range of the first five values, which frozenEWMA takes as they are. *)
Least(values) == Min({values[i] : i \in 1..5})
Most(values)  == Max({values[i] : i \in 1..5})

InRange(values, v) == Least(values) <= v /\ v <= Most(values)

(* Beyond the range by more than five times its width *)
FarAbove(values, v) == v > Most(values) + 5 * (Most(values) - Least(values))

(* The later values are like the first, or far above them. *)
Shifted(values) ==
  /\ Len(values) >= 5
  /\ \A i \in 6..Len(values) : InRange(values, values[i]) \/ FarAbove(values, values[i])

(* Whatever the first five rows of a node happened to measure, and be it   *)
(* without any spread: no later shift far above them moves the latency     *)
(* baseline beyond them, however long it lasts or how often it returns.    *)
BaselineFrozen ==
  \A n \in DOMAIN Verdict :
    LET p95 == Values(History(n), "p95")
        mean == FrozenEWMA(p95)
    IN Shifted(p95) => mean.num <= Most(p95) * mean.den

(* What has to be seen.  A shift of the latest row that stands out from    *)
(* the range of the first five is flagged in its first minute and in every *)
(* later one, although the earlier ones are part of the history: for the   *)
(* latency as long as they are a minority, which the median takes, and for *)
(* errors whatever their share.                                            *)
ShiftFlagged ==
  \A n \in DOMAIN Verdict :
    LET past == Past(History(n))
        latest == Last(History(n))
        p95 == Values(past, "p95")
        error == Values(past, "error")
    IN Len(past) >= Max({5, MinimumHistory}) =>
         /\ (/\ Shifted(p95) /\ Least(p95) > 0
             /\ 2 * Cardinality({i \in DOMAIN past : ~ InRange(p95, p95[i])}) < Len(past)
             /\ FarAbove(p95, latest.p95) /\ 2 * latest.p95 > 3 * Most(p95))
              => "LATENCY" \in Verdict[n]
         /\ (/\ Shifted(error) /\ latest.requests >= MinimumSamples
             /\ latest.error > ErrorThreshold /\ latest.error > Most(error) + 10)
              => "ERROR" \in Verdict[n]
         /\ (/\ latest.hit < 350
             /\ 2 * Cardinality({i \in DOMAIN past : past[i].hit > latest.hit + 200}) > Len(past))
              => "MISS" \in Verdict[n]

(* What may not be accused.  Each reason rests on a row that shows it:     *)
(* the latest p95 is half as large again as one before, the error rate one *)
(* point above one before, the hit rate a fifth below half of those before *)
(* or more, and the rule has a peer that is that many times faster.  The   *)
(* z-score alone, infinite where the past has no spread, accuses nobody.   *)
AccusedOnEvidence ==
  \A n \in DOMAIN Verdict :
    LET past == Past(History(n))
        latest == Last(History(n))
    IN /\ "LATENCY" \in Verdict[n] => \E r \in Range(past) : 2 * latest.p95 > 3 * r.p95
       /\ "ERROR" \in Verdict[n] => \E r \in Range(past) : latest.error > r.error + 10
       /\ "MISS" \in Verdict[n] =>
            2 * Cardinality({i \in DOMAIN past : past[i].hit > latest.hit + 200}) >= Len(past)
       /\ "RULE" \in Verdict[n] =>
            \E k \in DOMAIN Verdict : latest.p95 > LatencyMultiple * Last(History(k)).p95

(* The combined rule accuses a minority: of the nodes that Evaluate        *)
(* compares, fewer than half exceed a multiple of their median, so one of  *)
(* two nodes is never accused by its only peer.                            *)
RuleMinority ==
  2 * Cardinality({n \in DOMAIN Verdict : "RULE" \in Verdict[n]})
    < Max({1, Cardinality(DOMAIN Verdict)})

(* fault_matches of scripts/evaluate_detectors.py: the window overlaps the *)
(* minute, the target is the node, and a network, if any, is the scope's.  *)
Matches(w, n, m) ==
  /\ w.type \in NodeFaults
  /\ m * PerMinute < w.end /\ (m + 1) * PerMinute > w.start
  /\ w.target = config.nodes[n].id
  /\ w.network \in {"", Network}

(* The network is given for ISP degradations and for nothing else.         *)
(* Validate does not ask for it.                                           *)
NetworksDeclared ==
  \A s \in Range(config.scenarios) : (s.network # "") <=> (s.type = "isp_node_degradation")

(* The ground truth of the manifest is the truth: effects changed requests *)
(* of a row only within a window that labelWindows announced for its node, *)
(* and if no slot of the minute went without a request, in every such      *)
(* window, also in one that covers a part of the minute only.              *)
LabelsTrue ==
  NetworksDeclared =>
    \A n \in Nodes : \A r \in Range(table[n]) :
      LET announced == {w.type : w \in {v \in LabelWindows(config) : Matches(v, n, r.minute)}}
      IN /\ r.labels \cap NodeFaults \subseteq announced
         /\ r.slots = Slots(r.minute) => announced \subseteq r.labels

(* At the end of a run, every announced window of a node that was never    *)
(* without a request shows in a row of it: no scenario is announced that   *)
(* the run was too short to inject.                                        *)
WindowsWitnessed ==
  (phase = "done" /\ NetworksDeclared) =>
    \A n \in Nodes :
      (\A m \in 0..(Minutes - 1) : \E r \in Range(table[n]) : r.minute = m /\ r.slots = Slots(m))
        => \A w \in LabelWindows(config) :
             (w.type \in NodeFaults /\ w.target = config.nodes[n].id /\ w.network \in {"", Network})
               => \E r \in Range(table[n]) : w.type \in r.labels
=============================================================================
