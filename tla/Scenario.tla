------------------------------ MODULE Scenario ------------------------------
(***************************************************************************)
(* The configuration of services/event-generator: what Config.Validate     *)
(* accepts, which faults Generator.effects injects into a request, and     *)
(* which windows labelWindows announces for them in the manifest.          *)
(*                                                                         *)
(* Latencies are milliseconds, rates are parts per thousand, and times are *)
(* slots: PerMinute slots make a minute.                                   *)
(***************************************************************************)
EXTENDS Integers, Sequences, SequencesExt, FiniteSetsExt

MaxOutOfOrder == 30     \* seconds
MaxBuckets == 1024

NodeFaults == {"node_latency_spike", "node_5xx_spike", "isp_node_degradation",
               "capacity_pressure"}

ScenarioTypes == NodeFaults \cup {"popularity_shift"}

(* The fields of a configuration and their types. *)
Node == [id : STRING, base : Int, capacity : Int]

Event == [type : STRING, target : STRING, network : STRING, at : Int, duration : Int,
          latency : Int, error : Int, miss : Int, rps : Int]

IsConfig(c) ==
  /\ c.duration \in Int /\ c.rate \in Int /\ c.content \in Int /\ c.buckets \in Int
  /\ c.nodes \in Seq(Node)
  /\ c.scenarios \in Seq(Event)

ValidRate(v) == v \in 0..1000

(* Fault: a scenario may run beyond the end of the run. *)
ValidScenarioOpenEnd(c, s) ==
  /\ s.type \in ScenarioTypes
  /\ s.duration > 0 /\ s.at >= 0
  /\ ValidRate(s.error) /\ ValidRate(s.miss)

ValidScenario(c, s) ==
  /\ s.type \in ScenarioTypes
  /\ s.duration > 0 /\ s.at >= 0
  /\ s.at + s.duration <= c.duration
  /\ ValidRate(s.error) /\ ValidRate(s.miss)

Validate(c) ==
  /\ c.startParses
  /\ c.duration > 0 /\ c.rate > 0
  /\ c.outOfOrder \in 0..MaxOutOfOrder
  /\ ValidRate(c.duplicate) /\ ValidRate(c.schemaError)
  /\ c.buckets \in 0..MaxBuckets
  /\ c.locations # <<>> /\ c.nodes # <<>> /\ c.content >= 2
  /\ \A l \in Range(c.locations) : l.name # "" /\ l.networks # <<>>
  /\ \A n \in Range(c.nodes) : n.id # "" /\ n.base >= 0 /\ n.capacity > 0
  /\ \A s \in Range(c.scenarios) : ValidScenario(c, s)

DeliveryKeyBucketCount(c) == IF c.buckets = 0 THEN 16 ELSE c.buckets

-----------------------------------------------------------------------------
(* Whether the window of a scenario and its target cover a request.  Only *)
(* an ISP degradation looks at the network.                               *)
Applies(s, t, node, network) ==
  /\ s.at <= t /\ t < s.at + s.duration
  /\ \/ s.type = "popularity_shift"
     \/ s.type \in NodeFaults \ {"isp_node_degradation"} /\ s.target = node
     \/ s.type = "isp_node_degradation" /\ s.target = node /\ s.network = network

(* What a scenario of its type adds; the other fields are ignored. *)
AddedLatency(s) ==
  CASE s.type \in {"node_latency_spike", "isp_node_degradation"} -> s.latency
    [] s.type = "capacity_pressure" -> Max({s.latency, 60})
    [] OTHER -> 0

AddedErrors(s) ==
  IF s.type \in NodeFaults \ {"node_latency_spike"} THEN s.error ELSE 0

AddedMisses(s) == IF s.type = "popularity_shift" THEN s.miss ELSE 0

(* Latencies add up, of the rates the largest counts, and the last *)
(* pressure in the list replaces the earlier ones.                 *)
Effects(c, t, node, network) ==
  LET active == {i \in DOMAIN c.scenarios : Applies(c.scenarios[i], t, node, network)}
      added == [i \in active |-> AddedLatency(c.scenarios[i])]
      pressures == {i \in active : c.scenarios[i].type = "capacity_pressure"}
  IN [labels   |-> {c.scenarios[i].type : i \in active},
      latency  |-> MapThenSumSet(LAMBDA i : added[i], active),
      error    |-> Max({0} \cup {AddedErrors(c.scenarios[i]) : i \in active}),
      miss     |-> Max({0} \cup {AddedMisses(c.scenarios[i]) : i \in active}),
      shift    |-> \E i \in active : c.scenarios[i].type = "popularity_shift",
      pressure |-> IF pressures = {} THEN 0 ELSE c.scenarios[Max(pressures)].rps]

(* Fault: the announced window ends one slot early. *)
LabelWindowShort(s) ==
  [type |-> s.type, start |-> s.at, end |-> s.at + s.duration - 1,
   target |-> s.target, network |-> s.network]

LabelWindow(s) ==
  [type |-> s.type, start |-> s.at, end |-> s.at + s.duration,
   target |-> s.target, network |-> s.network]

LabelWindows(c) == {LabelWindow(s) : s \in Range(c.scenarios)}
=============================================================================
