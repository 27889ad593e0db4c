--------------------------- MODULE DetectionProofs ---------------------------
(***************************************************************************)
(* For every configuration of the generator, every network and whatever a  *)
(* seed draws for the requests: rows of node_metrics_1m are within their   *)
(* ranges, the windows the manifest announces are the truth about them,    *)
(* the frozen baseline stays where its first rows were, what stands out    *)
(* from them is flagged, and nothing is accused that no row shows.         *)
(***************************************************************************)
EXTENDS Detection, DataTheorems, SequenceTheorems

-----------------------------------------------------------------------------
(* What a scenario does to a request *)

Checked == IsConfig(config) /\ Validate(config)

LEMMA ValidateParts ==
  ASSUME Checked
  PROVE  /\ config.duration > 0
         /\ \A n \in Range(config.nodes) : n.base >= 0
         /\ \A s \in Range(config.scenarios) : ValidScenario(config, s)
BY Zenon DEF Checked, Validate

LEMMA ScenarioFields ==
  ASSUME Checked, NEW i \in DOMAIN config.scenarios
  PROVE  /\ config.scenarios[i] \in Event
         /\ config.scenarios[i] \in Range(config.scenarios)
         /\ ValidScenario(config, config.scenarios[i])
         /\ config.duration \in Nat
<1>1. config.scenarios \in Seq(Event)
  BY DEF Checked, IsConfig
<1>2. config.scenarios[i] \in Event
  BY <1>1
<1>3. config.scenarios[i] \in Range(config.scenarios)
  BY DEF Range
<1>4. config.duration \in Int /\ config.duration > 0
  BY ValidateParts DEF Checked, IsConfig
<1> QED
  BY <1>2, <1>3, <1>4, ValidateParts

Active(n, t) ==
  {i \in DOMAIN config.scenarios :
     Applies(config.scenarios[i], t, config.nodes[n].id, Network)}

LEMMA ActiveFinite ==
  ASSUME Checked, NEW n, NEW t
  PROVE  IsFiniteSet(Active(n, t)) /\ Active(n, t) \subseteq DOMAIN config.scenarios
<1>1. config.scenarios \in Seq(Event)
  BY DEF Checked, IsConfig
<1>2. DOMAIN config.scenarios = 1..Len(config.scenarios) /\ Len(config.scenarios) \in Nat
  BY <1>1
<1>3. IsFiniteSet(1..Len(config.scenarios))
  BY <1>2, FS_Interval
<1>4. Active(n, t) \in SUBSET (1..Len(config.scenarios))
  BY <1>2 DEF Active
<1> QED
  BY <1>2, <1>3, <1>4, FS_Subset

LEMMA EffectFields ==
  ASSUME NEW n, NEW t
  PROVE  /\ EffectsAt(n, t).labels = {config.scenarios[i].type : i \in Active(n, t)}
         /\ EffectsAt(n, t).latency =
              SumOver([i \in Active(n, t) |-> AddedLatency(config.scenarios[i])], Active(n, t))
         /\ EffectsAt(n, t).error =
              Max({0} \cup {AddedErrors(config.scenarios[i]) : i \in Active(n, t)})
         /\ EffectsAt(n, t).miss =
              Max({0} \cup {AddedMisses(config.scenarios[i]) : i \in Active(n, t)})
BY DEF EffectsAt, Effects, Active, SumOver

(* Parts per thousand: of a fault, and of the errors and hits of a row. *)
Rates == 0..1000

LEMMA RatesAre == 0 \in Rates /\ Rates \subseteq Nat
BY DEF Rates

(* The largest rate of a set of valid rates is one, and zero if there is   *)
(* none.                                                                   *)
LEMMA LargestRate ==
  ASSUME NEW A, IsFiniteSet(A), NEW rate, \A i \in A : rate[i] \in Rates
  PROVE  Max({0} \cup {rate[i] : i \in A}) \in Rates
<1> DEFINE R == {0} \cup {rate[i] : i \in A}
<1>1. IsFiniteSet({rate[i] : i \in A})
  BY ImageFinite
<1>2. IsFiniteSet(R)
  <2>1. IsFiniteSet({0})
    BY FS_Singleton
  <2> QED
    BY <1>1, <2>1, FS_Union
<1>3. R # {} /\ R \subseteq Int /\ \A r \in R : r \in Rates
  <2>1. 0 \in R /\ \A r \in R : r = 0 \/ \E i \in A : r = rate[i]
    OBVIOUS
  <2>2. \A r \in R : r \in Rates /\ r \in Int
    BY <2>1, RatesAre
  <2> HIDE DEF R
  <2> QED
    BY <2>1, <2>2
<1> HIDE DEF R
<1>4. Max(R) \in R
  BY ONLY <1>2, <1>3, MaxFinite
<1>5. Max(R) \in Rates
  BY ONLY <1>3, <1>4
<1> QED
  BY <1>5 DEF R

LEMMA EffectTypes ==
  ASSUME Checked, NEW n, NEW t
  PROVE  /\ EffectsAt(n, t).labels \subseteq ScenarioTypes
         /\ EffectsAt(n, t).latency \in Int
         /\ EffectsAt(n, t).error \in Rates
         /\ EffectsAt(n, t).miss \in Rates
<1> DEFINE A == Active(n, t)
           latency == [i \in A |-> AddedLatency(config.scenarios[i])]
           error == [i \in A |-> AddedErrors(config.scenarios[i])]
           miss == [i \in A |-> AddedMisses(config.scenarios[i])]
<1>1. IsFiniteSet(A) /\ A \subseteq DOMAIN config.scenarios
  BY ActiveFinite
<1>2. ASSUME NEW i \in A
      PROVE  /\ config.scenarios[i].type \in ScenarioTypes
             /\ latency[i] \in Int /\ error[i] \in Rates /\ miss[i] \in Rates
  <2> DEFINE s == config.scenarios[i]
  <2>1. s \in Event /\ ValidScenario(config, s)
    BY <1>1, <1>2, ScenarioFields
  <2>2. s.latency \in Int /\ s.error \in Rates /\ s.miss \in Rates /\ s.type \in ScenarioTypes
    <3>1. s.latency \in Int /\ s.error \in Int /\ s.miss \in Int
      BY <2>1 DEF Event
    <3>2. s.type \in ScenarioTypes /\ ValidRate(s.error) /\ ValidRate(s.miss)
      BY <2>1, Zenon DEF ValidScenario
    <3> QED
      <4>1. \A x \in Int : ValidRate(x) => x \in Rates
        BY DEF ValidRate, Rates
      <4> QED
        BY ONLY <3>1, <3>2, <4>1
  <2>3. latency[i] = AddedLatency(s) /\ error[i] = AddedErrors(s) /\ miss[i] = AddedMisses(s)
    BY <1>2
  <2> HIDE DEF s
  <2>4. AddedLatency(s) \in Int
    <3>1. Max({s.latency, 60}) \in Int
      BY <2>2, MaxPair
    <3>2. CASE s.type \in {"node_latency_spike", "isp_node_degradation"}
      BY <2>2, <3>2 DEF AddedLatency
    <3>3. CASE s.type = "capacity_pressure"
      BY <3>1, <3>3 DEF AddedLatency
    <3>4. CASE s.type \notin {"node_latency_spike", "isp_node_degradation", "capacity_pressure"}
      BY <3>4 DEF AddedLatency
    <3> QED
      BY <3>2, <3>3, <3>4
  <2>5. AddedErrors(s) \in Rates /\ AddedMisses(s) \in Rates
    BY <2>2, RatesAre DEF AddedErrors, AddedMisses
  <2> QED
    BY <2>2, <2>3, <2>4, <2>5, Zenon DEF s
<1>3. EffectsAt(n, t).labels \subseteq ScenarioTypes
  <2>1. EffectsAt(n, t).labels = {config.scenarios[i].type : i \in A}
    BY EffectFields
  <2> HIDE DEF A
  <2>2. \A i \in A : config.scenarios[i].type \in ScenarioTypes
    BY <1>2
  <2> QED
    BY ONLY <2>1, <2>2
<1>4. EffectsAt(n, t).latency \in Int
  <2>1. EffectsAt(n, t).latency = SumOver(latency, A)
    BY EffectFields
  <2> HIDE DEF A, latency
  <2>2. \A i \in A : latency[i] \in Int
    BY <1>2
  <2> QED
    BY ONLY <1>1, <2>1, <2>2, SumInt
<1>5. EffectsAt(n, t).error \in Rates
  <2>1. {AddedErrors(config.scenarios[i]) : i \in A} = {error[i] : i \in A}
    OBVIOUS
  <2>2. EffectsAt(n, t).error = Max({0} \cup {error[i] : i \in A})
    BY <2>1, EffectFields
  <2> HIDE DEF A, error
  <2>3. \A i \in A : error[i] \in Rates
    BY <1>2
  <2> QED
    BY ONLY <1>1, <2>2, <2>3, LargestRate
<1>6. EffectsAt(n, t).miss \in Rates
  <2>1. {AddedMisses(config.scenarios[i]) : i \in A} = {miss[i] : i \in A}
    OBVIOUS
  <2>2. EffectsAt(n, t).miss = Max({0} \cup {miss[i] : i \in A})
    BY <2>1, EffectFields
  <2> HIDE DEF A, miss
  <2>3. \A i \in A : miss[i] \in Rates
    BY <1>2
  <2> QED
    BY ONLY <1>1, <2>2, <2>3, LargestRate
<1> QED
  BY <1>3, <1>4, <1>5, <1>6

-----------------------------------------------------------------------------
(* Slots and rows *)

-----------------------------------------------------------------------------
(* Requests and rows *)

LEMMA NodeFields ==
  ASSUME Checked, NEW n \in Nodes
  PROVE  n \in Nat /\ config.nodes[n].base \in Nat /\ Len(config.nodes) \in Nat
<1>1. config.nodes \in Seq(Node)
  BY DEF Checked, IsConfig
<1>2. n \in 1..Len(config.nodes) /\ Len(config.nodes) \in Nat
  BY <1>1 DEF Nodes
<1>3. config.nodes[n] \in Node
  BY <1>1, <1>2
<1>4. config.nodes[n] \in Range(config.nodes)
  BY DEF Nodes, Range
<1>5. config.nodes[n].base \in Int /\ config.nodes[n].base >= 0
  BY <1>3, <1>4, ValidateParts DEF Node
<1> QED
  BY <1>2, <1>5

(* Minutes are counted from the one before the start, which has slots only *)
(* if jitter reaches it; a later one has its first slot.                   *)
LEMMA SlotsOf ==
  ASSUME Checked, NEW m \in Int
  PROVE  /\ Slots(m) \subseteq (PerMinute * m)..(PerMinute * m + PerMinute - 1)
         /\ \A t \in Slots(m) : t < config.duration
         /\ m >= 0 => \A t \in (PerMinute * m)..(PerMinute * m + PerMinute - 1) :
                        t < config.duration => t \in Slots(m)
<1> DEFINE P == PerMinute
           D == config.duration
           late == config.outOfOrder
<1>1. P \in Nat \ {0} /\ D \in Int
  BY DetectionAssumption DEF Checked, IsConfig
<1>2. late \in Nat
  <2>1. late \in 0..MaxOutOfOrder
    BY Zenon DEF Checked, Validate
  <2> QED
    BY <2>1 DEF MaxOutOfOrder
<1>3. Slots(m) = {t \in (P * m)..(P * m + P - 1) : t < D /\ 60 * (t + 1) > - late * P}
  BY DEF Slots
<1> HIDE DEF P, D, late
<1>4. ASSUME m >= 0, NEW t \in (P * m)..(P * m + P - 1)
      PROVE  60 * (t + 1) > - late * P
  <2>1. P * m \in Nat
    BY <1>1, <1>4
  <2>2. t \in Nat
    BY <1>1, <2>1, <1>4
  <2>3. PICK x \in Nat : x = late * P /\ - late * P = - x
    <3>1. late * P \in Nat /\ - late * P = - (late * P)
      BY <1>1, <1>2
    <3> QED
      BY <3>1
  <2> QED
    BY ONLY <2>2, <2>3
<1>5. Slots(m) \subseteq (P * m)..(P * m + P - 1) /\ \A t \in Slots(m) : t < D
  BY <1>3
<1> QED
  BY <1>3, <1>4, <1>5 DEF P, D

(* The requests that are drawn for a minute. *)
LEMMA DrawnOf ==
  ASSUME Checked, seed \in Seeds, NEW n \in Nodes, NEW m \in Int, m >= -1
  PROVE  /\ IsFiniteSet(Drawn(n, m)) /\ Drawn(n, m) \subseteq Draw
         /\ \A d \in Drawn(n, m) : Slot(m, d) \in Slots(m)
<1> DEFINE c == Cardinality(DOMAIN seed)
           k == Len(config.nodes) * (m + 1) + n
           i == k % c
<1>1. /\ IsFiniteSet(DOMAIN seed) /\ DOMAIN seed # {}
      /\ DOMAIN seed = 0..(c - 1)
      /\ \A j \in DOMAIN seed : seed[j] \subseteq Draw /\ IsFiniteSet(seed[j])
  BY DetectionAssumption
<1>2. c \in Nat \ {0}
  BY <1>1, FS_CardinalityType, FS_EmptySet
<1>3. k \in Nat
  <2>1. PICK l \in Nat, p \in Nat : l = Len(config.nodes) /\ p = m + 1
    BY NodeFields
  <2>2. l * p \in Nat
    BY ONLY l \in Nat, p \in Nat
  <2> QED
    BY <2>1, <2>2, NodeFields
<1>4. Drawn(n, m) = {d \in seed[i] : Slot(m, d) \in Slots(m)}
  BY DEF Drawn
<1> HIDE DEF c, k
<1>5. i \in DOMAIN seed
  BY <1>1, <1>2, <1>3
<1> HIDE DEF i
<1>6. IsFiniteSet(seed[i]) /\ seed[i] \subseteq Draw
  BY <1>1, <1>5
<1> QED
  BY <1>4, <1>6, FS_Subset

LEMMA ServedTypes ==
  ASSUME Checked, NEW n \in Nodes, NEW m, NEW d \in Draw
  PROVE  Served(n, m, d).ms \in Nat /\ Served(n, m, d).count \in Nat \ {0}
<1> DEFINE e == EffectsAt(n, Slot(m, d))
           base == config.nodes[n].base
<1>1. e.latency \in Int
  BY EffectTypes
<1>2. base \in Nat /\ d.noise \in Int /\ d.origin \in Int /\ d.count \in Nat \ {0}
  BY NodeFields DEF Draw
<1>3. /\ Served(n, m, d).ms = NodeTime(base, e, d) + OriginTime(e, d)
      /\ Served(n, m, d).count = d.count
  BY DEF Served
<1> HIDE DEF e, base
<1>4. NodeTime(base, e, d) \in Nat
  <2>1. base + d.noise + e.latency \in Int
    BY <1>1, <1>2
  <2> QED
    BY <2>1, MaxPair DEF NodeTime
<1>5. OriginTime(e, d) \in Nat
  <2>1. 35 + d.origin + (2 * e.latency) \div 5 \in Int
    BY <1>1, <1>2
  <2>2. Max({1, 35 + d.origin + (2 * e.latency) \div 5}) \in Nat
    BY <2>1, MaxPair
  <2> QED
    BY <2>2 DEF OriginTime
<1> QED
  BY <1>2, <1>3, <1>4, <1>5

LEMMA RequestsOf ==
  ASSUME Checked, seed \in Seeds, NEW n \in Nodes, NEW m \in Int, m >= -1
  PROVE  /\ IsFiniteSet(Requests(n, m))
         /\ Drawn(n, m) # {} => Requests(n, m) # {}
         /\ \A r \in Requests(n, m) : r.ms \in Nat /\ r.count \in Nat \ {0}
<1> DEFINE D == Drawn(n, m)
           served == [d \in D |-> Served(n, m, d)]
<1>1. IsFiniteSet(D) /\ D \subseteq Draw
  BY DrawnOf
<1>2. Requests(n, m) = {served[d] : d \in D}
  BY DEF Requests
<1>3. \A d \in D : served[d].ms \in Nat /\ served[d].count \in Nat \ {0}
  BY <1>1, ServedTypes
<1> HIDE DEF D, served
<1> QED
  BY <1>1, <1>2, <1>3, ImageFinite DEF D

(* How many requests are counted in a set of them. *)
LEMMA CountIs ==
  ASSUME NEW S, IsFiniteSet(S), \A r \in S : r.count \in Nat \ {0}, NEW T, T \subseteq S
  PROVE  /\ Count(T) \in Nat /\ Count(T) <= Count(S)
         /\ S # {} => Count(S) \in Nat \ {0}
<1> DEFINE all == [r \in S |-> r.count]
           some == [r \in T |-> r.count]
           inT == [r \in S |-> IF r \in T THEN r.count ELSE 0]
<1>1. /\ Count(S) = SumOver(all, S) /\ Count(T) = SumOver(some, T)
  BY DEF Count, SumOver
<1>2. IsFiniteSet(T) /\ T = S \cap T
  BY FS_Subset
<1>3. /\ \A r \in S : /\ all[r] \in Nat \ {0} /\ inT[r] \in Nat /\ inT[r] <= all[r]
                      /\ r \notin T => inT[r] = 0
      /\ \A r \in T : some[r] \in Nat /\ some[r] = inT[r]
  OBVIOUS
<1> HIDE DEF all, some, inT
<1>4. SumOver(some, T) = SumOver(inT, T)
  BY <1>2, <1>3, SumSame
<1>5. SumOver(inT, S) = SumOver(inT, T)
  <2>1. SumOver(inT, S) = SumOver(inT, S \cap T)
    BY <1>3, SumDrop
  <2> QED
    BY <1>2, <2>1
<1>6. SumOver(inT, S) <= SumOver(all, S)
  BY <1>3, SumMono
<1>7. SumOver(some, T) \in Nat
  BY <1>2, <1>3, SumNat
<1>8. ASSUME S # {} PROVE SumOver(all, S) \in Nat \ {0}
  <2>1. PICK r \in S : TRUE
    BY <1>8
  <2>2. SumOver(all, S) \in Nat /\ all[r] <= SumOver(all, S)
    BY <1>3, SumNat
  <2> QED
    BY <1>3, <2>1, <2>2
<1> QED
  BY <1>1, <1>4, <1>5, <1>6, <1>7, <1>8

(* A share of a whole is a number of parts. *)
LEMMA PartsBetween ==
  ASSUME NEW some \in Nat, NEW all \in Nat \ {0}, some <= all, NEW whole \in Nat
  PROVE  (whole * some) \div all \in 0..whole
<1> DEFINE q == (whole * some) \div all
<1>1. whole * some \in Nat /\ whole * some <= whole * all
  OBVIOUS
<1>2. PICK x \in Nat : x = whole * some
  BY <1>1
<1>3. q \in Int /\ all * q <= x /\ x < all * q + all
  BY <1>2
<1> HIDE DEF q
<1>4. q >= 0
  <2>1. q >= 0 \/ q + 1 <= 0
    BY <1>3
  <2>2. q + 1 <= 0 => all * (q + 1) <= 0
    BY <1>3
  <2>3. all * (q + 1) = all * q + all
    BY <1>3
  <2> QED
    BY <1>3, <2>1, <2>2, <2>3
<1>5. q <= whole
  <2>1. q <= whole \/ whole + 1 <= q
    BY <1>3
  <2>2. whole + 1 <= q => all * (whole + 1) <= all * q
    BY <1>3
  <2>3. all * (whole + 1) = whole * all + all
    OBVIOUS
  <2>4. PICK y \in Nat, z \in Int : y = whole * all /\ z = all * q
    BY <1>3
  <2> QED
    BY <1>1, <1>2, <1>3, <2>1, <2>2, <2>3, <2>4
<1> QED
  BY <1>3, <1>4, <1>5 DEF q

LEMMA RateIs ==
  ASSUME NEW S, IsFiniteSet(S), S # {}, \A r \in S : r.count \in Nat \ {0}, NEW T, T \subseteq S
  PROVE  Rate(T, S) \in Rates
<1>1. PICK some \in Nat, all \in Nat \ {0} : some = Count(T) /\ all = Count(S) /\ some <= all
  BY CountIs
<1>2. PICK whole \in Nat : whole = 1000
  OBVIOUS
<1>3. (whole * some) \div all \in 0..whole
  BY <1>1, PartsBetween
<1> QED
  BY <1>1, <1>2, <1>3 DEF Rate, Rates

(* The nearest rank is the time of some request. *)
LEMMA PercentileIsTime ==
  ASSUME NEW requests, IsFiniteSet(requests), requests # {},
         \A r \in requests : r.ms \in Nat /\ r.count \in Nat \ {0}
  PROVE  Percentile95(requests) \in Nat
<1> DEFINE Upto(x) == {k \in requests : k.ms <= x}
           Q == {q \in requests : 100 * Count(Upto(q.ms)) >= 95 * Count(requests)}
           V == {r.ms : r \in Q}
           ms == [r \in requests |-> r.ms]
           M == {ms[r] : r \in requests}
<1>1. IsFiniteSet(M) /\ M # {} /\ M \subseteq Int
  <2>1. \A r \in requests : ms[r] \in Int
    OBVIOUS
  <2> HIDE DEF ms
  <2>2. IsFiniteSet(M)
    BY ImageFinite
  <2> QED
    BY <2>1, <2>2
<1>2. Max(M) \in M /\ \A y \in M : Max(M) >= y
  <2> HIDE DEF M
  <2> QED
    BY <1>1, MaxFinite
<1>3. PICK h \in requests : h.ms = Max(M)
  BY <1>2
<1>4. Upto(h.ms) = requests
  <2>1. \A k \in requests : k.ms \in M
    OBVIOUS
  <2>2. \A k \in requests : k.ms <= h.ms
    <3> HIDE DEF M
    <3> QED
      BY <1>2, <1>3, <2>1
  <2> QED
    BY <2>2
<1>5. Count(requests) \in Nat
  BY CountIs
<1>6. h \in Q
  <2>1. 100 * Count(Upto(h.ms)) >= 95 * Count(requests)
    <3> HIDE DEF Upto
    <3> QED
      BY <1>4, <1>5
  <2> QED
    BY <2>1
<1>7. V \subseteq Nat /\ V # {}
  BY <1>6
<1>8. Percentile95(requests) = Min(V)
  BY DEF Percentile95
<1>9. Min(V) \in V
  <2> HIDE DEF V
  <2> QED
    BY <1>7, MinNat
<1> QED
  BY <1>7, <1>8, <1>9

RowOk(r) ==
  /\ r.requests \in Nat \ {0}
  /\ r.p95 \in Nat
  /\ r.error \in Rates
  /\ r.hit \in Rates
  /\ r.slots \subseteq Slots(r.minute)
  /\ r.labels \subseteq ScenarioTypes

LEMMA RowTypes ==
  ASSUME Checked, seed \in Seeds, NEW n \in Nodes, NEW m \in Int, m >= -1, Drawn(n, m) # {}
  PROVE  Row(n, m).minute = m /\ RowOk(Row(n, m))
<1> DEFINE requests == Requests(n, m)
           slots == {Slot(m, d) : d \in Drawn(n, m)}
<1>1. /\ Row(n, m).minute = m
      /\ Row(n, m).requests = Count(requests)
      /\ Row(n, m).p95 = Percentile95(requests)
      /\ Row(n, m).error = Rate({r \in requests : r.failed}, requests)
      /\ Row(n, m).hit = Rate({r \in requests : r.hit}, requests)
      /\ Row(n, m).slots = slots
      /\ Row(n, m).labels = UNION {EffectsAt(n, t).labels : t \in slots}
  BY DEF Row
<1>2. slots \subseteq Slots(m)
  BY DrawnOf
<1>3. IsFiniteSet(requests) /\ requests # {}
      /\ \A r \in requests : r.ms \in Nat /\ r.count \in Nat \ {0}
  BY RequestsOf
<1> DEFINE failed == {r \in requests : r.failed}
           hits == {r \in requests : r.hit}
<1>4. failed \subseteq requests /\ hits \subseteq requests
  OBVIOUS
<1> HIDE DEF requests, slots, failed, hits
<1>5. Count(requests) \in Nat \ {0} /\ Percentile95(requests) \in Nat
  BY <1>3, CountIs, PercentileIsTime
<1>6. Rate(failed, requests) \in Rates /\ Rate(hits, requests) \in Rates
  BY <1>3, <1>4, RateIs
<1>7. UNION {EffectsAt(n, t).labels : t \in slots} \subseteq ScenarioTypes
  <2>1. \A t \in slots : EffectsAt(n, t).labels \subseteq ScenarioTypes
    BY EffectTypes
  <2> QED
    BY ONLY <2>1
<1> QED
  BY <1>1, <1>2, <1>5, <1>6, <1>7 DEF RowOk, failed, hits

(* Which faults a row shows: those that cover the node in a slot of a *)
(* request.                                                           *)
LEMMA RowLabels ==
  ASSUME NEW n, NEW m
  PROVE  \A type : type \in Row(n, m).labels <=>
            \E t \in Row(n, m).slots : \E i \in DOMAIN config.scenarios :
               /\ Applies(config.scenarios[i], t, config.nodes[n].id, Network)
               /\ type = config.scenarios[i].type
<1> DEFINE slots == {Slot(m, d) : d \in Drawn(n, m)}
<1>1. Row(n, m).slots = slots /\ Row(n, m).labels = UNION {EffectsAt(n, t).labels : t \in slots}
  BY DEF Row
<1>2. \A t : EffectsAt(n, t).labels = {config.scenarios[i].type : i \in Active(n, t)}
  BY EffectFields
<1> HIDE DEF slots
<1> QED
  BY <1>1, <1>2 DEF Active

-----------------------------------------------------------------------------
(* The inductive invariant *)

(* Minutes are counted from the one before the start. *)
MinuteNumbers == {m \in Int : m >= -1}

(* The rows of the minutes of a node that are over and had requests. *)
RowsOf(n) == {Row(n, m) : m \in {k \in -1..(minute[n] - 1) : Drawn(n, k) # {}}}

(* Only minutes of an accepted configuration have rows. *)
Ran == phase \in {"run", "done"}

Inv ==
  /\ phase \in {"load", "rejected", "run", "done"}
  /\ config \in Configs
  /\ seed \in Seeds
  /\ minute \in [Nodes -> MinuteNumbers]
  /\ DOMAIN table = Nodes
  /\ Ran => /\ Validate(config)
            /\ \A n \in Nodes : minute[n] <= Minutes
  /\ ~ Ran => \A n \in Nodes : minute[n] = -1
  /\ \A n \in Nodes : table[n] \in Seq(RowsOf(n))
  /\ phase = "done" => \A n \in Nodes : minute[n] = Minutes

LEMMA MinutesInt ==
  ASSUME config \in Configs
  PROVE  IsConfig(config) /\ Minutes \in Int
<1>1. IsConfig(config)
  BY DetectionAssumption
<1>2. config.duration \in Int
  BY <1>1 DEF IsConfig
<1>3. PerMinute \in Nat \ {0}
  BY DetectionAssumption
<1> QED
  BY <1>1, <1>2, <1>3 DEF Minutes

(* A row from what it is made of. *)
RowFrom(m, requests, slots, labels) ==
  [minute |-> m, requests |-> Count(requests), p95 |-> Percentile95(requests),
   error |-> Rate({r \in requests : r.failed}, requests),
   hit |-> Rate({r \in requests : r.hit}, requests),
   slots |-> slots, labels |-> UNION labels]

LEMMA SameRows ==
  ASSUME UNCHANGED <<config, seed>>
  PROVE  /\ Nodes' = Nodes
         /\ Minutes' = Minutes
         /\ \A n, m : Row(n, m)' = Row(n, m) /\ Drawn(n, m)' = Drawn(n, m)
         /\ Validate(config)' <=> Validate(config)
<1>1. \A m : Slots(m)' = Slots(m)
  BY DEF Slots
<1>2. \A n, t : EffectsAt(n, t)' = EffectsAt(n, t)
  BY DEF EffectsAt
<1>3. \A n, m : Drawn(n, m)' = Drawn(n, m)
  BY <1>1 DEF Drawn
<1>4. \A n, m, d : Served(n, m, d)' = Served(n, m, d)
  <2> TAKE n, m, d
  <2>1. EffectsAt(n, Slot(m, d))' = EffectsAt(n, Slot(m, d))
    BY <1>2
  <2> QED
    BY <2>1 DEF Served
<1>5. \A n, m : Requests(n, m)' = Requests(n, m)
  BY <1>3, <1>4 DEF Requests
<1>6. ASSUME NEW n, NEW m PROVE Row(n, m)' = Row(n, m)
  <2> DEFINE slots == {Slot(m, d) : d \in Drawn(n, m)}
             labels == {EffectsAt(n, t).labels : t \in slots}
  <2>1. slots' = slots
    BY <1>3
  <2>2. labels' = labels
    BY <1>2, <2>1
  <2>3. Row(n, m) = RowFrom(m, Requests(n, m), slots, labels)
    BY DEF Row, RowFrom
  <2>4. Row(n, m)' = RowFrom(m, Requests(n, m)', slots', labels')
    BY DEF Row, RowFrom
  <2> HIDE DEF slots, labels
  <2> QED
    BY <1>5, <2>1, <2>2, <2>3, <2>4, Zenon
<1> QED
  BY <1>3, <1>6 DEF Nodes, Minutes

LEMMA InvInit == Init => Inv
<1> SUFFICES ASSUME Init PROVE Inv
  OBVIOUS
<1>1. /\ phase = "load" /\ config \in Configs /\ seed \in Seeds
      /\ minute = [n \in Nodes |-> -1] /\ table = [n \in Nodes |-> <<>>]
  BY DEF Init
<1>2. minute \in [Nodes -> MinuteNumbers] /\ DOMAIN table = Nodes /\ \A n \in Nodes : minute[n] = -1
  BY <1>1 DEF MinuteNumbers
<1>3. \A n \in Nodes : table[n] \in Seq(RowsOf(n))
  <2> TAKE n \in Nodes
  <2>1. table[n] = <<>>
    BY <1>1
  <2> QED
    BY <2>1, EmptySeq
<1>4. phase = "load" /\ ~ Ran
  BY <1>1 DEF Ran
<1> QED
  BY <1>1, <1>2, <1>3, <1>4 DEF Inv

(* The minute of one node passes; its rows are those of one minute more. *)
LEMMA MinuteKeeps ==
  ASSUME Inv, NEW n \in Nodes, MinuteOver(n), UNCHANGED <<phase, config, seed>>
  PROVE  /\ minute' \in [Nodes -> MinuteNumbers]
         /\ minute'[n] = minute[n] + 1
         /\ \A k \in Nodes : minute'[k] <= Minutes
         /\ \A k \in Nodes : RowsOf(k) \subseteq RowsOf(k)'
         /\ Drawn(n, minute[n]) # {} => Row(n, minute[n]) \in RowsOf(n)'
         /\ phase = "run" /\ Validate(config)
<1>0. phase = "run" /\ Validate(config) /\ minute \in [Nodes -> MinuteNumbers]
      /\ (\A k \in Nodes : minute[k] <= Minutes) /\ minute[n] < Minutes /\ Minutes \in Int
  BY MinutesInt DEF Inv, Ran, MinuteOver
<1>1. minute' = [minute EXCEPT ![n] = @ + 1]
  BY DEF MinuteOver
<1>2. minute' \in [Nodes -> MinuteNumbers] /\ minute'[n] = minute[n] + 1
      /\ \A k \in Nodes : k # n => minute'[k] = minute[k]
  BY <1>0, <1>1 DEF MinuteNumbers
<1>3. \A k \in Nodes : minute'[k] <= Minutes
  BY <1>0, <1>2 DEF MinuteNumbers
<1>4. \A k \in Nodes : -1..(minute[k] - 1) \subseteq -1..(minute'[k] - 1)
  BY <1>0, <1>2 DEF MinuteNumbers
<1>5. minute[n] \in -1..(minute'[n] - 1)
  BY <1>0, <1>2 DEF MinuteNumbers
<1>6. \A k : RowsOf(k)' = {Row(k, m) : m \in {j \in -1..(minute'[k] - 1) : Drawn(k, j) # {}}}
  <2> TAKE k
  <2>1. \A m : Row(k, m)' = Row(k, m) /\ Drawn(k, m)' = Drawn(k, m)
    BY SameRows
  <2> QED
    BY <2>1 DEF RowsOf
<1>7. \A k \in Nodes : RowsOf(k) \subseteq RowsOf(k)'
  <2> TAKE k \in Nodes
  <2>1. \A m \in {j \in -1..(minute[k] - 1) : Drawn(k, j) # {}} : Row(k, m) \in RowsOf(k)'
    BY <1>4, <1>6, Zenon
  <2> QED
    BY <2>1, Zenon DEF RowsOf
<1>8. Drawn(n, minute[n]) # {} => Row(n, minute[n]) \in RowsOf(n)'
  BY <1>5, <1>6
<1> QED
  BY <1>0, <1>2, <1>3, <1>7, <1>8

LEMMA SeqGrows ==
  ASSUME NEW S, NEW T, S \subseteq T, NEW s \in Seq(S)
  PROVE  s \in Seq(T)
BY SeqDef

LEMMA MinuteOverKeeps ==
  ASSUME Inv, NEW n \in Nodes, RowArrives(n) \/ NoTraffic(n)
  PROVE  Inv'
<1>0. MinuteOver(n) /\ UNCHANGED <<phase, config, seed>>
  BY DEF RowArrives, NoTraffic
<1>1. /\ minute' \in [Nodes -> MinuteNumbers]
      /\ \A k \in Nodes : minute'[k] <= Minutes
      /\ \A k \in Nodes : RowsOf(k) \subseteq RowsOf(k)'
      /\ Drawn(n, minute[n]) # {} => Row(n, minute[n]) \in RowsOf(n)'
      /\ phase = "run" /\ Validate(config)
  BY <1>0, MinuteKeeps
<1>2. Nodes' = Nodes /\ Minutes' = Minutes
  BY <1>0, SameRows
<1>3. DOMAIN table = Nodes /\ \A k \in Nodes : table[k] \in Seq(RowsOf(k))
  BY DEF Inv
<1>4. \A k \in Nodes : table[k] \in Seq(RowsOf(k)')
  BY <1>1, <1>3, SeqGrows
<1>5. DOMAIN table' = Nodes /\ \A k \in Nodes : table'[k] \in Seq(RowsOf(k)')
  <2>1. CASE RowArrives(n)
    <3>1. /\ Drawn(n, minute[n]) # {}
          /\ table' = [table EXCEPT ![n] = Append(@, Row(n, minute[n]))]
      BY <2>1 DEF RowArrives
    <3>2. PICK S, s, r : s \in Seq(S) /\ r \in S /\ S = RowsOf(n)' /\ table'[n] = Append(s, r)
      BY <1>1, <1>3, <1>4, <3>1
    <3>3. table'[n] \in Seq(RowsOf(n)')
      BY <3>2
    <3> QED
      BY <1>3, <1>4, <3>1, <3>3
  <2>2. CASE NoTraffic(n)
    <3>1. table' = table
      BY <2>2 DEF NoTraffic
    <3> QED
      BY <1>3, <1>4, <3>1
  <2> QED
    BY <2>1, <2>2
<1>6. Ran' /\ phase' = "run" /\ Validate(config') /\ config' \in Configs /\ seed' \in Seeds
  BY <1>0, <1>1 DEF Ran, Inv
<1> QED
  BY <1>1, <1>2, <1>5, <1>6 DEF Inv

LEMMA InvNext == Inv /\ [Next]_vars => Inv'
<1> SUFFICES ASSUME Inv, [Next]_vars PROVE Inv'
  OBVIOUS
<1>1. ASSUME UNCHANGED <<config, seed, minute, table>>,
             phase' \in {"load", "rejected", "run", "done"},
             Ran' => Validate(config),
             Ran' => \A n \in Nodes : minute[n] <= Minutes,
             ~ Ran' => \A n \in Nodes : minute[n] = -1,
             phase' = "done" => \A n \in Nodes : minute[n] = Minutes
      PROVE  Inv'
  <2>1. Nodes' = Nodes /\ Minutes' = Minutes
        /\ (\A k, m : Row(k, m)' = Row(k, m) /\ Drawn(k, m)' = Drawn(k, m))
        /\ (Validate(config)' <=> Validate(config))
    BY <1>1, SameRows
  <2>2. \A n : RowsOf(n)' = RowsOf(n)
    BY <1>1, <2>1 DEF RowsOf
  <2>3. \A n \in Nodes : table'[n] \in Seq(RowsOf(n)')
    BY <1>1, <2>2 DEF Inv
  <2>4. /\ config' \in Configs /\ seed' \in Seeds
        /\ minute' \in [Nodes -> MinuteNumbers] /\ DOMAIN table' = Nodes
    BY <1>1 DEF Inv
  <2>5. Ran' => Validate(config)' /\ \A n \in Nodes' : minute'[n] <= Minutes'
    BY <1>1, <2>1
  <2>6. ~ Ran' => \A n \in Nodes' : minute'[n] = -1
    BY <1>1, <2>1
  <2>7. phase' = "done" => \A n \in Nodes' : minute'[n] = Minutes'
    BY <1>1, <2>1
  <2> QED
    BY <1>1, <2>1, <2>3, <2>4, <2>5, <2>6, <2>7 DEF Inv
<1>2. Minutes \in Int /\ IsConfig(config)
  BY MinutesInt DEF Inv
<1>3. CASE Load
  <2>1. phase = "load" /\ phase' = "run" /\ Validate(config)
        /\ UNCHANGED <<config, seed, minute, table>>
    BY <1>3 DEF Load
  <2>2. \A n \in Nodes : minute[n] = -1
    BY <2>1 DEF Inv, Ran
  <2>3. Minutes >= 0
    <3>1. config.duration \in Int /\ config.duration > 0 /\ PerMinute \in Nat \ {0}
      BY <1>2, <2>1, ValidateParts, DetectionAssumption DEF Checked, IsConfig
    <3> QED
      BY <3>1 DEF Minutes
  <2>4. \A n \in Nodes : minute[n] <= Minutes
    BY <1>2, <2>2, <2>3
  <2> QED
    BY <1>1, <2>1, <2>4 DEF Ran
<1>4. CASE Reject
  <2>1. phase = "load" /\ phase' = "rejected" /\ UNCHANGED <<config, seed, minute, table>>
    BY <1>4 DEF Reject
  <2>2. \A n \in Nodes : minute[n] = -1
    BY <2>1 DEF Inv, Ran
  <2> QED
    BY <1>1, <2>1, <2>2 DEF Ran
<1>5. CASE Finish
  <2>1. /\ phase = "run" /\ phase' = "done" /\ UNCHANGED <<config, seed, minute, table>>
        /\ \A n \in Nodes : minute[n] = Minutes
    BY <1>5 DEF Finish
  <2>2. Validate(config) /\ \A n \in Nodes : minute[n] <= Minutes
    BY <2>1 DEF Inv, Ran
  <2> QED
    BY <1>1, <2>1, <2>2 DEF Ran
<1>6. CASE \E n \in Nodes : RowArrives(n) \/ NoTraffic(n)
  BY <1>6, MinuteOverKeeps
<1>7. CASE UNCHANGED vars
  <2>1. UNCHANGED <<config, seed, minute, table>> /\ phase' = phase
    BY <1>7 DEF vars
  <2> QED
    BY <1>1, <2>1 DEF Inv, Ran
<1> QED
  BY <1>3, <1>4, <1>5, <1>6, <1>7 DEF Next

LEMMA SpecInv == Spec => []Inv
BY InvInit, InvNext, PTL DEF Spec

-----------------------------------------------------------------------------
(* What the invariant says of the rows *)

(* A row in the table is the row of a minute that is over. *)
LEMMA RowInTable ==
  ASSUME Inv, NEW n \in Nodes, NEW r \in Range(table[n])
  PROVE  \E m \in MinuteNumbers :
           /\ m < minute[n] /\ m < Minutes /\ Drawn(n, m) # {} /\ r = Row(n, m) /\ Checked
<1>1. table[n] \in Seq(RowsOf(n)) /\ minute[n] \in MinuteNumbers
  BY DEF Inv
<1>2. PICK i \in DOMAIN table[n] : r = table[n][i]
  BY DEF Range
<1>3. table[n][i] \in RowsOf(n)
  BY <1>1, <1>2
<1>4. PICK m \in -1..(minute[n] - 1) : r = Row(n, m) /\ Drawn(n, m) # {}
  BY <1>2, <1>3 DEF RowsOf
<1>5. m \in MinuteNumbers /\ m < minute[n]
  BY <1>1, <1>4 DEF MinuteNumbers
<1>6. Ran
  BY <1>1, <1>5 DEF Inv, MinuteNumbers
<1>7. Validate(config) /\ minute[n] <= Minutes /\ Minutes \in Int /\ IsConfig(config)
  BY <1>6, MinutesInt DEF Inv
<1>8. m < Minutes /\ Checked
  BY <1>1, <1>5, <1>7 DEF Checked, MinuteNumbers
<1> QED
  BY <1>4, <1>5, <1>8

(* The columns of a row in the table are within their ranges. *)
LEMMA RowInRange ==
  ASSUME Inv, NEW n \in Nodes, NEW r \in Range(table[n])
  PROVE  RowOk(r)
<1>1. PICK m \in MinuteNumbers : Drawn(n, m) # {} /\ r = Row(n, m) /\ Checked
  BY RowInTable
<1>2. seed \in Seeds /\ m \in Int /\ m >= -1
  BY DEF Inv, MinuteNumbers
<1> QED
  BY <1>1, <1>2, RowTypes

LEMMA InvTypeOK == Inv => TypeOK
<1> SUFFICES ASSUME Inv PROVE TypeOK
  OBVIOUS
<1>0. Minutes \in Int /\ Max({-1, Minutes}) = IF -1 >= Minutes THEN -1 ELSE Minutes
  BY MinutesInt, MaxPair DEF Inv
<1>1. minute \in [Nodes -> -1..Max({-1, Minutes})]
  <2>1. minute \in [Nodes -> MinuteNumbers]
    BY DEF Inv
  <2>2. ASSUME NEW n \in Nodes PROVE minute[n] \in -1..Max({-1, Minutes})
    <3>1. CASE Ran
      BY <1>0, <2>1, <3>1 DEF Inv, MinuteNumbers
    <3>2. CASE ~ Ran
      BY <1>0, <2>1, <3>2 DEF Inv, MinuteNumbers
    <3> QED
      BY <3>1, <3>2
  <2> QED
    BY <2>1, <2>2
<1>2. ASSUME NEW n \in Nodes, NEW r \in Range(table[n])
      PROVE  /\ r.minute \in -1..(minute[n] - 1)
             /\ r.requests \in Nat \ {0} /\ r.p95 \in Nat
             /\ r.error \in 0..1000 /\ r.hit \in 0..1000
             /\ r.slots \subseteq Slots(r.minute) /\ r.labels \subseteq ScenarioTypes
  <2>1. PICK m \in MinuteNumbers : m < minute[n] /\ r = Row(n, m)
    BY RowInTable
  <2>2. r.minute = m
    BY <2>1 DEF Row
  <2>3. r.minute \in -1..(minute[n] - 1)
    BY <2>1, <2>2 DEF Inv, MinuteNumbers
  <2>4. RowOk(r)
    BY RowInRange
  <2> QED
    BY <2>3, <2>4, Zenon DEF RowOk, Rates
<1>3. phase \in {"load", "rejected", "run", "done"} /\ config \in Configs
  BY DEF Inv
<1> QED
  BY <1>1, <1>2, <1>3 DEF TypeOK

-----------------------------------------------------------------------------
(* The order statistics of the detector *)

(* SetToSeq lists a finite set, every element once. *)
LEMMA SetToSeqIs ==
  ASSUME NEW S, IsFiniteSet(S)
  PROVE  /\ SetToSeq(S) \in [1..Cardinality(S) -> S]
         /\ SetToSeq(S) \in Seq(S) /\ Len(SetToSeq(S)) = Cardinality(S)
         /\ \A x \in S : \E i \in 1..Cardinality(S) : SetToSeq(S)[i] = x
<1>1. PICK N \in Nat : N = Cardinality(S)
  BY FS_CardinalityType
<1>2. ExistsBijection(1..N, S)
  BY <1>1, FS_CardinalityType
<1>3. \E f \in [1..N -> S] : IsInjective(f)
  BY <1>2 DEF ExistsBijection, Bijection, Injection
<1>4. PICK f : f = SetToSeq(S)
  OBVIOUS
<1>5. f \in [1..N -> S] /\ IsInjective(f)
  BY <1>1, <1>3, <1>4 DEF SetToSeq
<1>6. f \in Injection(1..N, S)
  BY <1>5 DEF Injection
<1>7. IsFiniteSet(1..N) /\ Cardinality(1..N) = N
  BY FS_Interval
<1>8. f \in Surjection(1..N, S)
  BY <1>1, <1>6, <1>7, FS_Injection
<1>9. \A x \in S : \E i \in 1..N : f[i] = x
  BY <1>8 DEF Surjection
<1>10. f \in Seq(S) /\ Len(f) = N
  BY <1>5
<1> QED
  BY <1>1, <1>4, <1>5, <1>9, <1>10

(* How many values of a sequence are at most v. *)
Below(s, v) == {i \in DOMAIN s : s[i] <= v}

LEMMA AscendingIs ==
  ASSUME NEW s \in Seq(Nat), NEW k \in DOMAIN s
  PROVE  /\ Ascending(s)[k] \in Nat
         /\ Ascending(s)[k] \in Range(s)
         /\ IsFiniteSet(Below(s, Ascending(s)[k]))
         /\ Cardinality(Below(s, Ascending(s)[k])) >= k
         /\ \A v \in Range(s) : Cardinality(Below(s, v)) >= k => Ascending(s)[k] <= v
<1> DEFINE A == {v \in Range(s) : Cardinality(Below(s, v)) >= k}
<1>1. PICK N \in Nat : N = Len(s)
  OBVIOUS
<1>2. DOMAIN s = 1..N /\ s \in [1..N -> Nat] /\ k \in 1..N
  BY <1>1
<1>3. IsFiniteSet(1..N) /\ Cardinality(1..N) = N
  BY FS_Interval
<1>4. Range(s) \subseteq Nat /\ Range(s) # {} /\ Range(s) = {s[i] : i \in 1..N}
  BY <1>2 DEF Range
<1>5. IsFiniteSet(Range(s))
  BY <1>3, <1>4, ImageFinite
<1>6. Max(Range(s)) \in Range(s) /\ \A v \in Range(s) : Max(Range(s)) >= v
  <2>1. Range(s) \subseteq Int
    BY <1>4
  <2> QED
    BY <1>4, <1>5, <2>1, MaxFinite
<1>7. Below(s, Max(Range(s))) = 1..N
  BY <1>2, <1>4, <1>6 DEF Below
<1>8. Max(Range(s)) \in A
  BY <1>2, <1>3, <1>6, <1>7
<1>9. A \subseteq Nat /\ A # {}
  BY <1>4, <1>8
<1>10. Ascending(s)[k] = Min(A)
  BY DEF Ascending, Below
<1> HIDE DEF A
<1>11. Min(A) \in A /\ \A v \in A : Min(A) <= v
  BY <1>9, MinNat
<1>12. Below(s, Min(A)) \in SUBSET (1..N)
  BY <1>2 DEF Below
<1>13. IsFiniteSet(Below(s, Min(A)))
  BY <1>3, <1>12, FS_Subset
<1> QED
  BY <1>4, <1>9, <1>10, <1>11, <1>13 DEF A

(* Doubling the median leaves fewer than half of the values above it. *)
LEMMA MedianSplits ==
  ASSUME NEW s \in Seq(Nat), s # <<>>
  PROVE  /\ TwiceMedian(s) \in Nat
         /\ IsFiniteSet({i \in DOMAIN s : s[i] > TwiceMedian(s)})
         /\ 2 * Cardinality({i \in DOMAIN s : s[i] > TwiceMedian(s)}) < Len(s)
<1>1. PICK N \in Nat : N = Len(s)
  OBVIOUS
<1>2. N > 0 /\ DOMAIN s = 1..N /\ s \in [1..N -> Nat]
  BY <1>1
<1>3. PICK h \in Nat : h = N \div 2
  BY <1>1
<1>4. 2 * h <= N /\ N <= 2 * h + 1 /\ h + 1 \in 1..N /\ (N % 2 = 0 => h \in 1..N)
  BY <1>2, <1>3
<1>5. PICK a \in Nat : /\ a = Ascending(s)[h + 1]
                       /\ IsFiniteSet(Below(s, a)) /\ Cardinality(Below(s, a)) >= h + 1
  BY <1>2, <1>4, AscendingIs
<1>6. PICK T \in Nat : T = TwiceMedian(s) /\ T >= a
  <2>1. CASE N % 2 = 0
    <3>1. Ascending(s)[h] \in Nat
      BY <1>2, <1>4, <2>1, AscendingIs
    <3>2. TwiceMedian(s) = Ascending(s)[h] + a
      BY <1>1, <1>3, <1>5, <2>1 DEF TwiceMedian
    <3> QED
      BY <3>1, <3>2
  <2>2. CASE N % 2 # 0
    <3>1. TwiceMedian(s) = 2 * a
      BY <1>1, <1>3, <1>5, <2>2 DEF TwiceMedian
    <3> QED
      BY <3>1
  <2> QED
    BY <2>1, <2>2
<1> DEFINE big == {i \in DOMAIN s : s[i] > T}
           low == Below(s, a)
<1>7. IsFiniteSet(1..N) /\ Cardinality(1..N) = N
  BY FS_Interval
<1>8. big \in SUBSET (1..N) /\ low \in SUBSET (1..N) /\ big \cap low = {}
  BY <1>2, <1>6 DEF Below
<1>9. IsFiniteSet(big) /\ IsFiniteSet(low)
  BY <1>7, <1>8, FS_Subset
<1>10. Cardinality(big \cup low) = Cardinality(big) + Cardinality(low) - Cardinality(big \cap low)
  BY <1>9, FS_Union
<1>11. Cardinality(big \cup low) <= N
  BY <1>7, <1>8, FS_Subset
<1>12. Cardinality(big) \in Nat /\ Cardinality(low) \in Nat
  BY <1>9, FS_CardinalityType
<1>13. Cardinality(low) >= h + 1
  BY <1>5
<1>14. Cardinality(big \cap low) = 0
  BY <1>8, FS_EmptySet
<1> HIDE DEF big, low
<1>15. 2 * Cardinality(big) < N
  BY <1>4, <1>10, <1>11, <1>12, <1>13, <1>14
<1> QED
  BY <1>1, <1>6, <1>9, <1>15 DEF big

-----------------------------------------------------------------------------
(* What an evaluation sees *)

(* An evaluation sees rows of minutes that are over, the last row last. *)
LEMMA HistoryIs ==
  ASSUME Inv, NEW n \in Nodes, History(n) # <<>>
  PROVE  \E K \in Nat \ {0} :
           /\ Len(History(n)) = K /\ DOMAIN History(n) = 1..K
           /\ \A i \in 1..K : History(n)[i] \in Range(table[n])
           /\ Last(History(n)) = History(n)[K]
           /\ Len(Past(History(n))) = K - 1 /\ DOMAIN Past(History(n)) = 1..(K - 1)
           /\ \A i \in 1..(K - 1) : Past(History(n))[i] = History(n)[i]
<1>1. PICK rows : rows = table[n]
  OBVIOUS
<1>2. PICK S : S = RowsOf(n) /\ rows \in Seq(S)
  BY <1>1 DEF Inv
<1>3. PICK N \in Nat : N = Len(rows) /\ DOMAIN rows = 1..N
  BY <1>2
<1>4. PICK a \in Int : a = Max({1, N - HistoryWindows + 1}) /\ a >= 1
  <2>1. HistoryWindows \in Nat \ {0}
    BY DetectionAssumption
  <2>2. N - HistoryWindows + 1 \in Int
    BY <2>1
  <2>3. Max({1, N - HistoryWindows + 1}) =
          IF 1 >= N - HistoryWindows + 1 THEN 1 ELSE N - HistoryWindows + 1
    BY <2>2, MaxPair
  <2> QED
    BY <2>2, <2>3
<1>5. PICK h : h = History(n) /\ h = SubSeq(rows, a, N) /\ h # <<>>
  BY <1>1, <1>3, <1>4 DEF History
<1>6. a <= N
  <2>1. SUFFICES ASSUME N < a PROVE FALSE
    BY <1>4
  <2>2. SubSeq(rows, a, N) = <<>>
    BY <2>1, SubSeqEmpty
  <2> QED
    BY <1>5, <2>2
<1>7. PICK K \in Nat \ {0} : K = N - a + 1
  BY <1>6
<1>8. /\ SubSeq(rows, a, N) \in Seq(S)
      /\ Len(SubSeq(rows, a, N)) = K
      /\ \A i \in 1..K : SubSeq(rows, a, N)[i] = rows[a + i - 1]
  <2>1. \A i \in a..N : rows[i] \in S
    BY <1>2, <1>3, <1>4
  <2> QED
    BY <1>6, <1>7, <2>1, SubSeqProperties
<1>9. h \in Seq(S) /\ Len(h) = K /\ DOMAIN h = 1..K
  <2>1. h \in Seq(S) /\ Len(h) = K
    BY <1>5, <1>8, Zenon
  <2> QED
    BY ONLY <2>1
<1>10. \A i \in 1..K : h[i] \in Range(rows)
  <2> SUFFICES ASSUME NEW i \in 1..K PROVE h[i] \in Range(rows)
    OBVIOUS
  <2>1. h[i] = rows[a + i - 1]
    BY <1>5, <1>8, Zenon
  <2>2. a + i - 1 \in 1..N
    BY ONLY <1>4, <1>7, N \in Nat, a \in Int, K \in Nat \ {0}, i \in 1..K
  <2> QED
    BY <1>3, <2>1, <2>2 DEF Range
<1>11. /\ Len(Past(h)) = K - 1 /\ DOMAIN Past(h) = 1..(K - 1)
       /\ \A i \in 1..(K - 1) : Past(h)[i] = h[i]
  BY ONLY <1>9, K \in Nat \ {0} DEF Past
<1> QED
  BY <1>1, <1>5, <1>9, <1>10, <1>11 DEF Last

(* What is seen of a node is a row of it, the latest one included. *)
LEMMA HistoryLast ==
  ASSUME Inv, NEW n \in Nodes, History(n) # <<>>
  PROVE  RowOk(Last(History(n)))
<1>1. PICK K \in Nat \ {0} : /\ \A i \in 1..K : History(n)[i] \in Range(table[n])
                             /\ Last(History(n)) = History(n)[K]
  BY HistoryIs
<1>2. K \in 1..K
  OBVIOUS
<1> QED
  BY <1>1, <1>2, RowInRange

(* The nodes that Evaluate compares, and their latest p95 in its order. *)
Seen == {n \in Nodes : History(n) # <<>>}
LatestP95 == [i \in 1..Cardinality(Seen) |-> Last(History(SetToSeq(Seen)[i])).p95]

LEMMA SeenFinite ==
  ASSUME Inv
  PROVE  IsFiniteSet(Seen) /\ Seen \subseteq Nodes
<1>1. config.nodes \in Seq(Node)
  BY MinutesInt DEF Inv, IsConfig
<1>2. Nodes = 1..Len(config.nodes) /\ Len(config.nodes) \in Nat
  BY <1>1 DEF Nodes
<1>3. IsFiniteSet(Nodes)
  BY <1>2, FS_Interval
<1>4. Seen \in SUBSET Nodes
  BY DEF Seen
<1> QED
  BY <1>3, <1>4, FS_Subset

(* The baseline of the scope is the median over the compared nodes, and a  *)
(* node is accused by the rule if it exceeds a multiple of that median.    *)
LEMMA VerdictIs ==
  ASSUME Inv
  PROVE  /\ DOMAIN Verdict = Seen
         /\ LatestP95 \in Seq(Nat) /\ Len(LatestP95) = Cardinality(Seen)
         /\ \A n \in Seen : "RULE" \in Verdict[n] =>
              2 * Last(History(n)).p95 > LatencyMultiple * TwiceMedian(LatestP95)
<1> DEFINE latest == [n \in Seen |-> Last([k \in Nodes |-> History(k)][n])]
           base == LocationBaseline(latest)
<1>1. PICK N \in Nat : N = Cardinality(Seen)
  BY SeenFinite, FS_CardinalityType
<1>2. SetToSeq(Seen) \in [1..N -> Seen] /\ Seen \subseteq Nodes
  BY <1>1, SeenFinite, SetToSeqIs
<1>3. \A n \in Seen : latest[n] = Last(History(n)) /\ latest[n].p95 \in Nat
  <2> TAKE n \in Seen
  <2>1. n \in Nodes /\ History(n) # <<>>
    BY DEF Seen
  <2> QED
    BY <2>1, HistoryLast DEF RowOk
<1>4. LatestP95 = [i \in 1..N |-> latest[SetToSeq(Seen)[i]].p95]
  BY <1>1, <1>2, <1>3 DEF LatestP95
<1>5. LatestP95 \in [1..N -> Nat]
  BY <1>2, <1>3, <1>4
<1>6. Verdict = [n \in Seen |-> Reasons([k \in Nodes |-> History(k)][n], base)]
  BY DEF Verdict, Signals, Seen
<1>7. base = TwiceMedian(LatestP95)
  <2>1. DOMAIN latest = Seen /\ DOMAIN SetToSeq(Seen) = 1..N
    BY <1>2
  <2> HIDE DEF latest
  <2> QED
    BY <1>4, <2>1 DEF LocationBaseline
<1>8. ASSUME NEW n \in Seen, "RULE" \in Verdict[n]
      PROVE  2 * Last(History(n)).p95 > LatencyMultiple * TwiceMedian(LatestP95)
  <2>1. "RULE" \in Reasons(History(n), TwiceMedian(LatestP95))
    <3> HIDE DEF base
    <3> QED
      BY <1>2, <1>6, <1>7, <1>8
  <2>2. RuleAnomaly(Last(History(n)), TwiceMedian(LatestP95))
    BY <2>1 DEF Reasons
  <2> QED
    BY <2>2 DEF RuleAnomaly
<1>9. DOMAIN Verdict = Seen
  <2> HIDE DEF base
  <2> QED
    BY <1>6
<1>10. LatestP95 \in Seq(Nat) /\ Len(LatestP95) = N
  BY <1>5
<1> QED
  BY <1>1, <1>8, <1>9, <1>10

LEMMA TwiceAtLeast ==
  ASSUME NEW k \in Int, k >= 2, NEW t \in Nat
  PROVE  k * t >= 2 * t /\ k * t \in Int
<1>1. (k - 2) * t >= 0 /\ (k - 2) * t = k * t - 2 * t /\ k * t \in Int
  OBVIOUS
<1> QED
  BY <1>1

LEMMA InvRuleMinority ==
  ASSUME LatencyMultiple \in Int, LatencyMultiple >= 2
  PROVE  Inv => RuleMinority
<1> SUFFICES ASSUME Inv PROVE RuleMinority
  OBVIOUS
<1> DEFINE accused == {n \in Seen : "RULE" \in Verdict[n]}
           nodes == SetToSeq(Seen)
<1>1. PICK N \in Nat : N = Cardinality(Seen)
  BY SeenFinite, FS_CardinalityType
<1>2. PICK v \in Seq(Nat) : v = LatestP95 /\ DOMAIN Verdict = Seen /\ Len(v) = N
  BY <1>1, VerdictIs
<1>3. Max({1, N}) >= 1 /\ Max({1, N}) >= N
  BY MaxPair
<1>4. CASE N = 0
  <2>1. Seen = {}
    BY <1>1, <1>4, SeenFinite, FS_EmptySet
  <2>2. Cardinality({n \in DOMAIN Verdict : "RULE" \in Verdict[n]}) = 0
    BY <1>2, <2>1, FS_EmptySet
  <2>3. Max({1, N}) \in Int
    BY MaxPair
  <2> QED
    BY <1>1, <1>2, <1>3, <2>2, <2>3 DEF RuleMinority
<1>5. CASE N > 0
  <2>0. v # <<>>
    BY <1>2, <1>5
  <2>1. PICK T \in Nat : T = TwiceMedian(v)
    BY <2>0, MedianSplits
  <2> DEFINE big == {i \in DOMAIN v : v[i] > T}
             image == {nodes[i] : i \in big}
  <2>2. IsFiniteSet(big) /\ 2 * Cardinality(big) < N
    BY <1>2, <2>0, <2>1, MedianSplits
  <2>3. IsFiniteSet(image) /\ Cardinality(image) <= Cardinality(big)
    <3> HIDE DEF big, nodes
    <3> QED
      BY <2>2, ImageFinite
  <2>4. accused \subseteq image
    <3> SUFFICES ASSUME NEW n \in Seen, "RULE" \in Verdict[n] PROVE n \in image
      OBVIOUS
    <3>1. PICK p \in Nat : p = Last(History(n)).p95
      BY HistoryLast DEF Seen, RowOk
    <3>2. 2 * p > LatencyMultiple * T
      BY <1>2, <2>1, <3>1, VerdictIs
    <3>3. LatencyMultiple * T >= 2 * T /\ LatencyMultiple * T \in Int
      BY TwiceAtLeast
    <3>4. 2 * p > 2 * T
      BY <3>2, <3>3
    <3>5. p > T
      BY <3>4
    <3>6. PICK i \in 1..N : nodes[i] = n
      BY <1>1, SeenFinite, SetToSeqIs
    <3>7. DOMAIN v = 1..N /\ v[i] = p
      BY <1>1, <1>2, <3>1, <3>6 DEF LatestP95
    <3> QED
      BY <3>5, <3>6, <3>7
  <2>5. IsFiniteSet(accused) /\ Cardinality(accused) <= Cardinality(image)
    <3> HIDE DEF image, accused
    <3> QED
      BY <2>3, <2>4, FS_Subset
  <2>6. /\ Cardinality(accused) \in Nat /\ Cardinality(image) \in Nat
        /\ Cardinality(big) \in Nat
    BY <2>2, <2>3, <2>5, FS_CardinalityType
  <2>7. 2 * Cardinality(accused) < N
    <3> HIDE DEF image, accused, big
    <3> QED
      BY <2>2, <2>3, <2>5, <2>6
  <2>8. Max({1, N}) \in Int
    BY MaxPair
  <2> HIDE DEF accused
  <2>9. 2 * Cardinality(accused) < Max({1, N})
    BY <1>3, <2>6, <2>7, <2>8
  <2> QED
    BY <1>1, <1>2, <2>9 DEF RuleMinority, accused
<1> QED
  BY <1>4, <1>5

-----------------------------------------------------------------------------
(* The frozen mean, sample by sample *)

FirstMean(v) == [num |-> v, den |-> 1, accepted |-> <<v>>]

MeanStep(values, g, i) == IF i = 1 THEN FirstMean(values[1]) ELSE Smooth(g[i - 1], values[i])

MeanSolves(values, g) == g = [i \in DOMAIN values |-> MeanStep(values, g, i)]

LEMMA MeanUnfolded ==
  ASSUME NEW values, values # <<>>
  PROVE  FrozenEWMA(values) = (CHOOSE g : MeanSolves(values, g))[Len(values)]
BY DEF FrozenEWMA, MeanSolves, MeanStep, FirstMean

LEMMA MeanSolvable ==
  ASSUME NEW values, NEW N \in Nat, DOMAIN values = 1..N
  PROVE  \E g : MeanSolves(values, g)
<1> DEFINE Upto(g, k) == \A i \in 1..k : g[i] = MeanStep(values, g, i)
           T == {k \in Nat : \E g : Upto(g, k)}
<1>1. 0 \in T
  <2>1. Upto(<<>>, 0)
    OBVIOUS
  <2> QED
    BY <2>1
<1>2. ASSUME NEW k \in Nat, k \in T
      PROVE  k + 1 \in T
  <2>1. PICK g : Upto(g, k)
    BY <1>2
  <2>2. PICK h : h = [i \in 1..(k + 1) |-> IF i <= k THEN g[i] ELSE MeanStep(values, g, i)]
    OBVIOUS
  <2>3. \A i \in 1..k : h[i] = g[i]
    BY <2>2
  <2>4. ASSUME NEW i \in 1..(k + 1)
        PROVE  h[i] = MeanStep(values, h, i)
    <3>1. h[i] = MeanStep(values, g, i)
      <4>1. CASE i <= k
        BY <2>1, <2>3, <4>1
      <4>2. CASE ~ (i <= k)
        BY <2>2, <4>2
      <4> QED
        BY <4>1, <4>2
    <3>2. i # 1 => i - 1 \in 1..k
      OBVIOUS
    <3>3. MeanStep(values, g, i) = MeanStep(values, h, i)
      BY <2>3, <3>2 DEF MeanStep
    <3> QED
      BY <3>1, <3>3
  <2>5. Upto(h, k + 1)
    BY <2>4
  <2> HIDE DEF Upto
  <2> QED
    BY <2>5
<1>3. \A k \in Nat : k \in T
  <2> HIDE DEF T
  <2> QED
    BY <1>1, <1>2, NatSteps
<1>4. PICK g : Upto(g, N)
  BY <1>3
<1>5. PICK h : h = [i \in 1..N |-> g[i]]
  OBVIOUS
<1>6. ASSUME NEW i \in 1..N
      PROVE  h[i] = MeanStep(values, h, i)
  <2>1. h[i] = MeanStep(values, g, i)
    BY <1>4, <1>5
  <2>2. i # 1 => i - 1 \in 1..N
    OBVIOUS
  <2> QED
    BY <1>5, <2>1, <2>2 DEF MeanStep
<1>7. h = [i \in 1..N |-> MeanStep(values, h, i)]
  BY <1>5, <1>6
<1> QED
  BY <1>7 DEF MeanSolves

LEMMA MeanIs ==
  ASSUME NEW values, NEW N \in Nat \ {0}, Len(values) = N, DOMAIN values = 1..N
  PROVE  \E mean : /\ FrozenEWMA(values) = mean[N]
                   /\ mean[1] = FirstMean(values[1])
                   /\ \A i \in 2..N : mean[i] = Smooth(mean[i - 1], values[i])
<1>1. PICK g : g = CHOOSE f : MeanSolves(values, f)
  OBVIOUS
<1>2. MeanSolves(values, g)
  BY <1>1, MeanSolvable
<1>3. PICK f : f = [i \in 1..N |-> MeanStep(values, g, i)]
  OBVIOUS
<1>4. g = f
  BY <1>2, <1>3, Zenon DEF MeanSolves
<1>5. \A i \in 1..N : g[i] = MeanStep(values, g, i)
  BY <1>3, <1>4
<1>6. values # <<>>
  OBVIOUS
<1>7. FrozenEWMA(values) = g[N]
  BY <1>1, <1>6, MeanUnfolded
<1>8. g[1] = FirstMean(values[1])
  BY <1>5 DEF MeanStep
<1>9. \A i \in 2..N : g[i] = Smooth(g[i - 1], values[i])
  BY <1>5 DEF MeanStep
<1> QED
  BY <1>7, <1>8, <1>9

(* A mean of samples that are at least low is at least low. *)
LEMMA SmoothAtLeast ==
  ASSUME NEW a \in Nat, NEW d \in Nat \ {0}, NEW v \in Nat, NEW low \in Nat,
         a >= low * d, v >= low
  PROVE  /\ v * d + 4 * a \in Nat /\ 5 * d \in Nat \ {0}
         /\ v * d + 4 * a >= low * (5 * d)
<1>1. v * d >= low * d /\ v * d \in Nat /\ low * d \in Nat
  <2>1. (v - low) * d >= 0 /\ (v - low) * d = v * d - low * d
    OBVIOUS
  <2>2. v * d \in Nat /\ low * d \in Nat
    OBVIOUS
  <2> QED
    BY <2>1, <2>2
<1>2. low * (5 * d) = 5 * (low * d)
  OBVIOUS
<1> QED
  BY <1>1, <1>2

LEMMA MeanAtLeast ==
  ASSUME NEW values, NEW N \in Nat \ {0}, Len(values) = N, DOMAIN values = 1..N,
         NEW low \in Nat, \A i \in 1..N : values[i] \in Nat /\ values[i] >= low
  PROVE  /\ FrozenEWMA(values).num \in Nat
         /\ FrozenEWMA(values).den \in Nat \ {0}
         /\ FrozenEWMA(values).num >= low * FrozenEWMA(values).den
<1>1. PICK mean : /\ FrozenEWMA(values) = mean[N]
                  /\ mean[1] = FirstMean(values[1])
                  /\ \A i \in 2..N : mean[i] = Smooth(mean[i - 1], values[i])
  BY MeanIs
<1> DEFINE Good(x) == x.num \in Nat /\ x.den \in Nat \ {0} /\ x.num >= low * x.den
           T == {k \in Nat : k + 1 <= N => Good(mean[k + 1])}
<1>2. 0 \in T
  BY <1>1 DEF FirstMean
<1>3. ASSUME NEW k \in Nat, k \in T
      PROVE  k + 1 \in T
  <2>1. SUFFICES ASSUME (k + 1) + 1 <= N PROVE Good(mean[(k + 1) + 1])
    OBVIOUS
  <2>2. PICK x : x = mean[k + 1]
    OBVIOUS
  <2>3. Good(x)
    BY <1>3, <2>1, <2>2
  <2>4. PICK v \in Nat : v = values[(k + 1) + 1] /\ v >= low
    BY <2>1
  <2>5. mean[(k + 1) + 1] = Smooth(x, v)
    <3>1. (k + 1) + 1 \in 2..N /\ ((k + 1) + 1) - 1 = k + 1
      BY <2>1
    <3> QED
      BY <1>1, <2>2, <2>4, <3>1
  <2>6. PICK y : y = [num |-> v * x.den + 4 * x.num, den |-> 5 * x.den,
                      accepted |-> Append(x.accepted, v)]
    OBVIOUS
  <2>7. Good(y)
    <3>1. PICK a \in Nat, d \in Nat \ {0} : a = x.num /\ d = x.den /\ a >= low * d
      BY <2>3
    <3>2. y.num = v * d + 4 * a /\ y.den = 5 * d
      BY <2>6, <3>1
    <3>3. /\ v * d + 4 * a \in Nat /\ 5 * d \in Nat \ {0}
          /\ v * d + 4 * a >= low * (5 * d)
      BY ONLY a \in Nat, d \in Nat \ {0}, v \in Nat, low \in Nat, <2>4, <3>1, SmoothAtLeast
    <3> QED
      BY <3>2, <3>3, Zenon
  <2>8. Smooth(x, v) = y \/ Smooth(x, v) = x
    BY <2>6 DEF Smooth
  <2> HIDE DEF Good
  <2> QED
    BY <2>3, <2>5, <2>7, <2>8
<1>4. \A k \in Nat : k \in T
  <2> HIDE DEF T
  <2> QED
    BY <1>2, <1>3, NatSteps
<1>5. Good(mean[N])
  <2>1. N - 1 \in Nat /\ (N - 1) + 1 = N
    OBVIOUS
  <2> QED
    BY <1>4, <2>1
<1> QED
  BY <1>1, <1>5

-----------------------------------------------------------------------------
(* Medians of samples most of which are within bounds *)

LEMMA AscendingAtMost ==
  ASSUME NEW s \in Seq(Nat), NEW k \in DOMAIN s, NEW high \in Nat,
         NEW G \in SUBSET DOMAIN s, \A i \in G : s[i] <= high, Cardinality(G) >= k
  PROVE  Ascending(s)[k] <= high
<1>1. PICK N \in Nat : N = Len(s) /\ DOMAIN s = 1..N /\ s \in [1..N -> Nat]
  OBVIOUS
<1>2. IsFiniteSet(1..N) /\ Cardinality(1..N) = N
  BY FS_Interval
<1>3. IsFiniteSet(G)
  BY <1>1, <1>2, FS_Subset
<1>4. G # {}
  <2>1. k \in Nat /\ k >= 1
    BY <1>1
  <2>2. Cardinality({}) = 0
    BY FS_EmptySet
  <2>3. Cardinality(G) # 0
    BY <2>1
  <2> QED
    BY <2>2, <2>3, Zenon
<1>5. PICK V : V = {s[i] : i \in G}
  OBVIOUS
<1>6. IsFiniteSet(V) /\ V # {} /\ V \subseteq Int /\ V \subseteq Range(s)
  <2>1. IsFiniteSet(V)
    BY <1>3, <1>5, ImageFinite
  <2>2. V \subseteq Int /\ V # {}
    <3>1. \A i \in G : s[i] \in Int
      BY <1>1
    <3> QED
      BY ONLY <1>4, <1>5, <3>1
  <2>3. V \subseteq Range(s)
    BY <1>5 DEF Range
  <2> QED
    BY <2>1, <2>2, <2>3
<1>7. PICK top \in V : \A v \in V : top >= v
  BY ONLY <1>6, MaxFinite
<1>8. top <= high /\ top \in Nat /\ top \in Range(s)
  BY <1>1, <1>5, <1>6, <1>7
<1>9. G \subseteq Below(s, top)
  BY <1>1, <1>5, <1>7 DEF Below
<1>10. Cardinality(Below(s, top)) >= k
  <2>1. Below(s, top) \in SUBSET (1..N)
    BY <1>1 DEF Below
  <2>2. IsFiniteSet(Below(s, top))
    BY <1>2, <2>1, FS_Subset
  <2>3. Cardinality(G) <= Cardinality(Below(s, top))
    BY <1>9, <2>2, FS_Subset
  <2>4. Cardinality(G) \in Nat /\ Cardinality(Below(s, top)) \in Nat
    BY <1>3, <2>2, FS_CardinalityType
  <2> QED
    BY <1>1, <2>3, <2>4
<1>11. Ascending(s)[k] <= top /\ Ascending(s)[k] \in Nat
  BY <1>8, <1>10, AscendingIs
<1> QED
  BY <1>8, <1>11

LEMMA AscendingAtLeast ==
  ASSUME NEW s \in Seq(Nat), NEW k \in DOMAIN s, NEW low \in Nat,
         NEW B \in SUBSET DOMAIN s, \A i \in DOMAIN s : s[i] < low => i \in B,
         Cardinality(B) < k
  PROVE  Ascending(s)[k] >= low
<1>1. PICK N \in Nat : N = Len(s) /\ DOMAIN s = 1..N /\ s \in [1..N -> Nat]
  OBVIOUS
<1>2. PICK a \in Nat : /\ a = Ascending(s)[k] /\ IsFiniteSet(Below(s, a))
                       /\ Cardinality(Below(s, a)) >= k
  BY AscendingIs
<1>3. SUFFICES ASSUME a < low PROVE FALSE
  BY <1>2
<1>4. Below(s, a) \subseteq B
  BY <1>1, <1>2, <1>3 DEF Below
<1>5. IsFiniteSet(1..N)
  BY FS_Interval
<1>6. IsFiniteSet(B)
  BY <1>1, <1>5, FS_Subset
<1>7. Cardinality(Below(s, a)) <= Cardinality(B)
  BY <1>4, <1>6, FS_Subset
<1>8. Cardinality(Below(s, a)) \in Nat /\ Cardinality(B) \in Nat
  BY <1>2, <1>6, FS_CardinalityType
<1> QED
  BY <1>1, <1>2, <1>7, <1>8

(* The two places that make a median. *)
LEMMA TwiceMedianIs ==
  ASSUME NEW s \in Seq(Nat), s # <<>>
  PROVE  \E N \in Nat, j \in Nat, k \in Nat :
            /\ N = Len(s) /\ DOMAIN s = 1..N /\ s \in [1..N -> Nat]
            /\ j \in DOMAIN s /\ k \in DOMAIN s
            /\ N <= 2 * j /\ j <= k /\ 2 * (k - 1) <= N /\ j + k = N + 1
            /\ TwiceMedian(s) = Ascending(s)[j] + Ascending(s)[k]
<1>1. PICK N \in Nat : N = Len(s) /\ DOMAIN s = 1..N /\ s \in [1..N -> Nat]
  OBVIOUS
<1>2. N > 0
  BY <1>1
<1>3. PICK h \in Nat : h = N \div 2
  OBVIOUS
<1>4. CASE N % 2 = 0
  <2>1. h \in 1..N /\ h + 1 \in 1..N /\ N = 2 * h
    BY <1>2, <1>3, <1>4
  <2>2. TwiceMedian(s) = Ascending(s)[h] + Ascending(s)[h + 1]
    BY <1>1, <1>3, <1>4 DEF TwiceMedian
  <2>3. PICK k \in Nat : k = h + 1
    OBVIOUS
  <2>4. /\ h \in DOMAIN s /\ k \in DOMAIN s
        /\ TwiceMedian(s) = Ascending(s)[h] + Ascending(s)[k]
    BY <1>1, <2>1, <2>2, <2>3
  <2>5. N <= 2 * h /\ h <= k /\ 2 * (k - 1) <= N /\ h + k = N + 1
    BY ONLY <2>1, <2>3, h \in Nat
  <2> QED
    BY <1>1, <2>4, <2>5, Zenon
<1>5. CASE N % 2 # 0
  <2>1. h + 1 \in 1..N /\ N = 2 * h + 1
    BY <1>2, <1>3, <1>5
  <2>2. TwiceMedian(s) = 2 * Ascending(s)[h + 1]
    BY <1>1, <1>3, <1>5 DEF TwiceMedian
  <2>3. Ascending(s)[h + 1] \in Nat
    BY <1>1, <2>1, AscendingIs
  <2>4. PICK k \in Nat : k = h + 1
    OBVIOUS
  <2>5. TwiceMedian(s) = Ascending(s)[k] + Ascending(s)[k]
    BY <2>2, <2>3, <2>4
  <2> QED
    BY <1>1, <2>1, <2>4, <2>5
<1> QED
  BY <1>4, <1>5

(* If most samples are within bounds, so is their median. *)
LEMMA MedianWithin ==
  ASSUME NEW s \in Seq(Nat), s # <<>>, NEW low \in Nat, NEW high \in Nat,
         NEW B \in SUBSET DOMAIN s, \A i \in DOMAIN s : i \notin B => s[i] \in low..high,
         2 * Cardinality(B) < Len(s)
  PROVE  /\ TwiceMedian(s) \in Nat
         /\ 2 * low <= TwiceMedian(s) /\ TwiceMedian(s) <= 2 * high
<1>1. PICK N \in Nat, j \in Nat, k \in Nat :
            /\ N = Len(s) /\ DOMAIN s = 1..N /\ s \in [1..N -> Nat]
            /\ j \in DOMAIN s /\ k \in DOMAIN s
            /\ N <= 2 * j /\ j <= k /\ 2 * (k - 1) <= N
            /\ TwiceMedian(s) = Ascending(s)[j] + Ascending(s)[k]
  BY TwiceMedianIs
<1>2. IsFiniteSet(1..N) /\ Cardinality(1..N) = N
  BY ONLY N \in Nat, FS_Interval
<1>3. IsFiniteSet(B) /\ Cardinality(B) \in Nat
  BY <1>1, <1>2, FS_Subset, FS_CardinalityType
<1>4. PICK G \in SUBSET DOMAIN s : G = (1..N) \ B
  BY <1>1
<1>5. Cardinality(G) = N - Cardinality(B)
  <2>1. (1..N) \cap B = B
    BY <1>1
  <2>2. Cardinality(G) = Cardinality(1..N) - Cardinality((1..N) \cap B)
    BY <1>2, <1>4, FS_Difference
  <2> QED
    BY <1>2, <2>1, <2>2
<1>6. Cardinality(G) >= k /\ Cardinality(G) >= j /\ Cardinality(B) < j /\ Cardinality(B) < k
  BY <1>1, <1>3, <1>5
<1>7. \A i \in G : s[i] <= high
  BY <1>1, <1>4
<1>8. \A i \in DOMAIN s : s[i] < low => i \in B
  BY <1>1
<1>9. Ascending(s)[j] <= high /\ Ascending(s)[k] <= high
  BY <1>1, <1>6, <1>7, AscendingAtMost
<1>10. Ascending(s)[j] >= low /\ Ascending(s)[k] >= low
  BY <1>1, <1>6, <1>8, AscendingAtLeast
<1>11. PICK x \in Nat, y \in Nat : x = Ascending(s)[j] /\ y = Ascending(s)[k]
  BY <1>1, AscendingIs
<1>12. x + y \in Nat /\ 2 * low <= x + y /\ x + y <= 2 * high
  <2>1. x <= high /\ y <= high /\ x >= low /\ y >= low
    BY ONLY <1>9, <1>10, <1>11, Zenon
  <2> QED
    BY ONLY x \in Nat, y \in Nat, low \in Nat, high \in Nat, <2>1
<1> QED
  BY <1>1, <1>11, <1>12, Zenon

(* Fewer than k samples are below place k. *)
LEMMA FewBelow ==
  ASSUME NEW s \in Seq(Nat), NEW k \in DOMAIN s
  PROVE  Cardinality({i \in DOMAIN s : s[i] < Ascending(s)[k]}) < k
<1>1. PICK N \in Nat : N = Len(s) /\ DOMAIN s = 1..N /\ s \in [1..N -> Nat]
  OBVIOUS
<1>2. PICK a \in Nat : a = Ascending(s)[k]
  BY AscendingIs
<1>3. PICK B \in SUBSET DOMAIN s : B = {i \in DOMAIN s : s[i] < a}
  OBVIOUS
<1>4. IsFiniteSet(1..N)
  BY FS_Interval
<1>5. Cardinality(B) \in Nat
  BY <1>1, <1>4, FS_Subset, FS_CardinalityType
<1>6. SUFFICES ASSUME Cardinality(B) >= k PROVE FALSE
  BY <1>1, <1>2, <1>3, <1>5
<1>7. CASE a = 0
  <2>1. B = {}
    BY <1>1, <1>3, <1>7
  <2> QED
    BY <1>1, <1>6, <2>1, FS_EmptySet
<1>8. CASE a # 0
  <2>1. PICK c \in Nat : c = a - 1
    BY <1>2, <1>8
  <2>2. \A i \in B : s[i] <= c
    BY <1>1, <1>3, <2>1
  <2>3. Ascending(s)[k] <= c
    BY <1>6, <2>2, AscendingAtMost
  <2> QED
    BY <1>2, <2>1, <2>3
<1> QED
  BY <1>7, <1>8

Distances(s, center) == [i \in DOMAIN s |-> Distance(2 * s[i], center)]

LEMMA DistancesIs ==
  ASSUME NEW s \in Seq(Nat), NEW c \in Nat
  PROVE  /\ Distances(s, c) \in Seq(Nat) /\ Len(Distances(s, c)) = Len(s)
         /\ DOMAIN Distances(s, c) = DOMAIN s
         /\ \A i \in DOMAIN s :
              /\ Distances(s, c)[i] = IF 2 * s[i] < c THEN c - 2 * s[i] ELSE 2 * s[i] - c
              /\ Distances(s, c)[i] \in Nat
<1>1. PICK N \in Nat : N = Len(s) /\ DOMAIN s = 1..N /\ s \in [1..N -> Nat]
  OBVIOUS
<1>2. \A i \in DOMAIN s :
         /\ Distances(s, c)[i] = IF 2 * s[i] < c THEN c - 2 * s[i] ELSE 2 * s[i] - c
         /\ Distances(s, c)[i] \in Nat
  BY <1>1 DEF Distances, Distance
<1>3. Distances(s, c) = [i \in 1..N |-> Distances(s, c)[i]]
  BY <1>1 DEF Distances
<1> QED
  BY <1>1, <1>2, <1>3

LEMMA ApartAtMost ==
  ASSUME NEW low \in Nat, NEW w \in Nat, NEW v \in Nat, v >= low, v <= low + w,
         NEW c \in Nat, 2 * low <= c, c <= 2 * (low + w)
  PROVE  (IF 2 * v < c THEN c - 2 * v ELSE 2 * v - c) \in 0..(2 * w)
<1>1. CASE 2 * v < c
  <2>1. c - 2 * v \in 0..(2 * w)
    BY <1>1
  <2> QED
    BY <1>1, <2>1
<1>2. CASE ~ (2 * v < c)
  <2>1. 2 * v - c \in 0..(2 * w)
    BY <1>2
  <2> QED
    BY <1>2, <2>1
<1> QED
  BY <1>1, <1>2

(* Of samples in a range of width w, the doubled median deviation from the *)
(* doubled median is 3 * w at most: half of the samples are on the nearer  *)
(* side of the median.                                                     *)
LEMMA SpreadAtMost ==
  ASSUME NEW s \in Seq(Nat), s # <<>>, NEW low \in Nat, NEW w \in Nat,
         \A i \in DOMAIN s : s[i] >= low /\ s[i] <= low + w
  PROVE  LET c == TwiceMedian(s) IN
         /\ c \in Nat /\ 2 * low <= c /\ c <= 2 * (low + w)
         /\ TwiceMedian(Distances(s, c)) \in Nat
         /\ TwiceMedian(Distances(s, c)) <= 3 * w
<1>1. PICK N \in Nat, j \in Nat, k \in Nat :
            /\ N = Len(s) /\ DOMAIN s = 1..N /\ s \in [1..N -> Nat]
            /\ j \in DOMAIN s /\ k \in DOMAIN s /\ j <= k
            /\ N <= 2 * j /\ 2 * (k - 1) <= N /\ j + k = N + 1
            /\ TwiceMedian(s) = Ascending(s)[j] + Ascending(s)[k]
  BY TwiceMedianIs
<1>2. PICK c : c = TwiceMedian(s)
  OBVIOUS
<1>3. PICK high \in Nat : high = low + w
  OBVIOUS
<1>4. c \in Nat /\ 2 * low <= c /\ c <= 2 * high
  <2>1. Cardinality({}) = 0 /\ {} \in SUBSET DOMAIN s
    BY FS_EmptySet
  <2>2. 2 * Cardinality({}) < Len(s)
    BY <1>1, <2>1
  <2>3. \A i \in DOMAIN s : s[i] \in low..high
    BY <1>1, <1>3
  <2> QED
    BY <1>2, <2>1, <2>2, <2>3, MedianWithin
<1>5. PICK x \in Nat, y \in Nat : x = Ascending(s)[j] /\ y = Ascending(s)[k]
  BY <1>1, AscendingIs
<1>6. PICK d : d = Distances(s, c)
  OBVIOUS
<1>7. /\ d \in Seq(Nat) /\ DOMAIN d = 1..N /\ Len(d) = N
      /\ \A i \in 1..N : /\ d[i] = IF 2 * s[i] < c THEN c - 2 * s[i] ELSE 2 * s[i] - c
                         /\ d[i] \in Nat
  BY <1>1, <1>4, <1>6, DistancesIs
<1>8. IsFiniteSet(1..N) /\ Cardinality(1..N) = N
  BY ONLY N \in Nat, FS_Interval
<1>9. x <= y
  <2>1. Cardinality(Below(s, y)) >= k /\ IsFiniteSet(Below(s, y)) /\ y \in Range(s)
    BY <1>1, <1>5, AscendingIs
  <2>2. Cardinality(Below(s, y)) \in Nat
    BY <2>1, FS_CardinalityType
  <2>3. Cardinality(Below(s, y)) >= j
    BY <1>1, <2>1, <2>2
  <2> QED
    BY <1>1, <1>5, <2>1, <2>3, AscendingIs
<1>10. c = x + y
  BY <1>1, <1>2, <1>5
(* Half of the samples are near. *)
<1>11. \E G \in SUBSET (1..N) : Cardinality(G) >= j /\ \A i \in G : d[i] <= w
  <2>1. CASE c - 2 * low <= w
    <3>1. PICK G : G = Below(s, x)
      OBVIOUS
    <3>2. G \in SUBSET (1..N)
      BY <1>1, <3>1 DEF Below
    <3>3. Cardinality(G) >= j
      BY <1>1, <1>5, <3>1, AscendingIs
    <3>4. ASSUME NEW i \in G PROVE d[i] <= w
      <4>1. s[i] <= x /\ i \in 1..N /\ s[i] \in Nat /\ s[i] >= low
        BY <1>1, <3>1, <3>2 DEF Below
      <4>2. 2 * s[i] <= c
        BY <1>9, <1>10, <4>1
      <4>3. d[i] = c - 2 * s[i]
        <5>1. PICK v \in Nat : v = s[i]
          BY <4>1
        <5>2. d[i] = IF 2 * v < c THEN c - 2 * v ELSE 2 * v - c
          BY ONLY <1>7, <4>1, <5>1
        <5> QED
          BY ONLY <1>4, <4>2, <5>1, <5>2
      <4> QED
        <5>1. PICK v \in Nat : v = s[i] /\ v >= low
          BY <4>1
        <5>2. d[i] = c - 2 * v
          BY <4>3, <5>1, Zenon
        <5>3. c - 2 * v <= w
          BY ONLY <1>4, <2>1, <5>1, low \in Nat, w \in Nat
        <5> QED
          BY ONLY <5>2, <5>3
    <3> QED
      BY <3>2, <3>3, <3>4
  <2>2. CASE ~ (c - 2 * low <= w)
    <3>1. PICK B : B = {i \in DOMAIN s : s[i] < y}
      OBVIOUS
    <3>2. B \in SUBSET (1..N) /\ Cardinality(B) < k
      BY <1>1, <1>5, <3>1, FewBelow
    <3>3. PICK G \in SUBSET (1..N) : G = (1..N) \ B
      OBVIOUS
    <3>4. Cardinality(G) = N - Cardinality(B)
      <4>1. (1..N) \cap B = B
        BY <3>2
      <4>2. Cardinality(G) = Cardinality(1..N) - Cardinality((1..N) \cap B)
        BY <1>8, <3>3, FS_Difference
      <4> QED
        BY <1>8, <4>1, <4>2
    <3>5. Cardinality(B) \in Nat
      BY <1>8, <3>2, FS_Subset, FS_CardinalityType
    <3>6. Cardinality(G) >= j
      BY <1>1, <3>2, <3>4, <3>5
    <3>7. ASSUME NEW i \in G PROVE d[i] <= w
      <4>1. s[i] >= y /\ i \in 1..N /\ s[i] \in Nat /\ s[i] <= high
        <5>1. i \in 1..N /\ i \notin B
          BY <3>3
        <5>2. s[i] \in Nat /\ s[i] <= high
          BY <1>1, <1>3, <5>1
        <5>3. ~ (s[i] < y)
          BY <1>1, <3>1, <5>1
        <5> QED
          BY <5>1, <5>2, <5>3
      <4>2. 2 * s[i] >= c
        BY <1>9, <1>10, <4>1
      <4>3. d[i] = 2 * s[i] - c
        <5>1. PICK v \in Nat : v = s[i]
          BY <4>1
        <5>2. d[i] = IF 2 * v < c THEN c - 2 * v ELSE 2 * v - c
          BY ONLY <1>7, <4>1, <5>1
        <5> QED
          BY ONLY <1>4, <4>2, <5>1, <5>2
      <4> QED
        <5>1. PICK v \in Nat : v = s[i] /\ v <= high
          BY <4>1
        <5>2. d[i] = 2 * v - c
          BY <4>3, <5>1, Zenon
        <5>3. 2 * v - c <= w
          BY ONLY <1>3, <1>4, <2>2, <5>1, low \in Nat, w \in Nat
        <5> QED
          BY ONLY <5>2, <5>3
    <3> QED
      BY <3>6, <3>7
  <2> QED
    BY <2>1, <2>2
<1>12. \A i \in 1..N : d[i] <= 2 * w
  <2> TAKE i \in 1..N
  <2>1. PICK v \in Nat : v = s[i] /\ v >= low /\ v <= high
    BY <1>1, <1>3
  <2>2. d[i] = IF 2 * v < c THEN c - 2 * v ELSE 2 * v - c
    BY ONLY <1>7, <2>1, i \in 1..N
  <2>3. v >= low /\ v <= low + w /\ 2 * low <= c /\ c <= 2 * (low + w)
    BY <1>3, <1>4, <2>1
  <2>4. (IF 2 * v < c THEN c - 2 * v ELSE 2 * v - c) \in 0..(2 * w)
    BY ONLY <1>4, <2>3, v \in Nat, low \in Nat, w \in Nat, ApartAtMost
  <2> QED
    BY ONLY <2>2, <2>4, w \in Nat
<1>13. d # <<>>
  BY <1>1, <1>7
<1>14. Ascending(d)[j] <= w
  <2>1. PICK G \in SUBSET (1..N) : Cardinality(G) >= j /\ \A i \in G : d[i] <= w
    BY <1>11
  <2> QED
    BY <1>1, <1>7, <2>1, AscendingAtMost
<1>15. Ascending(d)[k] <= 2 * w
  <2>1. PICK w2 \in Nat : w2 = 2 * w
    OBVIOUS
  <2>2. PICK G \in SUBSET DOMAIN d : G = 1..N
    BY <1>7
  <2>3. Cardinality(G) >= k
    BY <1>1, <1>8, <2>2
  <2>4. \A i \in G : d[i] <= w2
    BY <1>12, <2>1, <2>2
  <2> QED
    BY <1>1, <1>7, <2>1, <2>3, <2>4, AscendingAtMost
<1>16. TwiceMedian(d) = Ascending(d)[j] + Ascending(d)[k]
  <2>1. PICK M \in Nat, p \in Nat, q \in Nat :
            /\ M = Len(d) /\ p \in DOMAIN d /\ q \in DOMAIN d
            /\ M <= 2 * p /\ p <= q /\ 2 * (q - 1) <= M /\ p + q = M + 1
            /\ TwiceMedian(d) = Ascending(d)[p] + Ascending(d)[q]
    <3>1. d \in Seq(Nat) /\ d # <<>>
      BY <1>7, <1>13, Zenon
    <3> QED
      BY ONLY <3>1, TwiceMedianIs
  <2>2. M = N
    BY <1>7, <2>1
  <2>3. j <= k /\ N <= 2 * j /\ j + k = N + 1
    BY <1>1, Zenon
  <2>4. p = j /\ q = k
    BY ONLY <2>1, <2>2, <2>3, N \in Nat, j \in Nat, k \in Nat, p \in Nat, q \in Nat
  <2> QED
    BY <2>1, <2>4, Zenon
<1>17. Ascending(d)[j] \in Nat /\ Ascending(d)[k] \in Nat
  BY <1>1, <1>7, AscendingIs
<1>18. TwiceMedian(d) \in Nat /\ TwiceMedian(d) <= 3 * w
  BY ONLY <1>14, <1>15, <1>16, <1>17, w \in Nat
<1> QED
  BY <1>2, <1>3, <1>4, <1>6, <1>18

(* A z-score beyond 4. *)
Beyond(far, spread) == spread # 0 => 6745 * 2 * far > 4 * (10000 * spread)

(* A sample far beyond the accepted ones is not accepted. *)
LEMMA FarIsFar ==
  ASSUME NEW low \in Nat, NEW w \in Nat, NEW gap \in Nat, gap > 6 * w,
         NEW v \in Nat, v >= low + gap,
         NEW c \in Nat, c <= 2 * (low + w), NEW spread \in Nat, spread <= 3 * w
  PROVE  /\ Distance(2 * v, c) \in Nat \ {0}
         /\ Beyond(Distance(2 * v, c), spread)
<1>1. PICK f \in Int : f = 2 * v - c
  <2>1. 2 * v - c \in Int
    OBVIOUS
  <2> QED
    BY <2>1, Zenon
<1>2. f \in Nat /\ f >= 2 * gap - 2 * w
  BY <1>1
<1>3. Distance(2 * v, c) = f
  BY <1>1, <1>2 DEF Distance
<1>4. f > 10 * w
  BY <1>2
<1>5. 6745 * 2 * f >= 13490 * (10 * w + 1)
  BY ONLY <1>4, f \in Int, w \in Nat
<1>6. 4 * (10000 * spread) <= 120000 * w
  BY ONLY spread \in Nat, w \in Nat, spread <= 3 * w
<1>7. 6745 * 2 * f > 4 * (10000 * spread)
  BY ONLY <1>5, <1>6, f \in Int, w \in Nat, spread \in Nat
<1>8. Beyond(f, spread)
  BY ONLY <1>7 DEF Beyond
<1> QED
  BY ONLY <1>2, <1>3, <1>4, <1>8, w \in Nat

LEMMA Rejects ==
  ASSUME NEW s \in Seq(Nat), s # <<>>, NEW low \in Nat, NEW w \in Nat,
         \A i \in DOMAIN s : s[i] >= low /\ s[i] <= low + w,
         NEW gap \in Nat, gap > 6 * w, NEW v \in Nat, v >= low + gap
  PROVE  ~ AtMost(RobustZ(v, s), 4)
<1>1. PICK c \in Nat : c = TwiceMedian(s) /\ c <= 2 * (low + w)
  BY SpreadAtMost
<1>2. PICK spread \in Nat : spread = TwiceMedian(Distances(s, c)) /\ spread <= 3 * w
  BY <1>1, SpreadAtMost
<1>3. PICK far : far = Distance(2 * v, c)
  OBVIOUS
<1>4. far \in Nat \ {0} /\ Beyond(far, spread)
  BY <1>1, <1>2, <1>3, FarIsFar
<1>5. CASE spread = 0
  <2>1. RobustZ(v, s) = [num |-> 1, den |-> 0]
    BY <1>1, <1>2, <1>3, <1>4, <1>5 DEF RobustZ, Distances
  <2> QED
    BY <2>1 DEF AtMost
<1>6. CASE spread # 0
  <2>1. RobustZ(v, s) = [num |-> 6745 * 2 * far, den |-> 10000 * spread]
    BY <1>1, <1>2, <1>3, <1>4, <1>6 DEF RobustZ, Distances
  <2>2. PICK a \in Nat, b \in Nat : a = 6745 * 2 * far /\ b = 10000 * spread
    BY ONLY <1>4, spread \in Nat
  <2>3. a > 4 * b
    BY ONLY <1>4, <1>6, <2>2 DEF Beyond
  <2> QED
    BY ONLY <2>1, <2>2, <2>3, a \in Nat, b \in Nat DEF AtMost
<1> QED
  BY <1>5, <1>6

-----------------------------------------------------------------------------
(* The frozen mean of samples beyond a gap *)

(* A mean of samples that are at most high is at most high. *)
LEMMA SmoothAtMost ==
  ASSUME NEW a \in Nat, NEW d \in Nat \ {0}, NEW v \in Nat, NEW high \in Nat,
         a <= high * d, v <= high
  PROVE  /\ v * d + 4 * a \in Nat /\ 5 * d \in Nat \ {0}
         /\ v * d + 4 * a <= high * (5 * d)
<1>1. v * d <= high * d /\ v * d \in Nat /\ high * d \in Nat
  <2>1. (high - v) * d >= 0 /\ (high - v) * d = high * d - v * d
    OBVIOUS
  <2>2. v * d \in Nat /\ high * d \in Nat
    OBVIOUS
  <2> QED
    BY <2>1, <2>2
<1>2. high * (5 * d) = 5 * (high * d)
  OBVIOUS
<1> QED
  BY <1>1, <1>2

(* What the frozen mean knows after k samples: it is a mean of samples     *)
(* from low to high, five or all of the first ones at least.               *)
Frozen(x, k, low, high) ==
  /\ x.num \in Nat /\ x.den \in Nat \ {0} /\ x.num <= high * x.den
  /\ x.accepted \in Seq(Nat)
  /\ \A i \in DOMAIN x.accepted : x.accepted[i] >= low /\ x.accepted[i] <= high
  /\ Len(x.accepted) >= 5 \/ Len(x.accepted) >= k
  /\ x.accepted # <<>>

LEMMA FrozenFirst ==
  ASSUME NEW low \in Nat, NEW high \in Nat, NEW v \in Nat, v >= low, v <= high
  PROVE  Frozen(FirstMean(v), 1, low, high)
<1>1. PICK x : x = FirstMean(v)
  OBVIOUS
<1>2. x.num = v /\ x.den = 1 /\ x.accepted = <<v>>
  BY <1>1 DEF FirstMean
<1>3. /\ <<v>> \in Seq(Nat) /\ Len(<<v>>) = 1 /\ <<v>> # <<>>
      /\ \A i \in DOMAIN <<v>> : <<v>>[i] = v
  OBVIOUS
<1>4. v <= high * 1
  OBVIOUS
<1> QED
  BY <1>1, <1>2, <1>3, <1>4 DEF Frozen

LEMMA FrozenTakes ==
  ASSUME NEW k \in Nat, NEW low \in Nat, NEW high \in Nat,
         NEW x, Frozen(x, k, low, high), NEW v \in Nat, v >= low, v <= high
  PROVE  Frozen([num |-> v * x.den + 4 * x.num, den |-> 5 * x.den,
                 accepted |-> Append(x.accepted, v)], k + 1, low, high)
<1>1. PICK y : y = [num |-> v * x.den + 4 * x.num, den |-> 5 * x.den,
                    accepted |-> Append(x.accepted, v)]
  OBVIOUS
<1>2. PICK a \in Nat, d \in Nat \ {0} : a = x.num /\ d = x.den /\ a <= high * d
  BY DEF Frozen
<1>3. y.num = v * d + 4 * a /\ y.den = 5 * d
  BY <1>1, <1>2
<1>4. y.num \in Nat /\ y.den \in Nat \ {0} /\ y.num <= high * y.den
  <2>1. /\ v * d + 4 * a \in Nat /\ 5 * d \in Nat \ {0}
        /\ v * d + 4 * a <= high * (5 * d)
    BY ONLY a \in Nat, d \in Nat \ {0}, v \in Nat, high \in Nat, v <= high, <1>2, SmoothAtMost
  <2> QED
    BY <1>3, <2>1, Zenon
<1>5. PICK s \in Seq(Nat) : /\ s = x.accepted
                            /\ \A i \in DOMAIN s : s[i] >= low /\ s[i] <= high
                            /\ Len(s) >= 5 \/ Len(s) >= k
  BY Zenon DEF Frozen
<1>6. PICK t : t = Append(s, v) /\ t = y.accepted
  BY <1>1, <1>5
<1>7. /\ t \in Seq(Nat) /\ Len(t) = Len(s) + 1 /\ t # <<>>
      /\ \A i \in DOMAIN t : t[i] >= low /\ t[i] <= high
  <2>1. t \in Seq(Nat) /\ Len(t) = Len(s) + 1 /\ t # <<>>
    <3>1. /\ Append(s, v) \in Seq(Nat) /\ Append(s, v) # <<>>
          /\ Len(Append(s, v)) = Len(s) + 1
      BY ONLY s \in Seq(Nat), v \in Nat, AppendProperties
    <3> QED
      BY <1>6, <3>1, Zenon
  <2>2. ASSUME NEW i \in DOMAIN t PROVE t[i] >= low /\ t[i] <= high
    <3>1. (i \in DOMAIN s /\ t[i] = s[i]) \/ t[i] = v
      <4>1. PICK L \in Nat : L = Len(s) /\ DOMAIN s = 1..L
        OBVIOUS
      <4>2. /\ Len(t) = L + 1
            /\ \A p \in 1..(L + 1) : t[p] = IF p <= L THEN s[p] ELSE v
        <5>1. \A p \in 1..(L + 1) : Append(s, v)[p] = IF p <= L THEN s[p] ELSE v
          BY ONLY s \in Seq(Nat), v \in Nat, L \in Nat, <4>1
        <5> QED
          BY <1>6, <2>1, <4>1, <5>1, Zenon
      <4>3. i \in 1..(L + 1)
        BY <2>1, <4>2
      <4> QED
        BY ONLY <4>1, <4>2, <4>3
    <3>2. v >= low /\ v <= high
      OBVIOUS
    <3> QED
      BY ONLY <1>5, <3>1, <3>2
  <2> QED
    BY <2>1, <2>2
<1>8. Len(t) >= 5 \/ Len(t) >= k + 1
  BY <1>5, <1>7
<1>9. Frozen(y, k + 1, low, high)
  BY ONLY <1>4, <1>6, <1>7, <1>8, Zenon DEF Frozen
<1> QED
  BY <1>1, <1>9

(* However many samples are beyond the gap: a mean whose first samples are *)
(* normal stays normal.                                                    *)
LEMMA MeanFrozen ==
  ASSUME NEW values, NEW N \in Nat \ {0}, Len(values) = N, DOMAIN values = 1..N,
         NEW low \in Nat, NEW w \in Nat, NEW gap \in Nat, gap > 6 * w,
         \A i \in 1..N : /\ values[i] \in Nat /\ values[i] >= low
                         /\ values[i] <= low + w \/ values[i] >= low + gap,
         \A i \in 1..N : i <= 5 => values[i] <= low + w
  PROVE  /\ FrozenEWMA(values).num \in Nat
         /\ FrozenEWMA(values).den \in Nat \ {0}
         /\ FrozenEWMA(values).num <= (low + w) * FrozenEWMA(values).den
<1>1. PICK mean : /\ FrozenEWMA(values) = mean[N]
                  /\ mean[1] = FirstMean(values[1])
                  /\ \A i \in 2..N : mean[i] = Smooth(mean[i - 1], values[i])
  BY MeanIs
<1>2. PICK high \in Nat : high = low + w
  OBVIOUS
<1> DEFINE T == {k \in Nat : k + 1 <= N => Frozen(mean[k + 1], k + 1, low, high)}
<1>3. 0 \in T
  <2>1. 1 \in 1..N
    OBVIOUS
  <2>2. values[1] \in Nat /\ values[1] >= low /\ values[1] <= high
    BY <1>2, <2>1
  <2>3. Frozen(mean[1], 1, low, high)
    BY <1>1, <2>2, FrozenFirst
  <2> QED
    BY <2>3
<1>4. ASSUME NEW k \in Nat, k \in T
      PROVE  k + 1 \in T
  <2>1. SUFFICES ASSUME (k + 1) + 1 <= N
                 PROVE  Frozen(mean[(k + 1) + 1], (k + 1) + 1, low, high)
    OBVIOUS
  <2>2. PICK x, j : j \in Nat \ {0} /\ x = mean[k + 1] /\ j = k + 1 /\ Frozen(x, j, low, high)
    <3>1. PICK x, j : x = mean[k + 1] /\ j = k + 1
      OBVIOUS
    <3>2. k + 1 <= N
      BY <2>1
    <3>3. Frozen(mean[k + 1], k + 1, low, high)
      BY <1>4, <3>2
    <3>4. j \in Nat \ {0}
      BY <3>1
    <3> QED
      BY <3>1, <3>3, <3>4, Zenon
  <2>3. j + 1 \in 2..N /\ (j + 1) - 1 = j /\ j + 1 \in 1..N
    BY <2>1, <2>2
  <2>4. PICK v \in Nat : /\ v = values[j + 1] /\ v >= low
                         /\ v <= high \/ v >= low + gap
                         /\ j + 1 <= 5 => v <= high
    BY <1>2, <2>3
  <2>5. mean[j + 1] = Smooth(x, v)
    BY <1>1, <2>2, <2>3, <2>4
  <2>6. PICK y : y = [num |-> v * x.den + 4 * x.num, den |-> 5 * x.den,
                      accepted |-> Append(x.accepted, v)]
    OBVIOUS
  <2>7. Smooth(x, v) = IF Accepts(x, v) THEN y ELSE x
    BY <2>6 DEF Smooth
  <2>8. CASE v <= high /\ Accepts(x, v)
    <3>1. Frozen(y, j + 1, low, high)
      BY <2>2, <2>4, <2>6, <2>8, FrozenTakes
    <3> QED
      BY <2>2, <2>5, <2>7, <2>8, <3>1
  <2>9. CASE ~ Accepts(x, v)
    <3>1. Len(x.accepted) >= 5
      <4>1. Len(x.accepted) \in Nat
        BY <2>2 DEF Frozen
      <4> QED
        BY <2>9, <4>1 DEF Accepts
    <3>2. Frozen(x, j + 1, low, high)
      BY <2>2, <3>1, Zenon DEF Frozen
    <3> QED
      BY <2>2, <2>5, <2>7, <2>9, <3>2
  <2>10. CASE ~ (v <= high)
    <3>1. v >= low + gap /\ j >= 5
      BY <2>3, <2>4, <2>10
    <3>2. PICK s \in Seq(Nat) : /\ s = x.accepted /\ s # <<>>
                                /\ \A i \in DOMAIN s : s[i] >= low /\ s[i] <= low + w
                                /\ Len(s) >= 5 \/ Len(s) >= j
      BY <1>2, <2>2, Zenon DEF Frozen
    <3>3. ~ AtMost(RobustZ(v, s), 4)
      BY <2>4, <3>1, <3>2, Rejects
    <3>4. ~ (Len(s) < 5)
      <4>1. Len(s) \in Nat
        OBVIOUS
      <4>2. Len(s) >= 5 \/ Len(s) >= j
        BY <3>2, Zenon
      <4> QED
        BY ONLY <2>2, <3>1, <4>1, <4>2
    <3>5. ~ Accepts(x, v)
      BY <3>2, <3>3, <3>4, Zenon DEF Accepts
    <3> QED
      BY <2>9, <3>5
  <2> QED
    BY <2>8, <2>9, <2>10
<1>5. \A k \in Nat : k \in T
  <2> HIDE DEF T
  <2> QED
    BY <1>3, <1>4, NatSteps
<1>6. Frozen(mean[N], N, low, high)
  <2>1. PICK k \in Nat : k + 1 = N
    <3>1. N - 1 \in Nat /\ (N - 1) + 1 = N
      OBVIOUS
    <3> QED
      BY <3>1
  <2>2. k + 1 <= N => Frozen(mean[k + 1], k + 1, low, high)
    BY <1>5
  <2> QED
    BY <2>1, <2>2
<1> QED
  BY <1>1, <1>2, <1>6, Zenon DEF Frozen

-----------------------------------------------------------------------------
(* The verdict of a node and the columns it is made of *)

LEMMA VerdictReasons ==
  ASSUME NEW n \in DOMAIN Verdict
  PROVE  /\ n \in Nodes /\ History(n) # <<>>
         /\ \E base : Verdict[n] = Reasons(History(n), base)
<1> DEFINE histories == [k \in Nodes |-> History(k)]
           seen == {k \in DOMAIN histories : histories[k] # <<>>}
           base == LocationBaseline([k \in seen |-> Last(histories[k])])
<1>1. Verdict = [k \in seen |-> Reasons(histories[k], base)]
  BY DEF Verdict, Signals
<1>2. seen \subseteq Nodes /\ \A k \in seen : histories[k] = History(k) /\ History(k) # <<>>
  OBVIOUS
<1> HIDE DEF histories, seen, base
<1>3. n \in seen
  BY <1>1
<1>4. Verdict[n] = Reasons(History(n), base)
  BY <1>1, <1>2, <1>3
<1> QED
  BY <1>2, <1>3, <1>4

LEMMA ReasonIf ==
  ASSUME NEW h, NEW base, Len(Past(h)) >= MinimumHistory
  PROVE  /\ LatencyAnomaly(Last(h), Past(h)) => "LATENCY" \in Reasons(h, base)
         /\ ErrorAnomaly(Last(h), Past(h)) => "ERROR" \in Reasons(h, base)
         /\ MissAnomaly(Last(h), Past(h)) => "MISS" \in Reasons(h, base)
BY DEF Reasons

LEMMA ValuesOf ==
  ASSUME NEW past, NEW N \in Nat, Len(past) = N, DOMAIN past = 1..N, NEW column,
         \A i \in 1..N : past[i][column] \in Nat
  PROVE  /\ Values(past, column) \in Seq(Nat)
         /\ Len(Values(past, column)) = N /\ DOMAIN Values(past, column) = 1..N
         /\ \A i \in 1..N : Values(past, column)[i] = past[i][column]
BY DEF Values

(* The columns of what is seen of a node, and how many rows that is. *)
LEMMA PastIs ==
  ASSUME Inv, NEW n \in DOMAIN Verdict
  PROVE  \E N \in Nat :
           /\ Len(Past(History(n))) = N /\ DOMAIN Past(History(n)) = 1..N
           /\ \A i \in 1..N : RowOk(Past(History(n))[i])
           /\ Len(History(n)) = N + 1 /\ DOMAIN History(n) = 1..(N + 1)
           /\ \A i \in 1..(N + 1) : RowOk(History(n)[i])
           /\ RowOk(Last(History(n)))
<1>1. n \in Nodes /\ History(n) # <<>>
  BY VerdictReasons
<1>2. PICK K \in Nat \ {0} :
           /\ Len(History(n)) = K /\ DOMAIN History(n) = 1..K
           /\ \A i \in 1..K : History(n)[i] \in Range(table[n])
           /\ Len(Past(History(n))) = K - 1 /\ DOMAIN Past(History(n)) = 1..(K - 1)
           /\ \A i \in 1..(K - 1) : Past(History(n))[i] = History(n)[i]
  BY <1>1, HistoryIs
<1>3. PICK N \in Nat : N = K - 1 /\ N + 1 = K
  OBVIOUS
<1>4. \A i \in 1..K : RowOk(History(n)[i])
  BY <1>1, <1>2, RowInRange
<1>5. \A i \in 1..N : i \in 1..K /\ RowOk(Past(History(n))[i])
  <2> TAKE i \in 1..N
  <2>1. i \in 1..K /\ i \in 1..(K - 1)
    BY ONLY <1>3, N \in Nat, K \in Nat \ {0}, i \in 1..N
  <2> QED
    BY <1>2, <1>4, <2>1
<1>6. RowOk(Last(History(n)))
  BY <1>1, HistoryLast
<1> QED
  BY <1>2, <1>3, <1>4, <1>5, <1>6

LEMMA Columns ==
  ASSUME NEW rows, NEW N \in Nat, Len(rows) = N, DOMAIN rows = 1..N,
         \A i \in 1..N : RowOk(rows[i]), NEW column \in {"p95", "error", "hit"}
  PROVE  /\ Values(rows, column) \in Seq(Nat)
         /\ Len(Values(rows, column)) = N /\ DOMAIN Values(rows, column) = 1..N
         /\ \A i \in 1..N : Values(rows, column)[i] = rows[i][column]
<1>1. \A i \in 1..N : rows[i].p95 \in Nat /\ rows[i].error \in Nat /\ rows[i].hit \in Nat
  BY RatesAre DEF RowOk
<1> QED
  BY <1>1, ValuesOf

-----------------------------------------------------------------------------
(* Shifts far above the first five values *)

(* The first five values are from low to low + w. *)
FirstFive(values, low, w) ==
  /\ low = Least(values) /\ low + w = Most(values)
  /\ \A i \in 1..5 : values[i] >= low /\ values[i] <= low + w

LEMMA FirstRange ==
  ASSUME NEW values \in Seq(Nat), Len(values) >= 5
  PROVE  \E low \in Nat, w \in Nat : FirstFive(values, low, w)
<1>1. PICK I : I = 1..5
  OBVIOUS
<1>2. IsFiniteSet(I) /\ 1 \in I
  <2>1. PICK a \in Int, b \in Int : a = 1 /\ b = 5
    OBVIOUS
  <2>2. IsFiniteSet(a..b)
    BY ONLY a \in Int, b \in Int, FS_Interval
  <2> QED
    BY ONLY <1>1, <2>1, <2>2
<1>3. \A i \in I : values[i] \in Nat
  BY <1>1
<1>4. PICK V : V = {values[i] : i \in I}
  OBVIOUS
<1>5. IsFiniteSet(V) /\ V # {} /\ V \subseteq Nat /\ V \subseteq Int
  <2>1. IsFiniteSet(V)
    BY <1>2, <1>4, ImageFinite
  <2>2. V # {} /\ \A v \in V : v \in Nat
    BY ONLY <1>2, <1>3, <1>4
  <2> QED
    BY <2>1, <2>2
<1>6. PICK low \in Nat : low = Min(V) /\ \A v \in V : low <= v
  BY ONLY <1>5, MinNat
<1>7. PICK high \in Nat : high = Max(V) /\ high \in V /\ \A v \in V : high >= v
  BY ONLY <1>5, MaxFinite
<1>8. PICK w \in Nat : low + w = high
  <2>1. low <= high
    BY <1>6, <1>7
  <2>2. high - low \in Nat /\ low + (high - low) = high
    BY <2>1
  <2> QED
    BY <2>2
<1>9. \A i \in I : values[i] >= low /\ values[i] <= low + w
  <2> TAKE i \in I
  <2>1. PICK v \in Nat : v = values[i] /\ v \in V
    BY <1>3, <1>4
  <2>2. low <= v /\ high >= v
    BY <1>6, <1>7, <2>1
  <2> QED
    BY <1>8, <2>1, <2>2
<1>10. low = Least(values) /\ low + w = Most(values)
  BY <1>1, <1>4, <1>6, <1>7, <1>8 DEF Least, Most
<1>11. FirstFive(values, low, w)
  BY <1>1, <1>9, <1>10 DEF FirstFive
<1> QED
  BY <1>11

(* The later values are in that range or more than six widths above low. *)
LEMMA ShiftedIs ==
  ASSUME NEW values \in Seq(Nat), NEW low \in Nat, NEW w \in Nat, FirstFive(values, low, w),
         Shifted(values)
  PROVE  \E gap \in Nat :
           /\ gap > 6 * w
           /\ \A i \in DOMAIN values :
                /\ values[i] >= low
                /\ values[i] <= low + w \/ values[i] >= low + gap
                /\ i <= 5 => values[i] <= low + w
                /\ InRange(values, values[i]) => values[i] <= low + w
           /\ \A v \in Nat : FarAbove(values, v) => v >= low + gap
<1>1. PICK gap \in Nat : gap = 6 * w + 1
  OBVIOUS
<1>2. Least(values) = low /\ Most(values) = low + w
  BY DEF FirstFive
<1>3. ASSUME NEW v \in Nat
      PROVE  /\ InRange(values, v) => low <= v /\ v <= low + w
             /\ FarAbove(values, v) => v >= low + gap /\ v >= low
  <2>1. InRange(values, v) => low <= v /\ v <= low + w
    BY <1>2 DEF InRange
  <2>2. FarAbove(values, v) => v > (low + w) + 5 * ((low + w) - low)
    BY <1>2 DEF FarAbove
  <2>3. v > (low + w) + 5 * ((low + w) - low) => v >= low + gap /\ v >= low
    BY ONLY <1>1, low \in Nat, w \in Nat, gap \in Nat, v \in Nat
  <2> QED
    BY <2>1, <2>2, <2>3
<1>4. ASSUME NEW i \in DOMAIN values
      PROVE  /\ values[i] >= low
             /\ values[i] <= low + w \/ values[i] >= low + gap
             /\ i <= 5 => values[i] <= low + w
             /\ InRange(values, values[i]) => values[i] <= low + w
  <2>1. PICK v \in Nat : v = values[i]
    OBVIOUS
  <2>2. CASE i <= 5
    <3>1. i \in 1..5
      BY <2>2
    <3> QED
      BY <3>1 DEF FirstFive
  <2>3. CASE ~ (i <= 5)
    <3>1. i \in 6..Len(values)
      BY <2>3
    <3>2. InRange(values, v) \/ FarAbove(values, v)
      BY <2>1, <3>1 DEF Shifted
    <3> QED
      BY <1>3, <2>1, <2>3, <3>2
  <2> QED
    BY <2>2, <2>3
<1>5. gap > 6 * w
  BY <1>1
<1> QED
  BY <1>3, <1>4, <1>5

LEMMA ShiftedMean ==
  ASSUME NEW values \in Seq(Nat), NEW low \in Nat, NEW w \in Nat, FirstFive(values, low, w),
         Shifted(values)
  PROVE  LET mean == FrozenEWMA(values)
         IN /\ mean.num \in Nat /\ mean.den \in Nat \ {0}
            /\ mean.num >= low * mean.den
            /\ mean.num <= (low + w) * mean.den
<1>1. PICK N \in Nat : N = Len(values) /\ DOMAIN values = 1..N
  OBVIOUS
<1>2. N \in Nat \ {0}
  BY <1>1 DEF Shifted
<1>3. PICK gap \in Nat :
        /\ gap > 6 * w
        /\ \A i \in 1..N : /\ values[i] >= low
                           /\ values[i] <= low + w \/ values[i] >= low + gap
                           /\ i <= 5 => values[i] <= low + w
  BY <1>1, ShiftedIs
<1>4. \A i \in 1..N : values[i] \in Nat
  BY <1>1
<1>5. /\ FrozenEWMA(values).num \in Nat /\ FrozenEWMA(values).den \in Nat \ {0}
      /\ FrozenEWMA(values).num >= low * FrozenEWMA(values).den
  BY ONLY <1>1, <1>2, <1>3, <1>4, low \in Nat, MeanAtLeast
<1>6. FrozenEWMA(values).num <= (low + w) * FrozenEWMA(values).den
  BY ONLY <1>1, <1>2, <1>3, <1>4, low \in Nat, w \in Nat, gap \in Nat, MeanFrozen
<1> QED
  BY <1>5, <1>6

LEMMA InvBaselineFrozen == Inv => BaselineFrozen
<1> SUFFICES ASSUME Inv, NEW n \in DOMAIN Verdict, Shifted(Values(History(n), "p95"))
             PROVE  FrozenEWMA(Values(History(n), "p95")).num <=
                      Most(Values(History(n), "p95")) * FrozenEWMA(Values(History(n), "p95")).den
  BY DEF BaselineFrozen
<1>1. PICK h, values : h = History(n) /\ values = Values(h, "p95")
  OBVIOUS
<1>2. PICK N \in Nat : Len(h) = N /\ DOMAIN h = 1..N /\ \A i \in 1..N : RowOk(h[i])
  BY <1>1, PastIs
<1>3. values \in Seq(Nat)
  BY <1>1, <1>2, Columns
<1>4. Len(values) >= 5
  BY <1>1 DEF Shifted
<1>5. PICK low \in Nat, w \in Nat : FirstFive(values, low, w)
  BY <1>3, <1>4, FirstRange
<1>6. FrozenEWMA(values).num <= (low + w) * FrozenEWMA(values).den
  BY <1>1, <1>3, <1>5, ShiftedMean
<1> QED
  BY <1>1, <1>5, <1>6 DEF FirstFive

-----------------------------------------------------------------------------
(* What stands out is flagged *)

(* A z-score of 3 at least *)
Clear(far, spread) == spread # 0 => 6745 * 2 * far >= 3 * (10000 * spread)

(* A sample six widths above a range in which most samples are is more     *)
(* than three deviations from the median.                                  *)
LEMMA LatestIsFar ==
  ASSUME NEW low \in Nat, NEW w \in Nat, NEW gap \in Nat, gap > 6 * w,
         NEW v \in Nat, v >= low + gap,
         NEW c \in Nat, c <= 2 * (low + w), NEW spread \in Nat, spread <= 4 * w
  PROVE  /\ Distance(2 * v, c) \in Nat \ {0}
         /\ Clear(Distance(2 * v, c), spread)
<1>1. PICK f \in Int : f = 2 * v - c
  <2>1. 2 * v - c \in Int
    OBVIOUS
  <2> QED
    BY <2>1, Zenon
<1>2. f \in Nat /\ f > 10 * w
  BY <1>1
<1>3. Distance(2 * v, c) = f
  BY <1>1, <1>2 DEF Distance
<1>4. 6745 * 2 * f >= 13490 * (10 * w + 1)
  BY ONLY <1>2, w \in Nat
<1>5. 3 * (10000 * spread) <= 120000 * w
  BY ONLY spread \in Nat, w \in Nat, spread <= 4 * w
<1>6. 6745 * 2 * f >= 3 * (10000 * spread)
  BY ONLY <1>2, <1>4, <1>5, w \in Nat, spread \in Nat
<1>7. Clear(f, spread)
  BY ONLY <1>6 DEF Clear
<1> QED
  BY ONLY <1>2, <1>3, <1>7, w \in Nat

LEMMA TimesAtMost ==
  ASSUME NEW k \in Int, k <= 3, NEW b \in Nat
  PROVE  k * b <= 3 * b /\ k * b \in Int
<1>1. (3 - k) * b >= 0 /\ (3 - k) * b = 3 * b - k * b /\ k * b \in Int
  OBVIOUS
<1> QED
  BY <1>1

(* So the latest sample of a past most of which is in a range stands out. *)
LEMMA StandsOut ==
  ASSUME NEW s \in Seq(Nat), s # <<>>, NEW low \in Nat, NEW w \in Nat,
         NEW gap \in Nat, gap > 6 * w, NEW B \in SUBSET DOMAIN s, 2 * Cardinality(B) < Len(s),
         \A i \in DOMAIN s : i \notin B => s[i] >= low /\ s[i] <= low + w,
         NEW v \in Nat, v >= low + gap, NEW k \in Int, k <= 3
  PROVE  AtLeast(RobustZ(v, s), k)
<1>1. PICK high \in Nat, w2 \in Nat : high = low + w /\ w2 = 2 * w
  OBVIOUS
<1>2. PICK c : c = TwiceMedian(s)
  OBVIOUS
<1>3. c \in Nat /\ 2 * low <= c /\ c <= 2 * high
  <2>1. \A i \in DOMAIN s : s[i] \in Nat
    OBVIOUS
  <2>2. \A i \in DOMAIN s : i \notin B => s[i] \in low..high
    BY <1>1, <2>1
  <2> QED
    BY <1>2, <2>2, MedianWithin
<1>4. PICK d : d = Distances(s, c)
  OBVIOUS
<1>5. /\ d \in Seq(Nat) /\ Len(d) = Len(s) /\ DOMAIN d = DOMAIN s
      /\ \A i \in DOMAIN s :
           d[i] = IF 2 * s[i] < c THEN c - 2 * s[i] ELSE 2 * s[i] - c
  BY <1>3, <1>4, DistancesIs
<1>6. ASSUME NEW i \in DOMAIN s, i \notin B PROVE d[i] \in 0..w2
  <2>1. PICK u \in Nat : u = s[i] /\ u >= low /\ u <= high
    BY <1>1, <1>6
  <2>2. d[i] = IF 2 * u < c THEN c - 2 * u ELSE 2 * u - c
    BY <1>5, <2>1
  <2>3. u >= low /\ u <= low + w /\ 2 * low <= c /\ c <= 2 * (low + w)
    BY <1>1, <1>3, <2>1
  <2>4. (IF 2 * u < c THEN c - 2 * u ELSE 2 * u - c) \in 0..(2 * w)
    BY ONLY <1>3, <2>3, u \in Nat, low \in Nat, w \in Nat, ApartAtMost
  <2> QED
    BY <1>1, <2>2, <2>4, Zenon
<1>7. d # <<>>
  <2>1. Len(s) \in Nat /\ Len(s) # 0
    OBVIOUS
  <2> QED
    BY <1>5, <2>1
<1>8. PICK spread : spread = TwiceMedian(d)
  OBVIOUS
<1>9. spread \in Nat /\ spread <= 2 * w2
  <2>1. B \in SUBSET DOMAIN d /\ 2 * Cardinality(B) < Len(d)
    BY <1>5
  <2>2. \A i \in DOMAIN d : i \notin B => d[i] \in 0..w2
    BY <1>5, <1>6
  <2>3. 0 \in Nat
    OBVIOUS
  <2> QED
    BY <1>5, <1>7, <1>8, <2>1, <2>2, <2>3, MedianWithin
<1>10. spread <= 4 * w
  BY <1>1, <1>9
<1>11. PICK far : far = Distance(2 * v, c)
  OBVIOUS
<1>12. far \in Nat \ {0} /\ Clear(far, spread)
  BY <1>1, <1>3, <1>9, <1>10, <1>11, LatestIsFar
<1>13. CASE spread = 0
  <2>1. RobustZ(v, s) = [num |-> 1, den |-> 0]
    BY <1>2, <1>4, <1>8, <1>11, <1>12, <1>13 DEF RobustZ, Distances
  <2>2. 1 >= k * 0
    OBVIOUS
  <2> QED
    BY ONLY <2>1, <2>2 DEF AtLeast
<1>14. CASE spread # 0
  <2>1. RobustZ(v, s) = [num |-> 6745 * 2 * far, den |-> 10000 * spread]
    BY <1>2, <1>4, <1>8, <1>11, <1>12, <1>14 DEF RobustZ, Distances
  <2>2. PICK a \in Nat, b \in Nat : a = 6745 * 2 * far /\ b = 10000 * spread
    BY ONLY <1>9, <1>12
  <2>3. a >= 3 * b
    BY ONLY <1>12, <1>14, <2>2 DEF Clear
  <2>4. k * b <= 3 * b /\ k * b \in Int
    BY TimesAtMost
  <2>5. a >= k * b
    BY ONLY <2>3, <2>4, a \in Nat, b \in Nat
  <2> QED
    BY ONLY <2>1, <2>2, <2>5 DEF AtLeast
<1> QED
  BY <1>13, <1>14

LEMMA ScaledAtMost ==
  ASSUME NEW p \in Nat, NEW low \in Nat, 2 * p <= 3 * low,
         NEW a \in Nat, NEW d \in Nat \ {0}, a >= low * d
  PROVE  ~ (2 * p * d > 3 * a)
<1>1. (3 * low - 2 * p) * d >= 0
  <2>1. \A x \in Nat : x * d \in Nat
    OBVIOUS
  <2>2. 3 * low - 2 * p \in Nat
    OBVIOUS
  <2> QED
    BY <2>1, <2>2
<1>2. (3 * low - 2 * p) * d = 3 * (low * d) - 2 * p * d
  OBVIOUS
<1>3. low * d \in Nat /\ 2 * p * d \in Nat
  OBVIOUS
<1> QED
  BY <1>1, <1>2, <1>3

LEMMA ScaledAbove ==
  ASSUME NEW p \in Nat, NEW high \in Nat, 2 * p > 3 * high,
         NEW a \in Nat, NEW d \in Nat \ {0}, a <= high * d
  PROVE  2 * p * d > 3 * a
<1>1. (2 * p - 3 * high) * d > 0
  <2>1. \A x \in Nat \ {0} : x * d \in Nat \ {0}
    OBVIOUS
  <2>2. 2 * p - 3 * high \in Nat \ {0}
    OBVIOUS
  <2> QED
    BY <2>1, <2>2
<1>2. (2 * p - 3 * high) * d = 2 * p * d - 3 * (high * d)
  OBVIOUS
<1>3. high * d \in Nat /\ 2 * p * d \in Nat
  OBVIOUS
<1> QED
  BY <1>1, <1>2, <1>3

LEMMA PositiveMean ==
  ASSUME NEW low \in Nat, low > 0, NEW a \in Nat, NEW d \in Nat \ {0}, a >= low * d
  PROVE  a > 0
<1>1. \A x \in Nat \ {0} : x * d \in Nat \ {0}
  OBVIOUS
<1>2. low * d \in Nat \ {0}
  BY <1>1
<1> QED
  BY <1>2

(* A sample more than ten above a mean of samples up to high. *)
LEMMA TenAbove ==
  ASSUME NEW e \in Nat, NEW high \in Nat, e > high + 10,
         NEW a \in Nat, NEW d \in Nat \ {0}, a <= high * d
  PROVE  e * d - a > 10 * d
<1>1. (e - high - 10) * d > 0
  <2>1. \A x \in Nat \ {0} : x * d \in Nat \ {0}
    OBVIOUS
  <2>2. e - high - 10 \in Nat \ {0}
    OBVIOUS
  <2> QED
    BY <2>1, <2>2
<1>2. (e - high - 10) * d = e * d - high * d - 10 * d
  OBVIOUS
<1>3. high * d \in Nat /\ e * d \in Nat
  OBVIOUS
<1> QED
  BY <1>1, <1>2, <1>3

LEMMA LatencySeen ==
  ASSUME NEW past, NEW values \in Seq(Nat), values = Values(past, "p95"),
         NEW low \in Nat, NEW w \in Nat, FirstFive(values, low, w), Shifted(values), low > 0,
         2 * Cardinality({i \in DOMAIN values : ~ InRange(values, values[i])}) < Len(values),
         NEW latest, latest.p95 \in Nat, FarAbove(values, latest.p95),
         2 * latest.p95 > 3 * (low + w),
         RobustZThreshold \in Int, RobustZThreshold <= 3
  PROVE  LatencyAnomaly(latest, past)
<1>1. PICK B : B = {i \in DOMAIN values : ~ InRange(values, values[i])}
  OBVIOUS
<1>2. PICK gap \in Nat :
        /\ gap > 6 * w
        /\ \A i \in DOMAIN values :
             /\ values[i] >= low
             /\ InRange(values, values[i]) => values[i] <= low + w
        /\ \A v \in Nat : FarAbove(values, v) => v >= low + gap
  BY ShiftedIs
<1>3. PICK p \in Nat : p = latest.p95 /\ p >= low + gap /\ 2 * p > 3 * (low + w)
  BY <1>2
<1>4. PICK mean : mean = FrozenEWMA(values)
  OBVIOUS
<1>5. PICK a \in Nat, d \in Nat \ {0}, high \in Nat :
         a = mean.num /\ d = mean.den /\ high = low + w /\ a <= high * d /\ a >= low * d
  <2>1. /\ mean.num \in Nat /\ mean.den \in Nat \ {0} /\ mean.num >= low * mean.den
        /\ mean.num <= (low + w) * mean.den
    BY <1>4, ShiftedMean, Zenon
  <2>2. low + w \in Nat
    OBVIOUS
  <2> QED
    BY ONLY <2>1, <2>2
<1>6. 2 * p * d > 3 * a
  BY ONLY <1>3, <1>5, p \in Nat, a \in Nat, d \in Nat \ {0}, high \in Nat, ScaledAbove
<1>7. a > 0
  BY ONLY <1>5, low \in Nat, low > 0, a \in Nat, d \in Nat \ {0}, PositiveMean
<1>8. AtLeast(RobustZ(p, values), RobustZThreshold)
  <2>1. B \in SUBSET DOMAIN values /\ 2 * Cardinality(B) < Len(values)
    BY <1>1
  <2>2. \A i \in DOMAIN values : i \notin B => values[i] >= low /\ values[i] <= low + w
    BY <1>1, <1>2
  <2>3. values # <<>>
    BY DEF Shifted
  <2> QED
    BY ONLY <1>2, <1>3, <2>1, <2>2, <2>3, values \in Seq(Nat), low \in Nat, w \in Nat,
            gap \in Nat, p \in Nat, RobustZThreshold \in Int, RobustZThreshold <= 3, StandsOut
<1> QED
  BY ONLY <1>3, <1>4, <1>5, <1>6, <1>7, <1>8, values = Values(past, "p95") DEF LatencyAnomaly

LEMMA ErrorSeen ==
  ASSUME NEW past, NEW values \in Seq(Nat), values = Values(past, "error"),
         NEW low \in Nat, NEW w \in Nat, FirstFive(values, low, w), Shifted(values),
         NEW latest, latest.error \in Nat, latest.requests >= MinimumSamples,
         latest.error > ErrorThreshold, latest.error > (low + w) + 10
  PROVE  ErrorAnomaly(latest, past)
<1>1. PICK mean : mean = FrozenEWMA(values)
  OBVIOUS
<1>2. PICK a \in Nat, d \in Nat \ {0}, high \in Nat :
         a = mean.num /\ d = mean.den /\ high = low + w /\ a <= high * d
  <2>1. /\ mean.num \in Nat /\ mean.den \in Nat \ {0}
        /\ mean.num <= (low + w) * mean.den
    BY <1>1, ShiftedMean, Zenon
  <2>2. low + w \in Nat
    OBVIOUS
  <2> QED
    BY ONLY <2>1, <2>2
<1>3. PICK e \in Nat : e = latest.error /\ e > high + 10
  BY <1>2
<1>4. e * d - a > 10 * d
  BY ONLY <1>2, <1>3, e \in Nat, high \in Nat, a \in Nat, d \in Nat \ {0}, TenAbove
<1> QED
  BY ONLY <1>1, <1>2, <1>3, <1>4, values = Values(past, "error"),
          latest.requests >= MinimumSamples, latest.error > ErrorThreshold DEF ErrorAnomaly

(* What half of the samples exceed by far, the median does. *)
LEMMA MissSeen ==
  ASSUME NEW past, NEW values \in Seq(Nat), values = Values(past, "hit"),
         NEW latest, latest.hit \in Nat, latest.hit < 350,
         2 * Cardinality({i \in DOMAIN values : values[i] > latest.hit + 200}) > Len(values),
         \A i \in DOMAIN values : values[i] \in Rates
  PROVE  MissAnomaly(latest, past)
<1>1. PICK x \in Nat, low \in Nat, high \in Nat :
        x = latest.hit /\ low = x + 201 /\ high = 1000
  OBVIOUS
<1>2. PICK N \in Nat : N = Len(values) /\ DOMAIN values = 1..N
  OBVIOUS
<1>3. PICK G \in SUBSET (1..N) : G = {i \in DOMAIN values : values[i] > latest.hit + 200}
  BY <1>2
<1>4. PICK B \in SUBSET (1..N) : B = (1..N) \ G
  OBVIOUS
<1>5. IsFiniteSet(1..N) /\ Cardinality(1..N) = N
  BY ONLY N \in Nat, FS_Interval
<1>6. Cardinality(B) = N - Cardinality(G) /\ Cardinality(G) \in Nat
  <2>1. (1..N) \cap G = G
    BY <1>3
  <2>2. Cardinality(B) = Cardinality(1..N) - Cardinality((1..N) \cap G)
    BY ONLY <1>4, <1>5, FS_Difference
  <2>3. IsFiniteSet(G)
    BY <1>5, FS_Subset
  <2> QED
    BY <1>5, <2>1, <2>2, <2>3, FS_CardinalityType
<1>7. 2 * Cardinality(G) > N
  BY <1>2, <1>3
<1>8. 2 * Cardinality(B) < N /\ N # 0
  <2>1. 2 * Cardinality(B) < N
    BY ONLY <1>6, <1>7, N \in Nat
  <2>2. N # 0
    <3>1. Cardinality(B) \in Nat
      BY <1>4, <1>5, FS_Subset, FS_CardinalityType
    <3> QED
      BY ONLY <2>1, <3>1, N \in Nat
  <2> QED
    BY <2>1, <2>2
<1>9. \A i \in DOMAIN values : i \notin B => values[i] \in low..high
  <2> SUFFICES ASSUME NEW i \in 1..N, i \in G PROVE values[i] \in low..high
    BY <1>2, <1>4
  <2>1. PICK v \in Nat : v = values[i] /\ v > x + 200 /\ v <= high
    <3>1. values[i] \in Rates /\ values[i] \in Nat
      BY <1>2
    <3>2. values[i] > x + 200
      BY <1>1, <1>3
    <3>3. \A v \in Rates : v <= high
      BY <1>1 DEF Rates
    <3> QED
      BY <3>1, <3>2, <3>3
  <2>2. low = x + 201
    BY <1>1
  <2>3. v > x + 200 /\ v <= high
    BY <2>1
  <2>4. v \in low..high
    BY ONLY <2>2, <2>3, v \in Nat, x \in Nat, low \in Nat, high \in Nat
  <2> QED
    BY <2>1, <2>4
<1>10. TwiceMedian(values) \in Nat /\ 2 * low <= TwiceMedian(values)
  <2>1. B \in SUBSET DOMAIN values /\ 2 * Cardinality(B) < Len(values) /\ values # <<>>
    BY <1>2, <1>8
  <2> QED
    BY ONLY <1>9, <2>1, low \in Nat, high \in Nat, values \in Seq(Nat), MedianWithin
<1>11. PICK y \in Nat : y = TwiceMedian(values) /\ 2 * low <= y
  BY <1>10
<1>12. 2 * x < y - 2 * 200
  <2>1. low = x + 201 /\ 2 * low <= y
    BY <1>1, <1>11
  <2> QED
    BY ONLY <2>1, x \in Nat, y \in Nat, low \in Nat
<1> QED
  BY ONLY <1>1, <1>11, <1>12, latest.hit < 350, values = Values(past, "hit") DEF MissAnomaly

LEMMA InvShiftFlagged ==
  ASSUME RobustZThreshold \in Int, RobustZThreshold <= 3
  PROVE  Inv => ShiftFlagged
<1> SUFFICES ASSUME Inv, NEW n \in DOMAIN Verdict,
                    Len(Past(History(n))) >= Max({5, MinimumHistory})
             PROVE  LET past == Past(History(n))
                        latest == Last(History(n))
                        p95 == Values(past, "p95")
                        error == Values(past, "error")
                    IN
         /\ (/\ Shifted(p95) /\ Least(p95) > 0
             /\ 2 * Cardinality({i \in DOMAIN past : ~ InRange(p95, p95[i])}) < Len(past)
             /\ FarAbove(p95, latest.p95) /\ 2 * latest.p95 > 3 * Most(p95))
              => "LATENCY" \in Verdict[n]
         /\ (/\ Shifted(error) /\ latest.requests >= MinimumSamples
             /\ latest.error > ErrorThreshold /\ latest.error > Most(error) + 10)
              => "ERROR" \in Verdict[n]
         /\ (/\ latest.hit < 350
             /\ 2 * Cardinality({i \in DOMAIN past : past[i].hit > latest.hit + 200}) > Len(past))
              => "MISS" \in Verdict[n]
  BY Zenon DEF ShiftFlagged
<1>1. PICK h, past, latest, p95, error, hit :
        /\ h = History(n) /\ past = Past(h) /\ latest = Last(h)
        /\ p95 = Values(past, "p95") /\ error = Values(past, "error") /\ hit = Values(past, "hit")
  OBVIOUS
<1>2. PICK N \in Nat : Len(past) = N /\ DOMAIN past = 1..N /\ \A i \in 1..N : RowOk(past[i])
  BY <1>1, PastIs
<1>3. RowOk(latest)
  BY <1>1, PastIs
<1>4. N >= 5 /\ N >= MinimumHistory
  <2>1. MinimumHistory \in Nat
    BY DetectionAssumption
  <2>2. PICK k \in Int : k = Max({5, MinimumHistory}) /\ k >= 5 /\ k >= MinimumHistory
    BY <2>1, MaxPair
  <2>3. N >= k
    BY <1>1, <1>2, <2>2
  <2> QED
    BY <2>1, <2>2, <2>3
<1>5. PICK base : Verdict[n] = Reasons(h, base)
  BY <1>1, VerdictReasons
<1>6. /\ LatencyAnomaly(latest, past) => "LATENCY" \in Verdict[n]
      /\ ErrorAnomaly(latest, past) => "ERROR" \in Verdict[n]
      /\ MissAnomaly(latest, past) => "MISS" \in Verdict[n]
  BY <1>1, <1>2, <1>4, <1>5, ReasonIf
<1>7. /\ p95 \in Seq(Nat) /\ Len(p95) = N /\ DOMAIN p95 = 1..N
      /\ error \in Seq(Nat) /\ Len(error) = N /\ DOMAIN error = 1..N
      /\ hit \in Seq(Nat) /\ Len(hit) = N /\ DOMAIN hit = 1..N
      /\ \A i \in 1..N : hit[i] = past[i].hit
  BY <1>1, <1>2, Columns
<1>8. ASSUME Shifted(p95), Least(p95) > 0,
             2 * Cardinality({i \in DOMAIN past : ~ InRange(p95, p95[i])}) < Len(past),
             FarAbove(p95, latest.p95), 2 * latest.p95 > 3 * Most(p95)
      PROVE  LatencyAnomaly(latest, past)
  <2>1. PICK low \in Nat, w \in Nat : FirstFive(p95, low, w)
    BY <1>4, <1>7, FirstRange
  <2>2. low > 0 /\ 2 * latest.p95 > 3 * (low + w)
    BY <1>8, <2>1 DEF FirstFive
  <2>3. 2 * Cardinality({i \in DOMAIN p95 : ~ InRange(p95, p95[i])}) < Len(p95)
    BY <1>2, <1>7, <1>8
  <2>4. latest.p95 \in Nat
    BY <1>3 DEF RowOk
  <2> QED
    BY <1>1, <1>7, <1>8, <2>1, <2>2, <2>3, <2>4, LatencySeen
<1>9. ASSUME Shifted(error), latest.requests >= MinimumSamples,
             latest.error > ErrorThreshold, latest.error > Most(error) + 10
      PROVE  ErrorAnomaly(latest, past)
  <2>1. PICK low \in Nat, w \in Nat : FirstFive(error, low, w)
    BY <1>4, <1>7, FirstRange
  <2>2. latest.error > (low + w) + 10
    BY <1>9, <2>1 DEF FirstFive
  <2>3. latest.error \in Nat
    BY <1>3, RatesAre DEF RowOk
  <2> QED
    BY <1>1, <1>7, <1>9, <2>1, <2>2, <2>3, ErrorSeen
<1>10. ASSUME latest.hit < 350,
              2 * Cardinality({i \in DOMAIN past : past[i].hit > latest.hit + 200}) > Len(past)
       PROVE  MissAnomaly(latest, past)
  <2>1. latest.hit \in Nat
    BY <1>3, RatesAre DEF RowOk
  <2>2. {i \in DOMAIN past : past[i].hit > latest.hit + 200}
          = {i \in DOMAIN hit : hit[i] > latest.hit + 200}
    BY <1>2, <1>7
  <2>3. 2 * Cardinality({i \in DOMAIN hit : hit[i] > latest.hit + 200}) > Len(hit)
    BY <1>2, <1>7, <1>10, <2>2
  <2>4. \A i \in DOMAIN hit : hit[i] \in Rates
    BY <1>2, <1>7 DEF RowOk
  <2> QED
    BY <1>1, <1>7, <1>10, <2>1, <2>3, <2>4, MissSeen
<1>11. past = Past(History(n)) /\ latest = Last(History(n))
       /\ p95 = Values(Past(History(n)), "p95") /\ error = Values(Past(History(n)), "error")
  BY <1>1, Zenon
<1> HIDE DEF Inv
<1> QED
  BY ONLY <1>6, <1>8, <1>9, <1>10, <1>11

-----------------------------------------------------------------------------
(* What is accused shows in a row *)

(* The least of a column. *)
LEMMA LeastOf ==
  ASSUME NEW values \in Seq(Nat), NEW N \in Nat \ {0}, DOMAIN values = 1..N
  PROVE  \E k \in 1..N : \A i \in 1..N : values[i] >= values[k]
<1>1. PICK V : V = {values[i] : i \in 1..N}
  OBVIOUS
<1>2. \A i \in 1..N : values[i] \in Nat
  OBVIOUS
<1>3. V \subseteq Nat /\ V # {}
  <2>1. 1 \in 1..N
    OBVIOUS
  <2> QED
    BY ONLY <1>1, <1>2, <2>1
<1>4. Min(V) \in V /\ \A v \in V : Min(V) <= v
  BY ONLY <1>3, MinNat
<1>5. PICK k \in 1..N : values[k] = Min(V)
  BY <1>1, <1>4
<1>6. ASSUME NEW i \in 1..N PROVE values[i] >= values[k]
  <2>1. values[i] \in V
    BY <1>1
  <2>2. Min(V) <= values[i] /\ Min(V) \in Nat /\ values[i] \in Nat
    BY <1>2, <1>3, <1>4, <2>1
  <2> QED
    BY <1>5, <2>2
<1> QED
  BY <1>6

LEMMA LatencyShows ==
  ASSUME NEW past, NEW values \in Seq(Nat), values = Values(past, "p95"),
         NEW N \in Nat \ {0}, Len(values) = N, DOMAIN values = 1..N,
         NEW latest, latest.p95 \in Nat, LatencyAnomaly(latest, past)
  PROVE  \E k \in 1..N : 2 * latest.p95 > 3 * values[k]
<1>1. PICK k \in 1..N : \A i \in 1..N : values[i] >= values[k]
  BY LeastOf
<1>2. PICK low \in Nat : low = values[k] /\ \A i \in 1..N : values[i] \in Nat /\ values[i] >= low
  BY <1>1
<1>3. PICK mean : mean = FrozenEWMA(values)
  OBVIOUS
<1>4. mean.num \in Nat /\ mean.den \in Nat \ {0} /\ mean.num >= low * mean.den
  BY ONLY <1>2, <1>3, Len(values) = N, DOMAIN values = 1..N, N \in Nat \ {0}, low \in Nat,
          MeanAtLeast
<1>5. PICK p \in Nat, a \in Nat, d \in Nat \ {0} :
        p = latest.p95 /\ a = mean.num /\ d = mean.den /\ a >= low * d
  BY <1>4
<1>6. 2 * p * d > 3 * a
  BY ONLY <1>3, <1>5, values = Values(past, "p95"), LatencyAnomaly(latest, past)
     DEF LatencyAnomaly
<1>7. ~ (2 * p <= 3 * low)
  BY ONLY <1>5, <1>6, p \in Nat, low \in Nat, a \in Nat, d \in Nat \ {0}, ScaledAtMost
<1>8. 2 * p > 3 * low
  BY ONLY <1>7, p \in Nat, low \in Nat
<1> QED
  BY <1>2, <1>5, <1>8

(* A sample at most ten above a mean of samples from low *)
LEMMA TenAtMost ==
  ASSUME NEW e \in Nat, NEW low \in Nat, e <= low + 10,
         NEW a \in Nat, NEW d \in Nat \ {0}, a >= low * d
  PROVE  ~ (e * d - a > 10 * d)
<1>1. (low + 10 - e) * d >= 0
  <2>1. \A x \in Nat : x * d \in Nat
    OBVIOUS
  <2>2. low + 10 - e \in Nat
    OBVIOUS
  <2> QED
    BY <2>1, <2>2
<1>2. (low + 10 - e) * d = low * d + 10 * d - e * d
  OBVIOUS
<1>3. low * d \in Nat /\ e * d \in Nat
  OBVIOUS
<1> QED
  BY <1>1, <1>2, <1>3

LEMMA ErrorShows ==
  ASSUME NEW past, NEW values \in Seq(Nat), values = Values(past, "error"),
         NEW N \in Nat \ {0}, Len(values) = N, DOMAIN values = 1..N,
         NEW latest, latest.error \in Nat, ErrorAnomaly(latest, past)
  PROVE  \E k \in 1..N : latest.error > values[k] + 10
<1>1. PICK k \in 1..N : \A i \in 1..N : values[i] >= values[k]
  BY LeastOf
<1>2. PICK low \in Nat : low = values[k] /\ \A i \in 1..N : values[i] \in Nat /\ values[i] >= low
  BY <1>1
<1>3. PICK mean : mean = FrozenEWMA(values)
  OBVIOUS
<1>4. mean.num \in Nat /\ mean.den \in Nat \ {0} /\ mean.num >= low * mean.den
  BY ONLY <1>2, <1>3, Len(values) = N, DOMAIN values = 1..N, N \in Nat \ {0}, low \in Nat,
          MeanAtLeast
<1>5. PICK e \in Nat, a \in Nat, d \in Nat \ {0} :
        e = latest.error /\ a = mean.num /\ d = mean.den /\ a >= low * d
  BY <1>4
<1>6. e * d - a > 10 * d
  BY ONLY <1>3, <1>5, values = Values(past, "error"), ErrorAnomaly(latest, past)
     DEF ErrorAnomaly
<1>7. ~ (e <= low + 10)
  BY ONLY <1>5, <1>6, e \in Nat, low \in Nat, a \in Nat, d \in Nat \ {0}, TenAtMost
<1>8. e > low + 10
  BY ONLY <1>7, e \in Nat, low \in Nat
<1> QED
  BY <1>2, <1>5, <1>8

(* What a median exceeds by far, half of the samples do. *)
LEMMA MissShows ==
  ASSUME NEW past, NEW values \in Seq(Nat), values = Values(past, "hit"), values # <<>>,
         NEW latest, latest.hit \in Nat, MissAnomaly(latest, past)
  PROVE  2 * Cardinality({i \in DOMAIN values : values[i] > latest.hit + 200}) >= Len(values)
<1>1. PICK x \in Nat, low \in Nat, high \in Nat : x = latest.hit /\ low = 0 /\ high = x + 200
  OBVIOUS
<1>2. PICK N \in Nat : N = Len(values) /\ DOMAIN values = 1..N
  OBVIOUS
<1>3. PICK B \in SUBSET DOMAIN values : B = {i \in DOMAIN values : values[i] > latest.hit + 200}
  OBVIOUS
<1>4. Cardinality(B) \in Nat
  <2>1. IsFiniteSet(1..N)
    BY ONLY N \in Nat, FS_Interval
  <2> QED
    BY <1>2, <1>3, <2>1, FS_Subset, FS_CardinalityType
<1>5. SUFFICES ASSUME 2 * Cardinality(B) < N PROVE FALSE
  <2>1. PICK c \in Nat : c = Cardinality(B)
    BY <1>4
  <2>2. ~ (2 * c < N) => 2 * c >= N
    BY ONLY c \in Nat, N \in Nat
  <2> QED
    BY <1>2, <1>3, <2>1, <2>2, Zenon
<1>6. \A i \in DOMAIN values : i \notin B => values[i] \in low..high
  <2> SUFFICES ASSUME NEW i \in DOMAIN values, i \notin B PROVE values[i] \in low..high
    OBVIOUS
  <2>1. PICK v \in Nat : v = values[i]
    OBVIOUS
  <2>2. ~ (v > x + 200)
    BY <1>1, <1>3, <2>1
  <2>3. v \in low..high
    <3>1. low = 0 /\ high = x + 200
      BY <1>1
    <3> QED
      BY ONLY <2>2, <3>1, v \in Nat, x \in Nat
  <2> QED
    BY <2>1, <2>3
<1>7. PICK y \in Nat : y = TwiceMedian(values) /\ y <= 2 * high
  <2>1. 2 * Cardinality(B) < Len(values)
    BY <1>2, <1>5
  <2>2. TwiceMedian(values) \in Nat /\ TwiceMedian(values) <= 2 * high
    BY ONLY <1>6, <2>1, values # <<>>, values \in Seq(Nat), low \in Nat, high \in Nat,
            B \in SUBSET DOMAIN values, MedianWithin
  <2> QED
    BY <2>2
<1>8. 2 * x < y - 2 * 200
  BY ONLY <1>1, <1>7, values = Values(past, "hit"), MissAnomaly(latest, past) DEF MissAnomaly
<1>9. high = x + 200
  BY <1>1
<1> QED
  BY ONLY <1>7, <1>8, <1>9, x \in Nat, y \in Nat, high \in Nat

(* What exceeds a multiple of a median exceeds that multiple of a sample. *)
LEMMA RuleShows ==
  ASSUME NEW s \in Seq(Nat), s # <<>>, NEW p \in Nat, NEW k \in Nat,
         2 * p > k * TwiceMedian(s)
  PROVE  \E v \in Range(s) : p > k * v
<1>1. PICK i \in DOMAIN s, j \in DOMAIN s : TwiceMedian(s) = Ascending(s)[i] + Ascending(s)[j]
  <2>1. \E N \in Nat, i \in Nat, j \in Nat :
          i \in DOMAIN s /\ j \in DOMAIN s /\ TwiceMedian(s) = Ascending(s)[i] + Ascending(s)[j]
    BY TwiceMedianIs
  <2> QED
    BY <2>1
<1>2. PICK x \in Nat, y \in Nat : /\ x = Ascending(s)[i] /\ y = Ascending(s)[j]
                                  /\ x \in Range(s) /\ y \in Range(s)
  BY AscendingIs
<1>3. 2 * p > k * (x + y)
  <2>1. TwiceMedian(s) = x + y
    BY <1>1, <1>2, Zenon
  <2> QED
    BY <2>1, Zenon
<1>4. PICK v \in Nat : v \in Range(s) /\ v <= x /\ v <= y
  <2>1. CASE x <= y
    BY <1>2, <2>1
  <2>2. CASE ~ (x <= y)
    <3>1. y <= x /\ y <= y
      BY ONLY <2>2, x \in Nat, y \in Nat
    <3> QED
      BY ONLY <1>2, <3>1, y \in Nat
  <2> QED
    BY <2>1, <2>2
<1>5. p > k * v
  <2>1. k * (x + y) = k * x + k * y
    BY ONLY k \in Nat, x \in Nat, y \in Nat
  <2>2. k * x >= k * v /\ k * y >= k * v
    <3>1. \A a, b \in Nat : a <= b => k * b >= k * a
      BY ONLY k \in Nat
    <3> QED
      BY <1>4, <3>1
  <2>3. PICK f \in Nat, g \in Nat, h \in Nat : f = k * x /\ g = k * y /\ h = k * v
    <3>1. k * x \in Nat /\ k * y \in Nat /\ k * v \in Nat
      BY ONLY k \in Nat, x \in Nat, y \in Nat, v \in Nat
    <3> QED
      BY <3>1
  <2>4. f >= h /\ g >= h
    BY <2>2, <2>3, Zenon
  <2>5. 2 * p > f + g
    BY <1>3, <2>1, <2>3, Zenon
  <2>6. p > h
    BY ONLY <2>4, <2>5, p \in Nat, f \in Nat, g \in Nat, h \in Nat
  <2> QED
    BY <2>3, <2>6, Zenon
<1> QED
  BY <1>4, <1>5

LEMMA InvAccusedOnEvidence ==
  ASSUME LatencyMultiple \in Nat
  PROVE  Inv => AccusedOnEvidence
<1> SUFFICES ASSUME Inv, NEW n \in DOMAIN Verdict
             PROVE  LET past == Past(History(n))
                        latest == Last(History(n))
                    IN /\ "LATENCY" \in Verdict[n] => \E r \in Range(past) : 2 * latest.p95 > 3 * r.p95
                       /\ "ERROR" \in Verdict[n] => \E r \in Range(past) : latest.error > r.error + 10
                       /\ "MISS" \in Verdict[n] =>
                            2 * Cardinality({i \in DOMAIN past : past[i].hit > latest.hit + 200}) >= Len(past)
                       /\ "RULE" \in Verdict[n] =>
                            \E k \in DOMAIN Verdict : latest.p95 > LatencyMultiple * Last(History(k)).p95
  BY Zenon DEF AccusedOnEvidence
<1>1. PICK h, past, latest, p95, error, hit :
        /\ h = History(n) /\ past = Past(h) /\ latest = Last(h)
        /\ p95 = Values(past, "p95") /\ error = Values(past, "error") /\ hit = Values(past, "hit")
  OBVIOUS
<1>2. PICK N \in Nat : Len(past) = N /\ DOMAIN past = 1..N /\ \A i \in 1..N : RowOk(past[i])
  BY <1>1, PastIs
<1>3. latest.p95 \in Nat /\ latest.error \in Nat /\ latest.hit \in Nat
  <2>1. RowOk(latest)
    BY <1>1, PastIs
  <2> QED
    BY <2>1, RatesAre DEF RowOk
<1>4. PICK base : Verdict[n] = Reasons(h, base)
  BY <1>1, VerdictReasons
<1>5. /\ "LATENCY" \in Verdict[n] => N >= MinimumHistory /\ LatencyAnomaly(latest, past)
      /\ "ERROR" \in Verdict[n] => N >= MinimumHistory /\ ErrorAnomaly(latest, past)
      /\ "MISS" \in Verdict[n] => N >= MinimumHistory /\ MissAnomaly(latest, past)
  BY <1>1, <1>2, <1>4 DEF Reasons
<1>6. N >= MinimumHistory => N \in Nat \ {0}
  BY DetectionAssumption
<1>7. /\ p95 \in Seq(Nat) /\ Len(p95) = N /\ DOMAIN p95 = 1..N
      /\ \A i \in 1..N : p95[i] = past[i].p95
      /\ error \in Seq(Nat) /\ Len(error) = N /\ DOMAIN error = 1..N
      /\ \A i \in 1..N : error[i] = past[i].error
      /\ hit \in Seq(Nat) /\ Len(hit) = N /\ DOMAIN hit = 1..N
      /\ \A i \in 1..N : hit[i] = past[i].hit
  BY <1>1, <1>2, Columns
<1>8. ASSUME "LATENCY" \in Verdict[n] PROVE \E r \in Range(past) : 2 * latest.p95 > 3 * r.p95
  <2>1. N \in Nat \ {0} /\ LatencyAnomaly(latest, past)
    BY <1>5, <1>6, <1>8
  <2>2. PICK k \in 1..N : 2 * latest.p95 > 3 * p95[k]
    BY <1>1, <1>3, <1>7, <2>1, LatencyShows
  <2>3. past[k] \in Range(past) /\ p95[k] = past[k].p95
    BY <1>2, <1>7 DEF Range
  <2> QED
    BY <2>2, <2>3
<1>9. ASSUME "ERROR" \in Verdict[n] PROVE \E r \in Range(past) : latest.error > r.error + 10
  <2>1. N \in Nat \ {0} /\ ErrorAnomaly(latest, past)
    BY <1>5, <1>6, <1>9
  <2>2. PICK k \in 1..N : latest.error > error[k] + 10
    BY <1>1, <1>3, <1>7, <2>1, ErrorShows
  <2>3. past[k] \in Range(past) /\ error[k] = past[k].error
    BY <1>2, <1>7 DEF Range
  <2> QED
    BY <2>2, <2>3
<1>10. ASSUME "MISS" \in Verdict[n]
       PROVE  2 * Cardinality({i \in DOMAIN past : past[i].hit > latest.hit + 200}) >= Len(past)
  <2>1. hit # <<>> /\ MissAnomaly(latest, past)
    BY <1>5, <1>6, <1>7, <1>10
  <2>2. {i \in DOMAIN past : past[i].hit > latest.hit + 200}
          = {i \in DOMAIN hit : hit[i] > latest.hit + 200}
    BY <1>2, <1>7
  <2>3. 2 * Cardinality({i \in DOMAIN hit : hit[i] > latest.hit + 200}) >= Len(hit)
    <3>1. hit = Values(past, "hit") /\ hit \in Seq(Nat) /\ latest.hit \in Nat
      BY <1>1, <1>3, <1>7, Zenon
    <3> QED
      BY ONLY <2>1, <3>1, MissShows
  <2> QED
    BY <1>2, <1>7, <2>2, <2>3
<1>11. ASSUME "RULE" \in Verdict[n]
       PROVE  \E k \in DOMAIN Verdict : latest.p95 > LatencyMultiple * Last(History(k)).p95
  <2>1. PICK K \in Nat : K = Cardinality(Seen)
    BY SeenFinite, FS_CardinalityType
  <2>2. PICK s \in Seq(Nat) : s = LatestP95 /\ Len(s) = K /\ DOMAIN Verdict = Seen
    BY <2>1, VerdictIs
  <2>3. n \in Seen
    BY <2>2
  <2>4. 2 * latest.p95 > LatencyMultiple * TwiceMedian(s)
    BY <1>1, <1>11, <2>2, <2>3, VerdictIs
  <2>5. s # <<>>
    <3>1. K # 0
      BY <2>1, <2>3, SeenFinite, FS_EmptySet
    <3> QED
      BY <2>2, <3>1
  <2>6. PICK v \in Range(s) : latest.p95 > LatencyMultiple * v
    BY ONLY <1>3, <2>4, <2>5, s \in Seq(Nat), LatencyMultiple \in Nat, RuleShows
  <2>7. PICK i \in 1..K : v = s[i]
    BY <2>2 DEF Range
  <2>8. SetToSeq(Seen)[i] \in Seen
    BY <2>1, SeenFinite, SetToSeqIs
  <2>9. v = Last(History(SetToSeq(Seen)[i])).p95
    BY <2>1, <2>2, <2>7 DEF LatestP95
  <2> QED
    BY <2>2, <2>6, <2>8, <2>9
<1>12. past = Past(History(n)) /\ latest = Last(History(n))
  BY <1>1, Zenon
<1> HIDE DEF Inv
<1> QED
  BY ONLY <1>8, <1>9, <1>10, <1>11, <1>12

-----------------------------------------------------------------------------
(* Announced windows and what the rows show *)

(* The networks of a scenario that concern the scope. *)
Covers(s) == s.network \in {"", Network}

(* What a validated, declared scenario says of times and networks. *)
LEMMA ScenarioTimes ==
  ASSUME Checked, NetworksDeclared, NEW i \in DOMAIN config.scenarios
  PROVE  LET s == config.scenarios[i] IN
         /\ s.at \in Nat /\ s.duration \in Nat \ {0} /\ config.duration \in Nat
         /\ s.at + s.duration <= config.duration
         /\ Covers(s) <=> (s.type = "isp_node_degradation" => s.network = Network)
<1>1. PICK s \in Event : s = config.scenarios[i]
  BY ScenarioFields
<1>2. ValidScenario(config, s) /\ s \in Range(config.scenarios) /\ config.duration \in Nat
  BY <1>1, ScenarioFields
<1>3. s.at \in Int /\ s.duration \in Int
  BY DEF Event
<1>4. s.duration > 0 /\ s.at >= 0 /\ s.at + s.duration <= config.duration
  BY <1>2 DEF ValidScenario
<1>5. Covers(s) <=> (s.type = "isp_node_degradation" => s.network = Network)
  BY <1>2, Zenon DEF NetworksDeclared, Covers
<1> QED
  BY <1>1, <1>2, <1>3, <1>4, <1>5

(* A minute and a window that overlap share a second of the run. *)
LEMMA Overlap ==
  ASSUME NEW at \in Nat, NEW long \in Nat \ {0}, NEW end \in Nat, at + long <= end,
         NEW start \in Nat, NEW size \in Nat \ {0},
         start < at + long, start + size > at
  PROVE  \E t \in start..(start + size - 1) : t < end /\ at <= t /\ t < at + long
<1>1. CASE at > start
  <2>1. at \in start..(start + size - 1) /\ at < end /\ at < at + long
    BY <1>1
  <2> QED
    BY <2>1
<1>2. CASE ~ (at > start)
  <2>1. start \in start..(start + size - 1) /\ start < end /\ at <= start
    BY <1>2
  <2> QED
    BY <2>1
<1> QED
  BY <1>1, <1>2

LEMMA MinuteStarts ==
  ASSUME NEW m \in Int
  PROVE  /\ PerMinute \in Nat \ {0}
         /\ PerMinute * m \in Int /\ (m >= 0 => PerMinute * m \in Nat)
         /\ m * PerMinute = PerMinute * m
         /\ (m + 1) * PerMinute = PerMinute * m + PerMinute
BY DetectionAssumption

(* The minute of a second of the run. *)
LEMMA MinuteOf ==
  ASSUME Checked, NEW t \in Nat, t < config.duration
  PROVE  \E m \in Nat : m < Minutes /\ t \in Slots(m)
<1>1. PICK P \in Nat \ {0} : P = PerMinute
  BY DetectionAssumption
<1>2. PICK D \in Int : D = config.duration
  BY DEF Checked, IsConfig
<1>3. PICK q \in Int : q = Minutes
  <2>1. Minutes \in Int
    BY <1>1, <1>2 DEF Minutes
  <2> QED
    BY <2>1
<1>4. PICK m \in Nat : m = t \div P
  BY <1>1
<1>5. P * m <= t /\ t < P * m + P
  BY <1>1, <1>4
<1>6. t \in (P * m)..(P * m + P - 1)
  BY <1>1, <1>5
<1>7. t \in Slots(m)
  BY <1>1, <1>6, SlotsOf
<1>8. D + P - 1 < P * q + P
  BY <1>1, <1>2, <1>3 DEF Minutes
<1>9. P * m < P * q
  BY <1>1, <1>2, <1>5, <1>8
<1>10. m < q
  <2>1. ASSUME q <= m PROVE P * q <= P * m
    BY <1>1, <2>1
  <2> QED
    BY <1>9, <2>1
<1> QED
  BY <1>3, <1>7, <1>10

LEMMA InvLabelsTrue == Inv => LabelsTrue
<1> SUFFICES ASSUME Inv, NetworksDeclared, NEW n \in Nodes, NEW r \in Range(table[n])
             PROVE  LET announced ==
                          {w.type : w \in {v \in LabelWindows(config) : Matches(v, n, r.minute)}}
                    IN /\ r.labels \cap NodeFaults \subseteq announced
                       /\ r.slots = Slots(r.minute) => announced \subseteq r.labels
  BY DEF LabelsTrue
<1>1. PICK m \in MinuteNumbers : /\ m < minute[n] /\ m < Minutes /\ Drawn(n, m) # {}
                                 /\ r = Row(n, m) /\ Checked
  BY RowInTable
<1>2. r.minute = m /\ m \in Int /\ m >= -1 /\ r.slots \subseteq Slots(m)
  <2>1. m \in Int /\ m >= -1 /\ seed \in Seeds
    BY DEF MinuteNumbers, Inv
  <2>2. r.minute = m /\ RowOk(r)
    BY <1>1, <2>1, RowTypes
  <2> QED
    BY <2>1, <2>2 DEF RowOk
<1>3. /\ PerMinute \in Nat \ {0}
      /\ PerMinute * m \in Int /\ (m >= 0 => PerMinute * m \in Nat)
      /\ m * PerMinute = PerMinute * m
      /\ (m + 1) * PerMinute = PerMinute * m + PerMinute
  BY <1>2, MinuteStarts
<1>30. PICK start \in Int : start = PerMinute * m
  BY <1>3
<1>31. PICK size \in Nat \ {0} : size = PerMinute
  BY <1>3
<1>32. m * PerMinute = start
  BY ONLY <1>3, <1>30
<1>33. (m + 1) * PerMinute = start + size
  BY ONLY <1>3, <1>30, <1>31
<1>34. m >= 0 => start \in Nat
  BY ONLY <1>3, <1>30
<1>4. /\ Slots(m) \subseteq start..(start + size - 1)
      /\ m >= 0 => \A t \in start..(start + size - 1) : t < config.duration => t \in Slots(m)
  <2>1. /\ Slots(m) \subseteq (PerMinute * m)..(PerMinute * m + PerMinute - 1)
        /\ m >= 0 => \A t \in (PerMinute * m)..(PerMinute * m + PerMinute - 1) :
                        t < config.duration => t \in Slots(m)
    BY <1>1, <1>2, SlotsOf
  <2> QED
    BY ONLY <1>30, <1>31, <2>1
<1>5. PICK id : id = config.nodes[n].id
  OBVIOUS
<1>6. ASSUME NEW type \in r.labels \cap NodeFaults
      PROVE  \E w \in LabelWindows(config) : Matches(w, n, m) /\ type = w.type
  <2>1. PICK t \in r.slots, i \in DOMAIN config.scenarios :
           /\ Applies(config.scenarios[i], t, id, Network)
           /\ type = config.scenarios[i].type
    BY <1>1, <1>5, <1>6, RowLabels
  <2>2. PICK s : s = config.scenarios[i]
    OBVIOUS
  <2>3. /\ s.at \in Nat /\ s.duration \in Nat
        /\ Covers(s) <=> (s.type = "isp_node_degradation" => s.network = Network)
    BY <1>1, <2>2, ScenarioTimes
  <2>4. PICK w : w = LabelWindow(s)
    OBVIOUS
  <2>5. w \in LabelWindows(config)
    BY <2>2, <2>4 DEF LabelWindows, Range
  <2>6. /\ w.type = s.type /\ w.start = s.at /\ w.end = s.at + s.duration
        /\ w.target = s.target /\ w.network = s.network
    BY <2>4 DEF LabelWindow
  <2>7. /\ s.at <= t /\ t < s.at + s.duration
        /\ type = s.type /\ s.type \in NodeFaults
        /\ s.target = id
        /\ s.type = "isp_node_degradation" => s.network = Network
    BY <1>6, <2>1, <2>2 DEF Applies, NodeFaults
  <2>8. Covers(w)
    <3>1. Covers(s)
      BY <2>3, <2>7
    <3> QED
      BY <2>6, <3>1, Zenon DEF Covers
  <2>9. start <= t /\ t < start + size /\ t \in Int
    <3>1. t \in start..(start + size - 1)
      BY <1>2, <1>4, <2>1
    <3> QED
      BY <3>1
  <2>10. start < s.at + s.duration /\ start + size > s.at
    BY ONLY <2>3, <2>7, <2>9, start \in Int, size \in Nat \ {0}
  <2>11. m * PerMinute < w.end /\ (m + 1) * PerMinute > w.start
    <3>1. m * PerMinute < w.end
      BY ONLY <1>32, <2>6, <2>10
    <3>2. (m + 1) * PerMinute > w.start
      BY ONLY <1>33, <2>6, <2>10
    <3> QED
      BY <3>1, <3>2
  <2>12. w.type \in NodeFaults /\ w.target = config.nodes[n].id
    BY <1>5, <2>6, <2>7
  <2>13. Matches(w, n, m)
    BY <2>8, <2>11, <2>12, Zenon DEF Matches, Covers
  <2> QED
    BY <2>5, <2>6, <2>7, <2>13
<1>7. ASSUME r.slots = Slots(m), NEW w \in LabelWindows(config), Matches(w, n, m)
      PROVE  w.type \in r.labels
  <2>1. PICK i \in DOMAIN config.scenarios : w = LabelWindow(config.scenarios[i])
    BY DEF LabelWindows, Range
  <2>2. PICK s : s = config.scenarios[i]
    OBVIOUS
  <2>3. /\ w.type = s.type /\ w.start = s.at /\ w.end = s.at + s.duration
        /\ w.target = s.target /\ w.network = s.network
    BY <2>1, <2>2 DEF LabelWindow
  <2>4. /\ s.type \in NodeFaults /\ s.target = id /\ Covers(s)
        /\ start < s.at + s.duration /\ start + size > s.at
    <3>1. /\ w.type \in NodeFaults /\ w.target = config.nodes[n].id /\ Covers(w)
          /\ m * PerMinute < w.end /\ (m + 1) * PerMinute > w.start
      BY <1>7, Zenon DEF Matches, Covers
    <3>2. Covers(s)
      BY <2>3, <3>1, Zenon DEF Covers
    <3>3. start < s.at + s.duration /\ start + size > s.at
      <4>1. start < s.at + s.duration
        BY ONLY <1>32, <2>3, <3>1
      <4>2. start + size > s.at
        BY ONLY <1>33, <2>3, <3>1
      <4> QED
        BY <4>1, <4>2
    <3> QED
      BY <1>5, <2>3, <3>1, <3>2, <3>3
  <2>5. /\ s.at \in Nat /\ s.duration \in Nat \ {0} /\ config.duration \in Nat
        /\ s.at + s.duration <= config.duration
        /\ Covers(s) <=> (s.type = "isp_node_degradation" => s.network = Network)
    BY <1>1, <2>2, ScenarioTimes
  <2>6. m >= 0 /\ start \in Nat
    <3>1. m # -1
      <4>1. SUFFICES ASSUME m = -1 PROVE FALSE
        OBVIOUS
      <4>2. (m + 1) * PerMinute = 0
        BY ONLY <4>1, <1>31, size \in Nat \ {0}
      <4>3. start + size = 0
        BY ONLY <1>33, <4>2
      <4> QED
        BY ONLY <2>4, <2>5, <4>3
    <3>2. m >= 0
      BY ONLY <1>2, <3>1
    <3> QED
      BY ONLY <1>34, <3>2
  <2>7. PICK t \in start..(start + size - 1) :
           t < config.duration /\ s.at <= t /\ t < s.at + s.duration
    BY <2>4, <2>5, <2>6, Overlap
  <2>8. t \in r.slots
    BY <1>4, <1>7, <2>6, <2>7
  <2>9. Applies(s, t, id, Network)
    BY <2>4, <2>5, <2>7 DEF Applies
  <2>10. s.type \in r.labels
    BY <1>1, <1>5, <2>2, <2>8, <2>9, RowLabels
  <2> QED
    BY <2>3, <2>10
<1> QED
  BY <1>2, <1>6, <1>7

LEMMA InvWindowsWitnessed == Inv => WindowsWitnessed
<1> SUFFICES ASSUME Inv, phase = "done", NetworksDeclared, NEW n \in Nodes,
                    \A m \in 0..(Minutes - 1) :
                      \E r \in Range(table[n]) : r.minute = m /\ r.slots = Slots(m),
                    NEW w \in LabelWindows(config),
                    w.type \in NodeFaults, w.target = config.nodes[n].id, Covers(w)
             PROVE  \E r \in Range(table[n]) : w.type \in r.labels
  BY Zenon DEF WindowsWitnessed, Covers
<1>1. Checked /\ Minutes \in Int
  BY MinutesInt, Zenon DEF Inv, Ran, Checked
<1>2. PICK i \in DOMAIN config.scenarios : w = LabelWindow(config.scenarios[i])
  BY DEF LabelWindows, Range
<1>3. PICK s : s = config.scenarios[i]
  OBVIOUS
<1>4. w.type = s.type /\ w.target = s.target /\ w.network = s.network
  BY <1>2, <1>3 DEF LabelWindow
<1>5. /\ s.at \in Nat /\ s.duration \in Nat \ {0} /\ config.duration \in Nat
      /\ s.at + s.duration <= config.duration
      /\ Covers(s) <=> (s.type = "isp_node_degradation" => s.network = Network)
  BY <1>1, <1>3, ScenarioTimes
<1>6. s.at < config.duration
  BY <1>5
<1>7. PICK m \in Nat : m < Minutes /\ s.at \in Slots(m)
  BY <1>1, <1>5, <1>6, MinuteOf
<1>8. m \in 0..(Minutes - 1)
  BY <1>1, <1>7
<1>9. PICK r \in Range(table[n]) : r.minute = m /\ r.slots = Slots(m)
  BY <1>8
<1>10. r = Row(n, m)
  <2>1. PICK k \in MinuteNumbers : r = Row(n, k)
    BY RowInTable
  <2>2. r.minute = k
    BY <2>1 DEF Row
  <2> QED
    BY <1>9, <2>1, <2>2
<1>11. Applies(s, s.at, config.nodes[n].id, Network)
  <2>1. s.type \in NodeFaults /\ s.target = config.nodes[n].id /\ Covers(s)
    BY <1>4, Zenon DEF Covers
  <2>2. s.at <= s.at /\ s.at < s.at + s.duration
    BY <1>5
  <2> QED
    BY <1>5, <2>1, <2>2 DEF Applies
<1>12. s.type \in Row(n, m).labels
  <2>1. s.at \in Row(n, m).slots
    BY <1>7, <1>9, <1>10
  <2> QED
    BY <1>3, <1>11, <2>1, RowLabels
<1> QED
  BY <1>4, <1>10, <1>12

-----------------------------------------------------------------------------
(* For every configuration, valid or not, and whatever the seed draws:     *)
(* rows exist only of minutes that are over and had requests, of slots of  *)
(* theirs, and their ratios and times are in range.                        *)
THEOREM TypeCorrect == Spec => []TypeOK
BY SpecInv, InvTypeOK, PTL

(* For every configuration whose networks are declared: effects changes    *)
(* requests of a node only where labelWindows announces it, and in every   *)
(* announced window that has requests in each slot, also in a last minute  *)
(* that the run cuts short.                                                *)
THEOREM LabelsHold == Spec => []LabelsTrue
BY SpecInv, InvLabelsTrue, PTL

(* Every window a validated configuration announces falls into the run and *)
(* shows in a row, unless the node was without a request in some slot.     *)
THEOREM WindowsShow == Spec => []WindowsWitnessed
BY SpecInv, InvWindowsWitnessed, PTL

(* With a LATENCY_MULTIPLE of two at least (the default; the service does  *)
(* not check it), the combined rule accuses fewer than half of the nodes   *)
(* that it compares, however many those are and whatever they measured.    *)
THEOREM MinorityAccused ==
  ASSUME LatencyMultiple \in Int, LatencyMultiple >= 2
  PROVE  Spec => []RuleMinority
BY SpecInv, InvRuleMinority, PTL

(* No reason is given that no row shows: a latest row at 3/2 of each       *)
(* earlier one, or ten per thousand above each, is not accused of latency  *)
(* or errors, also where the past has no spread and any distance from it   *)
(* is infinitely many deviations.                                          *)
THEOREM EvidenceNeeded ==
  ASSUME LatencyMultiple \in Nat
  PROVE  Spec => []AccusedOnEvidence
<1>1. Inv => AccusedOnEvidence
  BY InvAccusedOnEvidence
<1> QED
  BY <1>1, SpecInv, PTL

(* Whatever five rows set the mean of frozenEWMA, no shift far above them  *)
(* moves it beyond the largest of the five, however long it lasts and      *)
(* however often it returns: each of its samples is taken for an outlier,  *)
(* for the spread of accepted samples is 3/2 of their range at most.       *)
THEOREM BaselineStaysFrozen == Spec => []BaselineFrozen
BY SpecInv, InvBaselineFrozen, PTL

(* A latest row that stands out from the first five is seen for what it    *)
(* is, whatever the length of the history and the other nodes.  The        *)
(* z-score asked for is not above 3, which is that of the service.         *)
THEOREM ShiftsFlagged ==
  ASSUME RobustZThreshold \in Int, RobustZThreshold <= 3
  PROVE  Spec => []ShiftFlagged
<1>1. Inv => ShiftFlagged
  BY InvShiftFlagged
<1> QED
  BY <1>1, SpecInv, PTL
=============================================================================
