---------------------------- MODULE MCDetection ----------------------------
(* The configurations of the run: the nodes and faults of                  *)
(* experiments/scenarios, on a run of ten minutes with half-minute slots;  *)
(* one run ends in the middle of a minute, as most of theirs do.           *)
EXTENDS Detection

Server(id, base) == [id |-> id, base |-> base, capacity |-> 100]

Fault(type, target, at, duration) ==
  [type |-> type, target |-> target, network |-> "", at |-> at,
   duration |-> duration, latency |-> 0, error |-> 0, miss |-> 0, rps |-> 0]

Latency(target, at, duration, ms) ==
  [Fault("node_latency_spike", target, at, duration) EXCEPT !.latency = ms]
Errors(target, at, duration, rate) ==
  [Fault("node_5xx_spike", target, at, duration) EXCEPT !.error = rate]
Degraded(target, network, at, duration) ==
  [Fault("isp_node_degradation", target, at, duration)
     EXCEPT !.network = network, !.latency = 90, !.error = 80]
Pressure(target, at, duration, ms) ==
  [Fault("capacity_pressure", target, at, duration)
     EXCEPT !.latency = ms, !.error = 40, !.rps = 95]
Shift(at, duration) ==
  [Fault("popularity_shift", "", at, duration) EXCEPT !.miss = 700]

Base(scenarios) ==
  [startParses |-> TRUE, duration |-> 20, rate |-> 15, outOfOrder |-> 5,
   duplicate |-> 20, schemaError |-> 10, buckets |-> 0, content |-> 200,
   locations |-> <<[name |-> "syd", networks |-> <<"as1", "as2">>]>>,
   nodes |-> <<Server("a", 25), Server("b", 38), Server("c", 31)>>,
   scenarios |-> scenarios]

Runnable == {
  Base(<<Latency("a", 11, 1, 120), Errors("b", 13, 3, 200)>>),
  [Base(<<Pressure("b", 12, 7, 10)>>) EXCEPT !.duration = 19],
  Base(<<Degraded("a", "as1", 12, 2), Degraded("b", "as2", 12, 2), Shift(15, 3)>>),
  Base(<<Latency("a", 8, 12, 90)>>),
  Base(<<Latency("a", 2, 4, 120), Latency("a", 14, 2, 120)>>),
  Base(<<Pressure("a", 12, 3, 75), Pressure("b", 13, 3, 75), Latency("a", 12, 2, 10)>>),
  Base(<<[Latency("a", 12, 2, 120) EXCEPT !.network = "as2"]>>),
  [Base(<<Degraded("a", "as1", 12, 3)>>) EXCEPT !.nodes = SubSeq(@, 1, 2)],
  [Base(<<Latency("a", 12, 2, 120), Errors("a", 12, 4, 100)>>) EXCEPT !.rate = 5]}

Rejected == {
  Base(<<Latency("a", 20, 2, 120)>>),
  Base(<<Latency("a", 4, 0, 120)>>),
  [Base(<<>>) EXCEPT !.rate = 0],
  [Base(<<>>) EXCEPT !.nodes = <<>>],
  [Base(<<>>) EXCEPT !.locations = <<[name |-> "syd", networks |-> <<>>]>>]}

MCConfigs == Runnable \cup Rejected

(* What a minute of a node may draw: a hundred requests or more with the    *)
(* usual share of misses, with hardly any, with other noise, in one half of *)
(* the minute only, a single miss, or nothing.                              *)
D(slot, cache, status, noise, origin, count) ==
  [slot |-> slot, cache |-> cache, status |-> status, noise |-> noise,
   origin |-> origin, count |-> count]

Half(slot, noise, misses) ==
  {D(slot, 500, 500, noise, 0, 45), D(slot, 800, 100, noise - 1, 0, 10),
   D(slot, 500, 30, noise + 2, 0, 5), D(slot, 40, 500, noise, 1, misses)}

Usual == Half(0, 0, 6) \cup Half(1, 1, 6)
Kinds == <<Usual, Half(0, 0, 1) \cup Half(1, -2, 2), Half(0, 4, 5) \cup Half(1, -3, 8),
           Half(1, 0, 6), {D(1, 40, 500, 2, -4, 1)}, {}, Usual>>

Mixed(a, b, c) == [i \in 0..32 |-> Kinds[1 + ((a * i * i + b * i + c) % 7)]]

(* A seed that repeats one draw, one with exceptions, and mixed ones. *)
MCSeeds == {[i \in 0..0 |-> Usual], [i \in 0..0 |-> Kinds[2]], [i \in 0..1 |-> Kinds[1 + 2 * i]],
            [i \in 0..12 |-> IF i = 7 THEN {} ELSE Usual],
            [i \in 0..10 |-> IF i = 7 THEN Kinds[5] ELSE Usual]}
           \cup {Mixed(a, b, 0) : a \in 0..2, b \in 1..4}
=============================================================================
