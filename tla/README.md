# TLA+ verification of StreamPulse

StreamPulse turns CDN delivery events into per-node metrics and, from these,
into *shadow* recommendations of node weights. This directory has TLA+ models
of its parts, TLC configurations that check them on small instances, and
TLAPS proofs of the main safety properties for every value of the parameters.
Paths are relative to the repository.

## 1. The system

```
event-generator --Kafka cdn.delivery.v1--> cdn-analytics (Flink)
   cdn-analytics --Kafka cdn.metrics.*.v1, cdn.dead-letter.v1--> ClickHouse
   recommendation-api --queries--> ClickHouse
   recommendation-api --Kafka cdn.recommendations.v1--> ClickHouse
```

| Component | State | Operations | What is hard | What makes it correct |
|---|---|---|---|---|
| Recommendation evaluation (`services/recommendation-api/internal/app`, `httpapi`, `publisher`, `cmd/server`) | `Service.lastGenerated`, the requests in progress, messages the Kafka writer still tries to send | `POST /evaluate` | requests race between check and act; lost and late answers; the process restarts and forgets its timer | dwell between recommendations; fresh evidence; IDs that do not come back later; every request answered |
| Recommendation store (`internal/repository/clickhouse.go`, `infra/clickhouse/init/003_recommendation_audit.sql`) | stored recommendations, metric history | ingest, `History`, `LatestRecommendation` | ingestion lags, messages appended twice or late, another clock, truncated timestamps | what is stored keeps its dwell over restarts |
| Acknowledgements and outcomes (`app`, `httpapi`, `clickhouse.go`, `003_recommendation_audit.sql`) | posts in progress, INSERTs on their way, rows | `POST .../ack`, `POST .../outcome` | an INSERT that was given up is executed later; clients retry; the process stops in between | what was answered is durable; the last word stands; every post answered |
| Weight scorer (`internal/scoring`) | locals of `Propose` | `Propose` | zero and missing weights, several nodes over the limit, map iteration order | weights sum to one, bounded step |
| Anomaly detector (`internal/detection`) | none | `Evaluate` | history without spread, a fault that becomes part of the history, rows of different minutes | no accusation without a row that shows it; what stands out is seen for as long as it lasts |
| Generator configuration (`services/event-generator/internal/config`, `effects` and `labelWindows` of `scenario`) | none | `Validate`, `effects`, `labelWindows` | overlapping, partial and network-bound faults | announced windows are what was injected |
| Event generator (`services/event-generator`) | position in the run, buffered batch, manifest | `Run`, `Kafka.Write`, `Close` | a flush that fails after it was partly appended, a signal at any time | nothing lost, order per key, a manifest that is true |
| Analytics job (`jobs/cdn-analytics`) | offsets, seen ids, watermark, window aggregates, revisions, timers, checkpoints | per record, periodic watermark, checkpoint, restart | replay, lateness boundaries, state that is not checkpointed, unordered output | nothing lost or counted twice; late events audited |
| Metric tables (`infra/clickhouse/init/001_schema.sql`) | one visible row per window | consume the metric topics | revisions out of order | the latest revision is visible |
| Detector evaluation (`scripts/evaluate_detectors.py`) | none | `ground_truth` | windows against minutes | the truth it scores against is true |
| Dashboards, schemas, the upstream Flink playgrounds | – | – | – | not modelled, section 8 |

The components meet at the Kafka topics and at ClickHouse. The service reads
`node_metrics_1m`, which the job fills, and reads back its own recommendations
through the topic; no component calls another one directly.

## 2. Modules

| Module | Models | Proofs |
|---|---|---|
| `RecommendationService` | `Service.Evaluate` under concurrent handlers, ClickHouse and Kafka around it, restarts | `RecommendationServiceProofs` |
| `DwellLimiter` | abstract: which creation times reach the topic, and which reports close it | refined by `RecommendationService`, proved there |
| `Scorer` | `Scorer.Propose` with exact fractions | `ScorerProofs` |
| `Scenario` | `Config.Validate`, `Generator.effects`, `labelWindows` | `DetectionProofs` |
| `Detector` | `Detector.Evaluate` with exact fractions | `DetectionProofs` |
| `Detection` | composition: scenario, drawn requests, rows of `node_metrics_1m`, the detector's verdict at any moment | `DetectionProofs` |
| `Audit` | `Acknowledge` and `RecordOutcome`, their handlers, INSERTs and tables | `AuditProofs` |
| `EventGenerator` | `Generator.Run`, the Kafka sink, `main` | `EventGeneratorProofs` |
| `AnalyticsJob` | the Flink job, its sinks and checkpoints, the metric tables | `AnalyticsJobProofs`, `AnalyticsJobRunProofs` |
| `DataTheorems` | no code: induction over sets, sums, largest and smallest elements | used by `ScorerProofs` and `DetectionProofs` |

`MC*` modules give the constants of a run. Definitions that a comment marks
*fault* are variants of an operation with a plausible error. No next-state
relation uses them; each one, put in the place of the correct definition,
must make TLC report the property it is paired with, which shows that the
property depends on the code. `PROJECT.json` maps every definition to its
lines of code.

### RecommendationService

`eval[h]` is a handler goroutine: the stage of `Evaluate` it is in and its
locals (`history`, `now`, `latest`, the deadline of its five-second context).
A step is one access to state that somebody else can change: the execution of
a query inside ClickHouse (`HistoryQuery`, `LatestQuery`), the arrival of its
answer (`NothingToDo`, `AnomalyFound`, `StoredDwellActive`, ...), a critical
section of `Service.mu` (`CheckTimer`, `RecordGeneration`), an append by the
broker (`BrokerAppend`). Early returns of `Evaluate` are actions of their own.

* A call that fails or whose context expires is `QueryFails` or
  `PublishFails`; either may happen at any time, a message given up may still
  be appended or be lost, and a retried one appended `MaxCopies` times.
* ClickHouse stores the topic in order, at any distance (`Store`); its clock
  differs by `StorageSkew`; `created_at` loses what is below `Precision`
  (`DateTime64(3)`).
* `Restart` kills the handlers and forgets `lastGenerated`: `main` returns when
  `ListenAndServe` does and does not wait for `Shutdown`, so a termination
  signal ends requests in progress too.
* `Tick` waits for handlers that have only local work left, so local work takes
  no time; every answer that counts as a success comes before the deadline.
* The detector's verdict and the benefit margin are free choices. A request
  that does not parse or validate has no effect and is left out.
* `SameID` is `recommendationID`: a hash of the scope, the latest window end of
  the evidence and the configuration, which a process does not change.
* Ghosts: `no` numbers messages, `epoch` processes, `generated` collects what
  was answered with `generated=true`, `recovered` is what was stored when the
  process started.

`DwellLimiter` is what this promises, without handlers, clocks or databases. It
grants a creation time when the message is handed to the Kafka writer and
confirms it when the request is answered with `generated=true`; a message that
is answered with 503, or whose process stops, is granted and may be appended
all the same. A confirmed time bars every other grant, confirmed or not, from
the dwell after it, less `Slack`, the request timeout that overlapping requests
may cost. `StartAfresh` forgets the confirmations; what storage held by then
bars instead, up to `Precision`. `ImplementsLimiter` maps `granted` to what the
current process handed over (in flight or in the log), `confirmed` to what it
reported, and `barred` to what was stored at its start. `DwellGap` is about
reports only; the refinement adds the unreported messages and the restart.

### Scorer

One evaluation of `Propose` for every combination of node qualities, requested
weights and scores. A normalised weight is an integer numerator over a common
denominator, so sums and steps are exact; rounding of floats is left out. The
score of a node (`1 / (0.05 + penalty)` in the code) is any number in
`1..MaxScore`. `Limit(n)` is one turn of the loop over the map `target`, for
any node not visited yet, because Go's order is not fixed.

### EventGenerator

A lane is a topic and a key, which `kafka.Hash` sends to one partition.
`NextRequest` produces the records of a request (their values are free);
`EmitBuffered`, `EmitFlushed` and `EmitFailed` are `emit` and `Kafka.Write`. A
request whose records cannot be encoded ends the run with an error
(`RequestFails`). A batch that is acknowledged was appended one to
`MaxAttempts` times, one that is not, none to `MaxAttempts` times in each lane:
kafka-go retries whole batches per partition, and its partition writer is
serial, so a late append of an old attempt is the same as an earlier one.
`Signal` may come at any time. `Exit` stands for the two checks and the write
of the manifest.

### Scenario, Detector and Detection

`Scenario` and `Detector` have no state. A configuration is a record with the
fields that `Validate` looks at; `Effects` is the loop over the scenarios, in
which latencies add up, the largest rate counts and the last pressure wins;
`LabelWindows` is what the manifest announces. In `Detector` a median is kept
as its double and means and z-scores as fractions, with infinity as 1 over 0,
so every comparison of `Evaluate` is exact. Samples are whole milliseconds and
thousandths, so the code's `1e-9` is zero.

`Detection` joins them. `Load` or `Reject` stands for `config.Load`; then the
minutes of the nodes end one by one, in any order within a minute
(`RowArrives`), or without a request for the scope (`NoTraffic`), and `Verdict`
is what an evaluation would see in that state. A last minute that the
configured duration cuts short has a row as well (`Minutes` rounds up, `Slots`
stops at the duration), and so has the minute before the start when
out-of-order jitter reaches it: minutes count from -1.

What `generateRequest` draws for a request is not tied to the rates. A seed
says for every node and minute which requests there are, per group of equal
draws: the slot of the event time, the two uniform numbers that are compared
with the miss and the error rate, and the noise of the node and of the origin
(any integers). Which of them hit, fail, and how long they take follows from
`Effects` as in `generator.go`; a row is then computed from these requests as
the job computes it: nearest-rank percentile, and rates in parts per thousand,
rounded down (the tables have them as floats: differences below a part per
thousand are left out). So a row may have one request only, a percentile of hit times,
more misses or fewer errors than any rate suggests, and a slot without any
request. How the job gets from events to a row is `AnalyticsJob`'s subject.

Since a draw can hide any fault from a row and make any quiet row look like
one, no property says that a fault is accused and a quiet node is not. The
properties of the detector are about what the rows show: `AccusedOnEvidence`
(each reason rests on earlier rows, or on a peer, that show it), `ShiftFlagged`
(what stands out from the first five rows is flagged by its reason) and
`BaselineFrozen`. `Slots` and `labels` of a row are what the ground truth of the
manifest is compared with; they are no columns.

### Audit

A post is an acknowledgement or an outcome; its `client` is whoever sends it (an
acknowledgement names it as its actor, an outcome names nobody). `Insert` is
the service up to the request to ClickHouse, with the stamp that `observed_at`
gets when the body has none. `Execute` is ClickHouse, at any later time or never: an
answer of 503 (`AnswerUnavailable`: an error, the client timeout of three
seconds, a cancelled context) does not recall an INSERT, and a stop of the
process (`Restart`) does not either. `Expire` is the TTL of the two tables.
Clients may stop waiting (`Abandon`) and send the same body again (`Retry`); a
client has at most one post that it waits for. Attempts leave one row each:
`stored_at` tells them apart and a plain MergeTree keeps them all. The
in-memory store of `repository/audit.go` is not used by the program.

### AnalyticsJob

With the default parallelism of 1 the operators are joined by FIFO channels and
barriers are aligned, so a record goes through the whole pipeline in the one
step `Process`; partial progress before a failure shows as sink output that is
lost. The backlog of the topic is chosen in `Init`. An aggregate is
how often it counts each event: ratios and percentiles are functions of that.

* `Accept` adds an event to each of its windows that has not expired, fires
  those that are due and sets a timer for the rest; only the node branch
  audits a late event (`sideOutputLateData`).
* The watermark is assigned after the deduplicator: there is one, not one per
  partition, and neither it nor `maxTime` is part of a checkpoint.
* The contents of an expired window go; its revision stays in the state of the
  window function, which overrides no `clear()`, and is checkpointed, so a
  window that a restart opens again continues its revisions.
* `Forget` ends the 25-hour time-to-live of a seen id, at any time, because it
  runs in processing time and the watermark does not. `early` collects the ids
  that were forgotten while a window of theirs was alive: `CountedOnce` holds of
  all others, which is what the code gives, and a duplicate of an early id is
  counted twice.
* `Checkpoint` completes when the `AT_LEAST_ONCE` sinks are flushed. `Restart`
  restores it; of the unflushed output any part may have arrived.
* The metric topics have three partitions and the sink sets no record key, so
  ClickHouse reads rows in any order, also repeatedly; `Ingest` is
  `ReplacingMergeTree(revision)` as seen by a reader that uses `FINAL`.

## 3. Runs

| Run | Checks | Shows |
|---|---|---|
| `service_dwell` | `DwellGap`, `TimerBacked`, `ImplementsLimiter` | two handlers, storage that never catches up: what one process reports for a scope is a race within one request timeout or a dwell (less a request timeout, the price of `recordGeneration` overwriting backwards) apart; the timer only shows what was reported, and that is in the log; whatever is handed to the topic, answered with 503 or not at all, keeps the dwell from what was reported |
| `service_restart` | `TypeOK`, `RestartDwell`, `EvidenceFresh`, `IdentityBounded`, `ImplementsLimiter`, `EveryRequestAnswered`, `GeneratedBecomesStored` | over a restart, with messages that are appended twice and rows that arrive, age and are from the future: the dwell is kept from all that was stored before, up to the precision of `created_at`; every message rests on two nodes fresh at its creation time; an ID comes back only while its window is fresh; requests end and reported recommendations reach ClickHouse; the limiter starts afresh only with a restart |
| `service_doc_dwell` | `MinimumDwellObserved` (violated) | two racing evaluations publish within the dwell, against the README of the service |
| `service_doc_unavailable` | `UnavailableNeverPublishes` (violated) | a request is answered 503 and its message is in the topic, against the same README |
| `scorer` | `TypeOK`, `ProposedWhole`, `StepBounded`, `StepTight` | a proposal sums to one, no node moves more than the step, and none is damped further than needed, in every iteration order |
| `scorer_doc_nodes` | `SameNodes` (violated) | `current` lacks an eligible node whose requested weight is zero or missing, against `contracts/compatibility.md` |
| `detection` | `TypeOK`, `BaselineFrozen`, `ShiftFlagged`, `AccusedOnEvidence`, `RuleMinority`, `LabelsTrue`, `WindowsWitnessed` | nine configurations with faults of every type (short, long, returning, partial, overlapping, on another network, on one of two nodes, ending in the middle of a minute) and five that `Validate` refuses, under seventeen seeds with usual, rare, single and no requests and misses: whatever the first rows measured, later shifts do not move the baseline, what stands out is flagged and nothing is accused that no row shows; the combined rule never accuses half of the nodes; the manifest's windows match what was injected |
| `audit` | `TypeOK`, `AcknowledgedDurable`, `LatestStands`, `PostAnswered` | timeouts, abandoned and repeated posts, late INSERTs and a restart: a 204 is in the table until its TTL, rows stamped by the service show a client's posts in order, no handler waits for ever |
| `generator` | `TypeOK`, `BufferBounded`, `CloseDelivers`, `LaneOrder`, `ManifestTrue`, `RunEnds` | failed, repeated and partial flushes, a request that cannot be encoded and a signal: one batch at most is buffered, a successful `Close` has delivered everything, no record overtakes another of its key, a manifest on disk is true, the process ends |
| `job_restart` | `TypeOK`, `CountedOnce`, `NothingLost`, `LateOnlyBeyond`, `AuditedOrCounted`, `RevisionIdentifies`, `VisibleGrows` | two partitions with duplicates and an invalid event, a failure anywhere: nothing is counted twice or lost, everything consumed is audited or counted, lateness is decided at the right millisecond; until the first restart revisions identify aggregates and the visible row only grows |
| `job_liveness` | `EventuallyCounted`, `CountedOnce` | a minute that is being closed is emitted and becomes visible, unless a restart loses the watermark; ids are forgotten in this run, one of them while a window of its event is alive, and the others are still counted once |
| `job_doc_late` | `TooLateExcluded` (violated) | after a restart an event that was audited as TOO_LATE is counted, against `docs/event-semantics.md` |

The restrictions in `RevisionIdentifies`, `VisibleGrows` and the *never both* of
`AuditedOrCounted` to the time before the first restart are what the code gives;
that a consumed event is audited or counted holds over restarts, too. After a restart
the watermark starts again from nothing, so closed minutes accept events, and
the revision is that of the checkpoint, so a revision number that is already in
the topic is used again with another aggregate.

### Bounds

Named bounds are constants: `MaxTime`, `MaxRecs`, `MaxCopies`, `MaxLog`, `MaxStored`,
`MaxEpoch`; `MaxWeight`, `MaxScore`; `Total`, `MaxAttempts`; `MaxRecords`,
`MaxRestarts`, `MaxEarly`; `MaxPosts`.

* Service: the dwell property is about pairs of recommendations, and two
  handlers make every race of two; three recommendations let a timer that was
  overwritten backwards be used by a third one. `MaxTime` passes the dwell.
  `MaxStored = 0` in `service_dwell` is storage that lags forever, the worst
  case for the in-memory timer. `MaxCopies = 2` in `service_restart` lets the
  writer's retry append a message twice (the log holds three, `MaxLog`), also
  when its answer was a 503. Nodes and handlers are interchangeable and
  used as symmetry sets in the runs of safety properties.
* Scorer: three nodes, so that two may exceed the step in opposite orders and
  an ineligible one may hold weight; weights to 3 and scores to 4 with a
  step of 1/5 give gaps below, at and above the step.
* Detection: ten minutes pass the minimum history of five rows and leave room
  for a fault of three minutes and for the quiet minute after it; a history of
  eight rows drops the first ones again. A slot is half a minute, so a fault
  may cover part of a row. Two or three nodes give an even and an odd median.
  A seed has a period over nodes and minutes: one kind of minute throughout (a
  history without any spread), two that alternate, single exceptions, and
  mixtures of seven kinds: usual, hardly any misses (the percentile is
  a hit time, some 35 ms lower), more noise, one slot only, a single missing request, and
  none, which lets rows of different minutes meet. Reached are a quiet row of
  one request that is accused of `MISS` and an announced window without a
  request.
  Thresholds are the defaults of `cmd/server/main.go`.
* Audit: the properties relate two posts of one client, and a third one can be
  the retry between them; the clock passes the timeout and the TTL.
* Generator: two requests over two keys give up to eight records in six lanes,
  so batches of three split a request; two attempts repeat a batch.
* Job: a tick is the minute, the lateness and the out-of-orderness bound, so
  that every boundary is one tick away; times of the events are on both sides
  of each one; two records per partition, one of them perhaps a duplicate, and
  one restart from any checkpoint. `MaxEarly` is zero in `job_restart`, where
  an id may be forgotten once its windows have expired, and one in
  `job_liveness`, with an event and its duplicate on both sides of the expiry.

`CHECK_DEADLOCK FALSE` is set where the system ends: one evaluation of
`Propose`, the generator process, the finite backlog of the job; the service
runs stop at the bounds of the clock and of the number of messages, as does
`audit`; a run of `detection` ends with the configured duration.

### Fairness

* Service: weak fairness of each handler's `Progress`, because the context of
  the handler bounds every call, and of `Store`, because the Kafka table of
  ClickHouse keeps polling. Nothing is assumed of the broker, the clock, new
  requests or restarts.
* Audit: weak fairness of each handler (`Handle`). It always has a step: the
  client timeout ends the wait for ClickHouse. ClickHouse and the clients owe
  nothing.
* Generator: weak fairness of the process's own steps; kafka-go bounds attempts
  and time, and `Close` flushes under a thirty-second context.
* Job: weak fairness of the source, the periodic watermark, the producers and
  ClickHouse's reading of rows that are newer. Checkpoints owe nothing.

## 4. Proofs

All proofs hold for every value of the constants that the `ASSUME`s allow: any
number of handlers, scopes, nodes, events, partitions, restarts.

**RecommendationServiceProofs.** `TypeCorrect`, `TimerBackedHolds`,
`EvidenceFreshHolds`, `DwellGapHolds`, `RestartDwellHolds`,
`IdentityBoundedHolds`, `LimiterImplemented`.
* `DwellInv` strengthens `DwellGap`, which alone is not inductive: a handler
  that has passed its check is not in `generated` yet. `HandlerTimes` puts the
  `now` of each handler within one timeout of the clock, `TimerLag` says by how
  much the timer may trail what was reported, `ClearedApart` says that a
  handler past the check is already apart from everything reported.
* `LogInv` adds that messages in flight have fresh evidence and that a handler
  about to record has its message in the topic.
* `RestartInv` adds that no process is from the future, that what was recovered
  is older than everything this process makes, that the latest stored time
  read by a handler covers what was recovered, and that messages in flight
  already keep the distance.

* `IdentityBoundedHolds` follows from `EvidenceFresh`: two messages under one ID
  have the same latest window end, and each is fresh against it.
* `LimiterImplemented` is the refinement `Spec => Limiter!Spec`, by an invariant
  that joins the three above. `SendPublish` grants (`SendGrants`: `ClearedApart`
  keeps the new time from what is confirmed, `LatestCovers` from what is
  barred), `RecordGeneration` confirms (`RecordConfirms`: whatever was
  handed over by then was created by then, `HandedPast`, and the handler is
  within a timeout of its own creation time), `Restart`
  starts afresh (`RestartStartsAfresh`); a broker's append, a second one
  included, moves a message from one half of `Handed` to the other.

**AuditProofs.** `AuditTypeCorrect`, `AcknowledgedDurableHolds`,
`LatestStandsHolds`. `AuditInv` says that the earlier
posts of a client that waits are answered (`OneByOne`), that an INSERT exists
from the stamp on and was executed before the 204 (`InsertStages`), that an
executed one has its row until the TTL (`RowsKept`), that a stamp is the body's
time or no later than now (`StampsTrue`), and that stamps are in the order of
the posts whether or not they have rows yet (`StampsOrdered`): `LatestStands`
alone is not inductive, because a late INSERT brings in an old stamp.

**EventGeneratorProofs.** `GeneratorTypeCorrect`, `BufferBoundedHolds`,
`CloseDeliversHolds`, `LaneOrderHolds`, `ManifestTrueHolds`.
* `DeliveryInv`: every emitted record is in the buffer or in its lane of the
  topic (`Conserved`), and after a successful close the buffer is empty
  (`ClosedEmpty`).
* `OrderInv`: also within the buffer, what was emitted earlier for a lane is in
  the log or in front (`OrderedIn`), because a batch is sent as it stands and
  from its first record; records that have left the loop are in their own lane
  and follow nothing that is pending (`LeftAll`), and the records of one
  request are in order (`PendingOrdered`). `Conserved` says where the earlier
  records are when a new one joins the batch.
* `ManifestInv` adds to `DeliveryInv` that no record is emitted twice (`Fresh`),
  so that the counters are cardinalities (`CountsTrue`); that a request has one
  routing record, its first (`RoutingFirst`, `RoutingCounted`); that nothing is
  sent uncounted until a flush fails (`OnlyEmitted`: the record whose `emit`
  failed is in the batch and in no counter); and that `main` writes only after
  a complete run and a close without error (`Complete`, `WrittenOnce`).

**ScorerProofs.** `TypeCorrect`, `Whole`, `Bounded`, `Tight`, for any finite set
of nodes, any weights and scores and any maximum step.
* `Inv` describes the locals of `Propose` at each point: the sums it divides by
  are positive, `lambda` is a positive fraction of at most one, and the nodes
  visited so far have gaps that `lambda` fits into the step. It names no order
  of visits, so it holds for every order in which Go ranges over the map.
* `Whole` is algebra on sums over a set: a step by a common fraction from one
  share of the whole to another leaves the whole. `Bounded` and `Tight` are
  what the last visit leaves of the invariant.

**DetectionProofs.** `TypeCorrect`, `LabelsHold`, `WindowsShow`,
`MinorityAccused`, `EvidenceNeeded`, `BaselineStaysFrozen`, `ShiftsFlagged`, for
any configurations, networks, nodes and seeds: nothing is assumed of what is
drawn, and so nothing of what a row measures.
* `Inv`: the rows of a node are the rows of its minutes that are over and had a
  request, of a configuration that was accepted. `RowTypes` gives their ranges
  and `RowLabels` their faults.
* `LabelsHold` compares two ways to say when a fault meets a minute: `effects`
  looks at the requests of the minute, `labelWindows` and `fault_matches` at
  intervals (`Overlap`). `WindowsShow` needs `Validate` for a start within the
  run (`ScenarioTimes`) and a minute for every slot (`MinuteOf`).
* `MinorityAccused`: fewer than half of any values are above twice their median
  (`MedianSplits`). It assumes `LATENCY_MULTIPLE` to be two at least;
  `cmd/server/main.go:36` has 2.0 as its default and checks nothing, and below
  two the rule may accuse one of two nodes.
* `EvidenceNeeded`: a mean is no less than its least sample (`MeanAtLeast`, by
  induction over the samples), so a sample at half as much again as the mean is
  so against that one; what a median exceeds, half of the samples exceed
  (`MissShows`), and what exceeds a multiple of a median exceeds it of a sample
  (`RuleShows`, for a natural `LATENCY_MULTIPLE`).
* `BaselineStaysFrozen`: of samples in a range of width w the doubled median
  deviation is 3w at most, because the half of them on the nearer side of the
  median is within w of it (`SpreadAtMost`); so a sample more than 6w above the
  least one has a z-score above four (`Rejects`). `Frozen`, an invariant of the
  recursion over the samples, says that only samples of the first five's range
  are accepted and that five of them are there before the first one beyond it
  (`MeanFrozen`). This is why `FarAbove` asks for five widths beyond the range;
  with less, a fault may move the mean, and with no spread any distance is
  enough.
* `ShiftsFlagged` uses the same facts for the past of a node and, for the z-score
  of the latest row, that a median of samples most of which are in a range is
  in that range (`MedianWithin`), so the spread is small even with shifted
  rows in the history (`StandsOut`). It assumes a z-score threshold of at most
  three, the default.

**DataTheorems.** The induction principles of the library take a predicate, which
the provers cannot instantiate. Here induction is over a set instead: a set of
numbers that contains 0 and the successors of its elements contains all
(`NatSteps`, from the well-foundedness of `<`), and the same for the subsets of
a finite set (`SubsetSteps`, `ElementSteps`). With it the recursion behind
`MapThenSumSet` is shown to have a solution and sums obey their laws
(`SumTake`, `SumAdd`, `SumScale`, `SumBetween`, ...).

**AnalyticsJobProofs.** `JobTypeCorrect`, `CountedOnceHolds`,
`LateOnlyBeyondHolds`, `NothingLostHolds`.
* `OnceInv`: a window that holds an event is the event's own, has not expired
  and, unless the id is in `early`, has it among the seen ones; the same of a
  checkpoint, where a restart takes both from. A restart takes the watermark
  back too, and with it windows that had expired: those hold what the
  checkpoint held, whose ids it had seen.
* `LateInv`: the watermark is behind the largest consumed event time, and that
  is the time of a record before the source's position (`OffsetsWithin`).
* `KeptInv`: an event in a window has a pending timer or is in an emitted row,
  so clearing a window loses nothing (`LiveBacked`); every consumed record and
  every seen id is audited, in a row or in a window (`LiveKept`); and the same
  of a checkpoint with the acknowledged output alone (`SavedBacked`,
  `SavedKept`).

**AnalyticsJobRunProofs.** `RevisionIdentifiesHolds`, `VisibleGrowsHolds`,
`AuditedOrCountedHolds`.
* `RunInv`, before the first restart: pending timers are ahead of the watermark
  (`TimersAhead`), rows are behind it, none is newer than the revision of its
  window and, until the window expires, none counts what the window does not
  (`RowsBehind`); so a fired window gets a revision above its rows and an
  aggregate that contains theirs, and an expired one never fires again. Then
  of two rows of a window the later revision
  counts what the earlier one counts (`RowsOrdered`), and a table row is one of
  them (`ShownRow`). A restart breaks `TimersAhead` and `RowsBehind`: it takes
  the watermark back and not the rows.
* That a consumed event is audited or counted is `LiveKept` of `KeptInv`, over
  any restarts. For *never both*, `AuditInv`: whatever mentions an event comes
  from a consumed record (`TracesConsumed`), so a record that is once in the
  topic is accepted without a trace before it, and that step audits it or
  counts it (`LateUncounted`).

## 5. Only model-checked

Liveness and fairness (`EveryRequestAnswered`, `GeneratedBecomesStored`,
`RunEnds`, `EventuallyCounted`, `PostAnswered`) are beyond the prover. Every
safety and action property of the passing runs is stated by a theorem of
section 4, some under assumptions that are named there.

## 6. Where code and documentation differ

1. `services/recommendation-api/README.md:42`: recommendations observe a
   minimum dwell. Two concurrent requests pass both checks before either
   records (`service_doc_dwell`).
2. The same file, lines 38-39: dependency failures never publish. A publish
   whose answer is lost or late has been appended (`service_doc_unavailable`).
3. `docs/event-semantics.md:13-15`: TOO_LATE events do not change the
   aggregate. After a restart they may (`job_doc_late`).
4. `contracts/compatibility.md:24`: `current` and `proposed` have the same node
   IDs. They have not when the request leaves out an eligible node
   (`scorer_doc_nodes`).

Three more differences are no violation of a property here:

* `contracts/data-dictionary.md:76` calls `recommendation_id` a unique
  identifier. Evaluations of one evidence window share it; `IdentityBounded`
  says for how long.
* `LabelsTrue` and `WindowsWitnessed` assume `NetworksDeclared`: a network on a
  scenario that is no ISP degradation is announced and ignored by `effects`,
  and `Validate` does not ask. The configurations in `experiments/scenarios`
  comply.
* `scripts/evaluate_detectors.py` compares nodes of the same minute; the service
  compares the latest row of each.

## 7. Plan

Done: the modules of section 2, their runs and the proofs of section 4. Next:

1. An exactly-once counter of minutes that `AnalyticsJob` implements up to the
   first restart.
2. A composition of `AnalyticsJob`'s visible rows with the evidence that
   `RecommendationService` reads: a revised row during an evaluation.

## 8. Not modelled

* Severities, the scorer's penalties, `confidence`, expected deltas and the
  aggregates that neither the detector nor the scorer's guardrails read.
* The read-only endpoints (`/healthz`, `/readyz`, metrics and latest), which
  change nothing, and the health check command.
* The JSON lines sink of the generator, the distributions of its random draws
  (which values are drawn is free) and YAML decoding. How likely it is that a
  fault is seen or a quiet node accused is a question of statistics, which
  `experiments/` and `scripts/evaluate_detectors.py` treat.
* The job at a parallelism above 1, a submission without a checkpoint, and
  deletion of records by retention.
* Raw tables and rollups in ClickHouse and the TTLs of all but the audit
  tables, dashboards, schemas, the offline detectors in `scripts/`, and the
  Flink playgrounds that the repository keeps from upstream.
