----------------------- MODULE RecommendationService -----------------------
(***************************************************************************)
(* The evaluation use case of services/recommendation-api: concurrent HTTP *)
(* handlers run Service.Evaluate against ClickHouse (metric history and    *)
(* stored recommendations) and publish to a Kafka topic that ClickHouse    *)
(* consumes.  The in-memory dwell timer is Service.lastGenerated.          *)
(*                                                                         *)
(* A step is one access to state shared with somebody else: the execution  *)
(* of a query inside ClickHouse, the arrival of its answer, a critical     *)
(* section of Service.mu, an append by the broker.  What Evaluate computes *)
(* between two such accesses belongs to the step that follows.             *)
(*                                                                         *)
(* The detector's verdict and the benefit margin are free choices here;    *)
(* the module Scorer treats the weights.                                   *)
(***************************************************************************)
EXTENDS Integers, Sequences, FiniteSets

CONSTANTS Handlers,         \* goroutines serving POST /evaluate
          Scopes,           \* (location, network) pairs that pass validateScope
          Nodes,            \* edge nodes
          WindowEnds,       \* ends of the one-minute windows
          SeedRows,         \* what the table may hold when the service starts
          RowQualities,     \* what an arriving row may look like to the scorer
          MinimumDwell, RequestTimeout, StaleAfter, FutureTolerance,
          QueryAhead,       \* "+ INTERVAL 5 SECOND" of the history query
          StorageSkew,      \* ClickHouse's clock minus the service's clock
          Precision,        \* created_at is stored as DateTime64(3)
          MaxTime, MaxRecs, MaxCopies, MaxLog, MaxStored, MaxEpoch   \* bounds

ASSUME ParametersAssumption ==
  /\ Scopes # {}
  /\ WindowEnds \subseteq Nat
  /\ SeedRows \subseteq {"none", "unfit", "fit"}
  /\ RowQualities \subseteq {"unfit", "fit"}
  /\ MinimumDwell \in Nat
  /\ RequestTimeout \in Nat
  /\ StaleAfter \in Nat
  /\ FutureTolerance \in Nat
  /\ QueryAhead \in Nat
  /\ StorageSkew \in Int
  /\ Precision \in Nat \ {0}

ASSUME BoundsAssumption ==
  /\ MaxTime \in Nat /\ MaxRecs \in Nat /\ MaxCopies \in Nat
  /\ MaxLog \in Nat /\ MaxStored \in Nat /\ MaxEpoch \in Nat

VARIABLES clock,          \* the service's clock
          epoch,          \* incarnation of the service process
          eval,           \* handler -> its evaluation in progress
          lastGenerated,  \* Service.lastGenerated: scope -> time or NoTime
          metrics,        \* node_metrics_1m: scope -> node -> window end -> row
          sent,           \* how many recommendations were handed to the writer
          inflight,       \* messages the Kafka writer still tries to deliver
          topic,          \* cdn.recommendations.v1: scope -> log
          offset,         \* scope -> prefix of the log ClickHouse has stored
          generated,      \* recommendations answered with generated=true
          recovered       \* offset when the current process started

vars == <<clock, epoch, eval, lastGenerated, metrics, sent, inflight, topic,
          offset, generated, recovered>>

(* What a step of one handler that only changes its locals leaves alone *)
others == <<clock, epoch, lastGenerated, metrics, sent, inflight, topic,
            offset, generated, recovered>>

-----------------------------------------------------------------------------
(* Data *)

NoTime == -1

NoRow == [end |-> NoTime, fit |-> FALSE]

Row == [end : WindowEnds, fit : BOOLEAN] \cup {NoRow}

Recommendation ==
  [no       : Nat,      \* distinguishes messages with equal content
   scope    : Scopes,
   created  : Nat,
   evidence : UNION {[S -> WindowEnds] : S \in SUBSET Nodes},
   epoch    : Nat]

Stages == {"idle", "history", "historyRead", "dwell", "latest", "latestRead",
           "publish", "record"}

Evaluation == [pc : Stages, scope : Scopes, deadline : Nat,
               history : [Nodes -> Row], now : Nat,
               latest : Nat \cup {NoTime}, no : Nat]

Idle == [pc |-> "idle", scope |-> CHOOSE s \in Scopes : TRUE, deadline |-> 0,
         history |-> [n \in Nodes |-> NoRow], now |-> 0, latest |-> NoTime,
         no |-> 0]

(* A recommendation message as it stands in a scope's log. *)
InTopic(r) == \E i \in 1..Len(topic[r.scope]) : topic[r.scope][i] = r

Copies(r) == Cardinality({i \in 1..Len(topic[r.scope]) : topic[r.scope][i] = r})

(* parseDateTime64BestEffort(..., 3) drops what is below a millisecond. *)
StoredTime(t) == t - (t % Precision)

StoredTimes(s) == {StoredTime(topic[s][i].created) : i \in 1..offset[s]}

-----------------------------------------------------------------------------
(* The scorer's view of a history *)

IsFuture(row, now) == row.end > now + FutureTolerance
IsStale(row, now)  == now - row.end > StaleAfter

(* Fault: Propose without the future check. *)
EligibleIgnoringFuture(history, now) ==
  {n \in Nodes : /\ history[n] # NoRow
                 /\ ~ IsStale(history[n], now)
                 /\ history[n].fit}

(* The nodes that survive the guardrails of Propose. *)
Eligible(history, now) ==
  {n \in Nodes : /\ history[n] # NoRow
                 /\ ~ IsFuture(history[n], now)
                 /\ ~ IsStale(history[n], now)
                 /\ history[n].fit}

EnoughCandidates(e) == \E m, n \in Eligible(e.history, e.now) : m # n

Evidence(history, now) == [n \in Eligible(history, now) |-> history[n].end]

Draft(e) == [no |-> e.no, scope |-> e.scope, created |-> e.now,
             evidence |-> Evidence(e.history, e.now), epoch |-> epoch]

(* Fault: the operands of now.Sub(last) are swapped. *)
DwellOverSwapped(now, last) == last # NoTime => last - now <= MinimumDwell

(* An elapsed time that keeps the dwell from `last`, absent or not. *)
DwellOver(now, last) == last # NoTime => now - last >= MinimumDwell

-----------------------------------------------------------------------------
Init ==
  /\ clock = 0
  /\ epoch = 0
  /\ eval = [h \in Handlers |-> Idle]
  /\ lastGenerated = [s \in Scopes |-> NoTime]
  /\ metrics \in [Scopes -> [Nodes -> [WindowEnds -> SeedRows]]]
  /\ sent = 0
  /\ inflight = {}
  /\ topic = [s \in Scopes |-> <<>>]
  /\ offset = [s \in Scopes |-> 0]
  /\ generated = {}
  /\ recovered = [s \in Scopes |-> 0]

(* The handler returns: whatever the answer, its locals are gone. *)
Return(h) == eval' = [eval EXCEPT ![h] = Idle]

(* The answer of an external call counts only while the context lives. *)
InTime(h) == clock <= eval[h].deadline

-----------------------------------------------------------------------------
(* Evaluate, up to the first query *)

StartEvaluate(h, s) ==
  /\ eval[h].pc = "idle"
  /\ eval' = [eval EXCEPT ![h] =
                [Idle EXCEPT !.pc = "history", !.scope = s,
                             !.deadline = clock + RequestTimeout]]
  /\ UNCHANGED others

(* Window ends the history query returns for a node. *)
VisibleEnds(s, n) == {w \in WindowEnds : /\ metrics[s][n][w] # "none"
                                         /\ w <= clock + StorageSkew + QueryAhead}

(* The newest visible row of every node, as latestByNode keeps it. *)
IsLatestByNode(view, s) ==
  \A n \in Nodes :
    IF VisibleEnds(s, n) = {} THEN view[n] = NoRow
    ELSE /\ view[n].end \in VisibleEnds(s, n)
         /\ \A w \in VisibleEnds(s, n) : w <= view[n].end
         /\ view[n].fit = (metrics[s][n][view[n].end] = "fit")

(* ClickHouse executes the history query. *)
HistoryQuery(h) ==
  /\ eval[h].pc = "history"
  /\ \E view \in [Nodes -> Row] :
       /\ IsLatestByNode(view, eval[h].scope)
       /\ eval' = [eval EXCEPT ![h] = [@ EXCEPT !.pc = "historyRead", !.history = view]]
  /\ UNCHANGED others

(* No history, or a history in which the detector sees nothing. *)
NothingToDo(h) ==
  /\ eval[h].pc = "historyRead"
  /\ InTime(h)
  /\ Return(h)
  /\ UNCHANGED others

(* Some node of the history, eligible or not, is anomalous: now is taken. *)
AnomalyFound(h) ==
  /\ eval[h].pc = "historyRead"
  /\ InTime(h)
  /\ \E n \in Nodes : eval[h].history[n] # NoRow
  /\ eval' = [eval EXCEPT ![h] = [@ EXCEPT !.pc = "dwell", !.now = clock]]
  /\ UNCHANGED others

(* Fault: a failed query is tried again, whatever its context says. *)
QueryRetried(h) ==
  /\ eval[h].pc \in {"history", "historyRead", "latest", "latestRead"}
  /\ eval' = [eval EXCEPT ![h] = [@ EXCEPT !.pc = "history"]]
  /\ UNCHANGED others

(* A failed or timed-out query answers 503. *)
QueryFails(h) ==
  /\ eval[h].pc \in {"history", "historyRead", "latest", "latestRead"}
  /\ Return(h)
  /\ UNCHANGED others

-----------------------------------------------------------------------------
(* The two dwell checks and the scorer *)

(* Fault: only the database is asked for the last recommendation. *)
CheckTimerSkipped(h) ==
  /\ eval[h].pc = "dwell"
  /\ eval' = [eval EXCEPT ![h] = [@ EXCEPT !.pc = "latest"]]
  /\ UNCHANGED others

(* lastGeneration, under Service.mu *)
CheckTimer(h) ==
  /\ eval[h].pc = "dwell"
  /\ IF DwellOver(eval[h].now, lastGenerated[eval[h].scope])
       THEN eval' = [eval EXCEPT ![h] = [@ EXCEPT !.pc = "latest"]]
       ELSE Return(h)
  /\ UNCHANGED others

(* Fault: the scope filter of the query, location for network, finds no row. *)
IsLatestStoredNone(t, s) == t = NoTime

(* ORDER BY created_at DESC ... LIMIT 1 over the stored rows of the scope *)
IsLatestStored(t, s) ==
  IF StoredTimes(s) = {} THEN t = NoTime
  ELSE t \in StoredTimes(s) /\ \A u \in StoredTimes(s) : u <= t

LatestQuery(h) ==
  /\ eval[h].pc = "latest"
  /\ \E t \in StoredTimes(eval[h].scope) \cup {NoTime} :
       /\ IsLatestStored(t, eval[h].scope)
       /\ eval' = [eval EXCEPT ![h] = [@ EXCEPT !.pc = "latestRead", !.latest = t]]
  /\ UNCHANGED others

(* The newest stored recommendation is too young. *)
StoredDwellActive(h) ==
  /\ eval[h].pc = "latestRead"
  /\ InTime(h)
  /\ ~ DwellOver(eval[h].now, eval[h].latest)
  /\ Return(h)
  /\ UNCHANGED others

(* Fewer than two eligible nodes: STALE_METRICS, FUTURE_METRICS or *)
(* INSUFFICIENT_HEALTHY_CANDIDATES.                                *)
CandidatesMissing(h) ==
  /\ eval[h].pc = "latestRead"
  /\ InTime(h)
  /\ DwellOver(eval[h].now, eval[h].latest)
  /\ ~ EnoughCandidates(eval[h])
  /\ Return(h)
  /\ UNCHANGED others

(* BENEFIT_MARGIN_NOT_MET *)
BenefitMissing(h) ==
  /\ eval[h].pc = "latestRead"
  /\ InTime(h)
  /\ DwellOver(eval[h].now, eval[h].latest)
  /\ EnoughCandidates(eval[h])
  /\ Return(h)
  /\ UNCHANGED others

(* Propose succeeds and the message is handed to the Kafka writer. *)
SendPublish(h) ==
  /\ eval[h].pc = "latestRead"
  /\ InTime(h)
  /\ sent < MaxRecs
  /\ DwellOver(eval[h].now, eval[h].latest)
  /\ EnoughCandidates(eval[h])
  /\ sent' = sent + 1
  /\ inflight' = inflight \cup {Draft([eval[h] EXCEPT !.no = sent + 1])}
  /\ eval' = [eval EXCEPT ![h] = [@ EXCEPT !.pc = "publish", !.no = sent + 1]]
  /\ UNCHANGED <<clock, epoch, lastGenerated, metrics, topic, offset,
                 generated, recovered>>

-----------------------------------------------------------------------------
(* Publishing *)

(* The broker appends a message.  The writer that misses the broker's     *)
(* answer retries, so a message may be appended again.  No fairness binds *)
(* this step: a message the writer gives up stays in flight for ever.     *)
BrokerAppend(r) ==
  /\ r \in inflight
  /\ Copies(r) < MaxCopies
  /\ Len(topic[r.scope]) < MaxLog
  /\ topic' = [topic EXCEPT ![r.scope] = Append(@, r)]
  /\ UNCHANGED <<clock, epoch, eval, lastGenerated, metrics, sent, inflight,
                 offset, generated, recovered>>

(* Fault: RequiredAcks is RequireNone. *)
PublishReturnsUnacked(h) ==
  /\ eval[h].pc = "publish"
  /\ InTime(h)
  /\ eval' = [eval EXCEPT ![h] = [@ EXCEPT !.pc = "record"]]
  /\ UNCHANGED others

(* WriteMessages returns nil: all replicas hold the message. *)
PublishReturns(h) ==
  /\ eval[h].pc = "publish"
  /\ InTime(h)
  /\ InTopic(Draft(eval[h]))
  /\ inflight' = inflight \ {Draft(eval[h])}
  /\ eval' = [eval EXCEPT ![h] = [@ EXCEPT !.pc = "record"]]
  /\ UNCHANGED <<clock, epoch, lastGenerated, metrics, sent, topic, offset,
                 generated, recovered>>

(* Fault: the timer starts before the outcome of Publish is known. *)
PublishFailsTimed(h) ==
  /\ eval[h].pc = "publish"
  /\ lastGenerated' = [lastGenerated EXCEPT ![eval[h].scope] = eval[h].now]
  /\ Return(h)
  /\ UNCHANGED <<clock, epoch, metrics, sent, inflight, topic, offset,
                 generated, recovered>>

(* Fault: a failed publish clears the timer. *)
PublishFailsClearing(h) ==
  /\ eval[h].pc = "publish"
  /\ lastGenerated' = [lastGenerated EXCEPT ![eval[h].scope] = NoTime]
  /\ Return(h)
  /\ UNCHANGED <<clock, epoch, metrics, sent, inflight, topic, offset,
                 generated, recovered>>

(* WriteMessages returns an error.  An expired context does not recall *)
(* a message the writer has already batched.                           *)
PublishFails(h) ==
  /\ eval[h].pc = "publish"
  /\ Return(h)
  /\ UNCHANGED others

(* recordGeneration, under Service.mu, and the answer *)
RecordGeneration(h) ==
  /\ eval[h].pc = "record"
  /\ lastGenerated' = [lastGenerated EXCEPT ![eval[h].scope] = eval[h].now]
  /\ generated' = generated \cup {Draft(eval[h])}
  /\ Return(h)
  /\ UNCHANGED <<clock, epoch, metrics, sent, inflight, topic, offset,
                 recovered>>

-----------------------------------------------------------------------------
(* The surroundings *)

(* Fault: the consumer commits an offset it has not read. *)
StoreAhead(s) ==
  /\ offset[s] < MaxStored
  /\ offset' = [offset EXCEPT ![s] = @ + 1]
  /\ UNCHANGED <<clock, epoch, eval, lastGenerated, metrics, sent, inflight,
                 topic, generated, recovered>>

(* ClickHouse's Kafka table stores the next message of a scope's log. *)
Store(s) ==
  /\ offset[s] < Len(topic[s])
  /\ offset[s] < MaxStored
  /\ offset' = [offset EXCEPT ![s] = @ + 1]
  /\ UNCHANGED <<clock, epoch, eval, lastGenerated, metrics, sent, inflight,
                 topic, generated, recovered>>

(* A metric row arrives, or a later revision of it replaces it. *)
MetricRow(s, n, w, q) ==
  /\ metrics[s][n][w] # q
  /\ metrics' = [metrics EXCEPT ![s][n][w] = q]
  /\ UNCHANGED <<clock, epoch, eval, lastGenerated, sent, inflight, topic,
                 offset, generated, recovered>>

(* The process stops with requests in progress and starts again.  main *)
(* does not wait for Shutdown, so SIGTERM is no different from a kill. *)
Restart ==
  /\ epoch < MaxEpoch
  /\ epoch' = epoch + 1
  /\ eval' = [h \in Handlers |-> Idle]
  /\ lastGenerated' = [s \in Scopes |-> NoTime]
  /\ recovered' = offset
  /\ UNCHANGED <<clock, metrics, sent, inflight, topic, offset, generated>>

(* A handler that only has local work to do, the return after its context *)
(* expired included, is never a whole tick late.                          *)
Busy(h) == \/ eval[h].pc \in {"dwell", "record"}
           \/ eval[h].pc # "idle" /\ ~ InTime(h)

Tick ==
  /\ clock < MaxTime
  /\ \A h \in Handlers : ~ Busy(h)
  /\ clock' = clock + 1
  /\ UNCHANGED <<epoch, eval, lastGenerated, metrics, sent, inflight, topic,
                 offset, generated, recovered>>

(* The steps that bring a request forward: the context's deadline and *)
(* the scheduler make every one of them happen.                       *)
Progress(h) ==
  \/ HistoryQuery(h) \/ NothingToDo(h) \/ AnomalyFound(h) \/ QueryFails(h)
  \/ CheckTimer(h) \/ LatestQuery(h) \/ StoredDwellActive(h)
  \/ CandidatesMissing(h) \/ BenefitMissing(h) \/ SendPublish(h)
  \/ PublishReturns(h) \/ PublishFails(h) \/ RecordGeneration(h)

Next ==
  \/ \E h \in Handlers, s \in Scopes : StartEvaluate(h, s)
  \/ \E h \in Handlers : Progress(h)
  \/ \E r \in inflight : BrokerAppend(r)
  \/ \E s \in Scopes : Store(s)
  \/ \E s \in Scopes, n \in Nodes, w \in WindowEnds, q \in RowQualities :
       MetricRow(s, n, w, q)
  \/ Restart
  \/ Tick

Spec == Init /\ [][Next]_vars

(* A request is answered within its context's deadline, and the Kafka   *)
(* table of ClickHouse keeps polling.  Nothing else is owed by anybody. *)
Fairness == /\ \A h \in Handlers : WF_vars(Progress(h))
            /\ \A s \in Scopes : WF_vars(Store(s))

FairSpec == Spec /\ Fairness

-----------------------------------------------------------------------------
(* Properties *)

(* Every variable stays within its type: the state the handlers, the       *)
(* dwell map of Service and the Kafka log can be in.                       *)
TypeOK ==
  /\ clock \in Nat
  /\ epoch \in Nat
  /\ eval \in [Handlers -> Evaluation]
  /\ lastGenerated \in [Scopes -> Nat \cup {NoTime}]
  /\ metrics \in [Scopes -> [Nodes -> [WindowEnds -> {"none", "unfit", "fit"}]]]
  /\ sent \in Nat
  /\ inflight \in SUBSET Recommendation
  /\ topic \in [Scopes -> Seq(Recommendation)]
  /\ offset \in [Scopes -> Nat]
  /\ \A s \in Scopes : offset[s] <= Len(topic[s])
  /\ generated \in SUBSET Recommendation
  /\ recovered \in [Scopes -> Nat]
  /\ \A s \in Scopes : recovered[s] <= offset[s]

(* Creation times this process has reported for a scope. *)
Issued(s) == {r.created : r \in {g \in generated : g.scope = s /\ g.epoch = epoch}}

(* What was handed to the writer for a scope, still on its way or in the log *)
Handed(s) == {r \in inflight : r.scope = s} \cup
             {topic[s][i] : i \in 1..Len(topic[s])}

Limiter == INSTANCE DwellLimiter
             WITH Dwell <- MinimumDwell, Slack <- RequestTimeout, Times <- 0..MaxTime,
                  granted <- [s \in Scopes |->
                     {r.created : r \in {g \in Handed(s) : g.epoch = epoch}}],
                  confirmed <- [s \in Scopes |-> Issued(s)],
                  former <- [s \in Scopes |->
                     {r.created : r \in {g \in Handed(s) : g.epoch < epoch}}],
                  barred <- [s \in Scopes |->
                     {topic[s][i].created : i \in 1..recovered[s]}]

(* The service implements the limiter of DwellLimiter: whatever ClickHouse *)
(* lags and however requests overlap, nothing is handed to the topic that  *)
(* falls into the dwell of a time reported as generated or of one stored   *)
(* at the start of the process, even if its own request is answered with   *)
(* 503 or never; and only a restart forgets a report.                      *)
ImplementsLimiter == Limiter!Spec

(* Siblings of one race, or a dwell apart that may have lost the timeout *)
(* of a request.                                                         *)
Apart(t, u) ==
  \/ t - u <= RequestTimeout /\ u - t <= RequestTimeout
  \/ t - u >= MinimumDwell - RequestTimeout
  \/ u - t >= MinimumDwell - RequestTimeout

(* What the check-then-act on Service.lastGenerated does guarantee, for    *)
(* any number of concurrent evaluations and whatever ClickHouse lags: two  *)
(* recommendations one process reported as generated for a scope are       *)
(* either siblings of one race or a dwell apart, where the unconditional   *)
(* overwrite of recordGeneration costs at most one request timeout.        *)
DwellGap ==
  \A r1, r2 \in generated :
    (r1.scope = r2.scope /\ r1.epoch = r2.epoch) => Apart(r1.created, r2.created)

(* A restart forgets lastGenerated, but not what ClickHouse had stored by  *)
(* then: no recommendation of the new process falls within the dwell of    *)
(* one of those, up to the precision of the stored created_at.             *)
RestartDwell ==
  \A s \in Scopes :
    \A i \in 1..Len(topic[s]), j \in 1..recovered[s] :
      topic[s][i].epoch = epoch
        => topic[s][i].created - topic[s][j].created > MinimumDwell - Precision

(* A failed query or publish does not start the minimum-dwell timer: the   *)
(* timer of a scope always shows a recommendation this process reported    *)
(* as generated, and everything so reported is in the Kafka log.           *)
TimerBacked ==
  /\ \A s \in Scopes : lastGenerated[s] # NoTime =>
       \E r \in generated : /\ r.scope = s
                            /\ r.epoch = epoch
                            /\ r.created = lastGenerated[s]
  /\ \A r \in generated : InTopic(r)

(* Two nodes whose window was neither stale nor in the future at the       *)
(* creation time of the recommendation.                                    *)
RestsOnFreshNodes(r) ==
  /\ \E m, n \in DOMAIN r.evidence : m # n
  /\ \A n \in DOMAIN r.evidence :
       /\ r.created - r.evidence[n] <= StaleAfter
       /\ r.evidence[n] - r.created <= FutureTolerance

(* Whatever is published rests on two fresh nodes, although the history    *)
(* was read before the creation time was taken, on a database with another *)
(* clock, and the message was perhaps appended long after.                 *)
EvidenceFresh ==
  \A s \in Scopes : \A i \in 1..Len(topic[s]) : RestsOnFreshNodes(topic[s][i])

(* proposal.WindowEnd, the latest end of a window in the evidence *)
IsWindowEnd(r, w) == /\ \E n \in DOMAIN r.evidence : r.evidence[n] = w
                     /\ \A n \in DOMAIN r.evidence : r.evidence[n] <= w

(* Fault: the window end is left out of the hash. *)
SameIDOfScope(r1, r2) == r1.scope = r2.scope

(* recommendationID hashes the scope and the window end (the configuration *)
(* is fixed): evaluations of one window share the ID.                      *)
SameID(r1, r2) ==
  /\ r1.scope = r2.scope
  /\ \E w \in WindowEnds : IsWindowEnd(r1, w) /\ IsWindowEnd(r2, w)

(* An ID is not unique, but it comes back only while its window is fresh:  *)
(* two messages under one ID, of whatever process, lie within the time     *)
(* that the scorer accepts a window.  After that an acknowledgement that   *)
(* names the ID cannot mean a later recommendation.                        *)
IdentityBounded ==
  \A s \in Scopes : \A i, j \in 1..Len(topic[s]) :
     SameID(topic[s][i], topic[s][j]) =>
        topic[s][i].created - topic[s][j].created <= StaleAfter + FutureTolerance

(* Every evaluation is answered: by its result, or by 503 when the context *)
(* of the handler expires.                                                 *)
EveryRequestAnswered ==
  \A h \in Handlers : eval[h].pc # "idle" ~> eval[h].pc = "idle"

(* What was reported as generated eventually guards the dwell from the     *)
(* database too, across restarts.                                          *)
GeneratedBecomesStored ==
  \A k \in 1..MaxRecs :
    (\E r \in generated : r.no = k)
      ~> (\E s \in Scopes : \E i \in 1..offset[s] : topic[s][i].no = k)

-----------------------------------------------------------------------------
(* What the documentation says *)

(* "recommendations observe a one-minute minimum dwell time"               *)
(* (services/recommendation-api/README.md)                                 *)
MinimumDwellObserved ==
  \A s \in Scopes : \A i, j \in 1..Len(topic[s]) :
    LET r1 == topic[s][i]
        r2 == topic[s][j]
    IN r1.no < r2.no => \/ r2.created - r1.created >= MinimumDwell
                       \/ r1.created - r2.created >= MinimumDwell

(* "Dependency failures return 503 and never publish"                      *)
(* (services/recommendation-api/README.md): once PublishFails has answered *)
(* for a message, the message is not in the log.                           *)
UnavailableNeverPublishes ==
  [][\A h \in Handlers : PublishFails(h) => ~ InTopic(Draft(eval[h]))]_vars
=============================================================================
