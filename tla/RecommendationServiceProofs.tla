-------------------- MODULE RecommendationServiceProofs --------------------
(* Theorems about RecommendationService, for every number of handlers,     *)
(* scopes, nodes and restarts and every value of the time parameters.      *)
EXTENDS RecommendationService, TLAPS

USE DEF others

(* Rows, drafts and the idle evaluation have their types. *)
LEMMA IdleType == Idle \in Evaluation
  <1>1. (CHOOSE s \in Scopes : TRUE) \in Scopes
    BY ParametersAssumption
  <1>2. NoRow \in Row
    BY DEF NoRow, Row, NoTime
  <1> QED BY <1>1, <1>2 DEF Idle, Evaluation, Stages

LEMMA IdlePc == Idle.pc = "idle"
  BY DEF Idle

(* Assigning a local of Evaluate keeps the evaluation's type. *)
LEMMA EvaluationUpdate ==
  ASSUME NEW e \in Evaluation
  PROVE  /\ \A p \in Stages : [e EXCEPT !.pc = p] \in Evaluation
         /\ \A v \in [Nodes -> Row] : [e EXCEPT !.history = v] \in Evaluation
         /\ \A t \in Nat : [e EXCEPT !.now = t] \in Evaluation
         /\ \A t \in Nat \cup {NoTime} : [e EXCEPT !.latest = t] \in Evaluation
         /\ \A k \in Nat : [e EXCEPT !.no = k] \in Evaluation
  BY DEF Evaluation

(* What Evaluate builds from its locals is a recommendation. *)
LEMMA DraftType ==
  ASSUME NEW e \in Evaluation, epoch \in Nat
  PROVE  Draft(e) \in Recommendation
  <1>1. Eligible(e.history, e.now) \in SUBSET Nodes
    BY DEF Eligible
  <1>2. \A n \in Eligible(e.history, e.now) : e.history[n].end \in WindowEnds
    BY DEF Eligible, Evaluation, Row
  <1>3. Evidence(e.history, e.now) \in [Eligible(e.history, e.now) -> WindowEnds]
    BY <1>1, <1>2 DEF Evidence
  <1>4. Evidence(e.history, e.now)
          \in UNION {[S -> WindowEnds] : S \in SUBSET Nodes}
    BY <1>1, <1>3
  <1> QED BY <1>4 DEF Draft, Recommendation, Evaluation

(* DateTime64(3) never rounds up and loses less than its precision. *)
LEMMA StoredTimeBounds ==
  ASSUME NEW t \in Nat
  PROVE  StoredTime(t) \in Nat /\ StoredTime(t) <= t /\ t - StoredTime(t) < Precision
  <1>1. Precision \in Nat /\ Precision > 0
    BY ParametersAssumption
  <1>2. t % Precision \in 0..(Precision - 1)
    BY <1>1
  <1>3. t = Precision * (t \div Precision) + (t % Precision)
    BY <1>1
  <1>4. t \div Precision \in Nat
    BY <1>1
  <1>5. Precision * (t \div Precision) \in Nat
    BY <1>1, <1>4
  <1> QED BY <1>1, <1>2, <1>3, <1>5 DEF StoredTime

-----------------------------------------------------------------------------
(* Type correctness *)

LEMMA TypeInit == Init => TypeOK
  <1> SUFFICES ASSUME Init PROVE TypeOK
    OBVIOUS
  <1>1. eval \in [Handlers -> Evaluation]
    BY IdleType DEF Init
  <1>2. metrics \in [Scopes -> [Nodes -> [WindowEnds -> {"none", "unfit", "fit"}]]]
    <2>1. SeedRows \subseteq {"none", "unfit", "fit"}
      BY ParametersAssumption
    <2>2. metrics \in [Scopes -> [Nodes -> [WindowEnds -> SeedRows]]]
      BY DEF Init
    <2>3. \A s \in Scopes : \A n \in Nodes : \A w \in WindowEnds :
            metrics[s][n][w] \in {"none", "unfit", "fit"}
      <3> TAKE s \in Scopes
      <3> TAKE n \in Nodes
      <3> TAKE w \in WindowEnds
      <3>1. metrics[s] \in [Nodes -> [WindowEnds -> SeedRows]]
        BY <2>2
      <3>2. metrics[s][n] \in [WindowEnds -> SeedRows]
        BY <3>1
      <3>3. metrics[s][n][w] \in SeedRows
        BY <3>2
      <3> QED BY <2>1, <3>3
    <2>4. \A s \in Scopes : \A n \in Nodes :
            metrics[s][n] \in [WindowEnds -> {"none", "unfit", "fit"}]
      BY <2>2, <2>3
    <2>5. \A s \in Scopes :
            metrics[s] \in [Nodes -> [WindowEnds -> {"none", "unfit", "fit"}]]
      BY <2>2, <2>4
    <2> QED BY <2>2, <2>5
  <1>3. topic \in [Scopes -> Seq(Recommendation)]
    BY DEF Init
  <1> QED BY <1>1, <1>2, <1>3 DEF Init, TypeOK

LEMMA TypeNext == TypeOK /\ [Next]_vars => TypeOK'
  <1> SUFFICES ASSUME TypeOK, [Next]_vars PROVE TypeOK'
    OBVIOUS
  <1> USE DEF TypeOK
  <1> DEFINE EvalOK == eval' \in [Handlers -> Evaluation]
  <1>0. ASSUME NEW h \in Handlers, NEW e \in Evaluation,
               eval' = [eval EXCEPT ![h] = e]
        PROVE  EvalOK
    BY <1>0
  <1>1. ASSUME NEW h \in Handlers, Return(h) PROVE EvalOK
    BY <1>1, IdleType DEF Return
  <1>2. ASSUME NEW h \in Handlers, NEW s \in Scopes, StartEvaluate(h, s)
        PROVE  TypeOK'
    <2>1. clock + RequestTimeout \in Nat
      BY ParametersAssumption
    <2>2. [Idle EXCEPT !.pc = "history", !.scope = s,
                       !.deadline = clock + RequestTimeout] \in Evaluation
      BY <2>1, IdleType DEF Evaluation, Stages
    <2> QED BY <1>2, <2>2 DEF StartEvaluate
  <1>3. ASSUME NEW h \in Handlers, HistoryQuery(h) PROVE TypeOK'
    <2>1. PICK view \in [Nodes -> Row] :
            eval' = [eval EXCEPT ![h] = [@ EXCEPT !.pc = "historyRead",
                                                  !.history = view]]
      BY <1>3 DEF HistoryQuery
    <2>2. [eval[h] EXCEPT !.pc = "historyRead"] \in Evaluation
      BY EvaluationUpdate DEF Stages
    <2>3. EvalOK
      BY <1>0, <2>1, <2>2, EvaluationUpdate
    <2> QED BY <1>3, <2>3 DEF HistoryQuery
  <1>4. ASSUME NEW h \in Handlers, NothingToDo(h) PROVE TypeOK'
    BY <1>1, <1>4 DEF NothingToDo
  <1>5. ASSUME NEW h \in Handlers, AnomalyFound(h) PROVE TypeOK'
    <2>1. [eval[h] EXCEPT !.pc = "dwell"] \in Evaluation
      BY EvaluationUpdate DEF Stages
    <2>2. [eval[h] EXCEPT !.pc = "dwell", !.now = clock] \in Evaluation
      BY <2>1, EvaluationUpdate
    <2> QED BY <1>0, <1>5, <2>2 DEF AnomalyFound
  <1>6. ASSUME NEW h \in Handlers, QueryFails(h) PROVE TypeOK'
    BY <1>1, <1>6 DEF QueryFails
  <1>7. ASSUME NEW h \in Handlers, CheckTimer(h) PROVE TypeOK'
    <2>1. [eval[h] EXCEPT !.pc = "latest"] \in Evaluation
      BY EvaluationUpdate DEF Stages
    <2>2. \/ eval' = [eval EXCEPT ![h] = [@ EXCEPT !.pc = "latest"]]
          \/ Return(h)
      BY <1>7 DEF CheckTimer
    <2>3. EvalOK
      BY <1>0, <1>1, <2>1, <2>2
    <2> QED BY <1>7, <2>3 DEF CheckTimer
  <1>8. ASSUME NEW h \in Handlers, LatestQuery(h) PROVE TypeOK'
    <2>1. PICK t \in StoredTimes(eval[h].scope) \cup {NoTime} :
            eval' = [eval EXCEPT ![h] = [@ EXCEPT !.pc = "latestRead",
                                                  !.latest = t]]
      BY <1>8 DEF LatestQuery
    <2>2. ASSUME NEW s \in Scopes, NEW i \in 1..offset[s]
          PROVE  StoredTime(topic[s][i].created) \in Nat
      <3>1. topic[s][i] \in Recommendation
        OBVIOUS
      <3>2. topic[s][i].created \in Nat
        BY <3>1 DEF Recommendation
      <3> QED BY <3>2, StoredTimeBounds
    <2>3. eval[h].scope \in Scopes
      BY DEF Evaluation
    <2>4. t \in Nat \cup {NoTime}
      BY <2>2, <2>3 DEF StoredTimes
    <2>5. [eval[h] EXCEPT !.pc = "latestRead"] \in Evaluation
      BY EvaluationUpdate DEF Stages
    <2>6. EvalOK
      BY <1>0, <2>1, <2>4, <2>5, EvaluationUpdate
    <2> QED BY <1>8, <2>6 DEF LatestQuery
  <1>9. ASSUME NEW h \in Handlers,
               StoredDwellActive(h) \/ CandidatesMissing(h) \/ BenefitMissing(h)
        PROVE  TypeOK'
    BY <1>1, <1>9 DEF StoredDwellActive, CandidatesMissing, BenefitMissing
  <1>10. ASSUME NEW h \in Handlers, SendPublish(h) PROVE TypeOK'
    <2>0. eval[h] \in Evaluation /\ sent + 1 \in Nat
      OBVIOUS
    <2>1. [eval[h] EXCEPT !.no = sent + 1] \in Evaluation
      BY <2>0, EvaluationUpdate
    <2>2. Draft([eval[h] EXCEPT !.no = sent + 1]) \in Recommendation
      BY <2>1, DraftType
    <2>3. [eval[h] EXCEPT !.pc = "publish"] \in Evaluation
      BY EvaluationUpdate DEF Stages
    <2>4. [eval[h] EXCEPT !.pc = "publish", !.no = sent + 1] \in Evaluation
      BY <2>0, <2>3, EvaluationUpdate
    <2>5. EvalOK
      BY <1>0, <1>10, <2>4 DEF SendPublish
    <2> QED BY <1>10, <2>0, <2>2, <2>5 DEF SendPublish
  <1>11. ASSUME NEW r \in inflight, BrokerAppend(r) PROVE TypeOK'
    <2>1. r \in Recommendation /\ r.scope \in Scopes
      BY DEF Recommendation
    <2>2. topic' = [topic EXCEPT ![r.scope] = Append(topic[r.scope], r)]
      BY <1>11 DEF BrokerAppend
    <2>3. topic' \in [Scopes -> Seq(Recommendation)]
      BY <2>1, <2>2
    <2>4. \A s \in Scopes : Len(topic'[s]) >= Len(topic[s])
      BY <2>1, <2>2
    <2>5. \A s \in Scopes : offset[s] <= Len(topic'[s])
      BY <2>3, <2>4
    <2> QED BY <1>11, <2>3, <2>5 DEF BrokerAppend
  <1>12. ASSUME NEW h \in Handlers, PublishReturns(h) PROVE TypeOK'
    <2>1. [eval[h] EXCEPT !.pc = "record"] \in Evaluation
      BY EvaluationUpdate DEF Stages
    <2> QED BY <1>0, <1>12, <2>1 DEF PublishReturns
  <1>13. ASSUME NEW h \in Handlers, PublishFails(h) PROVE TypeOK'
    BY <1>1, <1>13 DEF PublishFails
  <1>14. ASSUME NEW h \in Handlers, RecordGeneration(h) PROVE TypeOK'
    <2>1. Draft(eval[h]) \in Recommendation
      BY DraftType
    <2>2. eval[h].now \in Nat
      BY DEF Evaluation
    <2> QED BY <1>1, <1>14, <2>1, <2>2 DEF RecordGeneration
  <1>15. ASSUME NEW s \in Scopes, Store(s) PROVE TypeOK'
    BY <1>15 DEF Store
  <1>16. ASSUME NEW s \in Scopes, NEW n \in Nodes, NEW w \in WindowEnds,
                NEW q \in RowQualities, MetricRow(s, n, w, q)
         PROVE  TypeOK'
    <2>1. q \in {"none", "unfit", "fit"}
      BY ParametersAssumption
    <2> QED BY <1>16, <2>1 DEF MetricRow
  <1>17. CASE Restart
    BY <1>17, IdleType DEF Restart
  <1>18. CASE Tick
    BY <1>18 DEF Tick
  <1>19. CASE UNCHANGED vars
    BY <1>19 DEF vars
  <1> QED
    BY <1>2, <1>3, <1>4, <1>5, <1>6, <1>7, <1>8, <1>9, <1>10, <1>11, <1>12,
       <1>13, <1>14, <1>15, <1>16, <1>17, <1>18, <1>19
    DEF Next, Progress

(* Every variable keeps its type, whatever the interleaving. *)
THEOREM TypeCorrect == Spec => []TypeOK
  BY TypeInit, TypeNext, PTL DEF Spec

-----------------------------------------------------------------------------
(* The dwell between reported recommendations *)

(* The stages after the in-memory dwell check has passed. *)
Cleared == {"latest", "latestRead", "publish", "record"}

(* The times of an evaluation in progress: now is taken before the current *)
(* time, at most a request timeout before the deadline, and a handler that *)
(* is about to record was answered in time.                                *)
HandlerTimes ==
  \A h \in Handlers :
    /\ eval[h].pc # "idle" => eval[h].deadline <= clock + RequestTimeout
    /\ eval[h].pc \in Cleared \cup {"dwell"} =>
         /\ eval[h].now <= clock
         /\ eval[h].deadline <= eval[h].now + RequestTimeout
    /\ eval[h].pc = "record" => clock <= eval[h].deadline

(* Reported recommendations are of the past. *)
GeneratedPast == \A r \in generated : r.created <= clock /\ r.epoch <= epoch

(* recordGeneration may move the timer backwards, but never by more than a *)
(* request timeout behind a recommendation of this process.                *)
TimerLag ==
  \A r \in generated : r.epoch = epoch =>
    /\ lastGenerated[r.scope] # NoTime
    /\ lastGenerated[r.scope] >= r.created - RequestTimeout

(* An evaluation that has passed the check, and can still be answered in   *)
(* time, is apart from everything reported before or since.                *)
ClearedApart ==
  \A h \in Handlers, r \in generated :
    (/\ eval[h].pc \in Cleared /\ clock <= eval[h].deadline
     /\ r.scope = eval[h].scope /\ r.epoch = epoch)
      => Apart(eval[h].now, r.created)

DwellInv == HandlerTimes /\ GeneratedPast /\ TimerLag /\ ClearedApart /\ DwellGap

LEMMA DwellInit == Init => DwellInv
  <1> SUFFICES ASSUME Init PROVE DwellInv
    OBVIOUS
  <1>1. \A h \in Handlers : eval[h].pc = "idle"
    BY IdlePc DEF Init
  <1> QED
    BY <1>1 DEF Init, DwellInv, HandlerTimes, GeneratedPast, TimerLag,
                ClearedApart, DwellGap, Cleared

(* Times are numbers: what the arithmetic below needs of the type invariant. *)
LEMMA DwellTypes ==
  ASSUME TypeOK
  PROVE  /\ clock \in Nat /\ epoch \in Nat
         /\ RequestTimeout \in Nat /\ MinimumDwell \in Nat
         /\ \A h \in Handlers : /\ eval[h].now \in Nat
                                /\ eval[h].deadline \in Nat
                                /\ eval[h].scope \in Scopes
         /\ \A r \in generated : /\ r.created \in Nat /\ r.epoch \in Nat
                                 /\ r.scope \in Scopes
         /\ \A s \in Scopes : lastGenerated[s] \in Int
  <1>1. \A h \in Handlers : eval[h] \in Evaluation
    BY DEF TypeOK
  <1>2. \A r \in generated : r \in Recommendation
    BY DEF TypeOK
  <1>3. \A s \in Scopes : lastGenerated[s] \in Int
    BY DEF TypeOK, NoTime
  <1> QED
    BY <1>1, <1>2, <1>3, ParametersAssumption
    DEF TypeOK, Evaluation, Recommendation

(* A step that only moves handler h, to a stage before the dwell check or   *)
(* on within the cleared stages, preserves the invariant.                   *)
LEMMA DwellQuiet ==
  ASSUME TypeOK, DwellInv, NEW h \in Handlers, NEW e,
         eval' = [eval EXCEPT ![h] = e],
         UNCHANGED <<clock, epoch, lastGenerated, generated>>,
         \/ e.pc = "idle"
         \/ /\ e.pc \in {"history", "historyRead"}
            /\ e.deadline <= clock + RequestTimeout
         \/ /\ e.pc \in Cleared /\ eval[h].pc \in Cleared
            /\ e.now = eval[h].now /\ e.deadline = eval[h].deadline
            /\ e.scope = eval[h].scope
            /\ e.pc = "record" => clock <= e.deadline
  PROVE  DwellInv'
  <1>1. \A g \in Handlers : eval'[g] = IF g = h THEN e ELSE eval[g]
    BY DEF TypeOK
  <1>2. HandlerTimes'
    BY <1>1 DEF DwellInv, HandlerTimes, Cleared
  <1>3. ClearedApart'
    BY <1>1 DEF DwellInv, ClearedApart, Apart, Cleared
  <1>4. GeneratedPast' /\ TimerLag' /\ DwellGap'
    BY DEF DwellInv, GeneratedPast, TimerLag, DwellGap, Apart
  <1> QED BY <1>2, <1>3, <1>4 DEF DwellInv

LEMMA DwellNext == TypeOK /\ DwellInv /\ [Next]_vars => DwellInv'
  <1> SUFFICES ASSUME TypeOK, DwellInv, [Next]_vars PROVE DwellInv'
    OBVIOUS
  <1>0. \A h \in Handlers : eval[h] \in Evaluation
    BY DEF TypeOK
  <1>1. ASSUME NEW h \in Handlers, Return(h),
               UNCHANGED <<clock, epoch, lastGenerated, generated>>
        PROVE  DwellInv'
    BY <1>1, DwellQuiet, IdlePc DEF Return
  <1>2. ASSUME NEW h \in Handlers, NEW s \in Scopes, StartEvaluate(h, s)
        PROVE  DwellInv'
    <2> DEFINE e == [Idle EXCEPT !.pc = "history", !.scope = s,
                                 !.deadline = clock + RequestTimeout]
    <2>1. e.pc = "history" /\ e.deadline = clock + RequestTimeout
      BY DEF Idle
    <2>2. clock + RequestTimeout <= clock + RequestTimeout
      BY DwellTypes
    <2>3. /\ eval' = [eval EXCEPT ![h] = e]
          /\ UNCHANGED <<clock, epoch, lastGenerated, generated>>
      BY <1>2 DEF StartEvaluate
    <2> HIDE DEF e
    <2> QED BY <2>1, <2>2, <2>3, DwellQuiet
  <1>3. ASSUME NEW h \in Handlers, HistoryQuery(h) PROVE DwellInv'
    <2>1. PICK view \in [Nodes -> Row] :
            eval' = [eval EXCEPT ![h] = [@ EXCEPT !.pc = "historyRead",
                                                  !.history = view]]
      BY <1>3 DEF HistoryQuery
    <2> DEFINE e == [eval[h] EXCEPT !.pc = "historyRead", !.history = view]
    <2>2. e.pc = "historyRead" /\ e.deadline = eval[h].deadline
      BY <1>0 DEF Evaluation
    <2>3. eval[h].deadline <= clock + RequestTimeout
      BY <1>3 DEF HistoryQuery, DwellInv, HandlerTimes
    <2>4. /\ eval' = [eval EXCEPT ![h] = e]
          /\ UNCHANGED <<clock, epoch, lastGenerated, generated>>
      BY <1>3, <2>1 DEF HistoryQuery
    <2> HIDE DEF e
    <2> QED BY <2>2, <2>3, <2>4, DwellQuiet
  <1>4. ASSUME NEW h \in Handlers,
               \/ NothingToDo(h) \/ QueryFails(h) \/ StoredDwellActive(h)
               \/ CandidatesMissing(h) \/ BenefitMissing(h) \/ PublishFails(h)
        PROVE  DwellInv'
    <2>1. Return(h) /\ UNCHANGED <<clock, epoch, lastGenerated, generated>>
      BY <1>4 DEF NothingToDo, QueryFails, StoredDwellActive,
                  CandidatesMissing, BenefitMissing, PublishFails
    <2> QED BY <1>1, <2>1
  <1>5. ASSUME NEW h \in Handlers, AnomalyFound(h) PROVE DwellInv'
    <2>1. /\ eval[h].pc = "historyRead"
          /\ eval' = [eval EXCEPT ![h] = [@ EXCEPT !.pc = "dwell", !.now = clock]]
          /\ UNCHANGED <<clock, epoch, lastGenerated, generated>>
      BY <1>5 DEF AnomalyFound
    <2>2. /\ eval'[h].pc = "dwell" /\ eval'[h].now = clock
          /\ eval'[h].deadline = eval[h].deadline
          /\ \A g \in Handlers : g # h => eval'[g] = eval[g]
      BY <1>0, <2>1 DEF TypeOK, Evaluation
    <2>3. HandlerTimes'
      BY <2>1, <2>2, DwellTypes DEF DwellInv, HandlerTimes, Cleared
    <2>4. ClearedApart'
      BY <2>1, <2>2 DEF DwellInv, ClearedApart, Apart, Cleared
    <2>5. GeneratedPast' /\ TimerLag' /\ DwellGap'
      BY <2>1 DEF DwellInv, GeneratedPast, TimerLag, DwellGap, Apart
    <2> QED BY <2>3, <2>4, <2>5 DEF DwellInv
  <1>6. ASSUME NEW h \in Handlers, CheckTimer(h) PROVE DwellInv'
    <2>1. CASE ~ DwellOver(eval[h].now, lastGenerated[eval[h].scope])
      BY <1>1, <1>6, <2>1 DEF CheckTimer
    <2>2. CASE DwellOver(eval[h].now, lastGenerated[eval[h].scope])
      <3>1. /\ eval[h].pc = "dwell"
            /\ eval' = [eval EXCEPT ![h] = [@ EXCEPT !.pc = "latest"]]
            /\ UNCHANGED <<clock, epoch, lastGenerated, generated>>
        BY <1>6, <2>2 DEF CheckTimer
      <3>2. /\ eval'[h].pc = "latest" /\ eval'[h].now = eval[h].now
            /\ eval'[h].deadline = eval[h].deadline
            /\ eval'[h].scope = eval[h].scope
            /\ \A g \in Handlers : g # h => eval'[g] = eval[g]
        BY <1>0, <3>1 DEF TypeOK, Evaluation
      <3>3. HandlerTimes'
        BY <3>1, <3>2, DwellTypes DEF DwellInv, HandlerTimes, Cleared
      <3>4. ASSUME NEW r \in generated, r.scope = eval[h].scope, r.epoch = epoch
            PROVE  Apart(eval[h].now, r.created)
        <4>1. /\ lastGenerated[r.scope] # NoTime
              /\ lastGenerated[r.scope] >= r.created - RequestTimeout
          BY <3>4 DEF DwellInv, TimerLag
        <4>2. eval[h].now - lastGenerated[r.scope] >= MinimumDwell
          BY <2>2, <3>4, <4>1 DEF DwellOver
        <4> QED BY <4>1, <4>2, DwellTypes DEF Apart
      <3>5. ClearedApart'
        BY <3>1, <3>2, <3>4 DEF DwellInv, ClearedApart, Apart, Cleared
      <3>6. GeneratedPast' /\ TimerLag' /\ DwellGap'
        BY <3>1 DEF DwellInv, GeneratedPast, TimerLag, DwellGap, Apart
      <3> QED BY <3>3, <3>5, <3>6 DEF DwellInv
    <2> QED BY <2>1, <2>2
  <1>7. ASSUME NEW h \in Handlers, LatestQuery(h) PROVE DwellInv'
    <2>1. PICK t \in StoredTimes(eval[h].scope) \cup {NoTime} :
            eval' = [eval EXCEPT ![h] = [@ EXCEPT !.pc = "latestRead",
                                                  !.latest = t]]
      BY <1>7 DEF LatestQuery
    <2> DEFINE e == [eval[h] EXCEPT !.pc = "latestRead", !.latest = t]
    <2>2. /\ e.pc = "latestRead" /\ e.now = eval[h].now
          /\ e.deadline = eval[h].deadline /\ e.scope = eval[h].scope
      BY <1>0 DEF Evaluation
    <2>3. /\ eval[h].pc = "latest"
          /\ eval' = [eval EXCEPT ![h] = e]
          /\ UNCHANGED <<clock, epoch, lastGenerated, generated>>
      BY <1>7, <2>1 DEF LatestQuery
    <2> HIDE DEF e
    <2> QED BY <2>2, <2>3, DwellQuiet DEF Cleared
  <1>8. ASSUME NEW h \in Handlers, SendPublish(h) PROVE DwellInv'
    <2> DEFINE e == [eval[h] EXCEPT !.pc = "publish", !.no = sent + 1]
    <2>1. /\ e.pc = "publish" /\ e.now = eval[h].now
          /\ e.deadline = eval[h].deadline /\ e.scope = eval[h].scope
      BY <1>0 DEF Evaluation
    <2>2. /\ eval[h].pc = "latestRead"
          /\ eval' = [eval EXCEPT ![h] = e]
          /\ UNCHANGED <<clock, epoch, lastGenerated, generated>>
      BY <1>8 DEF SendPublish
    <2> HIDE DEF e
    <2> QED BY <2>1, <2>2, DwellQuiet DEF Cleared
  <1>9. ASSUME NEW h \in Handlers, PublishReturns(h) PROVE DwellInv'
    <2> DEFINE e == [eval[h] EXCEPT !.pc = "record"]
    <2>1. /\ e.pc = "record" /\ e.now = eval[h].now
          /\ e.deadline = eval[h].deadline /\ e.scope = eval[h].scope
      BY <1>0 DEF Evaluation
    <2>2. /\ eval[h].pc = "publish" /\ clock <= eval[h].deadline
          /\ eval' = [eval EXCEPT ![h] = e]
          /\ UNCHANGED <<clock, epoch, lastGenerated, generated>>
      BY <1>9 DEF PublishReturns, InTime
    <2> HIDE DEF e
    <2> QED BY <2>1, <2>2, DwellQuiet DEF Cleared
  <1>10. ASSUME NEW h \in Handlers, RecordGeneration(h) PROVE DwellInv'
    <2> DEFINE d == Draft(eval[h])
    <2>1. d.scope = eval[h].scope /\ d.created = eval[h].now /\ d.epoch = epoch
      BY DEF Draft
    <2>2. /\ eval[h].pc = "record"
          /\ lastGenerated' = [lastGenerated EXCEPT ![eval[h].scope] = eval[h].now]
          /\ generated' = generated \cup {d}
          /\ eval' = [eval EXCEPT ![h] = Idle]
          /\ clock' = clock /\ epoch' = epoch
      BY <1>10 DEF RecordGeneration, Return
    <2> HIDE DEF d
    <2>3. \A g \in Handlers : eval'[g] = IF g = h THEN Idle ELSE eval[g]
      BY <2>2 DEF TypeOK
    <2>4. /\ eval[h].now <= clock /\ clock <= eval[h].deadline
          /\ eval[h].deadline <= eval[h].now + RequestTimeout
      BY <2>2 DEF DwellInv, HandlerTimes, Cleared
    <2>5. HandlerTimes'
      BY <2>2, <2>3, IdlePc DEF DwellInv, HandlerTimes, Cleared
    <2>6. GeneratedPast'
      BY <2>1, <2>2, <2>4, DwellTypes DEF DwellInv, GeneratedPast
    <2>7. TimerLag'
      <3> SUFFICES ASSUME NEW r \in generated', r.epoch = epoch
                   PROVE  /\ lastGenerated'[r.scope] # NoTime
                          /\ lastGenerated'[r.scope] >= r.created - RequestTimeout
        BY <2>2 DEF TimerLag
      <3>1. CASE r.scope = eval[h].scope
        <4>1. lastGenerated'[r.scope] = eval[h].now
          BY <2>2, <3>1, DwellTypes DEF TypeOK
        <4>2. r.created \in Nat /\ r.created <= clock
          BY <2>1, <2>2, <2>4, DwellTypes DEF DwellInv, GeneratedPast
        <4> QED BY <2>4, <4>1, <4>2, DwellTypes DEF NoTime
      <3>2. CASE r.scope # eval[h].scope
        <4>1. r \in generated
          BY <2>1, <2>2, <3>2
        <4>2. lastGenerated'[r.scope] = lastGenerated[r.scope]
          BY <2>2, <3>2, <4>1, DwellTypes DEF TypeOK
        <4> QED BY <4>1, <4>2 DEF DwellInv, TimerLag
      <3> QED BY <3>1, <3>2
    <2>8. ClearedApart'
      <3> SUFFICES ASSUME NEW g \in Handlers, NEW r \in generated',
                          eval'[g].pc \in Cleared, clock <= eval'[g].deadline,
                          r.scope = eval'[g].scope, r.epoch = epoch
                   PROVE  Apart(eval'[g].now, r.created)
        BY <2>2 DEF ClearedApart, Apart
      <3>1. g # h /\ eval'[g] = eval[g]
        BY <2>3, IdlePc DEF Cleared
      <3>2. CASE r \in generated
        BY <3>1, <3>2 DEF DwellInv, ClearedApart
      <3>3. CASE r = d
        <4>1. /\ eval[g].now <= clock
              /\ eval[g].deadline <= eval[g].now + RequestTimeout
          BY <3>1 DEF DwellInv, HandlerTimes
        <4> QED BY <2>1, <2>4, <3>1, <3>3, <4>1, DwellTypes DEF Apart
      <3> QED BY <2>2, <3>2, <3>3
    <2>9. DwellGap'
      <3> SUFFICES ASSUME NEW r1 \in generated', NEW r2 \in generated',
                          r1.scope = r2.scope, r1.epoch = r2.epoch
                   PROVE  Apart(r1.created, r2.created)
        BY DEF DwellGap, Apart
      <3>1. ASSUME NEW r \in generated, r.scope = d.scope, r.epoch = d.epoch
            PROVE  Apart(d.created, r.created) /\ Apart(r.created, d.created)
        <4>1. Apart(eval[h].now, r.created)
          BY <2>1, <2>2, <2>4, <3>1 DEF DwellInv, ClearedApart, Cleared
        <4> QED BY <2>1, <4>1 DEF Apart
      <3>2. Apart(d.created, d.created)
        BY <2>1, DwellTypes DEF Apart
      <3> QED BY <2>2, <3>1, <3>2 DEF DwellInv, DwellGap
    <2> QED BY <2>5, <2>6, <2>7, <2>8, <2>9 DEF DwellInv
  <1>11. CASE Restart
    <2>1. /\ epoch' = epoch + 1 /\ clock' = clock /\ generated' = generated
          /\ \A g \in Handlers : eval'[g].pc = "idle"
      BY <1>11, IdlePc DEF Restart
    <2>2. GeneratedPast' /\ \A r \in generated' : r.epoch # epoch'
      BY <2>1, DwellTypes DEF DwellInv, GeneratedPast
    <2>3. HandlerTimes' /\ ClearedApart'
      BY <2>1 DEF HandlerTimes, ClearedApart, Cleared
    <2>4. TimerLag' /\ DwellGap'
      BY <2>1, <2>2 DEF DwellInv, TimerLag, DwellGap, Apart
    <2> QED BY <2>2, <2>3, <2>4 DEF DwellInv
  <1>12. CASE Tick
    <2>1. /\ clock' = clock + 1
          /\ UNCHANGED <<epoch, eval, lastGenerated, generated>>
          /\ \A g \in Handlers : eval[g].pc # "record"
      BY <1>12 DEF Tick, Busy
    <2>2. HandlerTimes'
      BY <2>1, DwellTypes DEF DwellInv, HandlerTimes, Cleared
    <2>3. GeneratedPast'
      BY <2>1, DwellTypes DEF DwellInv, GeneratedPast
    <2>4. ClearedApart'
      BY <2>1, DwellTypes DEF DwellInv, ClearedApart, Apart
    <2>5. TimerLag' /\ DwellGap'
      BY <2>1 DEF DwellInv, TimerLag, DwellGap, Apart
    <2> QED BY <2>2, <2>3, <2>4, <2>5 DEF DwellInv
  <1>13. ASSUME UNCHANGED <<clock, epoch, eval, lastGenerated, generated>>
         PROVE  DwellInv'
    BY <1>13 DEF DwellInv, HandlerTimes, GeneratedPast, TimerLag, ClearedApart,
                 DwellGap, Apart
  <1>14. ASSUME NEW r \in inflight, BrokerAppend(r) PROVE DwellInv'
    BY <1>13, <1>14 DEF BrokerAppend
  <1>15. ASSUME NEW s \in Scopes, Store(s) PROVE DwellInv'
    BY <1>13, <1>15 DEF Store
  <1>16. ASSUME NEW s \in Scopes, NEW n \in Nodes, NEW w \in WindowEnds,
                NEW q \in RowQualities, MetricRow(s, n, w, q)
         PROVE  DwellInv'
    BY <1>13, <1>16 DEF MetricRow
  <1>17. CASE UNCHANGED vars
    BY <1>13, <1>17 DEF vars
  <1> QED
    BY <1>2, <1>3, <1>4, <1>5, <1>6, <1>7, <1>8, <1>9, <1>10, <1>11, <1>12,
       <1>14, <1>15, <1>16, <1>17
    DEF Next, Progress

(* Two recommendations one process reports for a scope are siblings of one *)
(* race, at most a request timeout apart, or at least the minimum dwell    *)
(* less a request timeout apart.                                           *)
THEOREM DwellGapHolds == Spec => []DwellGap
  <1>1. Spec => [](TypeOK /\ DwellInv)
    BY TypeInit, TypeNext, DwellInit, DwellNext, PTL DEF Spec
  <1>2. DwellInv => DwellGap
    BY DEF DwellInv
  <1> QED BY <1>1, <1>2, PTL

(* The clock stops at its bound, so every creation time is one of the      *)
(* limiter's times.                                                        *)
ClockBounded == clock <= MaxTime

LEMMA ClockNext == TypeOK /\ ClockBounded /\ [Next]_vars => ClockBounded'
  <1> SUFFICES ASSUME TypeOK, ClockBounded, [Next]_vars PROVE ClockBounded'
    OBVIOUS
  <1>1. CASE Tick
    BY <1>1, BoundsAssumption DEF Tick, ClockBounded, TypeOK
  <1>2. ASSUME UNCHANGED clock PROVE ClockBounded'
    BY <1>2 DEF ClockBounded
  <1> QED
    BY <1>1, <1>2 DEF Next, Progress, vars, StartEvaluate, HistoryQuery,
       NothingToDo, AnomalyFound, QueryFails, CheckTimer, LatestQuery,
       StoredDwellActive, CandidatesMissing, BenefitMissing, SendPublish,
       PublishReturns, PublishFails, RecordGeneration, BrokerAppend, Store,
       MetricRow, Restart

-----------------------------------------------------------------------------
(* What is published, and what a restart remembers *)

(* A log only grows at its end. *)
LEMMA TopicGrows ==
  ASSUME TypeOK, NEW r \in inflight, BrokerAppend(r)
  PROVE  /\ \A s \in Scopes : \A i \in 1..Len(topic[s]) :
              i \in 1..Len(topic'[s]) /\ topic'[s][i] = topic[s][i]
         /\ \A s \in Scopes : \A i \in 1..Len(topic'[s]) :
              \/ i \in 1..Len(topic[s])
              \/ s = r.scope /\ topic'[s][i] = r
  <1>1. r \in Recommendation /\ r.scope \in Scopes
    BY DEF TypeOK, Recommendation
  <1>2. topic' = [topic EXCEPT ![r.scope] = Append(topic[r.scope], r)]
    BY DEF BrokerAppend
  <1>3. \A s \in Scopes : topic[s] \in Seq(Recommendation)
    BY DEF TypeOK
  <1>4. topic'[r.scope] = Append(topic[r.scope], r)
    BY <1>1, <1>2 DEF TypeOK
  <1>5. \A s \in Scopes : s # r.scope => topic'[s] = topic[s]
    BY <1>2 DEF TypeOK
  <1>6. /\ Len(topic'[r.scope]) = Len(topic[r.scope]) + 1
        /\ \A i \in 1..Len(topic[r.scope]) : topic'[r.scope][i] = topic[r.scope][i]
        /\ topic'[r.scope][Len(topic[r.scope]) + 1] = r
    BY <1>1, <1>3, <1>4
  <1>7. \A s \in Scopes : Len(topic[s]) \in Nat
    BY <1>3
  <1>8. \A i \in 1..Len(topic'[r.scope]) :
           i \in 1..Len(topic[r.scope]) \/ topic'[r.scope][i] = r
    BY <1>1, <1>6, <1>7
  <1>9. \A i \in 1..Len(topic[r.scope]) : i \in 1..Len(topic'[r.scope])
    BY <1>1, <1>6, <1>7
  <1> QED BY <1>1, <1>5, <1>6, <1>8, <1>9

(* Every message on its way to the log already rests on fresh nodes. *)
InflightFresh == \A r \in inflight : RestsOnFreshNodes(r)

(* A handler about to record has its message in the log. *)
RecordedInTopic ==
  \A h \in Handlers : eval[h].pc = "record" => InTopic(Draft(eval[h]))

LogInv == InflightFresh /\ EvidenceFresh /\ RecordedInTopic /\ TimerBacked

(* The guard of Publish is what the property says of its message. *)
LEMMA DraftFresh ==
  ASSUME NEW e \in Evaluation, EnoughCandidates(e)
  PROVE  RestsOnFreshNodes(Draft(e))
  <1>1. /\ Draft(e).evidence = Evidence(e.history, e.now)
        /\ Draft(e).created = e.now
    BY DEF Draft
  <1>2. DOMAIN Evidence(e.history, e.now) = Eligible(e.history, e.now)
    BY DEF Evidence
  <1>3. ASSUME NEW n \in Eligible(e.history, e.now)
        PROVE  /\ e.now - Evidence(e.history, e.now)[n] <= StaleAfter
               /\ Evidence(e.history, e.now)[n] - e.now <= FutureTolerance
    <2>1. Evidence(e.history, e.now)[n] = e.history[n].end
      BY DEF Evidence
    <2>2. /\ n \in Nodes /\ e.history[n] # NoRow
          /\ ~ (e.history[n].end > e.now + FutureTolerance)
          /\ ~ (e.now - e.history[n].end > StaleAfter)
      BY DEF Eligible, IsFuture, IsStale
    <2>3. e.history[n].end \in Int /\ e.now \in Int
      <3>1. e.history[n] \in Row /\ e.now \in Nat
        BY <2>2 DEF Evaluation
      <3>2. e.history[n].end \in WindowEnds
        BY <2>2, <3>1 DEF Row
      <3>3. WindowEnds \subseteq Nat
        BY ParametersAssumption
      <3>4. e.history[n].end \in Nat
        BY <3>2, <3>3
      <3>5. Nat \subseteq Int
        OBVIOUS
      <3> QED BY <3>1, <3>4, <3>5
    <2> QED BY <2>1, <2>2, <2>3, ParametersAssumption
  <1> QED BY <1>1, <1>2, <1>3 DEF RestsOnFreshNodes, EnoughCandidates

LEMMA LogInit == Init => LogInv
  <1> SUFFICES ASSUME Init PROVE LogInv
    OBVIOUS
  <1>1. \A h \in Handlers : eval[h].pc = "idle"
    BY IdlePc DEF Init
  <1> QED
    BY <1>1 DEF Init, LogInv, InflightFresh, EvidenceFresh, RecordedInTopic,
                TimerBacked

(* A step of one handler that neither records nor touches what LogInv says *)
(* of the log.                                                             *)
LEMMA LogQuiet ==
  ASSUME TypeOK, LogInv, NEW h \in Handlers, NEW e,
         eval' = [eval EXCEPT ![h] = e], e.pc # "record",
         UNCHANGED <<epoch, lastGenerated, inflight, topic, generated>>
  PROVE  LogInv'
  <1>1. \A g \in Handlers : eval'[g] = IF g = h THEN e ELSE eval[g]
    BY DEF TypeOK
  <1>2. RecordedInTopic'
    BY <1>1 DEF LogInv, RecordedInTopic, InTopic, Draft
  <1>3. InflightFresh' /\ EvidenceFresh' /\ TimerBacked'
    BY DEF LogInv, InflightFresh, EvidenceFresh, TimerBacked, InTopic
  <1> QED BY <1>2, <1>3 DEF LogInv

LEMMA LogNext == TypeOK /\ LogInv /\ [Next]_vars => LogInv'
  <1> SUFFICES ASSUME TypeOK, LogInv, [Next]_vars PROVE LogInv'
    OBVIOUS
  <1>0. \A h \in Handlers : eval[h] \in Evaluation
    BY DEF TypeOK
  <1>1. ASSUME NEW h \in Handlers, Return(h),
               UNCHANGED <<epoch, lastGenerated, inflight, topic, generated>>
        PROVE  LogInv'
    BY <1>1, LogQuiet, IdlePc DEF Return
  <1>2. ASSUME NEW h \in Handlers, NEW s \in Scopes, StartEvaluate(h, s)
        PROVE  LogInv'
    <2> DEFINE e == [Idle EXCEPT !.pc = "history", !.scope = s,
                                 !.deadline = clock + RequestTimeout]
    <2>1. e.pc = "history"
      BY DEF Idle
    <2>2. /\ eval' = [eval EXCEPT ![h] = e]
          /\ UNCHANGED <<epoch, lastGenerated, inflight, topic, generated>>
      BY <1>2 DEF StartEvaluate
    <2> HIDE DEF e
    <2> QED BY <2>1, <2>2, LogQuiet
  <1>3. ASSUME NEW h \in Handlers, HistoryQuery(h) PROVE LogInv'
    <2>1. PICK view \in [Nodes -> Row] :
            eval' = [eval EXCEPT ![h] = [@ EXCEPT !.pc = "historyRead",
                                                  !.history = view]]
      BY <1>3 DEF HistoryQuery
    <2> DEFINE e == [eval[h] EXCEPT !.pc = "historyRead", !.history = view]
    <2>2. e.pc = "historyRead"
      BY <1>0 DEF Evaluation
    <2>3. /\ eval' = [eval EXCEPT ![h] = e]
          /\ UNCHANGED <<epoch, lastGenerated, inflight, topic, generated>>
      BY <1>3, <2>1 DEF HistoryQuery
    <2> HIDE DEF e
    <2> QED BY <2>2, <2>3, LogQuiet
  <1>4. ASSUME NEW h \in Handlers,
               \/ NothingToDo(h) \/ QueryFails(h) \/ StoredDwellActive(h)
               \/ CandidatesMissing(h) \/ BenefitMissing(h) \/ PublishFails(h)
        PROVE  LogInv'
    <2>1. /\ Return(h)
          /\ UNCHANGED <<epoch, lastGenerated, inflight, topic, generated>>
      BY <1>4 DEF NothingToDo, QueryFails, StoredDwellActive,
                  CandidatesMissing, BenefitMissing, PublishFails
    <2> QED BY <1>1, <2>1
  <1>5. ASSUME NEW h \in Handlers, AnomalyFound(h) PROVE LogInv'
    <2> DEFINE e == [eval[h] EXCEPT !.pc = "dwell", !.now = clock]
    <2>1. e.pc = "dwell"
      BY <1>0 DEF Evaluation
    <2>2. /\ eval' = [eval EXCEPT ![h] = e]
          /\ UNCHANGED <<epoch, lastGenerated, inflight, topic, generated>>
      BY <1>5 DEF AnomalyFound
    <2> HIDE DEF e
    <2> QED BY <2>1, <2>2, LogQuiet
  <1>6. ASSUME NEW h \in Handlers, CheckTimer(h) PROVE LogInv'
    <2> DEFINE e == [eval[h] EXCEPT !.pc = "latest"]
    <2>1. e.pc = "latest"
      BY <1>0 DEF Evaluation
    <2>2. /\ eval' = [eval EXCEPT ![h] = e] \/ Return(h)
          /\ UNCHANGED <<epoch, lastGenerated, inflight, topic, generated>>
      BY <1>6 DEF CheckTimer
    <2> HIDE DEF e
    <2> QED BY <1>1, <2>1, <2>2, LogQuiet
  <1>7. ASSUME NEW h \in Handlers, LatestQuery(h) PROVE LogInv'
    <2>1. PICK t \in StoredTimes(eval[h].scope) \cup {NoTime} :
            eval' = [eval EXCEPT ![h] = [@ EXCEPT !.pc = "latestRead",
                                                  !.latest = t]]
      BY <1>7 DEF LatestQuery
    <2> DEFINE e == [eval[h] EXCEPT !.pc = "latestRead", !.latest = t]
    <2>2. e.pc = "latestRead"
      BY <1>0 DEF Evaluation
    <2>3. /\ eval' = [eval EXCEPT ![h] = e]
          /\ UNCHANGED <<epoch, lastGenerated, inflight, topic, generated>>
      BY <1>7, <2>1 DEF LatestQuery
    <2> HIDE DEF e
    <2> QED BY <2>2, <2>3, LogQuiet
  <1>8. ASSUME NEW h \in Handlers, SendPublish(h) PROVE LogInv'
    <2> DEFINE e == [eval[h] EXCEPT !.pc = "publish", !.no = sent + 1]
               d == [eval[h] EXCEPT !.no = sent + 1]
    <2>1. e.pc = "publish"
      BY <1>0 DEF Evaluation
    <2>2. /\ eval' = [eval EXCEPT ![h] = e]
          /\ inflight' = inflight \cup {Draft(d)}
          /\ UNCHANGED <<epoch, lastGenerated, topic, generated>>
          /\ EnoughCandidates(eval[h])
      BY <1>8 DEF SendPublish
    <2>3. d \in Evaluation /\ d.history = eval[h].history /\ d.now = eval[h].now
      <3>1. eval[h] \in Evaluation /\ sent + 1 \in Nat
        BY DEF TypeOK
      <3> QED BY <3>1, EvaluationUpdate DEF Evaluation
    <2>4. EnoughCandidates(d)
      BY <2>2, <2>3 DEF EnoughCandidates
    <2>5. RestsOnFreshNodes(Draft(d))
      BY <2>3, <2>4, DraftFresh
    <2> HIDE DEF d, e
    <2>6. InflightFresh'
      BY <2>2, <2>5 DEF LogInv, InflightFresh, RestsOnFreshNodes
    <2>7. \A g \in Handlers : eval'[g] = IF g = h THEN e ELSE eval[g]
      BY <2>2 DEF TypeOK
    <2>8. RecordedInTopic'
      BY <2>1, <2>2, <2>7 DEF LogInv, RecordedInTopic, InTopic, Draft
    <2>9. EvidenceFresh' /\ TimerBacked'
      BY <2>2 DEF LogInv, EvidenceFresh, TimerBacked, InTopic
    <2> QED BY <2>6, <2>8, <2>9 DEF LogInv
  <1>9. ASSUME NEW h \in Handlers, PublishReturns(h) PROVE LogInv'
    <2> DEFINE e == [eval[h] EXCEPT !.pc = "record"]
    <2>1. Draft(e) = Draft(eval[h])
      BY <1>0 DEF Draft, Evaluation
    <2>2. /\ eval' = [eval EXCEPT ![h] = e]
          /\ inflight' \subseteq inflight
          /\ InTopic(Draft(eval[h]))
          /\ UNCHANGED <<epoch, lastGenerated, topic, generated>>
      BY <1>9 DEF PublishReturns
    <2> HIDE DEF e
    <2>3. \A g \in Handlers : eval'[g] = IF g = h THEN e ELSE eval[g]
      BY <2>2 DEF TypeOK
    <2>4. RecordedInTopic'
      <3> SUFFICES ASSUME NEW g \in Handlers, eval'[g].pc = "record"
                   PROVE  InTopic(Draft(eval'[g]))
        BY <2>2 DEF RecordedInTopic, InTopic, Draft
      <3>1. CASE g = h
        BY <2>1, <2>2, <2>3, <3>1
      <3>2. CASE g # h
        BY <2>3, <3>2 DEF LogInv, RecordedInTopic
      <3> QED BY <3>1, <3>2
    <2>5. InflightFresh' /\ EvidenceFresh' /\ TimerBacked'
      BY <2>2 DEF LogInv, InflightFresh, EvidenceFresh, TimerBacked, InTopic
    <2> QED BY <2>4, <2>5 DEF LogInv
  <1>10. ASSUME NEW h \in Handlers, RecordGeneration(h) PROVE LogInv'
    <2> DEFINE d == Draft(eval[h])
    <2>1. d.scope = eval[h].scope /\ d.created = eval[h].now /\ d.epoch = epoch
      BY DEF Draft
    <2>2. /\ eval[h].pc = "record"
          /\ lastGenerated' = [lastGenerated EXCEPT ![eval[h].scope] = eval[h].now]
          /\ generated' = generated \cup {d}
          /\ eval' = [eval EXCEPT ![h] = Idle]
          /\ epoch' = epoch /\ inflight' = inflight /\ topic' = topic
      BY <1>10 DEF RecordGeneration, Return
    <2>3. InTopic(d)
      BY <2>2 DEF LogInv, RecordedInTopic
    <2> HIDE DEF d
    <2>4. \A g \in Handlers : eval'[g] = IF g = h THEN Idle ELSE eval[g]
      BY <2>2 DEF TypeOK
    <2>5. RecordedInTopic'
      BY <2>2, <2>4, IdlePc DEF LogInv, RecordedInTopic, InTopic, Draft
    <2>6. \A s \in Scopes : lastGenerated'[s] # NoTime =>
            \E r \in generated' : /\ r.scope = s
                                  /\ r.epoch = epoch
                                  /\ r.created = lastGenerated'[s]
      <3> TAKE s \in Scopes
      <3>1. CASE s = eval[h].scope
        <4>1. lastGenerated'[s] = eval[h].now
          BY <2>2, <3>1 DEF TypeOK
        <4> QED BY <2>1, <2>2, <3>1, <4>1
      <3>2. CASE s # eval[h].scope
        <4>1. lastGenerated'[s] = lastGenerated[s]
          BY <2>2, <3>2 DEF TypeOK
        <4> QED BY <2>2, <4>1 DEF LogInv, TimerBacked
      <3> QED BY <3>1, <3>2
    <2>7. TimerBacked'
      BY <2>2, <2>3, <2>6 DEF LogInv, TimerBacked, InTopic
    <2>8. InflightFresh' /\ EvidenceFresh'
      BY <2>2 DEF LogInv, InflightFresh, EvidenceFresh
    <2> QED BY <2>5, <2>7, <2>8 DEF LogInv
  <1>11. ASSUME NEW r \in inflight, BrokerAppend(r) PROVE LogInv'
    <2>1. UNCHANGED <<epoch, eval, lastGenerated, inflight, generated>>
      BY <1>11 DEF BrokerAppend
    <2>2. ASSUME NEW x, x.scope \in Scopes, InTopic(x)
          PROVE  \E i \in 1..Len(topic'[x.scope]) : topic'[x.scope][i] = x
      BY <1>11, <2>2, TopicGrows DEF InTopic
    <2>3. EvidenceFresh'
      BY <1>11, TopicGrows DEF LogInv, InflightFresh, EvidenceFresh
    <2>4. \A x \in generated : x.scope \in Scopes
      BY DEF TypeOK, Recommendation
    <2>5. \A h \in Handlers : Draft(eval[h]).scope \in Scopes
      BY <1>0 DEF Draft, Evaluation
    <2>6. RecordedInTopic'
      <3> SUFFICES ASSUME NEW h \in Handlers, eval[h].pc = "record"
                   PROVE  \E i \in 1..Len(topic'[eval[h].scope]) :
                            topic'[eval[h].scope][i] = Draft(eval[h])
        BY <2>1 DEF RecordedInTopic, InTopic, Draft
      <3>1. InTopic(Draft(eval[h]))
        BY DEF LogInv, RecordedInTopic
      <3>2. Draft(eval[h]).scope = eval[h].scope
        BY DEF Draft
      <3> QED BY <2>2, <2>5, <3>1, <3>2
    <2>7. TimerBacked'
      BY <2>1, <2>2, <2>4 DEF LogInv, TimerBacked, InTopic
    <2>8. InflightFresh'
      BY <2>1 DEF LogInv, InflightFresh
    <2> QED BY <2>3, <2>6, <2>7, <2>8 DEF LogInv
  <1>12. CASE Restart
    <2>1. /\ \A h \in Handlers : eval'[h].pc = "idle"
          /\ \A s \in Scopes : lastGenerated'[s] = NoTime
          /\ UNCHANGED <<inflight, topic, generated>>
      BY <1>12, IdlePc DEF Restart
    <2>2. RecordedInTopic' /\ TimerBacked'
      BY <2>1 DEF LogInv, RecordedInTopic, TimerBacked, InTopic
    <2>3. InflightFresh' /\ EvidenceFresh'
      BY <2>1 DEF LogInv, InflightFresh, EvidenceFresh
    <2> QED BY <2>2, <2>3 DEF LogInv
  <1>13. ASSUME UNCHANGED <<epoch, eval, lastGenerated, inflight, topic, generated>>
         PROVE  LogInv'
    BY <1>13 DEF LogInv, InflightFresh, EvidenceFresh, RecordedInTopic,
                 TimerBacked, InTopic, Draft
  <1>14. ASSUME NEW s \in Scopes, Store(s) PROVE LogInv'
    BY <1>13, <1>14 DEF Store
  <1>15. ASSUME NEW s \in Scopes, NEW n \in Nodes, NEW w \in WindowEnds,
                NEW q \in RowQualities, MetricRow(s, n, w, q)
         PROVE  LogInv'
    BY <1>13, <1>15 DEF MetricRow
  <1>16. CASE Tick
    BY <1>13, <1>16 DEF Tick
  <1>17. CASE UNCHANGED vars
    BY <1>13, <1>17 DEF vars
  <1> QED
    BY <1>2, <1>3, <1>4, <1>5, <1>6, <1>7, <1>8, <1>9, <1>10, <1>11, <1>12,
       <1>14, <1>15, <1>16, <1>17
    DEF Next, Progress

(* A failed query or publish starts no timer, and a recommendation that    *)
(* was reported as generated is in the Kafka log.                          *)
THEOREM TimerBackedHolds == Spec => []TimerBacked
  <1>1. Spec => [](TypeOK /\ LogInv)
    BY TypeInit, TypeNext, LogInit, LogNext, PTL DEF Spec
  <1>2. LogInv => TimerBacked
    BY DEF LogInv
  <1> QED BY <1>1, <1>2, PTL

(* Every message in the log rests on two nodes that were fresh when it was *)
(* created, for every skew between the two clocks.                         *)
THEOREM EvidenceFreshHolds == Spec => []EvidenceFresh
  <1>1. Spec => [](TypeOK /\ LogInv)
    BY TypeInit, TypeNext, LogInit, LogNext, PTL DEF Spec
  <1>2. LogInv => EvidenceFresh
    BY DEF LogInv
  <1> QED BY <1>1, <1>2, PTL

(* Two times at which one window is accepted. *)
LEMMA AcceptedSpan ==
  ASSUME NEW a \in Nat, NEW b \in Nat, NEW w \in Nat, NEW k \in Nat, NEW l \in Nat,
         a - w <= k, w - b <= l
  PROVE  a - b <= k + l
  OBVIOUS

(* Two messages under one recommendationID are close in time, because both *)
(* rest on the window the ID names and Propose accepted it for both.       *)
THEOREM IdentityBoundedHolds == Spec => []IdentityBounded
  <1>1. ASSUME TypeOK, LogInv PROVE IdentityBounded
    <2> SUFFICES ASSUME NEW s \in Scopes, NEW i \in 1..Len(topic[s]),
                        NEW j \in 1..Len(topic[s]),
                        SameID(topic[s][i], topic[s][j])
                 PROVE  topic[s][i].created - topic[s][j].created
                          <= StaleAfter + FutureTolerance
      BY DEF IdentityBounded
    <2>1. PICK w \in WindowEnds :
            IsWindowEnd(topic[s][i], w) /\ IsWindowEnd(topic[s][j], w)
      BY DEF SameID
    <2>2. /\ topic[s][i].created - w <= StaleAfter
          /\ w - topic[s][j].created <= FutureTolerance
      BY <1>1, <2>1 DEF LogInv, EvidenceFresh, RestsOnFreshNodes, IsWindowEnd
    <2>3. topic[s][i].created \in Nat /\ topic[s][j].created \in Nat
      <3>1. topic[s] \in Seq(Recommendation)
        BY <1>1 DEF TypeOK
      <3>2. topic[s][i] \in Recommendation /\ topic[s][j] \in Recommendation
        BY <3>1
      <3> QED BY <3>2 DEF Recommendation
    <2>4. w \in Nat /\ StaleAfter \in Nat /\ FutureTolerance \in Nat
      BY ParametersAssumption
    <2> QED BY <2>2, <2>3, <2>4, AcceptedSpan
  <1>2. Spec => [](TypeOK /\ LogInv)
    BY TypeInit, TypeNext, LogInit, LogNext, PTL DEF Spec
  <1> QED BY <1>1, <1>2, PTL

-----------------------------------------------------------------------------
(* The dwell across a restart *)

(* Nothing comes from a later process than the running one, and what       *)
(* storage held when it started comes from an earlier one.                 *)
EpochsPast ==
  /\ \A r \in inflight : r.epoch <= epoch
  /\ \A s \in Scopes : \A i \in 1..Len(topic[s]) : topic[s][i].epoch <= epoch

RecoveredOlder ==
  \A s \in Scopes : \A j \in 1..recovered[s] : topic[s][j].epoch < epoch

(* The answer of LatestRecommendation covers every recovered row. *)
LatestCovers ==
  \A h \in Handlers : eval[h].pc = "latestRead" =>
    \A j \in 1..recovered[eval[h].scope] :
      /\ eval[h].latest # NoTime
      /\ eval[h].latest >= StoredTime(topic[eval[h].scope][j].created)

InflightApart ==
  \A r \in inflight : r.epoch = epoch =>
    \A j \in 1..recovered[r.scope] :
      r.created - topic[r.scope][j].created > MinimumDwell - Precision

RestartInv ==
  EpochsPast /\ RecoveredOlder /\ LatestCovers /\ InflightApart /\ RestartDwell

(* Recovered rows lie in the log, and everything compared is a number. *)
LEMMA RestartTypes ==
  ASSUME TypeOK
  PROVE  /\ epoch \in Nat /\ MinimumDwell \in Nat /\ Precision \in Nat
         /\ \A s \in Scopes : \A j \in 1..recovered[s] :
              j \in 1..offset[s] /\ j \in 1..Len(topic[s])
         /\ \A s \in Scopes : \A i \in 1..offset[s] : i \in 1..Len(topic[s])
         /\ \A s \in Scopes : \A i \in 1..Len(topic[s]) :
              topic[s][i].created \in Nat /\ topic[s][i].epoch \in Nat
         /\ \A r \in inflight : /\ r.created \in Nat /\ r.epoch \in Nat
                                /\ r.scope \in Scopes
         /\ \A h \in Handlers : /\ eval[h] \in Evaluation
                                /\ eval[h].scope \in Scopes
                                /\ eval[h].now \in Nat
                                /\ eval[h].latest \in Int
  <1>1. \A s \in Scopes : \A i \in 1..Len(topic[s]) : topic[s][i] \in Recommendation
    BY DEF TypeOK
  <1>2. \A s \in Scopes : \A i \in 1..Len(topic[s]) :
          topic[s][i].created \in Nat /\ topic[s][i].epoch \in Nat
    BY <1>1 DEF Recommendation
  <1>3. \A r \in inflight : /\ r.created \in Nat /\ r.epoch \in Nat
                            /\ r.scope \in Scopes
    BY DEF TypeOK, Recommendation
  <1>4. \A h \in Handlers : eval[h] \in Evaluation
    BY DEF TypeOK
  <1>5. \A h \in Handlers : /\ eval[h].scope \in Scopes
                            /\ eval[h].now \in Nat
                            /\ eval[h].latest \in Int
    BY <1>4 DEF Evaluation, NoTime
  <1>6. \A s \in Scopes : /\ recovered[s] \in Nat /\ offset[s] \in Nat
                          /\ Len(topic[s]) \in Nat
                          /\ recovered[s] <= offset[s]
                          /\ offset[s] <= Len(topic[s])
    BY DEF TypeOK
  <1>7. \A s \in Scopes : \A i \in 1..offset[s] : i \in 1..Len(topic[s])
    BY <1>6
  <1>8. \A s \in Scopes : \A j \in 1..recovered[s] : j \in 1..offset[s]
    BY <1>6
  <1> QED
    BY <1>2, <1>3, <1>4, <1>5, <1>7, <1>8, ParametersAssumption DEF TypeOK

LEMMA RestartInit == Init => RestartInv
  <1> SUFFICES ASSUME Init PROVE RestartInv
    OBVIOUS
  <1>1. \A h \in Handlers : eval[h].pc = "idle"
    BY IdlePc DEF Init
  <1>2. \A s \in Scopes : Len(topic[s]) = 0 /\ recovered[s] = 0
    BY DEF Init
  <1>3. inflight = {}
    BY DEF Init
  <1> QED
    BY <1>1, <1>2, <1>3 DEF RestartInv, EpochsPast, RecoveredOlder,
       LatestCovers, InflightApart, RestartDwell

(* A step of one handler that does not answer the stored-row query. *)
LEMMA RestartQuiet ==
  ASSUME TypeOK, RestartInv, NEW h \in Handlers, NEW e,
         eval' = [eval EXCEPT ![h] = e], e.pc # "latestRead",
         inflight' \subseteq inflight, UNCHANGED <<epoch, topic, recovered>>
  PROVE  RestartInv'
  <1>1. \A g \in Handlers : eval'[g] = IF g = h THEN e ELSE eval[g]
    BY DEF TypeOK
  <1>2. LatestCovers'
    BY <1>1 DEF RestartInv, LatestCovers, StoredTime
  <1>3. EpochsPast' /\ RecoveredOlder' /\ InflightApart' /\ RestartDwell'
    BY DEF RestartInv, EpochsPast, RecoveredOlder, InflightApart, RestartDwell
  <1> QED BY <1>2, <1>3 DEF RestartInv

(* What the publish guard takes from the stored rows, whatever their age:  *)
(* the dwell after everything that was stored when the process started.    *)
LEMMA ClearOfRecovered ==
  ASSUME TypeOK, RestartInv, NEW h \in Handlers, SendPublish(h),
         NEW j \in 1..recovered[eval[h].scope]
  PROVE  eval[h].now - topic[eval[h].scope][j].created > MinimumDwell - Precision
  <1>0. eval[h].pc = "latestRead" /\ DwellOver(eval[h].now, eval[h].latest)
    BY DEF SendPublish
  <1> DEFINE c == topic[eval[h].scope][j].created
  <1>1. c \in Nat
    BY RestartTypes
  <1>2. eval[h].latest # NoTime /\ eval[h].latest >= StoredTime(c)
    BY <1>0 DEF RestartInv, LatestCovers
  <1>3. eval[h].now - eval[h].latest >= MinimumDwell
    BY <1>0, <1>2 DEF DwellOver
  <1> HIDE DEF c
  <1>4. StoredTime(c) \in Nat /\ c - StoredTime(c) < Precision
    BY <1>1, StoredTimeBounds
  <1>5. /\ eval[h].now \in Nat /\ eval[h].latest \in Int
        /\ MinimumDwell \in Nat /\ Precision \in Nat
    BY RestartTypes
  <1>6. eval[h].now - c > MinimumDwell - Precision
    BY <1>1, <1>2, <1>3, <1>4, <1>5
  <1> QED BY <1>6 DEF c

LEMMA RestartNext == TypeOK /\ RestartInv /\ [Next]_vars => RestartInv'
  <1> SUFFICES ASSUME TypeOK, RestartInv, [Next]_vars PROVE RestartInv'
    OBVIOUS
  <1>0. \A h \in Handlers : eval[h] \in Evaluation
    BY DEF TypeOK
  <1>1. ASSUME NEW h \in Handlers, Return(h),
               UNCHANGED <<epoch, inflight, topic, recovered>>
        PROVE  RestartInv'
    BY <1>1, RestartQuiet, IdlePc DEF Return
  <1>2. ASSUME NEW h \in Handlers, NEW s \in Scopes, StartEvaluate(h, s)
        PROVE  RestartInv'
    <2> DEFINE e == [Idle EXCEPT !.pc = "history", !.scope = s,
                                 !.deadline = clock + RequestTimeout]
    <2>1. e.pc = "history"
      BY DEF Idle
    <2>2. /\ eval' = [eval EXCEPT ![h] = e]
          /\ UNCHANGED <<epoch, inflight, topic, recovered>>
      BY <1>2 DEF StartEvaluate
    <2> HIDE DEF e
    <2> QED BY <2>1, <2>2, RestartQuiet
  <1>3. ASSUME NEW h \in Handlers, HistoryQuery(h) PROVE RestartInv'
    <2>1. PICK view \in [Nodes -> Row] :
            eval' = [eval EXCEPT ![h] = [@ EXCEPT !.pc = "historyRead",
                                                  !.history = view]]
      BY <1>3 DEF HistoryQuery
    <2> DEFINE e == [eval[h] EXCEPT !.pc = "historyRead", !.history = view]
    <2>2. e.pc = "historyRead"
      BY <1>0 DEF Evaluation
    <2>3. /\ eval' = [eval EXCEPT ![h] = e]
          /\ UNCHANGED <<epoch, inflight, topic, recovered>>
      BY <1>3, <2>1 DEF HistoryQuery
    <2> HIDE DEF e
    <2> QED BY <2>2, <2>3, RestartQuiet
  <1>4. ASSUME NEW h \in Handlers,
               \/ NothingToDo(h) \/ QueryFails(h) \/ StoredDwellActive(h)
               \/ CandidatesMissing(h) \/ BenefitMissing(h) \/ PublishFails(h)
               \/ RecordGeneration(h)
        PROVE  RestartInv'
    <2>1. Return(h) /\ UNCHANGED <<epoch, inflight, topic, recovered>>
      BY <1>4 DEF NothingToDo, QueryFails, StoredDwellActive, RecordGeneration,
                  CandidatesMissing, BenefitMissing, PublishFails
    <2> QED BY <1>1, <2>1
  <1>5. ASSUME NEW h \in Handlers, AnomalyFound(h) PROVE RestartInv'
    <2> DEFINE e == [eval[h] EXCEPT !.pc = "dwell", !.now = clock]
    <2>1. e.pc = "dwell"
      BY <1>0 DEF Evaluation
    <2>2. /\ eval' = [eval EXCEPT ![h] = e]
          /\ UNCHANGED <<epoch, inflight, topic, recovered>>
      BY <1>5 DEF AnomalyFound
    <2> HIDE DEF e
    <2> QED BY <2>1, <2>2, RestartQuiet
  <1>6. ASSUME NEW h \in Handlers, CheckTimer(h) PROVE RestartInv'
    <2> DEFINE e == [eval[h] EXCEPT !.pc = "latest"]
    <2>1. e.pc = "latest"
      BY <1>0 DEF Evaluation
    <2>2. /\ eval' = [eval EXCEPT ![h] = e] \/ Return(h)
          /\ UNCHANGED <<epoch, inflight, topic, recovered>>
      BY <1>6 DEF CheckTimer
    <2> HIDE DEF e
    <2> QED BY <1>1, <2>1, <2>2, RestartQuiet
  <1>7. ASSUME NEW h \in Handlers, LatestQuery(h) PROVE RestartInv'
    <2>1. PICK t \in StoredTimes(eval[h].scope) \cup {NoTime} :
            /\ IsLatestStored(t, eval[h].scope)
            /\ eval' = [eval EXCEPT ![h] = [@ EXCEPT !.pc = "latestRead",
                                                     !.latest = t]]
      BY <1>7 DEF LatestQuery
    <2>2. UNCHANGED <<epoch, inflight, topic, recovered>>
      BY <1>7 DEF LatestQuery
    <2>3. /\ eval'[h].latest = t /\ eval'[h].scope = eval[h].scope
          /\ \A g \in Handlers : g # h => eval'[g] = eval[g]
      BY <1>0, <2>1 DEF TypeOK, Evaluation
    <2>4. ASSUME NEW j \in 1..recovered[eval[h].scope]
          PROVE  t # NoTime /\ t >= StoredTime(topic[eval[h].scope][j].created)
      <3>1. j \in 1..offset[eval[h].scope]
        BY RestartTypes
      <3>2. StoredTime(topic[eval[h].scope][j].created)
              \in StoredTimes(eval[h].scope)
        BY <3>1 DEF StoredTimes
      <3>3. /\ t \in StoredTimes(eval[h].scope)
            /\ \A u \in StoredTimes(eval[h].scope) : u <= t
        BY <2>1, <3>2 DEF IsLatestStored
      <3>4. \A u \in StoredTimes(eval[h].scope) : u \in Nat
        <4>1. \A i \in 1..offset[eval[h].scope] :
                topic[eval[h].scope][i].created \in Nat
          BY RestartTypes
        <4> QED BY <4>1, StoredTimeBounds DEF StoredTimes
      <3> QED BY <3>2, <3>3, <3>4 DEF NoTime
    <2>5. LatestCovers'
      BY <2>2, <2>3, <2>4 DEF RestartInv, LatestCovers, StoredTime
    <2>6. EpochsPast' /\ RecoveredOlder' /\ InflightApart' /\ RestartDwell'
      BY <2>2 DEF RestartInv, EpochsPast, RecoveredOlder, InflightApart,
                  RestartDwell
    <2> QED BY <2>5, <2>6 DEF RestartInv
  <1>8. ASSUME NEW h \in Handlers, SendPublish(h) PROVE RestartInv'
    <2> DEFINE e == [eval[h] EXCEPT !.pc = "publish", !.no = sent + 1]
               d == Draft([eval[h] EXCEPT !.no = sent + 1])
    <2>1. e.pc = "publish"
      BY <1>0 DEF Evaluation
    <2>2. d.scope = eval[h].scope /\ d.created = eval[h].now /\ d.epoch = epoch
      BY <1>0 DEF Draft, Evaluation
    <2>3. /\ eval' = [eval EXCEPT ![h] = e]
          /\ inflight' = inflight \cup {d}
          /\ UNCHANGED <<epoch, topic, recovered>>
          /\ eval[h].pc = "latestRead"
          /\ DwellOver(eval[h].now, eval[h].latest)
      BY <1>8 DEF SendPublish
    <2> HIDE DEF d, e
    <2>4. \A g \in Handlers : eval'[g] = IF g = h THEN e ELSE eval[g]
      BY <2>3 DEF TypeOK
    <2>5. LatestCovers'
      BY <2>1, <2>3, <2>4 DEF RestartInv, LatestCovers, StoredTime
    <2>6. \A j \in 1..recovered[eval[h].scope] :
            eval[h].now - topic[eval[h].scope][j].created > MinimumDwell - Precision
      BY <1>8, ClearOfRecovered
    <2>7. InflightApart'
      BY <2>2, <2>3, <2>6 DEF RestartInv, InflightApart
    <2>8. EpochsPast'
      BY <2>2, <2>3, RestartTypes DEF RestartInv, EpochsPast
    <2>9. RecoveredOlder' /\ RestartDwell'
      BY <2>3 DEF RestartInv, RecoveredOlder, RestartDwell
    <2> QED BY <2>5, <2>7, <2>8, <2>9 DEF RestartInv
  <1>9. ASSUME NEW h \in Handlers, PublishReturns(h) PROVE RestartInv'
    <2> DEFINE e == [eval[h] EXCEPT !.pc = "record"]
    <2>1. e.pc = "record"
      BY <1>0 DEF Evaluation
    <2>2. /\ eval' = [eval EXCEPT ![h] = e]
          /\ inflight' \subseteq inflight
          /\ UNCHANGED <<epoch, topic, recovered>>
      BY <1>9 DEF PublishReturns
    <2> HIDE DEF e
    <2> QED BY <2>1, <2>2, RestartQuiet
  <1>10. ASSUME NEW r \in inflight, BrokerAppend(r) PROVE RestartInv'
    <2>1. UNCHANGED <<epoch, eval, inflight, recovered>>
      BY <1>10 DEF BrokerAppend
    <2>2. \A s \in Scopes : \A j \in 1..recovered[s] : topic'[s][j] = topic[s][j]
      BY <1>10, TopicGrows, RestartTypes
    <2>3. EpochsPast'
      BY <1>10, <2>1, TopicGrows DEF RestartInv, EpochsPast
    <2>4. RecoveredOlder'
      BY <2>1, <2>2 DEF RestartInv, RecoveredOlder
    <2>5. LatestCovers'
      BY <2>1, <2>2, RestartTypes DEF RestartInv, LatestCovers, StoredTime
    <2>6. InflightApart'
      BY <2>1, <2>2, RestartTypes DEF RestartInv, InflightApart
    <2>7. RestartDwell'
      <3> SUFFICES ASSUME NEW s \in Scopes, NEW i \in 1..Len(topic'[s]),
                          NEW j \in 1..recovered[s], topic'[s][i].epoch = epoch
                   PROVE  topic'[s][i].created - topic'[s][j].created
                            > MinimumDwell - Precision
        BY <2>1 DEF RestartDwell
      <3>1. CASE i \in 1..Len(topic[s])
        BY <1>10, <2>2, <3>1, TopicGrows DEF RestartInv, RestartDwell
      <3>2. CASE s = r.scope /\ topic'[s][i] = r
        BY <2>2, <3>2 DEF RestartInv, InflightApart
      <3> QED BY <1>10, <3>1, <3>2, TopicGrows
    <2> QED BY <2>3, <2>4, <2>5, <2>6, <2>7 DEF RestartInv
  <1>11. CASE Restart
    <2>1. /\ epoch' = epoch + 1 /\ recovered' = offset
          /\ UNCHANGED <<inflight, topic>>
          /\ \A h \in Handlers : eval'[h].pc = "idle"
      BY <1>11, IdlePc DEF Restart
    <2>2. /\ \A r \in inflight : r.epoch < epoch'
          /\ \A s \in Scopes : \A i \in 1..Len(topic[s]) : topic[s][i].epoch < epoch'
      BY <2>1, RestartTypes DEF RestartInv, EpochsPast
    <2>3. EpochsPast'
      BY <2>1, <2>2, RestartTypes DEF EpochsPast
    <2>4. RecoveredOlder'
      BY <2>1, <2>2, RestartTypes DEF RecoveredOlder
    <2>5. LatestCovers'
      BY <2>1 DEF LatestCovers
    <2>6. InflightApart' /\ RestartDwell'
      <3>1. /\ \A r \in inflight : r.epoch # epoch'
            /\ \A s \in Scopes : \A i \in 1..Len(topic[s]) :
                 topic[s][i].epoch # epoch'
        BY <2>1, <2>2, RestartTypes
      <3> QED BY <2>1, <3>1 DEF InflightApart, RestartDwell
    <2> QED BY <2>3, <2>4, <2>5, <2>6 DEF RestartInv
  <1>12. ASSUME UNCHANGED <<epoch, eval, inflight, topic, recovered>>
         PROVE  RestartInv'
    BY <1>12 DEF RestartInv, EpochsPast, RecoveredOlder, LatestCovers,
                 InflightApart, RestartDwell, StoredTime
  <1>13. ASSUME NEW s \in Scopes, Store(s) PROVE RestartInv'
    BY <1>12, <1>13 DEF Store
  <1>14. ASSUME NEW s \in Scopes, NEW n \in Nodes, NEW w \in WindowEnds,
                NEW q \in RowQualities, MetricRow(s, n, w, q)
         PROVE  RestartInv'
    BY <1>12, <1>14 DEF MetricRow
  <1>15. CASE Tick
    BY <1>12, <1>15 DEF Tick
  <1>16. CASE UNCHANGED vars
    BY <1>12, <1>16 DEF vars
  <1> QED
    BY <1>2, <1>3, <1>4, <1>5, <1>6, <1>7, <1>8, <1>9, <1>10, <1>11, <1>13,
       <1>14, <1>15, <1>16
    DEF Next, Progress

(* What ClickHouse had stored when a process started keeps its dwell from  *)
(* everything that process publishes, less the precision of created_at.    *)
THEOREM RestartDwellHolds == Spec => []RestartDwell
  <1>1. Spec => [](TypeOK /\ RestartInv)
    BY TypeInit, TypeNext, RestartInit, RestartNext, PTL DEF Spec
  <1>2. RestartInv => RestartDwell
    BY DEF RestartInv
  <1> QED BY <1>1, <1>2, PTL

-----------------------------------------------------------------------------
(* The service implements the limiter *)

(* The four variables of the limiter, as the service shows them. *)
Granted(s) == {r.created : r \in {g \in Handed(s) : g.epoch = epoch}}

Former(s) == {r.created : r \in {g \in Handed(s) : g.epoch < epoch}}

Barred(s) == {topic[s][i].created : i \in 1..recovered[s]}

granted == [s \in Scopes |-> Granted(s)]
confirmed == [s \in Scopes |-> Issued(s)]
former == [s \in Scopes |-> Former(s)]
barred == [s \in Scopes |-> Barred(s)]

(* Nothing was handed over with a creation time still to come. *)
HandedPast ==
  /\ \A r \in inflight : r.created <= clock
  /\ \A s \in Scopes : \A i \in 1..Len(topic[s]) : topic[s][i].created <= clock

LEMMA HandedNext ==
  ASSUME TypeOK, DwellInv, HandedPast, [Next]_vars
  PROVE  HandedPast'
  <1>1. ASSUME NEW h \in Handlers, SendPublish(h) PROVE HandedPast'
    <2> DEFINE d == Draft([eval[h] EXCEPT !.no = sent + 1])
    <2>1. eval[h] \in Evaluation
      BY DEF TypeOK
    <2>2. d.created = eval[h].now
      BY <2>1 DEF Draft, Evaluation
    <2>3. eval[h].now <= clock
      BY <1>1 DEF SendPublish, DwellInv, HandlerTimes, Cleared
    <2>4. inflight' = inflight \cup {d} /\ UNCHANGED <<clock, topic>>
      BY <1>1 DEF SendPublish
    <2> HIDE DEF d
    <2> QED BY <2>2, <2>3, <2>4 DEF HandedPast
  <1>2. ASSUME NEW r \in inflight, BrokerAppend(r) PROVE HandedPast'
    <2>1. UNCHANGED <<clock, inflight>>
      BY <1>2 DEF BrokerAppend
    <2> QED BY <1>2, <2>1, TopicGrows DEF HandedPast
  <1>3. CASE Tick
    <2>1. UNCHANGED <<inflight, topic>> /\ clock' = clock + 1
      BY <1>3 DEF Tick
    <2> QED BY <2>1, RestartTypes, DwellTypes DEF HandedPast
  <1>4. ASSUME inflight' \subseteq inflight, UNCHANGED <<clock, topic>>
        PROVE  HandedPast'
    BY <1>4 DEF HandedPast
  <1>5. ASSUME NEW h \in Handlers, PublishReturns(h) PROVE HandedPast'
    BY <1>4, <1>5 DEF PublishReturns
  <1> QED
    BY <1>1, <1>2, <1>3, <1>4, <1>5 DEF Next, Progress, vars, StartEvaluate,
       HistoryQuery, NothingToDo, AnomalyFound, QueryFails, CheckTimer, LatestQuery,
       StoredDwellActive, CandidatesMissing, BenefitMissing, PublishFails,
       RecordGeneration, Store, MetricRow, Restart

LimiterInv == DwellInv /\ LogInv /\ RestartInv /\ HandedPast /\ ClockBounded

(* A message handed to the writer is one the limiter grants. *)
LEMMA SendGrants ==
  ASSUME TypeOK, LimiterInv, NEW h \in Handlers, SendPublish(h)
  PROVE  Limiter!Next
  <1>1. PICK z, u, d : /\ z = eval[h].scope /\ u = eval[h].now
                       /\ d = Draft([eval[h] EXCEPT !.no = sent + 1])
    OBVIOUS
  <1>2. d.scope = z /\ d.created = u /\ d.epoch = epoch
    <2>1. eval[h] \in Evaluation
      BY DEF TypeOK
    <2> QED BY <1>1, <2>1 DEF Draft, Evaluation
  <1>3. /\ inflight' = inflight \cup {d}
        /\ UNCHANGED <<epoch, topic, generated, recovered>>
    BY <1>1 DEF SendPublish
  <1>4. /\ u <= clock /\ eval[h].pc \in Cleared
        /\ clock <= eval[h].deadline
    BY <1>1 DEF SendPublish, InTime, LimiterInv, DwellInv, HandlerTimes, Cleared
  <1>5. z \in Scopes /\ u \in Nat /\ u \in 0..MaxTime
    BY <1>1, <1>4, DwellTypes, BoundsAssumption DEF LimiterInv, ClockBounded
  <1>6. Handed(z)' = Handed(z) \cup {d}
    BY <1>2, <1>3 DEF Handed
  <1>7. \A s \in Scopes : s # z => Handed(s)' = Handed(s)
    BY <1>2, <1>3 DEF Handed
  <1>8. Granted(z)' = Granted(z) \cup {u}
    BY <1>2, <1>3, <1>6 DEF Granted
  <1>9. \A s \in Scopes : s # z => Granted(s)' = Granted(s)
    BY <1>3, <1>7 DEF Granted
  <1>10. granted' = [granted EXCEPT ![z] = @ \cup {u}]
    BY <1>5, <1>8, <1>9 DEF granted
  <1>11. \A s \in Scopes : Former(s)' = Former(s)
    <2>1. ~ (d.epoch < epoch)
      BY <1>2, DwellTypes
    <2> QED BY <1>3, <1>6, <1>7, <2>1 DEF Former
  <1>12. UNCHANGED <<confirmed, former, barred>>
    BY <1>3, <1>11 DEF confirmed, former, barred, Issued, Barred
  <1>13. ASSUME NEW t \in Issued(z)
         PROVE  u <= t + RequestTimeout \/ u >= t + MinimumDwell - RequestTimeout
    <2>1. PICK r \in generated : r.scope = z /\ r.epoch = epoch /\ r.created = t
      BY DEF Issued
    <2>2. Apart(u, t)
      BY <1>1, <1>4, <2>1 DEF LimiterInv, DwellInv, ClearedApart
    <2>3. t \in Nat
      BY <2>1, DwellTypes
    <2> QED BY <1>5, <2>2, <2>3, DwellTypes DEF Apart
  <1>14. ASSUME NEW t \in Barred(z) PROVE u - t > MinimumDwell - Precision
    BY <1>1, ClearOfRecovered DEF Barred, LimiterInv
  <1>15. Limiter!Grant(z, u)
    <2>1. \A t \in confirmed[z] : Limiter!Clear(t, u)
      BY <1>5, <1>13 DEF confirmed, Limiter!Clear
    <2>2. \A t \in barred[z] : u - t > MinimumDwell - Precision
      BY <1>5, <1>14 DEF barred
    <2> QED
      BY <1>10, <1>12, <2>1, <2>2
      DEF Limiter!Grant, granted, confirmed, former, barred, Granted, Former, Barred
  <1> QED BY <1>5, <1>15 DEF Limiter!Next

(* A recommendation reported as generated is one the limiter confirms. *)
LEMMA RecordConfirms ==
  ASSUME TypeOK, LimiterInv, NEW h \in Handlers, RecordGeneration(h)
  PROVE  Limiter!Next
  <1>1. PICK z, t, d : z = eval[h].scope /\ t = eval[h].now /\ d = Draft(eval[h])
    OBVIOUS
  <1>2. d.scope = z /\ d.created = t /\ d.epoch = epoch
    BY <1>1 DEF Draft
  <1>3. /\ generated' = generated \cup {d}
        /\ UNCHANGED <<epoch, inflight, topic, recovered>>
    BY <1>1 DEF RecordGeneration
  <1>4. /\ eval[h].pc = "record" /\ t <= clock /\ clock <= eval[h].deadline
        /\ eval[h].deadline <= t + RequestTimeout
    BY <1>1 DEF RecordGeneration, LimiterInv, DwellInv, HandlerTimes, Cleared
  <1>5. z \in Scopes /\ t \in Nat /\ t \in 0..MaxTime /\ clock <= t + RequestTimeout
    <2>1. /\ z \in Scopes /\ t \in Nat /\ clock \in Nat
          /\ eval[h].deadline \in Nat /\ RequestTimeout \in Nat
      BY <1>1, DwellTypes
    <2> QED BY <1>4, <2>1, BoundsAssumption DEF LimiterInv, ClockBounded
  <1>6. t \in Granted(z)
    <2>1. InTopic(d)
      BY <1>1, <1>4 DEF LimiterInv, LogInv, RecordedInTopic
    <2>2. d \in Handed(z)
      BY <1>2, <2>1 DEF Handed, InTopic
    <2> QED BY <1>2, <2>2 DEF Granted
  <1>7. ASSUME NEW u \in Granted(z) PROVE u <= t + RequestTimeout
    <2>1. PICK r \in Handed(z) : r.created = u
      BY DEF Granted
    <2>2. u \in Nat
      BY <1>5, <2>1, RestartTypes DEF Handed
    <2>3. u <= clock
      BY <1>5, <2>1 DEF Handed, LimiterInv, HandedPast
    <2> QED BY <1>5, <2>2, <2>3, DwellTypes
  <1>8. Issued(z)' = Issued(z) \cup {t}
    BY <1>2, <1>3 DEF Issued
  <1>9. \A s \in Scopes : s # z => Issued(s)' = Issued(s)
    BY <1>2, <1>3 DEF Issued
  <1>10. confirmed' = [confirmed EXCEPT ![z] = @ \cup {t}]
    BY <1>5, <1>8, <1>9 DEF confirmed
  <1>11. UNCHANGED <<granted, former, barred>>
    BY <1>3 DEF granted, former, barred, Granted, Former, Barred, Handed
  <1>12. Limiter!Confirm(z, t)
    <2>1. t \in granted[z]
      BY <1>5, <1>6 DEF granted
    <2>2. \A u \in granted[z] : Limiter!Clear(t, u)
      BY <1>5, <1>7 DEF granted, Limiter!Clear
    <2> QED
      BY <1>10, <1>11, <2>1, <2>2
      DEF Limiter!Confirm, granted, confirmed, former, barred, Granted, Former, Barred
  <1> QED BY <1>5, <1>12 DEF Limiter!Next

(* A restart starts the limiter afresh: what the new process finds stored  *)
(* was handed over before, and bars as much as the old one found, or more. *)
LEMMA RestartStartsAfresh ==
  ASSUME TypeOK, LimiterInv, Restart
  PROVE  Limiter!Next
  <1>1. /\ epoch' = epoch + 1 /\ recovered' = offset /\ epoch \in Nat
        /\ UNCHANGED <<inflight, topic, generated>>
    BY DwellTypes DEF Restart
  <1>2. ASSUME NEW s \in Scopes, NEW r \in Handed(s)
        PROVE  r.epoch < epoch + 1 /\ r.epoch # epoch + 1
               /\ (r.epoch = epoch \/ r.epoch < epoch)
    <2>1. r.epoch \in Nat
      BY RestartTypes DEF Handed
    <2>2. r.epoch <= epoch
      BY DEF Handed, LimiterInv, RestartInv, EpochsPast
    <2> QED BY <1>1, <2>1, <2>2
  <1>3. \A s \in Scopes : Handed(s)' = Handed(s)
    BY <1>1 DEF Handed
  <1>4. granted' = [s \in Scopes |-> {}]
    <2>1. \A s \in Scopes : Granted(s)' = {}
      BY <1>1, <1>2, <1>3 DEF Granted
    <2> QED BY <2>1 DEF granted
  <1>5. confirmed' = [s \in Scopes |-> {}]
    <2>1. \A r \in generated : r.epoch # epoch + 1
      BY <1>1, DwellTypes DEF LimiterInv, DwellInv, GeneratedPast
    <2>2. \A s \in Scopes : Issued(s)' = {}
      BY <1>1, <2>1 DEF Issued
    <2> QED BY <2>2 DEF confirmed
  <1>6. ASSUME NEW s \in Scopes PROVE Former(s)' = Former(s) \cup Granted(s)
    <2>1. Former(s)' = {r.created : r \in Handed(s)}
      BY <1>1, <1>2, <1>3 DEF Former
    <2>2. Former(s) \cup Granted(s) = {r.created : r \in Handed(s)}
      BY <1>1, <1>2 DEF Former, Granted
    <2> QED BY <2>1, <2>2
  <1>7. former' = [s \in Scopes |-> former[s] \cup granted[s]]
    BY <1>6 DEF former, granted
  <1>8. \A s \in Scopes : Barred(s)' = {topic[s][i].created : i \in 1..offset[s]}
    BY <1>1 DEF Barred
  <1>9. ASSUME NEW s \in Scopes, NEW c \in Barred(s)'
        PROVE  c \in 0..MaxTime /\ c \in Former(s)'
    <2>1. PICK i \in 1..offset[s] : c = topic[s][i].created
      BY <1>8
    <2>2. i \in 1..Len(topic[s]) /\ c \in Nat
      BY <2>1, RestartTypes
    <2>3. c <= clock
      BY <2>1, <2>2 DEF LimiterInv, HandedPast
    <2>4. topic[s][i] \in Handed(s)
      BY <2>2 DEF Handed
    <2>5. c \in Former(s)'
      BY <1>1, <1>2, <1>3, <2>1, <2>4 DEF Former
    <2> QED BY <2>2, <2>3, <2>5, BoundsAssumption, DwellTypes DEF LimiterInv, ClockBounded
  <1>10. \A s \in Scopes : Barred(s) \subseteq Barred(s)'
    BY <1>8, RestartTypes DEF Barred
  <1>11. /\ barred' \in [Scopes -> SUBSET (0..MaxTime)]
         /\ \A s \in Scopes : barred[s] \subseteq barred'[s] /\ barred'[s] \subseteq former'[s]
    BY <1>9, <1>10 DEF barred, former
  <1> QED
    BY <1>4, <1>5, <1>7, <1>11
    DEF Limiter!Next, Limiter!StartAfresh, granted, confirmed, former, barred,
        Granted, Former, Barred

(* What the limiter does not see: the way of a message between the writer  *)
(* and the log leaves the set of what was handed over as it is.            *)
LEMMA HandedMoves ==
  ASSUME TypeOK,
         \/ \E h \in Handlers : PublishReturns(h)
         \/ \E r \in inflight : BrokerAppend(r)
  PROVE  /\ \A s \in Scopes : Handed(s)' = Handed(s)
         /\ UNCHANGED <<epoch, generated, recovered>>
         /\ \A s \in Scopes : \A i \in 1..recovered[s] : topic'[s][i] = topic[s][i]
  <1>1. ASSUME NEW h \in Handlers, PublishReturns(h) PROVE \A s \in Scopes : Handed(s)' = Handed(s)
    <2>1. PICK d : d = Draft(eval[h])
      OBVIOUS
    <2>2. inflight' = inflight \ {d} /\ InTopic(d) /\ topic' = topic
      BY <1>1, <2>1 DEF PublishReturns
    <2>3. d \in {topic[d.scope][i] : i \in 1..Len(topic[d.scope])}
      BY <2>2 DEF InTopic
    <2> QED BY <2>2, <2>3 DEF Handed
  <1>2. ASSUME NEW r \in inflight, BrokerAppend(r)
        PROVE  /\ \A s \in Scopes : Handed(s)' = Handed(s)
               /\ \A s \in Scopes : \A i \in 1..recovered[s] : topic'[s][i] = topic[s][i]
    <2>1. inflight' = inflight
      BY <1>2 DEF BrokerAppend
    <2>2. ASSUME NEW s \in Scopes, NEW x PROVE x \in Handed(s)' <=> x \in Handed(s)
      <3>1. x \in Handed(s) => x \in Handed(s)'
        BY <1>2, <2>1, TopicGrows DEF Handed
      <3>2. x \in Handed(s)' => x \in Handed(s)
        BY <1>2, <2>1, TopicGrows DEF Handed
      <3> QED BY <3>1, <3>2
    <2> QED BY <1>2, <2>2, TopicGrows, RestartTypes
  <1>3. UNCHANGED <<epoch, generated, recovered>>
    BY DEF PublishReturns, BrokerAppend
  <1>4. ASSUME NEW h \in Handlers, PublishReturns(h) PROVE topic' = topic
    BY <1>4 DEF PublishReturns
  <1> QED BY <1>1, <1>2, <1>3, <1>4

(* Every step of the service is a step of the limiter or leaves it alone. *)
LEMMA LimiterStep ==
  ASSUME TypeOK, LimiterInv, [Next]_vars
  PROVE  [Limiter!Next]_(Limiter!vars)
  <1> DEFINE Still == UNCHANGED <<granted, confirmed, former, barred>>
  <1>1. Still => UNCHANGED Limiter!vars
    BY DEF Limiter!vars, granted, confirmed, former, barred, Granted, Former, Barred
  <1>2. ASSUME \A s \in Scopes : Handed(s)' = Handed(s),
               UNCHANGED <<epoch, generated, recovered>>,
               \A s \in Scopes : \A i \in 1..recovered[s] : topic'[s][i] = topic[s][i]
        PROVE  Still
    BY <1>2 DEF granted, confirmed, former, barred, Granted, Former, Barred, Issued
  <1>3. ASSUME UNCHANGED <<epoch, inflight, topic, generated, recovered>>
        PROVE  Still
    BY <1>3 DEF granted, confirmed, former, barred, Granted, Former, Barred, Issued,
                Handed
  <1>4. ASSUME \/ \E h \in Handlers : PublishReturns(h)
               \/ \E r \in inflight : BrokerAppend(r)
        PROVE  Still
    BY <1>2, <1>4, HandedMoves
  <1>5. ASSUME NEW h \in Handlers,
               \/ HistoryQuery(h) \/ NothingToDo(h) \/ AnomalyFound(h) \/ QueryFails(h)
               \/ CheckTimer(h) \/ LatestQuery(h) \/ StoredDwellActive(h)
               \/ CandidatesMissing(h) \/ BenefitMissing(h) \/ PublishFails(h)
        PROVE  UNCHANGED <<epoch, inflight, topic, generated, recovered>>
    BY <1>5 DEF HistoryQuery, NothingToDo, AnomalyFound, QueryFails, CheckTimer,
       LatestQuery, StoredDwellActive, CandidatesMissing, BenefitMissing, PublishFails
  <1>6. ASSUME \/ \E h \in Handlers, s \in Scopes : StartEvaluate(h, s)
               \/ \E s \in Scopes : Store(s)
               \/ \E s \in Scopes, n \in Nodes, w \in WindowEnds, q \in RowQualities :
                    MetricRow(s, n, w, q)
               \/ Tick \/ UNCHANGED vars
        PROVE  UNCHANGED <<epoch, inflight, topic, generated, recovered>>
    BY <1>6 DEF StartEvaluate, Store, MetricRow, Tick, vars
  <1> HIDE DEF Still
  <1>7. Still \/ Limiter!Next
    BY <1>3, <1>4, <1>5, <1>6, SendGrants, RecordConfirms, RestartStartsAfresh
    DEF Next, Progress
  <1> QED BY <1>1, <1>7

(* The service implements the dwell limiter: what Evaluate hands to the    *)
(* writer, however its request is answered, is granted, what it reports as *)
(* generated is confirmed, and only a restart starts afresh.               *)
THEOREM LimiterImplemented == Spec => ImplementsLimiter
  <1>1. Init => Limiter!Init
    <2> SUFFICES ASSUME Init PROVE Limiter!Init
      OBVIOUS
    <2>1. \A s \in Scopes : Len(topic[s]) = 0 /\ recovered[s] = 0
      BY DEF Init
    <2>2. inflight = {} /\ generated = {}
      BY DEF Init
    <2>3. \A s \in Scopes : Handed(s) = {} /\ Issued(s) = {} /\ Barred(s) = {}
      BY <2>1, <2>2 DEF Handed, Issued, Barred
    <2> QED BY <2>3 DEF Limiter!Init, Barred
  <1>2. Init => HandedPast /\ ClockBounded
    BY BoundsAssumption DEF Init, HandedPast, ClockBounded
  <1>3. Init => LimiterInv
    BY <1>2, DwellInit, LogInit, RestartInit DEF LimiterInv
  <1>4. TypeOK /\ LimiterInv /\ [Next]_vars => LimiterInv'
    BY DwellNext, LogNext, RestartNext, HandedNext, ClockNext DEF LimiterInv
  <1>5. TypeOK /\ LimiterInv /\ [Next]_vars => [Limiter!Next]_(Limiter!vars)
    BY LimiterStep
  <1> QED
    BY <1>1, <1>3, <1>4, <1>5, TypeInit, TypeNext, PTL
    DEF Spec, ImplementsLimiter, Limiter!Spec
=============================================================================
