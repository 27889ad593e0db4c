---------------------------- MODULE AnalyticsJob ----------------------------
(***************************************************************************)
(* jobs/cdn-analytics, the Flink job between cdn.delivery.v1 and the       *)
(* metric tables: parse and validate, deduplicate by event id, assign      *)
(* watermarks, aggregate in node, network and content windows, emit        *)
(* results with revisions through at-least-once sinks; checkpoints and     *)
(* restarts; and the ClickHouse tables that read the results.              *)
(*                                                                         *)
(* The job runs with its default parallelism of 1: its operators are       *)
(* joined by FIFO channels and checkpoint barriers are aligned, so a       *)
(* record goes through the whole pipeline in one step.  The Kafka topic    *)
(* is given with its backlog; when a record was appended is not observable *)
(* in the job.  An aggregate is represented by how often it counts each    *)
(* event.                                                                  *)
(***************************************************************************)
EXTENDS Integers, Sequences, FiniteSets

CONSTANTS Events,       \* event ids
          EventTime,    \* event id -> event_time
          Invalid,      \* ids of events that do not parse or validate
          KeyOf,        \* branch -> event id -> its dimension
          Partitions,   \* partitions of the delivery topic
          PartitionOf,  \* event id -> partition its key hashes to
          Minute,       \* length of the short windows
          OutOfOrder,   \* bound of forBoundedOutOfOrderness
          Lateness,     \* allowedLateness
          MaxRecords,   \* bound: records in a partition of the topic
          MaxRestarts,  \* bound: failures of the job
          MaxEarly      \* bound: ids forgotten while a window of theirs lives

Branches == {"node", "network", "content"}

ASSUME JobAssumption ==
  /\ EventTime \in [Events -> Nat]
  /\ Invalid \subseteq Events
  /\ DOMAIN KeyOf = Branches
  /\ PartitionOf \in [Events -> Partitions]
  /\ Minute \in Nat \ {0}
  /\ OutOfOrder \in Nat
  /\ Lateness \in Nat
  /\ MaxRecords \in Nat
  /\ MaxRestarts \in Nat
  /\ MaxEarly \in Nat

VARIABLES topic,      \* partition -> records of cdn.delivery.v1
          offset,     \* partition -> records consumed
          seen,       \* seen-event-id of the deduplicator
          maxTime,    \* maxTimestamp of the watermark generator
          watermark,  \* current watermark of the window operators
          acc,        \* window -> event -> times it was added
          revision,   \* window -> its revision state
          timers,     \* windows with a pending trigger timer
          rowsOut, lettersOut,  \* handed to the sinks, not acknowledged
          metrics,    \* aggregates in the metric topics
          dlq,        \* records in cdn.dead-letter.v1
          table,      \* window -> its row in ClickHouse, read with FINAL
          checkpoint, \* the latest completed checkpoint
          restarts,
          early       \* history: ids forgotten while a window of theirs lived

state == <<offset, seen, maxTime, watermark, acc, revision, timers>>
sinks == <<rowsOut, lettersOut>>
vars == <<topic, state, sinks, metrics, dlq, table, checkpoint, restarts, early>>

-----------------------------------------------------------------------------
(* TumblingEventTimeWindows: one minute, or five for content. *)
Size(b) == IF b = "content" THEN 5 * Minute ELSE Minute

WindowOf(b, e) == [branch |-> b, key |-> KeyOf[b][e],
                   start |-> EventTime[e] - (EventTime[e] % Size(b))]

WindowsOf(e) == {WindowOf(b, e) : b \in Branches}

Windows == UNION {WindowsOf(e) : e \in Events}

End(w) == w.start + Size(w.branch)

(* The trigger fires at the end of the window, its state goes a lateness *)
(* later, and from then on its elements are late.                        *)
DueAfter(w, t) == End(w) <= t      \* fault: one tick late

Due(w, t) == End(w) - 1 <= t

ExpiredEarly(w, t) == End(w) - 2 + Lateness <= t   \* fault: one tick early

Expired(w, t) == End(w) - 1 + Lateness <= t

Nothing == [e \in Events |-> 0]

NoRevision == -1

Row == [window : Windows, revision : Nat, count : [Events -> Nat]]

DeadLetter == [code : {"INVALID", "TOO_LATE"}, event : Events]

Letter(code, e) == [code |-> code, event |-> e]

(* DeliveryEvent.validate, after the record has been parsed. *)
Valid(e) == e \notin Invalid

(* MetricAccumulator.add *)
Add(aggregate, e) == [aggregate EXCEPT ![e] = @ + 1]

(* WindowRevision.next: zero, or one more than the window state holds. *)
NextRevision(w) == revision[w] + 1

(* Faults: the prior revision is emitted; the revision is never counted. *)
ResultsPrior(fired, aggregate) ==
  {[window |-> w, revision |-> revision[w], count |-> aggregate[w]] :
      w \in fired}

ResultsZero(fired, aggregate) ==
  {[window |-> w, revision |-> 0, count |-> aggregate[w]] : w \in fired}

(* NodeMetricWindow, NetworkMetricWindow, ContentMetricWindow: the next    *)
(* revision of each fired window with its aggregate.                       *)
Results(fired, aggregate) ==
  {[window |-> w, revision |-> NextRevision(w), count |-> aggregate[w]] :
      w \in fired}

Snapshot == [offset |-> offset, seen |-> seen, acc |-> acc,
             revision |-> revision, timers |-> timers]

Init ==
  /\ topic \in [Partitions ->
                  UNION {[1..n -> Events] : n \in 0..MaxRecords}]
  /\ \A p \in Partitions : \A i \in 1..Len(topic[p]) :
        PartitionOf[topic[p][i]] = p
  /\ offset = [p \in Partitions |-> 0]
  /\ seen = {}
  /\ maxTime = -1
  /\ watermark = -1 - OutOfOrder - 1
  /\ acc = [w \in Windows |-> Nothing]
  /\ revision = [w \in Windows |-> NoRevision]
  /\ timers = {}
  /\ rowsOut = {}
  /\ lettersOut = {}
  /\ metrics = {}
  /\ dlq = {}
  /\ table = [w \in Windows |-> [revision |-> NoRevision, count |-> Nothing]]
  /\ checkpoint = Snapshot
  /\ restarts = 0
  /\ early = {}

-----------------------------------------------------------------------------
(* The record parser rejects: it goes to the dead letters. *)
Reject(e) ==
  /\ ~Valid(e)
  /\ lettersOut' = lettersOut \cup {Letter("INVALID", e)}
  /\ UNCHANGED <<seen, maxTime, acc, revision, timers, rowsOut>>

(* The deduplicator has seen the id. *)
Duplicate(e) ==
  /\ Valid(e)
  /\ e \in seen
  /\ UNCHANGED <<seen, maxTime, acc, revision, timers, rowsOut, lettersOut>>

(* Fault: a late event is audited and added all the same. *)
AcceptLate(e) ==
  LET into == WindowsOf(e)
      fired == {w \in into : Due(w, watermark)}
      added == [w \in Windows |-> IF w \in into
                                    THEN Add(acc[w], e)
                                    ELSE acc[w]]
  IN /\ Valid(e)
     /\ e \notin seen
     /\ seen' = seen \cup {e}
     /\ maxTime' = IF EventTime[e] > maxTime THEN EventTime[e] ELSE maxTime
     /\ acc' = added
     /\ revision' = [w \in Windows |-> IF w \in fired THEN NextRevision(w)
                                                      ELSE revision[w]]
     /\ timers' = timers \cup (into \ fired)
     /\ rowsOut' = rowsOut \cup Results(fired, added)
     /\ lettersOut' = IF Expired(WindowOf("node", e), watermark)
                        THEN lettersOut \cup {Letter("TOO_LATE", e)}
                        ELSE lettersOut

(* Fault: no side output is connected to the node window. *)
AcceptSilently(e) ==
  LET into == {w \in WindowsOf(e) : ~Expired(w, watermark)}
      fired == {w \in into : Due(w, watermark)}
      added == [w \in Windows |-> IF w \in into
                                    THEN Add(acc[w], e)
                                    ELSE acc[w]]
  IN /\ Valid(e)
     /\ e \notin seen
     /\ seen' = seen \cup {e}
     /\ maxTime' = IF EventTime[e] > maxTime THEN EventTime[e] ELSE maxTime
     /\ acc' = added
     /\ revision' = [w \in Windows |-> IF w \in fired THEN NextRevision(w)
                                                      ELSE revision[w]]
     /\ timers' = timers \cup (into \ fired)
     /\ rowsOut' = rowsOut \cup Results(fired, added)
     /\ lettersOut' = lettersOut

(* A new event is added to each of its windows that is not expired; one    *)
(* that is due fires at once, any other gets a timer.  Only the node       *)
(* branch audits the event it refuses.                                     *)
Accept(e) ==
  LET into == {w \in WindowsOf(e) : ~Expired(w, watermark)}
      fired == {w \in into : Due(w, watermark)}
      added == [w \in Windows |-> IF w \in into
                                    THEN Add(acc[w], e)
                                    ELSE acc[w]]
  IN /\ Valid(e)
     /\ e \notin seen
     /\ seen' = seen \cup {e}
     /\ maxTime' = IF EventTime[e] > maxTime THEN EventTime[e] ELSE maxTime
     /\ acc' = added
     /\ revision' = [w \in Windows |-> IF w \in fired THEN NextRevision(w)
                                                      ELSE revision[w]]
     /\ timers' = timers \cup (into \ fired)
     /\ rowsOut' = rowsOut \cup Results(fired, added)
     /\ lettersOut' = IF WindowOf("node", e) \in into
                        THEN lettersOut
                        ELSE lettersOut \cup {Letter("TOO_LATE", e)}

Process(p) ==
  /\ offset[p] < Len(topic[p])
  /\ offset' = [offset EXCEPT ![p] = @ + 1]
  /\ LET e == topic[p][offset[p] + 1]
     IN Reject(e) \/ Duplicate(e) \/ Accept(e)
  /\ UNCHANGED <<topic, watermark, metrics, dlq, table, checkpoint, restarts,
                 early>>

(* The periodic watermark: due windows fire, expired ones lose their       *)
(* contents.  Their revision stays: no window function has a clear().      *)
AdvanceWatermark ==
  LET t == maxTime - OutOfOrder - 1
      fired == {w \in timers : Due(w, t)}
      gone == {w \in Windows : Expired(w, t)}
  IN /\ t > watermark
     /\ watermark' = t
     /\ rowsOut' = rowsOut \cup Results(fired, acc)
     /\ acc' = [w \in Windows |-> IF w \in gone THEN Nothing ELSE acc[w]]
     /\ revision' = [w \in Windows |-> IF w \in fired THEN NextRevision(w)
                                                      ELSE revision[w]]
     /\ timers' = timers \ fired
     /\ UNCHANGED <<topic, offset, seen, maxTime, lettersOut, metrics, dlq,
                    table, checkpoint, restarts, early>>

(* The time-to-live of a seen id ends: 25 hours of processing time after   *)
(* it was stored, wherever the watermark is by then.                       *)
Forget(e) ==
  /\ e \in seen
  /\ seen' = seen \ {e}
  /\ early' = IF \A w \in WindowsOf(e) : Expired(w, watermark)
                THEN early
                ELSE early \cup {e}
  /\ Cardinality(early') <= MaxEarly
  /\ UNCHANGED <<topic, offset, maxTime, watermark, acc, revision, timers,
                 sinks, metrics, dlq, table, checkpoint, restarts>>

-----------------------------------------------------------------------------
(* The producers of the sinks get their acknowledgements. *)
Flush ==
  /\ metrics' = metrics \cup rowsOut
  /\ dlq' = dlq \cup lettersOut
  /\ rowsOut' = {}
  /\ lettersOut' = {}
  /\ UNCHANGED <<topic, state, table, checkpoint, restarts, early>>

(* Fault: DeliveryGuarantee.NONE. *)
CheckpointUnflushed ==
  /\ checkpoint' = Snapshot
  /\ UNCHANGED <<topic, state, sinks, metrics, dlq, table, restarts, early>>

(* AT_LEAST_ONCE: a checkpoint completes once the sinks are flushed. *)
Checkpoint ==
  /\ checkpoint' = Snapshot
  /\ metrics' = metrics \cup rowsOut
  /\ dlq' = dlq \cup lettersOut
  /\ rowsOut' = {}
  /\ lettersOut' = {}
  /\ UNCHANGED <<topic, state, table, restarts, early>>

(* Fault: the deduplicator starts empty. *)
RestartForgetting ==
  /\ restarts < MaxRestarts
  /\ restarts' = restarts + 1
  /\ \E rows \in SUBSET rowsOut : metrics' = metrics \cup rows
  /\ \E letters \in SUBSET lettersOut : dlq' = dlq \cup letters
  /\ rowsOut' = {}
  /\ lettersOut' = {}
  /\ offset' = checkpoint.offset
  /\ seen' = {}
  /\ acc' = checkpoint.acc
  /\ revision' = checkpoint.revision
  /\ timers' = checkpoint.timers
  /\ maxTime' = -1
  /\ watermark' = -1 - OutOfOrder - 1
  /\ UNCHANGED <<topic, table, checkpoint, early>>

(* A failure and the restart from the latest checkpoint: what the sinks    *)
(* had not flushed may have arrived or not, and the watermark is not part  *)
(* of a checkpoint.                                                        *)
Restart ==
  /\ restarts < MaxRestarts
  /\ restarts' = restarts + 1
  /\ \E rows \in SUBSET rowsOut : metrics' = metrics \cup rows
  /\ \E letters \in SUBSET lettersOut : dlq' = dlq \cup letters
  /\ rowsOut' = {}
  /\ lettersOut' = {}
  /\ offset' = checkpoint.offset
  /\ seen' = checkpoint.seen
  /\ acc' = checkpoint.acc
  /\ revision' = checkpoint.revision
  /\ timers' = checkpoint.timers
  /\ maxTime' = -1
  /\ watermark' = -1 - OutOfOrder - 1
  /\ UNCHANGED <<topic, table, checkpoint, early>>

(* Fault: a ReplacingMergeTree without a version column. *)
IngestLast(row) ==
  /\ row \in metrics
  /\ table' = [table EXCEPT ![row.window] =
                 [revision |-> row.revision, count |-> row.count]]
  /\ UNCHANGED <<topic, state, sinks, metrics, dlq, checkpoint, restarts,
                 early>>

(* ClickHouse reads the metric topics in any order across their unkeyed    *)
(* partitions, perhaps again after a failure.  ReplacingMergeTree(revision)*)
(* keeps the highest revision and of equals the last inserted.             *)
Ingest(row) ==
  /\ row \in metrics
  /\ row.revision >= table[row.window].revision
  /\ table' = [table EXCEPT ![row.window] =
                 [revision |-> row.revision, count |-> row.count]]
  /\ UNCHANGED <<topic, state, sinks, metrics, dlq, checkpoint, restarts,
                 early>>

Next == \/ \E p \in Partitions : Process(p)
        \/ AdvanceWatermark
        \/ \E e \in Events : Forget(e)
        \/ Flush
        \/ Checkpoint
        \/ Restart
        \/ \E row \in metrics : Ingest(row)

Spec == Init /\ [][Next]_vars

(* Flink polls, emits its periodic watermark and lets its producers send;  *)
(* ClickHouse's consumers go on reading.  Restarts are bounded.            *)
Newer(row) == row.revision > table[row.window].revision /\ Ingest(row)

FairSpec == /\ Spec
            /\ \A p \in Partitions : WF_vars(Process(p))
            /\ WF_vars(AdvanceWatermark)
            /\ WF_vars(Flush)
            /\ WF_vars(\E row \in metrics : Newer(row))

-----------------------------------------------------------------------------
Checkpoints == [offset : [Partitions -> Nat], seen : SUBSET Events,
                acc : [Windows -> [Events -> Nat]],
                revision : [Windows -> Nat \cup {NoRevision}],
                timers : SUBSET Windows]

(* The job's state, its checkpoint, the topics and the table are well *)
(* formed; what is emitted has a revision.                            *)
TypeOK ==
  /\ topic \in [Partitions -> Seq(Events)]
  /\ Snapshot \in Checkpoints
  /\ maxTime \in Int
  /\ watermark \in Int
  /\ rowsOut \subseteq Row
  /\ metrics \subseteq Row
  /\ lettersOut \subseteq DeadLetter
  /\ dlq \subseteq DeadLetter
  /\ table \in [Windows -> [revision : Nat \cup {NoRevision},
                            count : [Events -> Nat]]]
  /\ checkpoint \in Checkpoints
  /\ restarts \in Nat
  /\ early \subseteq Events

(* An aggregate counts an event id twice only if its time-to-live ended    *)
(* before all its windows had expired: not by duplicates in the topic, not *)
(* by the replay after a restart, which takes the watermark back, and not  *)
(* by forgetting an id later than that.                                    *)
CountedOnce ==
  \A e \in Events \ early :
     /\ \A w \in Windows : acc[w][e] <= 1 /\ table[w].count[e] <= 1
     /\ \A row \in metrics : row.count[e] <= 1

CountedIn(e, rows) ==
  \E row \in rows : row.window = WindowOf("node", e) /\ row.count[e] > 0

(* What a checkpoint has consumed survives the failure of the job: it is   *)
(* in the dead letters, in an aggregate of the node topic or in the        *)
(* window state of the checkpoint itself.                                  *)
Kept(e) ==
  IF e \in Invalid
    THEN Letter("INVALID", e) \in dlq
    ELSE \/ Letter("TOO_LATE", e) \in dlq
         \/ CountedIn(e, metrics)
         \/ checkpoint.acc[WindowOf("node", e)][e] > 0

NothingLost ==
  \A p \in Partitions : \A i \in 1..checkpoint.offset[p] : Kept(topic[p][i])

(* An event is audited as TOO_LATE only if its place in the topic is after *)
(* (or its partition beside) an event that is ahead of the end of its      *)
(* minute by the out-of-orderness bound and the allowed lateness.          *)
Beyond(e, p, i) ==
  \E q \in Partitions : \E j \in 1..Len(topic[q]) :
     /\ q = p => j < i
     /\ topic[q][j] \notin Invalid
     /\ EventTime[topic[q][j]] >=
          End(WindowOf("node", e)) + OutOfOrder + Lateness

LateOnlyBeyond ==
  \A letter \in dlq : letter.code = "TOO_LATE" =>
     \E p \in Partitions : \E i \in 1..Len(topic[p]) :
        topic[p][i] = letter.event /\ Beyond(letter.event, p, i)

Single(e) ==
  \A p \in Partitions : \A i, j \in 1..Len(topic[p]) :
     topic[p][i] = e /\ topic[p][j] = e => i = j

(* docs/event-semantics.md: events beyond the boundary enter the TOO_LATE  *)
(* audit path and do not change the aggregate.  Said here of events that   *)
(* are once in the topic: a copy may come after the id was forgotten.      *)
TooLateExcluded ==
  \A e \in Events : Single(e) /\ Letter("TOO_LATE", e) \in dlq =>
     table[WindowOf("node", e)].count[e] = 0

Audited(e) == Letter("TOO_LATE", e) \in lettersOut \cup dlq

Counted(e) ==
  acc[WindowOf("node", e)][e] > 0 \/ CountedIn(e, rowsOut \cup metrics)

(* Every valid event that the job has consumed is audited as TOO_LATE or   *)
(* counted in its minute: the late side output and the window state leave  *)
(* no gap.  Until the first restart one that is once in the topic is never *)
(* both: they decide by the same boundary.                                 *)
AuditedOrCounted ==
  \A p \in Partitions : \A i \in 1..offset[p] :
     LET e == topic[p][i]
     IN Valid(e) =>
          /\ Audited(e) \/ Counted(e)
          /\ restarts = 0 /\ Single(e) => ~(Audited(e) /\ Counted(e))

(* Until the first restart a window and a revision identify one aggregate: *)
(* what an at-least-once sink may repeat is the same row.                  *)
RevisionIdentifies ==
  restarts = 0 =>
     \A r, s \in metrics :
        r.window = s.window /\ r.revision = s.revision => r.count = s.count

(* Until the first restart the row that a reader of ClickHouse sees for a  *)
(* window never loses an event it counted, in whatever order the revisions *)
(* are read.                                                               *)
VisibleGrows ==
  [][restarts' = 0 => \A w \in Windows, e \in Events :
        table[w].count[e] <= table'[w].count[e]]_vars

(* An event of the running job, or a fresh one still to be consumed,       *)
(* closes the minute of e.                                                 *)
Closing(e) ==
  LET bound == End(WindowOf("node", e)) + OutOfOrder
  IN \/ maxTime >= bound
     \/ \E p \in Partitions : \E i \in (offset[p] + 1)..Len(topic[p]) :
           /\ topic[p][i] \notin Invalid \cup seen
           /\ EventTime[topic[p][i]] >= bound

InTopic(e) == \E p \in Partitions : \E i \in 1..Len(topic[p]) : topic[p][i] = e

(* A valid event whose minute is being closed is audited or reaches the    *)
(* node topic, and its minute a row of ClickHouse, unless the job restarts *)
(* first.  (A restart loses the watermark: then only a fresh event closes  *)
(* the minutes that the checkpoint holds.)                                 *)
EventuallyCounted ==
  \A e \in Events \ Invalid, n \in 0..MaxRestarts :
     (InTopic(e) /\ Closing(e) /\ restarts = n) ~>
        \/ restarts > n
        \/ Letter("TOO_LATE", e) \in dlq
        \/ CountedIn(e, metrics) /\ table[WindowOf("node", e)].revision >= 0
=============================================================================
