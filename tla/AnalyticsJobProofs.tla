------------------------- MODULE AnalyticsJobProofs -------------------------
(***************************************************************************)
(* What holds of AnalyticsJob for every set of events, partitions and      *)
(* window parameters, and any number of restarts.                          *)
(***************************************************************************)
EXTENDS AnalyticsJob, TLAPS

-----------------------------------------------------------------------------
(* Windows: they are not empty, start at a natural number, and a window    *)
(* that has expired is due.                                                *)
LEMMA WindowsOfType ==
  ASSUME NEW e \in Events
  PROVE  WindowsOf(e) \subseteq Windows
BY DEF Windows

LEMMA NodeWindow ==
  ASSUME NEW e \in Events
  PROVE  WindowOf("node", e) \in WindowsOf(e)
BY DEF WindowsOf, Branches

LEMMA WindowShape ==
  ASSUME NEW w \in Windows
  PROVE  w.start \in Nat /\ End(w) \in Nat \ {0}
<1>. USE JobAssumption
<1>1. PICK e \in Events : w \in WindowsOf(e)
  BY DEF Windows
<1>2. PICK b \in Branches : w = WindowOf(b, e)
  BY <1>1 DEF WindowsOf
<1>3. Size(b) \in Nat \ {0}
  BY DEF Size
<1>4. EventTime[e] \in Nat
  BY <1>1
<1>5. EventTime[e] - (EventTime[e] % Size(b)) \in Nat
  <2>. DEFINE n == Size(b)
              t == EventTime[e]
  <2>1. n \in Nat \ {0} /\ t \in Nat BY <1>3, <1>4
  <2>. HIDE DEF n, t
  <2>2. t % n \in 0..t
    <3>1. t = n * (t \div n) + (t % n) /\ t % n \in 0..(n - 1) /\ t \div n \in Nat
      BY <2>1
    <3>2. n * (t \div n) \in Nat BY <2>1, <3>1
    <3>. QED BY <3>1, <3>2, <2>1
  <2>3. t - (t % n) \in Nat BY <2>1, <2>2
  <2>. QED BY <2>3 DEF n, t
<1>6. w.branch = b /\ w.start = EventTime[e] - (EventTime[e] % Size(b))
  BY <1>2 DEF WindowOf
<1>. QED BY <1>3, <1>5, <1>6 DEF End

LEMMA ExpiredIsDue ==
  ASSUME NEW w \in Windows, NEW t \in Int, Expired(w, t)
  PROVE  Due(w, t)
BY WindowShape, JobAssumption DEF Expired, Due

(* Before the first watermark nothing has expired. *)
LEMMA NothingExpired ==
  ASSUME NEW w \in Windows
  PROVE  ~Expired(w, -1 - OutOfOrder - 1)
BY WindowShape, JobAssumption DEF Expired

LEMMA WatermarkType ==
  -1 - OutOfOrder - 1 \in Int
BY JobAssumption

LEMMA ResultsType ==
  ASSUME NEW fired \in SUBSET Windows,
         NEW aggregate \in [Windows -> [Events -> Nat]],
         revision \in [Windows -> Nat \cup {NoRevision}]
  PROVE  Results(fired, aggregate) \subseteq Row
<1>. SUFFICES ASSUME NEW w \in fired
              PROVE  [window |-> w, revision |-> revision[w] + 1,
                      count |-> aggregate[w]] \in Row
  BY DEF Results, NextRevision
<1>1. revision[w] + 1 \in Nat
  BY DEF NoRevision
<1>2. aggregate[w] \in [Events -> Nat]
  OBVIOUS
<1>. QED BY <1>1, <1>2 DEF Row

LEMMA SnapshotFields ==
  ASSUME Snapshot \in Checkpoints
  PROVE  /\ offset \in [Partitions -> Nat]
         /\ seen \in SUBSET Events
         /\ acc \in [Windows -> [Events -> Nat]]
         /\ revision \in [Windows -> Nat \cup {NoRevision}]
         /\ timers \in SUBSET Windows
BY DEF Snapshot, Checkpoints

LEMMA SnapshotType ==
  ASSUME offset \in [Partitions -> Nat], seen \in SUBSET Events,
         acc \in [Windows -> [Events -> Nat]],
         revision \in [Windows -> Nat \cup {NoRevision}],
         timers \in SUBSET Windows
  PROVE  Snapshot \in Checkpoints
BY DEF Snapshot, Checkpoints

(* The aggregates after an event was added to some windows. *)
Added(e, into) ==
  [w \in Windows |-> IF w \in into THEN [acc[w] EXCEPT ![e] = @ + 1]
                                   ELSE acc[w]]

LEMMA AddedType ==
  ASSUME NEW e \in Events, NEW into \in SUBSET Windows,
         acc \in [Windows -> [Events -> Nat]]
  PROVE  /\ Added(e, into) \in [Windows -> [Events -> Nat]]
         /\ \A w \in Windows, g \in Events :
               Added(e, into)[w][g] = IF w \in into /\ g = e THEN acc[w][g] + 1
                                                             ELSE acc[w][g]
<1>1. ASSUME NEW w \in Windows
      PROVE  /\ Added(e, into)[w] \in [Events -> Nat]
             /\ \A g \in Events : Added(e, into)[w][g] =
                   IF w \in into /\ g = e THEN acc[w][g] + 1 ELSE acc[w][g]
  <2>1. acc[w] \in [Events -> Nat] OBVIOUS
  <2>2. [acc[w] EXCEPT ![e] = @ + 1] \in [Events -> Nat] BY <2>1
  <2>3. \A g \in Events : [acc[w] EXCEPT ![e] = @ + 1][g] =
           IF g = e THEN acc[w][g] + 1 ELSE acc[w][g]
    BY <2>1
  <2>. QED BY <2>1, <2>2, <2>3 DEF Added
<1>2. Added(e, into) = [w \in Windows |-> Added(e, into)[w]]
  BY DEF Added
<1>. QED BY <1>1, <1>2

-----------------------------------------------------------------------------
(* The steps of the job, without their LETs. *)
Into(e) == {w \in WindowsOf(e) : ~Expired(w, watermark)}

FiredNow(e) == {w \in Into(e) : Due(w, watermark)}

LEMMA AcceptUnfolds ==
  ASSUME NEW e \in Events, Accept(e)
  PROVE  /\ e \notin Invalid /\ e \notin seen
         /\ seen' = seen \cup {e}
         /\ maxTime' = IF EventTime[e] > maxTime THEN EventTime[e] ELSE maxTime
         /\ acc' = Added(e, Into(e))
         /\ revision' = [w \in Windows |-> IF w \in FiredNow(e)
                                             THEN revision[w] + 1
                                             ELSE revision[w]]
         /\ timers' = timers \cup (Into(e) \ FiredNow(e))
         /\ rowsOut' = rowsOut \cup Results(FiredNow(e), acc')
         /\ lettersOut' = IF WindowOf("node", e) \in Into(e)
                            THEN lettersOut
                            ELSE lettersOut \cup {Letter("TOO_LATE", e)}
BY DEF Accept, Into, FiredNow, Added, Valid, Add, NextRevision

LEMMA IntoType ==
  ASSUME NEW e \in Events
  PROVE  Into(e) \in SUBSET Windows /\ FiredNow(e) \in SUBSET Windows
BY WindowsOfType DEF Into, FiredNow

NextMark == maxTime - OutOfOrder - 1

Triggered == {w \in timers : Due(w, NextMark)}

Gone == {w \in Windows : Expired(w, NextMark)}

LEMMA AdvanceUnfolds ==
  ASSUME AdvanceWatermark
  PROVE  /\ watermark' = NextMark
         /\ rowsOut' = rowsOut \cup Results(Triggered, acc)
         /\ acc' = [w \in Windows |-> IF w \in Gone THEN Nothing ELSE acc[w]]
         /\ revision' = [w \in Windows |-> IF w \in Triggered THEN revision[w] + 1
                                                              ELSE revision[w]]
         /\ timers' = timers \ Triggered
         /\ UNCHANGED <<topic, offset, seen, maxTime, lettersOut, metrics, dlq,
                        table, checkpoint, restarts, early>>
BY DEF AdvanceWatermark, NextMark, Triggered, Gone, NextRevision

(* What a step of the source consumes. *)
LEMMA ProcessUnfolds ==
  ASSUME TypeOK, NEW p \in Partitions, Process(p)
  PROVE  \E e \in Events :
            /\ e = topic[p][offset[p] + 1]
            /\ offset[p] + 1 \in 1..Len(topic[p])
            /\ offset' = [offset EXCEPT ![p] = @ + 1]
            /\ Reject(e) \/ Duplicate(e) \/ Accept(e)
            /\ UNCHANGED <<topic, watermark, metrics, dlq, table, checkpoint,
                           restarts, early>>
<1>1. topic[p] \in Seq(Events) /\ offset[p] \in Nat
  BY SnapshotFields DEF TypeOK
<1>2. offset[p] + 1 \in 1..Len(topic[p])
  BY <1>1 DEF Process
<1>3. topic[p][offset[p] + 1] \in Events
  BY <1>1, <1>2
<1>. QED BY <1>2, <1>3 DEF Process

-----------------------------------------------------------------------------
LEMMA TypeInit == Init => TypeOK
<1>. SUFFICES ASSUME Init PROVE TypeOK
  OBVIOUS
<1>. USE JobAssumption
<1>1. topic \in [Partitions -> Seq(Events)]
  <2>1. UNION {[1..n -> Events] : n \in 0..MaxRecords} \subseteq Seq(Events)
    <3>. SUFFICES ASSUME NEW n \in 0..MaxRecords, NEW s \in [1..n -> Events]
                  PROVE  s \in Seq(Events)
      OBVIOUS
    <3>1. n \in Nat OBVIOUS
    <3>. QED BY <3>1
  <2>2. topic \in [Partitions -> UNION {[1..n -> Events] : n \in 0..MaxRecords}]
    BY DEF Init
  <2>. QED BY <2>1, <2>2
<1>2. Nothing \in [Events -> Nat]
  BY DEF Nothing
<1>3. NoRevision \in Int
  BY DEF NoRevision
<1>4. Snapshot \in Checkpoints
  <2>1. acc \in [Windows -> [Events -> Nat]] BY <1>2 DEF Init
  <2>2. revision \in [Windows -> Nat \cup {NoRevision}] BY DEF Init
  <2>3. offset \in [Partitions -> Nat] BY DEF Init
  <2>4. seen \in SUBSET Events /\ timers \in SUBSET Windows BY DEF Init
  <2>. QED BY <2>1, <2>2, <2>3, <2>4, SnapshotType
<1>5. table \in [Windows -> [revision : Nat \cup {NoRevision},
                             count : [Events -> Nat]]]
  BY <1>2 DEF Init
<1>6. checkpoint \in Checkpoints
  BY <1>4 DEF Init
<1>7. maxTime \in Int /\ watermark \in Int /\ restarts \in Nat
  BY DEF Init
<1>. QED BY <1>1, <1>4, <1>5, <1>6, <1>7 DEF Init, TypeOK

LEMMA TypeStep ==
  ASSUME TypeOK, [Next]_vars PROVE TypeOK'
<1>. USE JobAssumption
<1>f. /\ offset \in [Partitions -> Nat] /\ seen \in SUBSET Events
      /\ acc \in [Windows -> [Events -> Nat]]
      /\ revision \in [Windows -> Nat \cup {NoRevision}]
      /\ timers \in SUBSET Windows
  BY SnapshotFields DEF TypeOK
<1>n. Nothing \in [Events -> Nat]
  BY DEF Nothing
<1>s. (offset \in [Partitions -> Nat])' /\ (seen \in SUBSET Events)'
      /\ (acc \in [Windows -> [Events -> Nat]])'
      /\ (revision \in [Windows -> Nat \cup {NoRevision}])'
      /\ (timers \in SUBSET Windows)'
      => (Snapshot \in Checkpoints)'
  BY DEF Snapshot, Checkpoints
<1>1. ASSUME NEW p \in Partitions, Process(p) PROVE TypeOK'
  <2>1. PICK e \in Events :
            /\ e = topic[p][offset[p] + 1]
            /\ offset' = [offset EXCEPT ![p] = @ + 1]
            /\ Reject(e) \/ Duplicate(e) \/ Accept(e)
            /\ UNCHANGED <<topic, watermark, metrics, dlq, table, checkpoint,
                           restarts, early>>
    BY <1>1, ProcessUnfolds
  <2>2. (offset \in [Partitions -> Nat])'
    BY <1>f, <2>1
  <2>3. CASE Reject(e)
    <3>1. lettersOut' \subseteq DeadLetter
      BY <2>3 DEF Reject, Letter, DeadLetter, TypeOK
    <3>2. UNCHANGED <<seen, maxTime, acc, revision, timers, rowsOut>>
      BY <2>3 DEF Reject
    <3>3. (Snapshot \in Checkpoints)'
      BY <3>2, <2>2, <1>f, <1>s
    <3>. QED BY <2>1, <3>1, <3>2, <3>3 DEF TypeOK
  <2>4. CASE Duplicate(e)
    <3>1. UNCHANGED <<seen, maxTime, acc, revision, timers, rowsOut, lettersOut>>
      BY <2>4 DEF Duplicate
    <3>2. (Snapshot \in Checkpoints)'
      BY <3>1, <2>2, <1>f, <1>s
    <3>. QED BY <2>1, <3>1, <3>2 DEF TypeOK
  <2>5. CASE Accept(e)
    <3>1. (acc \in [Windows -> [Events -> Nat]])'
      BY <2>5, <1>f, AcceptUnfolds, IntoType, AddedType
    <3>2. (revision \in [Windows -> Nat \cup {NoRevision}])'
      <4>1. \A w \in Windows : revision[w] + 1 \in Nat BY <1>f DEF NoRevision
      <4>. QED BY <2>5, <1>f, <4>1, AcceptUnfolds
    <3>3. (timers \in SUBSET Windows)' /\ (seen \in SUBSET Events)'
      BY <2>5, <1>f, AcceptUnfolds, IntoType
    <3>4. rowsOut' \subseteq Row
      <4>1. Results(FiredNow(e), acc') \subseteq Row
        BY <1>f, <3>1, IntoType, ResultsType
      <4>. QED BY <2>5, <4>1, AcceptUnfolds DEF TypeOK
    <3>5. lettersOut' \subseteq DeadLetter
      <4>1. Letter("TOO_LATE", e) \in DeadLetter BY DEF Letter, DeadLetter
      <4>2. lettersOut \subseteq DeadLetter BY DEF TypeOK
      <4>3. lettersOut' = lettersOut \/ lettersOut' = lettersOut \cup {Letter("TOO_LATE", e)}
        BY <2>5, AcceptUnfolds
      <4>. QED BY <4>1, <4>2, <4>3
    <3>6. maxTime' \in Int
      BY <2>5, AcceptUnfolds DEF TypeOK
    <3>7. (Snapshot \in Checkpoints)'
      BY <2>2, <3>1, <3>2, <3>3, <1>s
    <3>. QED BY <2>1, <3>4, <3>5, <3>6, <3>7 DEF TypeOK
  <2>. QED BY <2>1, <2>3, <2>4, <2>5
<1>2. CASE AdvanceWatermark
  <2>1. (acc \in [Windows -> [Events -> Nat]])'
    BY <1>2, <1>f, <1>n, AdvanceUnfolds
  <2>2. (revision \in [Windows -> Nat \cup {NoRevision}])'
    <3>1. \A w \in Windows : revision[w] + 1 \in Nat BY <1>f DEF NoRevision
    <3>. QED BY <1>2, <1>f, <3>1, AdvanceUnfolds
  <2>3. (timers \in SUBSET Windows)'
    BY <1>2, <1>f, AdvanceUnfolds
  <2>4. rowsOut' \subseteq Row
    <3>1. Triggered \in SUBSET Windows BY <1>f DEF Triggered
    <3>2. Results(Triggered, acc) \subseteq Row BY <1>f, <3>1, ResultsType
    <3>. QED BY <1>2, <3>2, AdvanceUnfolds DEF TypeOK
  <2>5. watermark' \in Int
    BY <1>2, AdvanceUnfolds DEF NextMark, TypeOK
  <2>6. (Snapshot \in Checkpoints)'
    BY <1>2, <1>f, <2>1, <2>2, <2>3, <1>s, AdvanceUnfolds
  <2>. QED BY <1>2, <2>4, <2>5, <2>6, AdvanceUnfolds DEF TypeOK
<1>3. ASSUME NEW e \in Events, Forget(e) PROVE TypeOK'
  <2>1. (Snapshot \in Checkpoints)'
    BY <1>3, <1>f, <1>s DEF Forget
  <2>2. early' \subseteq Events
    BY <1>3 DEF Forget, TypeOK
  <2>. QED BY <1>3, <2>1, <2>2 DEF Forget, sinks, TypeOK
<1>4. CASE Flush
  <2>1. (Snapshot \in Checkpoints)'
    BY <1>4, <1>f, <1>s DEF Flush, state
  <2>. QED BY <1>4, <2>1 DEF Flush, state, TypeOK
<1>5. CASE Checkpoint
  <2>1. (Snapshot \in Checkpoints)'
    BY <1>5, <1>f, <1>s DEF Checkpoint, state
  <2>. QED BY <1>5, <2>1 DEF Checkpoint, state, TypeOK
<1>6. CASE Restart
  <2>1. (Snapshot \in Checkpoints)'
    BY <1>6, <1>s DEF Restart, TypeOK, Checkpoints
  <2>2. metrics' \subseteq Row /\ dlq' \subseteq DeadLetter
    BY <1>6 DEF Restart, TypeOK
  <2>. QED BY <1>6, <2>1, <2>2 DEF Restart, TypeOK
<1>7. ASSUME NEW row \in metrics, Ingest(row) PROVE TypeOK'
  <2>1. row \in Row
    BY <1>7 DEF TypeOK
  <2>2. /\ row.window \in Windows
        /\ [revision |-> row.revision, count |-> row.count] \in
              [revision : Nat \cup {NoRevision}, count : [Events -> Nat]]
    BY <2>1 DEF Row
  <2>3. table' \in [Windows -> [revision : Nat \cup {NoRevision},
                                count : [Events -> Nat]]]
    BY <1>7, <2>2 DEF Ingest, TypeOK
  <2>4. (Snapshot \in Checkpoints)'
    BY <1>7, <1>f, <1>s DEF Ingest, state
  <2>. QED BY <1>7, <2>3, <2>4 DEF Ingest, state, sinks, TypeOK
<1>8. CASE UNCHANGED vars
  <2>1. (Snapshot \in Checkpoints)'
    BY <1>8, <1>f, <1>s DEF vars, state
  <2>. QED BY <1>8, <2>1 DEF vars, state, sinks, TypeOK
<1>. QED BY <1>1, <1>2, <1>3, <1>4, <1>5, <1>6, <1>7, <1>8 DEF Next

(* The state of the job, its checkpoints and what it emits stay well formed. *)
THEOREM JobTypeCorrect == Spec => []TypeOK
<1>. QED BY TypeInit, TypeStep, PTL DEF Spec

-----------------------------------------------------------------------------
(* Why no aggregate counts an event twice: a window that holds an event is *)
(* one of its own, has not expired and has the event's id remembered,      *)
(* unless that was forgotten early; and a checkpoint holds the ids of the  *)
(* events in its windows.                                                  *)
AtMostOnce(aggregate) ==
  \A w \in Windows, e \in Events \ early : aggregate[w][e] <= 1

OnceRows(rows) == \A row \in rows, e \in Events \ early : row.count[e] <= 1

OnceTable == \A w \in Windows, e \in Events \ early : table[w].count[e] <= 1

LiveRemembered ==
  \A w \in Windows, e \in Events \ early : acc[w][e] # 0 =>
     w \in WindowsOf(e) /\ e \in seen /\ ~Expired(w, watermark)

SavedRemembered ==
  \A w \in Windows, e \in Events \ early : checkpoint.acc[w][e] # 0 =>
     w \in WindowsOf(e) /\ e \in checkpoint.seen

OnceInv ==
  /\ LiveRemembered
  /\ SavedRemembered
  /\ AtMostOnce(acc)
  /\ AtMostOnce(checkpoint.acc)
  /\ OnceRows(rowsOut)
  /\ OnceRows(metrics)
  /\ OnceTable

LEMMA ResultsOnce ==
  ASSUME NEW fired \in SUBSET Windows, NEW aggregate, AtMostOnce(aggregate)
  PROVE  OnceRows(Results(fired, aggregate))
<1>. SUFFICES ASSUME NEW w \in fired, NEW e \in Events \ early
              PROVE  [window |-> w, revision |-> revision[w] + 1,
                      count |-> aggregate[w]].count[e] <= 1
  BY DEF OnceRows, Results, NextRevision
<1>. QED BY DEF AtMostOnce

LEMMA OnceInit == Init => OnceInv
<1>. SUFFICES ASSUME Init PROVE OnceInv
  OBVIOUS
<1>1. \A e \in Events : Nothing[e] = 0
  BY DEF Nothing
<1>2. \A w \in Windows : acc[w] = Nothing /\ table[w].count = Nothing
  BY DEF Init
<1>3. checkpoint.acc = acc
  BY DEF Init, Snapshot
<1>4. \A w \in Windows, e \in Events : acc[w][e] = 0
  BY <1>1, <1>2
<1>5. AtMostOnce(acc) /\ LiveRemembered
  BY <1>4 DEF AtMostOnce, LiveRemembered
<1>6. AtMostOnce(checkpoint.acc) /\ SavedRemembered
  BY <1>3, <1>4 DEF AtMostOnce, SavedRemembered
<1>7. OnceRows(rowsOut) /\ OnceRows(metrics)
  BY DEF Init, OnceRows
<1>8. OnceTable
  BY <1>1, <1>2 DEF OnceTable
<1>. QED BY <1>5, <1>6, <1>7, <1>8 DEF OnceInv

LEMMA OnceStep ==
  ASSUME TypeOK, OnceInv, [Next]_vars PROVE OnceInv'
<1>. USE JobAssumption
<1>f. /\ acc \in [Windows -> [Events -> Nat]]
      /\ timers \in SUBSET Windows
      /\ watermark \in Int
  BY SnapshotFields DEF TypeOK
<1>i. /\ LiveRemembered /\ SavedRemembered
      /\ AtMostOnce(acc) /\ AtMostOnce(checkpoint.acc)
      /\ OnceRows(rowsOut) /\ OnceRows(metrics)
  BY DEF OnceInv
<1>1. ASSUME NEW p \in Partitions, Process(p) PROVE OnceInv'
  <2>1. PICK e \in Events :
            /\ Reject(e) \/ Duplicate(e) \/ Accept(e)
            /\ UNCHANGED <<topic, watermark, metrics, dlq, table, checkpoint,
                           restarts, early>>
    BY <1>1, ProcessUnfolds
  <2>2. CASE Reject(e) \/ Duplicate(e)
    <3>1. UNCHANGED <<seen, acc, rowsOut>>
      BY <2>2 DEF Reject, Duplicate
    <3>. QED
      BY <2>1, <3>1 DEF OnceInv, LiveRemembered, SavedRemembered, AtMostOnce,
                        OnceRows, OnceTable, Expired
  <2>3. CASE Accept(e)
    <3>1. /\ e \notin seen /\ seen' = seen \cup {e}
          /\ acc' = Added(e, Into(e))
          /\ rowsOut' = rowsOut \cup Results(FiredNow(e), acc')
      BY <2>3, AcceptUnfolds
    <3>2. \A w \in Windows, g \in Events :
             acc'[w][g] = IF w \in Into(e) /\ g = e THEN acc[w][g] + 1
                                                    ELSE acc[w][g]
      BY <1>f, <3>1, IntoType, AddedType
    <3>3. e \notin early => \A w \in Windows : acc[w][e] = 0
      BY <1>i, <3>1 DEF LiveRemembered
    <3>4. AtMostOnce(acc')
      <4>. SUFFICES ASSUME NEW w \in Windows, NEW g \in Events \ early
                    PROVE  acc'[w][g] <= 1
        BY <2>1 DEF AtMostOnce
      <4>1. acc[w][g] <= 1 BY <1>i DEF AtMostOnce
      <4>. QED BY <3>2, <3>3, <4>1
    <3>5. LiveRemembered'
      <4>. SUFFICES ASSUME NEW w \in Windows, NEW g \in Events \ early,
                         acc'[w][g] # 0
                    PROVE  w \in WindowsOf(g) /\ g \in seen' /\ ~Expired(w, watermark)
        BY <2>1 DEF LiveRemembered, Expired
      <4>1. CASE w \in Into(e) /\ g = e
        BY <4>1, <3>1 DEF Into
      <4>2. CASE ~(w \in Into(e) /\ g = e)
        <5>1. acc[w][g] # 0 BY <4>2, <3>2
        <5>. QED BY <5>1, <1>i, <3>1 DEF LiveRemembered
      <4>. QED BY <4>1, <4>2
    <3>6. OnceRows(rowsOut')
      <4>1. OnceRows(Results(FiredNow(e), acc'))
        BY <3>4, <2>1, IntoType, ResultsOnce DEF AtMostOnce
      <4>2. OnceRows(rowsOut) BY <1>i
      <4>. QED BY <3>1, <4>1, <4>2 DEF OnceRows
    <3>. QED
      BY <2>1, <3>4, <3>5, <3>6 DEF OnceInv, SavedRemembered, AtMostOnce, OnceRows,
                                    OnceTable
  <2>. QED BY <2>1, <2>2, <2>3
<1>2. CASE AdvanceWatermark
  <2>1. /\ watermark' = NextMark
        /\ rowsOut' = rowsOut \cup Results(Triggered, acc)
        /\ acc' = [w \in Windows |-> IF w \in Gone THEN Nothing ELSE acc[w]]
        /\ UNCHANGED <<seen, metrics, table, checkpoint, early>>
    BY <1>2, AdvanceUnfolds
  <2>2. \A w \in Windows, e \in Events :
           acc'[w][e] = IF w \in Gone THEN 0 ELSE acc[w][e]
    BY <2>1 DEF Nothing
  <2>3. AtMostOnce(acc')
    BY <1>i, <2>2 DEF AtMostOnce
  <2>4. LiveRemembered'
    <3>. SUFFICES ASSUME NEW w \in Windows, NEW e \in Events \ early,
                       acc'[w][e] # 0
                  PROVE  w \in WindowsOf(e) /\ e \in seen' /\ ~Expired(w, NextMark)
      BY <2>1 DEF LiveRemembered, Expired
    <3>1. w \notin Gone /\ acc[w][e] # 0 BY <2>2
    <3>. QED BY <3>1, <2>1, <1>i DEF LiveRemembered, Gone
  <2>5. OnceRows(rowsOut')
    <3>1. Triggered \in SUBSET Windows BY <1>f DEF Triggered
    <3>2. OnceRows(Results(Triggered, acc)) BY <1>i, <3>1, ResultsOnce
    <3>. QED BY <2>1, <3>2, <1>i DEF OnceRows
  <2>. QED
    BY <2>1, <2>3, <2>4, <2>5
       DEF OnceInv, SavedRemembered, AtMostOnce, OnceRows, OnceTable
<1>3. ASSUME NEW e \in Events, Forget(e) PROVE OnceInv'
  <2>1. /\ seen' = seen \ {e}
        /\ early \subseteq early'
        /\ e \notin early' => \A w \in WindowsOf(e) : Expired(w, watermark)
        /\ UNCHANGED <<watermark, acc, rowsOut, metrics, table, checkpoint>>
    BY <1>3 DEF Forget, sinks
  <2>2. LiveRemembered'
    <3>. SUFFICES ASSUME NEW w \in Windows, NEW g \in Events \ early',
                         acc[w][g] # 0
                  PROVE  w \in WindowsOf(g) /\ g \in seen' /\ ~Expired(w, watermark)
      BY <2>1 DEF LiveRemembered, Expired
    <3>1. w \in WindowsOf(g) /\ g \in seen /\ ~Expired(w, watermark)
      BY <1>i, <2>1 DEF LiveRemembered
    <3>. QED BY <2>1, <3>1
  <2>. QED
    BY <2>1, <2>2 DEF OnceInv, SavedRemembered, AtMostOnce, OnceRows, OnceTable
<1>4. CASE Flush
  <2>1. /\ UNCHANGED <<watermark, seen, acc, table, checkpoint, early>>
        /\ metrics' = metrics \cup rowsOut /\ rowsOut' = {}
    BY <1>4 DEF Flush, state
  <2>2. OnceRows(rowsOut') /\ OnceRows(metrics')
    BY <2>1, <1>i DEF OnceRows
  <2>. QED
    BY <2>1, <2>2 DEF OnceInv, LiveRemembered, SavedRemembered, AtMostOnce, OnceRows,
                 OnceTable, Expired
<1>5. CASE Checkpoint
  <2>1. /\ UNCHANGED <<watermark, seen, acc, table, early>>
        /\ checkpoint'.acc = acc /\ checkpoint'.seen = seen
        /\ metrics' = metrics \cup rowsOut /\ rowsOut' = {}
    BY <1>5 DEF Checkpoint, Snapshot, state
  <2>2. OnceRows(rowsOut') /\ OnceRows(metrics')
    BY <2>1, <1>i DEF OnceRows
  <2>3. SavedRemembered' /\ LiveRemembered'
    BY <2>1, <1>i DEF LiveRemembered, SavedRemembered, Expired
  <2>4. AtMostOnce(checkpoint'.acc) /\ AtMostOnce(acc')
    BY <2>1, <1>i DEF AtMostOnce
  <2>. QED
    BY <2>1, <2>2, <2>3, <2>4 DEF OnceInv, AtMostOnce, OnceRows, OnceTable
<1>6. CASE Restart
  <2>1. /\ watermark' = -1 - OutOfOrder - 1
        /\ acc' = checkpoint.acc /\ seen' = checkpoint.seen
        /\ \E rows \in SUBSET rowsOut : metrics' = metrics \cup rows
        /\ rowsOut' = {}
        /\ UNCHANGED <<table, checkpoint, early>>
    BY <1>6 DEF Restart
  <2>2. OnceRows(rowsOut') /\ OnceRows(metrics')
    BY <2>1, <1>i DEF OnceRows
  <2>3. LiveRemembered'
    <3>1. \A w \in Windows : ~Expired(w, -1 - OutOfOrder - 1)
      BY NothingExpired
    <3>2. \A w \in Windows : ~Expired(w, watermark')
      BY <2>1, <3>1
    <3>3. \A w \in Windows, e \in Events \ early : acc'[w][e] # 0 =>
             w \in WindowsOf(e) /\ e \in seen'
      BY <2>1, <1>i DEF SavedRemembered
    <3>. QED BY <3>2, <3>3, <2>1 DEF LiveRemembered, Expired
  <2>4. AtMostOnce(acc') /\ AtMostOnce(checkpoint'.acc) /\ SavedRemembered'
    BY <2>1, <1>i DEF SavedRemembered, AtMostOnce
  <2>. QED
    BY <2>1, <2>2, <2>3, <2>4 DEF OnceInv, AtMostOnce, OnceRows, OnceTable
<1>7. ASSUME NEW row \in metrics, Ingest(row) PROVE OnceInv'
  <2>1. /\ UNCHANGED <<watermark, seen, acc, rowsOut, metrics, checkpoint, early>>
        /\ table' = [table EXCEPT ![row.window] =
                       [revision |-> row.revision, count |-> row.count]]
    BY <1>7 DEF Ingest, state, sinks
  <2>2. \A e \in Events \ early : row.count[e] <= 1
    BY <1>7, <1>i DEF OnceRows
  <2>3. \A w \in Windows : table'[w] = table[w] \/ table'[w].count = row.count
    BY <2>1 DEF TypeOK
  <2>4. OnceTable'
    BY <2>1, <2>2, <2>3 DEF OnceInv, OnceTable
  <2>. QED
    BY <2>1, <2>4 DEF OnceInv, LiveRemembered, SavedRemembered, AtMostOnce, OnceRows,
                 OnceTable, Expired
<1>8. CASE UNCHANGED vars
  BY <1>8 DEF vars, state, sinks, OnceInv, LiveRemembered, SavedRemembered,
              AtMostOnce, OnceRows, OnceTable, Expired
<1>. QED BY <1>1, <1>2, <1>3, <1>4, <1>5, <1>6, <1>7, <1>8 DEF Next

(* An aggregate in the window state, in the metric topics or in ClickHouse *)
(* counts an event twice only if its id was forgotten before its windows   *)
(* had expired, whatever duplicates the topic holds and however often the  *)
(* job restarts.                                                           *)
THEOREM CountedOnceHolds == Spec => []CountedOnce
<1>1. OnceInv => CountedOnce
  BY DEF OnceInv, AtMostOnce, OnceRows, OnceTable, CountedOnce
<1>. QED BY <1>1, TypeInit, TypeStep, OnceInit, OnceStep, PTL DEF Spec

-----------------------------------------------------------------------------
(* The source and its checkpoint are within the topic. *)
OffsetsWithin ==
  \A p \in Partitions : /\ offset[p] <= Len(topic[p])
                        /\ checkpoint.offset[p] <= Len(topic[p])

LEMMA WithinInit == Init => OffsetsWithin
<1>. SUFFICES ASSUME Init, NEW p \in Partitions
              PROVE  offset[p] <= Len(topic[p]) /\ checkpoint.offset[p] <= Len(topic[p])
  BY DEF OffsetsWithin
<1>1. topic[p] \in Seq(Events)
  BY TypeInit DEF TypeOK
<1>2. offset[p] = 0 /\ checkpoint.offset = offset
  BY DEF Init, Snapshot
<1>. QED BY <1>1, <1>2

LEMMA WithinStep ==
  ASSUME TypeOK, OffsetsWithin, [Next]_vars PROVE OffsetsWithin'
<1>f. offset \in [Partitions -> Nat]
  BY SnapshotFields DEF TypeOK
<1>1. ASSUME NEW p \in Partitions, Process(p) PROVE OffsetsWithin'
  <2>1. /\ offset[p] + 1 \in 1..Len(topic[p])
        /\ offset' = [offset EXCEPT ![p] = @ + 1]
        /\ UNCHANGED <<topic, checkpoint>>
    BY <1>1, ProcessUnfolds
  <2>. SUFFICES ASSUME NEW q \in Partitions
                PROVE  offset'[q] <= Len(topic[q]) /\ checkpoint.offset[q] <= Len(topic[q])
    BY <2>1 DEF OffsetsWithin
  <2>2. CASE q = p
    BY <2>1, <2>2, <1>f DEF OffsetsWithin
  <2>3. CASE q # p
    BY <2>1, <2>3, <1>f DEF OffsetsWithin
  <2>. QED BY <2>2, <2>3
<1>2. CASE AdvanceWatermark
  BY <1>2, AdvanceUnfolds DEF OffsetsWithin
<1>3. ASSUME NEW e \in Events, Forget(e) PROVE OffsetsWithin'
  BY <1>3 DEF Forget, OffsetsWithin
<1>4. CASE Flush
  BY <1>4 DEF Flush, state, OffsetsWithin
<1>5. CASE Checkpoint
  <2>1. UNCHANGED <<topic, offset>> /\ checkpoint'.offset = offset
    BY <1>5 DEF Checkpoint, state, Snapshot
  <2>. QED BY <2>1 DEF OffsetsWithin
<1>6. CASE Restart
  BY <1>6 DEF Restart, OffsetsWithin
<1>7. ASSUME NEW row \in metrics, Ingest(row) PROVE OffsetsWithin'
  BY <1>7 DEF Ingest, state, OffsetsWithin
<1>8. CASE UNCHANGED vars
  BY <1>8 DEF vars, state, OffsetsWithin
<1>. QED BY <1>1, <1>2, <1>3, <1>4, <1>5, <1>6, <1>7, <1>8 DEF Next

-----------------------------------------------------------------------------
(* Why an audited event is beyond the boundary: the watermark is behind    *)
(* the largest event time the running job has consumed, and that is the    *)
(* time of a record before the position of the source.                     *)
MaxConsumed ==
  \/ maxTime = -1
  \/ \E q \in Partitions : \E j \in 1..offset[q] :
        topic[q][j] \notin Invalid /\ EventTime[topic[q][j]] = maxTime

WatermarkBehind == watermark <= maxTime - OutOfOrder - 1

Backed(letter) ==
  letter.code = "TOO_LATE" =>
     \E p \in Partitions : \E i \in 1..Len(topic[p]) :
        topic[p][i] = letter.event /\ Beyond(letter.event, p, i)

LateInv ==
  /\ MaxConsumed
  /\ WatermarkBehind
  /\ \A letter \in lettersOut : Backed(letter)
  /\ \A letter \in dlq : Backed(letter)

LEMMA StaysBehind ==
  ASSUME NEW m \in Int, NEW n \in Int, NEW x \in Int, n >= m,
         x <= m - OutOfOrder - 1
  PROVE  x <= n - OutOfOrder - 1
BY JobAssumption

LEMMA LateInit == Init => LateInv
BY JobAssumption DEF Init, LateInv, MaxConsumed, WatermarkBehind

LEMMA LateStep ==
  ASSUME TypeOK, OffsetsWithin, LateInv, [Next]_vars PROVE LateInv'
<1>. USE JobAssumption
<1>f. /\ offset \in [Partitions -> Nat]
      /\ topic \in [Partitions -> Seq(Events)]
      /\ maxTime \in Int /\ watermark \in Int
  BY SnapshotFields DEF TypeOK
<1>i. /\ MaxConsumed /\ WatermarkBehind
      /\ \A letter \in lettersOut : Backed(letter)
      /\ \A letter \in dlq : Backed(letter)
  BY DEF LateInv
<1>b. ASSUME UNCHANGED topic
      PROVE  \A letter : Backed(letter) => Backed(letter)'
  BY <1>b DEF Backed, Beyond
<1>1. ASSUME NEW p \in Partitions, Process(p) PROVE LateInv'
  <2>1. PICK e \in Events :
            /\ e = topic[p][offset[p] + 1]
            /\ offset[p] + 1 \in 1..Len(topic[p])
            /\ offset' = [offset EXCEPT ![p] = @ + 1]
            /\ Reject(e) \/ Duplicate(e) \/ Accept(e)
            /\ UNCHANGED <<topic, watermark, metrics, dlq, table, checkpoint,
                           restarts, early>>
    BY <1>1, ProcessUnfolds
  <2>2. \A q \in Partitions : \A j \in 1..offset[q] : j \in 1..offset'[q]
    <3>. TAKE q \in Partitions
    <3>1. offset'[q] = offset[q] \/ offset'[q] = offset[q] + 1 BY <2>1, <1>f
    <3>. QED BY <3>1, <1>f
  <2>3. maxTime' = maxTime => MaxConsumed'
    BY <2>1, <2>2, <1>i DEF MaxConsumed
  <2>4. \A letter \in dlq' : Backed(letter)'
    BY <2>1, <1>b, <1>i
  <2>5. \A letter \in lettersOut : Backed(letter)'
    BY <2>1, <1>b, <1>i
  <2>6. CASE Reject(e)
    <3>1. maxTime' = maxTime /\ lettersOut' = lettersOut \cup {Letter("INVALID", e)}
      BY <2>6 DEF Reject
    <3>2. Backed(Letter("INVALID", e))'
      BY DEF Backed, Letter
    <3>3. \A letter \in lettersOut' : Backed(letter)'
      BY <3>1, <3>2, <2>5
    <3>. QED BY <2>1, <2>3, <2>4, <3>1, <3>3, <1>i DEF LateInv, WatermarkBehind
  <2>7. CASE Duplicate(e)
    <3>1. maxTime' = maxTime /\ lettersOut' = lettersOut
      BY <2>7 DEF Duplicate
    <3>. QED BY <2>1, <2>3, <2>4, <2>5, <3>1, <1>i DEF LateInv, WatermarkBehind
  <2>8. CASE Accept(e)
    <3>1. /\ e \notin Invalid
          /\ maxTime' = IF EventTime[e] > maxTime THEN EventTime[e] ELSE maxTime
          /\ lettersOut' = IF WindowOf("node", e) \in Into(e)
                             THEN lettersOut
                             ELSE lettersOut \cup {Letter("TOO_LATE", e)}
      BY <2>8, AcceptUnfolds
    <3>2. MaxConsumed'
      <4>1. CASE maxTime' = maxTime
        BY <4>1, <2>3
      <4>2. CASE maxTime' = EventTime[e]
        <5>1. offset[p] + 1 \in 1..offset'[p] BY <2>1, <1>f
        <5>. QED BY <4>2, <5>1, <2>1, <3>1 DEF MaxConsumed
      <4>. QED BY <3>1, <4>1, <4>2
    <3>3. WatermarkBehind'
      <4>1. maxTime' >= maxTime /\ maxTime' \in Int BY <3>1, <1>f
      <4>2. watermark <= maxTime - OutOfOrder - 1 /\ watermark' = watermark
        BY <2>1, <1>i DEF WatermarkBehind
      <4>3. watermark' <= maxTime' - OutOfOrder - 1
        BY <4>1, <4>2, <1>f, StaysBehind
      <4>. QED BY <4>3 DEF WatermarkBehind
    <3>4. ASSUME WindowOf("node", e) \notin Into(e)
          PROVE  Backed(Letter("TOO_LATE", e))'
      <4>. DEFINE w == WindowOf("node", e)
      <4>1. Expired(w, watermark) BY <3>4, NodeWindow DEF Into
      <4>2. w \in Windows BY NodeWindow, WindowsOfType
      <4>3. End(w) \in Nat \ {0} BY <4>2, WindowShape
      <4>4. maxTime >= End(w) + OutOfOrder + Lateness
        BY <4>1, <4>3, <1>f, <1>i DEF Expired, WatermarkBehind
      <4>5. PICK q \in Partitions : \E j \in 1..offset[q] :
               topic[q][j] \notin Invalid /\ EventTime[topic[q][j]] = maxTime
        BY <4>3, <4>4, <1>i DEF MaxConsumed
      <4>6. PICK j \in 1..offset[q] :
               topic[q][j] \notin Invalid /\ EventTime[topic[q][j]] = maxTime
        BY <4>5
      <4>7. j \in 1..Len(topic[q])
        BY <1>f DEF OffsetsWithin
      <4>8. q = p => j < offset[p] + 1
        BY <1>f
      <4>9. Beyond(e, p, offset[p] + 1)
        BY <4>4, <4>6, <4>7, <4>8 DEF Beyond
      <4>10. Backed(Letter("TOO_LATE", e))
        BY <4>9, <2>1 DEF Backed, Letter
      <4>11. UNCHANGED topic BY <2>1
      <4>. QED BY <4>10, <4>11 DEF Backed, Beyond, Letter
    <3>5. \A letter \in lettersOut' : Backed(letter)'
      <4>1. CASE WindowOf("node", e) \in Into(e)
        BY <4>1, <3>1, <2>5
      <4>2. CASE WindowOf("node", e) \notin Into(e)
        <5>1. lettersOut' = lettersOut \cup {Letter("TOO_LATE", e)} BY <4>2, <3>1
        <5>2. Backed(Letter("TOO_LATE", e))' BY <4>2, <3>4
        <5>. QED BY <5>1, <5>2, <2>5
      <4>. QED BY <4>1, <4>2
    <3>. QED BY <2>4, <3>2, <3>3, <3>5 DEF LateInv
  <2>. QED BY <2>1, <2>6, <2>7, <2>8
<1>2. CASE AdvanceWatermark
  <2>1. /\ watermark' = maxTime - OutOfOrder - 1
        /\ UNCHANGED <<topic, offset, maxTime, lettersOut, dlq>>
    BY <1>2, AdvanceUnfolds DEF NextMark
  <2>2. WatermarkBehind' BY <2>1, <1>f DEF WatermarkBehind
  <2>. QED BY <2>1, <2>2, <1>b, <1>i DEF LateInv, MaxConsumed
<1>3. ASSUME NEW e \in Events, Forget(e) PROVE LateInv'
  <2>1. UNCHANGED <<topic, offset, maxTime, watermark, lettersOut, dlq>>
    BY <1>3 DEF Forget, sinks
  <2>. QED BY <2>1, <1>b, <1>i DEF LateInv, MaxConsumed, WatermarkBehind
<1>4. CASE Flush \/ Checkpoint
  <2>1. /\ UNCHANGED <<topic, offset, maxTime, watermark>>
        /\ lettersOut' = {} /\ dlq' = dlq \cup lettersOut
    BY <1>4 DEF Flush, Checkpoint, state
  <2>2. \A letter \in dlq' : Backed(letter)'
    BY <2>1, <1>b, <1>i
  <2>. QED BY <2>1, <2>2, <1>i DEF LateInv, MaxConsumed, WatermarkBehind
<1>5. CASE Restart
  <2>1. /\ maxTime' = -1 /\ watermark' = -1 - OutOfOrder - 1
        /\ lettersOut' = {}
        /\ \E letters \in SUBSET lettersOut : dlq' = dlq \cup letters
        /\ UNCHANGED topic
    BY <1>5 DEF Restart
  <2>2. \A letter \in dlq' : letter \in dlq \/ letter \in lettersOut
    BY <2>1
  <2>3. \A letter \in dlq' : Backed(letter)'
    BY <2>1, <2>2, <1>b, <1>i
  <2>. QED BY <2>1, <2>3 DEF LateInv, MaxConsumed, WatermarkBehind
<1>6. ASSUME NEW row \in metrics, Ingest(row) PROVE LateInv'
  <2>1. UNCHANGED <<topic, offset, maxTime, watermark, lettersOut, dlq>>
    BY <1>6 DEF Ingest, state, sinks
  <2>. QED BY <2>1, <1>b, <1>i DEF LateInv, MaxConsumed, WatermarkBehind
<1>7. CASE UNCHANGED vars
  <2>1. UNCHANGED <<topic, offset, maxTime, watermark, lettersOut, dlq>>
    BY <1>7 DEF vars, state, sinks
  <2>. QED BY <2>1, <1>b, <1>i DEF LateInv, MaxConsumed, WatermarkBehind
<1>. QED BY <1>1, <1>2, <1>3, <1>4, <1>5, <1>6, <1>7 DEF Next

(* An event is audited as TOO_LATE only when the topic has, ahead of it or *)
(* in another partition, an event that passed the end of its minute by the *)
(* out-of-orderness bound and the allowed lateness.                        *)
THEOREM LateOnlyBeyondHolds == Spec => []LateOnlyBeyond
<1>1. LateInv => LateOnlyBeyond
  BY DEF LateInv, Backed, LateOnlyBeyond
<1>. QED BY <1>1, TypeInit, TypeStep, WithinInit, WithinStep, LateInit, LateStep,
            PTL DEF Spec

-----------------------------------------------------------------------------
(* Why a checkpoint loses nothing: an event in the state of a window has   *)
(* a pending timer or a row that counts it, so the window is not cleared   *)
(* before its event is in a row; every record before the position of the   *)
(* source and every remembered id is audited, in a row or in a window; and *)
(* for a checkpoint the same holds of what the sinks have acknowledged.    *)
RowFor(w, e, rows) == \E row \in rows : row.window = w /\ row.count[e] > 0

KeptBy(e, letters, rows, aggregate) ==
  IF e \in Invalid
    THEN Letter("INVALID", e) \in letters
    ELSE \/ Letter("TOO_LATE", e) \in letters
         \/ RowFor(WindowOf("node", e), e, rows)
         \/ aggregate[WindowOf("node", e)][e] > 0

AllLetters == lettersOut \cup dlq

AllRows == rowsOut \cup metrics

LiveBacked ==
  \A w \in Windows, e \in Events :
     acc[w][e] > 0 => w \in timers \/ RowFor(w, e, AllRows)

SavedBacked ==
  \A w \in Windows, e \in Events :
     checkpoint.acc[w][e] > 0 => w \in checkpoint.timers \/ RowFor(w, e, metrics)

LiveKept ==
  /\ \A e \in seen : KeptBy(e, AllLetters, AllRows, acc)
  /\ \A p \in Partitions : \A i \in 1..offset[p] :
        KeptBy(topic[p][i], AllLetters, AllRows, acc)

SavedKept ==
  /\ \A e \in checkpoint.seen : KeptBy(e, dlq, metrics, checkpoint.acc)
  /\ \A p \in Partitions : \A i \in 1..checkpoint.offset[p] :
        KeptBy(topic[p][i], dlq, metrics, checkpoint.acc)

KeptInv == LiveBacked /\ SavedBacked /\ LiveKept /\ SavedKept

LEMMA RowForGrows ==
  ASSUME NEW w, NEW e, NEW rows, NEW more, RowFor(w, e, rows), rows \subseteq more
  PROVE  RowFor(w, e, more)
BY DEF RowFor

LEMMA KeptGrows ==
  ASSUME NEW e, NEW letters, NEW rows, NEW agg,
         NEW letters2, NEW rows2, NEW agg2,
         KeptBy(e, letters, rows, agg),
         letters \subseteq letters2, rows \subseteq rows2,
         agg[WindowOf("node", e)][e] > 0 =>
            \/ agg2[WindowOf("node", e)][e] > 0
            \/ RowFor(WindowOf("node", e), e, rows2)
  PROVE  KeptBy(e, letters2, rows2, agg2)
BY RowForGrows DEF KeptBy

LEMMA ResultRow ==
  ASSUME NEW fired, NEW w \in fired, NEW aggregate, NEW e, aggregate[w][e] > 0
  PROVE  RowFor(w, e, Results(fired, aggregate))
<1>. DEFINE r == [window |-> w, revision |-> revision[w] + 1, count |-> aggregate[w]]
<1>1. r \in Results(fired, aggregate) BY DEF Results, NextRevision
<1>2. r.window = w /\ r.count[e] > 0 OBVIOUS
<1>. QED BY <1>1, <1>2 DEF RowFor

LEMMA ConsumedIsEvent ==
  ASSUME TypeOK, OffsetsWithin, NEW p \in Partitions
  PROVE  /\ \A i \in 1..offset[p] : topic[p][i] \in Events
         /\ \A i \in 1..checkpoint.offset[p] : topic[p][i] \in Events
<1>1. topic[p] \in Seq(Events) /\ offset[p] \in Nat
  BY SnapshotFields DEF TypeOK
<1>2. checkpoint.offset[p] \in Nat
  BY DEF TypeOK, Checkpoints
<1>. QED BY <1>1, <1>2 DEF OffsetsWithin

LEMMA KeptInit == Init => KeptInv
<1>. SUFFICES ASSUME Init PROVE KeptInv
  OBVIOUS
<1>1. \A w \in Windows, e \in Events : acc[w][e] = 0
  BY DEF Init, Nothing
<1>2. /\ checkpoint.acc = acc /\ checkpoint.seen = {}
      /\ checkpoint.offset = offset
  BY DEF Init, Snapshot
<1>3. LiveBacked /\ SavedBacked
  BY <1>1, <1>2 DEF LiveBacked, SavedBacked
<1>4. \A p \in Partitions : 1..offset[p] = {}
  BY DEF Init
<1>5. seen = {}
  BY DEF Init
<1>6. LiveKept BY <1>4, <1>5 DEF LiveKept
<1>7. SavedKept BY <1>2, <1>4 DEF SavedKept
<1>. QED BY <1>3, <1>6, <1>7 DEF KeptInv

(* Every step keeps what the sinks acknowledged, so a checkpoint that does *)
(* not change stays kept.                                                  *)
LEMMA SavedStays ==
  ASSUME TypeOK, OffsetsWithin, SavedBacked, SavedKept,
         UNCHANGED <<topic, checkpoint>>,
         metrics \subseteq metrics', dlq \subseteq dlq'
  PROVE  SavedBacked' /\ SavedKept'
<1>1. SavedBacked'
  <2>. SUFFICES ASSUME NEW w \in Windows, NEW e \in Events,
                       checkpoint.acc[w][e] > 0
                PROVE  w \in checkpoint.timers \/ RowFor(w, e, metrics')
    BY DEF SavedBacked, RowFor
  <2>. QED BY RowForGrows DEF SavedBacked
<1>2. \A e \in Events : KeptBy(e, dlq, metrics, checkpoint.acc) =>
                           KeptBy(e, dlq', metrics', checkpoint.acc)
  BY KeptGrows
<1>3. checkpoint.seen \subseteq Events
  BY DEF TypeOK, Checkpoints
<1>4. \A e \in checkpoint.seen : KeptBy(e, dlq', metrics', checkpoint.acc)
  BY <1>2, <1>3 DEF SavedKept
<1>5. \A p \in Partitions : \A i \in 1..checkpoint.offset[p] :
         KeptBy(topic[p][i], dlq', metrics', checkpoint.acc)
  BY <1>2, ConsumedIsEvent DEF SavedKept
<1>6. SavedKept'
  BY <1>4, <1>5 DEF SavedKept, KeptBy, RowFor
<1>. QED BY <1>1, <1>6

LEMMA KeptStep ==
  ASSUME TypeOK, OffsetsWithin, KeptInv, [Next]_vars PROVE KeptInv'
<1>. USE JobAssumption
<1>f. /\ acc \in [Windows -> [Events -> Nat]]
      /\ offset \in [Partitions -> Nat]
      /\ seen \in SUBSET Events
      /\ timers \in SUBSET Windows
      /\ maxTime \in Int
  BY SnapshotFields DEF TypeOK
<1>i. LiveBacked /\ SavedBacked /\ LiveKept /\ SavedKept
  BY DEF KeptInv
<1>e. \A p \in Partitions : \A i \in 1..offset[p] : topic[p][i] \in Events
  BY ConsumedIsEvent
<1>w. \A e \in Events : WindowOf("node", e) \in Windows
  BY NodeWindow, WindowsOfType
<1>1. ASSUME NEW p \in Partitions, Process(p) PROVE KeptInv'
  <2>1. PICK e \in Events :
            /\ e = topic[p][offset[p] + 1]
            /\ offset' = [offset EXCEPT ![p] = @ + 1]
            /\ Reject(e) \/ Duplicate(e) \/ Accept(e)
            /\ UNCHANGED <<topic, watermark, metrics, dlq, table, checkpoint,
                           restarts, early>>
    BY <1>1, ProcessUnfolds
  <2>s. SavedBacked' /\ SavedKept'
    BY <2>1, <1>i, SavedStays
  <2>o. \A q \in Partitions : \A i \in 1..offset'[q] :
           i \in 1..offset[q] \/ topic[q][i] = e
    <3>. SUFFICES ASSUME NEW q \in Partitions, NEW i \in 1..offset'[q],
                         i \notin 1..offset[q]
                  PROVE  topic[q][i] = e
      OBVIOUS
    <3>1. q = p
      BY <2>1, <1>f
    <3>2. i = offset[p] + 1
      BY <3>1, <2>1, <1>f
    <3>. QED BY <3>1, <3>2, <2>1
  <2>k. ASSUME \A g \in Events : KeptBy(g, AllLetters, AllRows, acc) =>
                                   KeptBy(g, AllLetters', AllRows', acc'),
               KeptBy(e, AllLetters', AllRows', acc'),
               seen' \subseteq seen \cup {e}
        PROVE  LiveKept'
    <3>1. \A g \in seen' : KeptBy(g, AllLetters', AllRows', acc')
      BY <2>k, <1>f, <1>i DEF LiveKept
    <3>2. \A q \in Partitions : \A i \in 1..offset'[q] :
             KeptBy(topic[q][i], AllLetters', AllRows', acc')
      BY <2>k, <2>o, <1>e, <1>i DEF LiveKept
    <3>3. topic' = topic BY <2>1
    <3>. QED BY <3>1, <3>2, <3>3 DEF LiveKept, KeptBy, RowFor
  <2>2. CASE Reject(e)
    <3>1. /\ e \in Invalid /\ lettersOut' = lettersOut \cup {Letter("INVALID", e)}
          /\ UNCHANGED <<seen, acc, timers, rowsOut>>
      BY <2>2 DEF Reject, Valid
    <3>2. /\ AllLetters \subseteq AllLetters' /\ AllRows' = AllRows
          /\ Letter("INVALID", e) \in AllLetters'
      BY <3>1, <2>1 DEF AllLetters, AllRows
    <3>3. \A g \in Events : KeptBy(g, AllLetters, AllRows, acc) =>
                              KeptBy(g, AllLetters', AllRows', acc')
      BY <3>1, <3>2, KeptGrows
    <3>4. KeptBy(e, AllLetters', AllRows', acc')
      BY <3>1, <3>2 DEF KeptBy
    <3>5. LiveKept'
      BY <2>k, <3>1, <3>3, <3>4
    <3>6. LiveBacked'
      BY <3>1, <3>2, <1>i DEF LiveBacked, RowFor
    <3>. QED BY <2>s, <3>5, <3>6 DEF KeptInv
  <2>3. CASE Duplicate(e)
    <3>1. e \in seen /\ UNCHANGED <<seen, acc, timers, rowsOut, lettersOut>>
      BY <2>3 DEF Duplicate
    <3>2. AllLetters' = AllLetters /\ AllRows' = AllRows
      BY <3>1, <2>1 DEF AllLetters, AllRows
    <3>3. \A g \in Events : KeptBy(g, AllLetters, AllRows, acc) =>
                              KeptBy(g, AllLetters', AllRows', acc')
      BY <3>1, <3>2, KeptGrows
    <3>4. KeptBy(e, AllLetters', AllRows', acc')
      BY <3>1, <3>3, <1>i DEF LiveKept
    <3>5. LiveKept'
      BY <2>k, <3>1, <3>3, <3>4
    <3>6. LiveBacked'
      BY <3>1, <3>2, <1>i DEF LiveBacked, RowFor
    <3>. QED BY <2>s, <3>5, <3>6 DEF KeptInv
  <2>4. CASE Accept(e)
    <3>1. /\ e \notin Invalid /\ seen' = seen \cup {e}
          /\ acc' = Added(e, Into(e))
          /\ timers' = timers \cup (Into(e) \ FiredNow(e))
          /\ rowsOut' = rowsOut \cup Results(FiredNow(e), acc')
          /\ lettersOut' = IF WindowOf("node", e) \in Into(e)
                             THEN lettersOut
                             ELSE lettersOut \cup {Letter("TOO_LATE", e)}
      BY <2>4, AcceptUnfolds
    <3>2. \A w \in Windows, g \in Events :
             acc'[w][g] = IF w \in Into(e) /\ g = e THEN acc[w][g] + 1
                                                    ELSE acc[w][g]
      BY <1>f, <3>1, IntoType, AddedType
    <3>3. \A w \in Windows, g \in Events :
             acc[w][g] \in Nat /\ (acc[w][g] > 0 => acc'[w][g] > 0)
      <4>1. \A w \in Windows, g \in Events : acc[w][g] \in Nat BY <1>f
      <4>. QED BY <3>2, <4>1
    <3>4. lettersOut \subseteq lettersOut'
      BY <3>1
    <3>5. AllLetters \subseteq AllLetters' /\ AllRows \subseteq AllRows'
      BY <3>1, <3>4, <2>1 DEF AllLetters, AllRows
    <3>6. Results(FiredNow(e), acc') \subseteq AllRows'
      BY <3>1 DEF AllRows
    <3>7. \A g \in Events : KeptBy(g, AllLetters, AllRows, acc) =>
                              KeptBy(g, AllLetters', AllRows', acc')
      BY <3>3, <3>5, <1>w, KeptGrows
    <3>8. KeptBy(e, AllLetters', AllRows', acc')
      <4>1. CASE WindowOf("node", e) \in Into(e)
        <5>1. acc'[WindowOf("node", e)][e] > 0
          BY <4>1, <3>2, <3>3, <1>w
        <5>. QED BY <5>1, <3>1 DEF KeptBy
      <4>2. CASE WindowOf("node", e) \notin Into(e)
        <5>1. lettersOut' = lettersOut \cup {Letter("TOO_LATE", e)} BY <4>2, <3>1
        <5>2. Letter("TOO_LATE", e) \in AllLetters' BY <5>1 DEF AllLetters
        <5>. QED BY <5>2, <3>1 DEF KeptBy
      <4>. QED BY <4>1, <4>2
    <3>9. LiveKept'
      BY <2>k, <3>1, <3>7, <3>8
    <3>10. ASSUME NEW w \in Windows, NEW g \in Events, acc'[w][g] > 0
           PROVE  w \in timers' \/ RowFor(w, g, AllRows')
      <4>1. CASE acc[w][g] > 0
        <5>1. w \in timers \/ RowFor(w, g, AllRows) BY <4>1, <1>i DEF LiveBacked
        <5>. QED BY <5>1, <3>1, <3>5, RowForGrows
      <4>2. CASE ~(acc[w][g] > 0)
        <5>1. w \in Into(e) BY <4>2, <3>2, <3>10
        <5>2. CASE w \in FiredNow(e)
          <6>1. RowFor(w, g, Results(FiredNow(e), acc'))
            BY <5>2, <3>10, ResultRow
          <6>. QED BY <6>1, <3>6, RowForGrows
        <5>3. CASE w \notin FiredNow(e)
          BY <5>1, <5>3, <3>1
        <5>. QED BY <5>2, <5>3
      <4>. QED BY <4>1, <4>2
    <3>11. LiveBacked'
      BY <3>10 DEF LiveBacked, RowFor
    <3>. QED BY <2>s, <3>9, <3>11 DEF KeptInv
  <2>. QED BY <2>1, <2>2, <2>3, <2>4
<1>2. CASE AdvanceWatermark
  <2>1. /\ rowsOut' = rowsOut \cup Results(Triggered, acc)
        /\ acc' = [w \in Windows |-> IF w \in Gone THEN Nothing ELSE acc[w]]
        /\ timers' = timers \ Triggered
        /\ UNCHANGED <<topic, offset, seen, lettersOut, metrics, dlq, checkpoint>>
    BY <1>2, AdvanceUnfolds
  <2>s. SavedBacked' /\ SavedKept'
    BY <2>1, <1>i, SavedStays
  <2>2. AllLetters' = AllLetters /\ AllRows \subseteq AllRows'
        /\ Results(Triggered, acc) \subseteq AllRows'
    BY <2>1 DEF AllLetters, AllRows
  <2>3. \A w \in Windows, e \in Events :
           acc'[w][e] = IF w \in Gone THEN 0 ELSE acc[w][e]
    BY <2>1 DEF Nothing
  <2>4. ASSUME NEW w \in Windows, NEW e \in Events, acc[w][e] > 0
        PROVE  /\ w \in timers' \/ RowFor(w, e, AllRows')
               /\ acc'[w][e] > 0 \/ RowFor(w, e, AllRows')
    <3>1. w \in timers \/ RowFor(w, e, AllRows)
      BY <2>4, <1>i DEF LiveBacked
    <3>2. CASE RowFor(w, e, AllRows)
      BY <3>2, <2>2, RowForGrows
    <3>3. CASE w \in Triggered
      <4>1. RowFor(w, e, Results(Triggered, acc)) BY <3>3, <2>4, ResultRow
      <4>. QED BY <4>1, <2>2, RowForGrows
    <3>4. CASE w \in timers /\ w \notin Triggered
      <4>1. NextMark \in Int BY <1>f DEF NextMark
      <4>2. w \notin Gone
        BY <3>4, <4>1, ExpiredIsDue DEF Triggered, Gone
      <4>. QED BY <3>4, <4>2, <2>1, <2>3, <2>4
    <3>. QED BY <3>1, <3>2, <3>3, <3>4
  <2>5. LiveBacked'
    <3>1. ASSUME NEW w \in Windows, NEW e \in Events, acc'[w][e] > 0
          PROVE  w \in timers' \/ RowFor(w, e, AllRows')
      <4>1. acc[w][e] > 0 BY <3>1, <2>3
      <4>. QED BY <4>1, <2>4
    <3>. QED BY <3>1 DEF LiveBacked, RowFor
  <2>6. \A g \in Events : KeptBy(g, AllLetters, AllRows, acc) =>
                            KeptBy(g, AllLetters', AllRows', acc')
    BY <2>2, <2>4, <1>w, KeptGrows
  <2>7. LiveKept'
    <3>1. \A g \in seen : KeptBy(g, AllLetters', AllRows', acc')
      BY <2>6, <1>f, <1>i DEF LiveKept
    <3>2. \A q \in Partitions : \A i \in 1..offset[q] :
             KeptBy(topic[q][i], AllLetters', AllRows', acc')
      BY <2>6, <1>e, <1>i DEF LiveKept
    <3>. QED BY <3>1, <3>2, <2>1 DEF LiveKept, KeptBy, RowFor
  <2>. QED BY <2>s, <2>5, <2>7 DEF KeptInv
<1>3. ASSUME NEW e \in Events, Forget(e) PROVE KeptInv'
  <2>1. /\ seen' \subseteq seen
        /\ UNCHANGED <<topic, offset, acc, timers, rowsOut, lettersOut, metrics,
                       dlq, checkpoint>>
    BY <1>3 DEF Forget, sinks
  <2>2. SavedBacked' /\ SavedKept'
    BY <2>1, <1>i, SavedStays
  <2>3. AllLetters' = AllLetters /\ AllRows' = AllRows
    BY <2>1 DEF AllLetters, AllRows
  <2>4. LiveBacked' /\ LiveKept'
    BY <2>1, <2>3, <1>i DEF LiveBacked, LiveKept, KeptBy, RowFor
  <2>. QED BY <2>2, <2>4 DEF KeptInv
<1>4. CASE Flush
  <2>1. /\ UNCHANGED <<topic, offset, seen, acc, timers, checkpoint>>
        /\ metrics' = metrics \cup rowsOut /\ rowsOut' = {}
        /\ dlq' = dlq \cup lettersOut /\ lettersOut' = {}
    BY <1>4 DEF Flush, state
  <2>2. SavedBacked' /\ SavedKept'
    BY <2>1, <1>i, SavedStays
  <2>3. AllLetters' = AllLetters /\ AllRows' = AllRows
    BY <2>1 DEF AllLetters, AllRows
  <2>4. LiveBacked' /\ LiveKept'
    BY <2>1, <2>3, <1>i DEF LiveBacked, LiveKept, KeptBy, RowFor
  <2>. QED BY <2>2, <2>4 DEF KeptInv
<1>5. CASE Checkpoint
  <2>1. /\ UNCHANGED <<topic, offset, seen, acc, timers>>
        /\ metrics' = metrics \cup rowsOut /\ rowsOut' = {}
        /\ dlq' = dlq \cup lettersOut /\ lettersOut' = {}
        /\ checkpoint' = Snapshot
    BY <1>5 DEF Checkpoint, state
  <2>2. /\ checkpoint'.acc = acc /\ checkpoint'.seen = seen
        /\ checkpoint'.timers = timers /\ checkpoint'.offset = offset
    BY <2>1 DEF Snapshot
  <2>3. /\ AllLetters' = AllLetters /\ AllRows' = AllRows
        /\ metrics' = AllRows /\ dlq' = AllLetters
    BY <2>1 DEF AllLetters, AllRows
  <2>4. LiveBacked' /\ LiveKept'
    BY <2>1, <2>3, <1>i DEF LiveBacked, LiveKept, KeptBy, RowFor
  <2>5. SavedBacked'
    BY <2>2, <2>3, <1>i DEF LiveBacked, SavedBacked, RowFor
  <2>6. SavedKept'
    BY <2>1, <2>2, <2>3, <1>i DEF LiveKept, SavedKept, KeptBy, RowFor
  <2>. QED BY <2>4, <2>5, <2>6 DEF KeptInv
<1>6. CASE Restart
  <2>1. /\ UNCHANGED <<topic, checkpoint>>
        /\ acc' = checkpoint.acc /\ seen' = checkpoint.seen
        /\ timers' = checkpoint.timers /\ offset' = checkpoint.offset
        /\ rowsOut' = {} /\ lettersOut' = {}
        /\ metrics \subseteq metrics' /\ dlq \subseteq dlq'
    BY <1>6 DEF Restart
  <2>2. SavedBacked' /\ SavedKept'
    BY <2>1, <1>i, SavedStays
  <2>3. AllLetters' = dlq' /\ AllRows' = metrics'
    BY <2>1 DEF AllLetters, AllRows
  <2>4. LiveBacked'
    BY <2>1, <2>2, <2>3 DEF LiveBacked, SavedBacked, RowFor
  <2>5. LiveKept'
    BY <2>1, <2>2, <2>3 DEF LiveKept, SavedKept, KeptBy, RowFor
  <2>. QED BY <2>2, <2>4, <2>5 DEF KeptInv
<1>7. ASSUME NEW row \in metrics, Ingest(row) PROVE KeptInv'
  <2>1. UNCHANGED <<topic, offset, seen, acc, timers, rowsOut, lettersOut,
                    metrics, dlq, checkpoint>>
    BY <1>7 DEF Ingest, state, sinks
  <2>. QED
    BY <2>1 DEF KeptInv, LiveBacked, LiveKept, SavedBacked, SavedKept, KeptBy,
                RowFor, AllLetters, AllRows
<1>8. CASE UNCHANGED vars
  <2>1. UNCHANGED <<topic, offset, seen, acc, timers, rowsOut, lettersOut,
                    metrics, dlq, checkpoint>>
    BY <1>8 DEF vars, state, sinks
  <2>. QED
    BY <2>1 DEF KeptInv, LiveBacked, LiveKept, SavedBacked, SavedKept, KeptBy,
                RowFor, AllLetters, AllRows
<1>. QED BY <1>1, <1>2, <1>3, <1>4, <1>5, <1>6, <1>7, <1>8 DEF Next

(* Every record that a completed checkpoint has consumed is in the dead    *)
(* letters, in a row of the node topic or in the window state of that      *)
(* checkpoint: a failure of the job at any point loses none.               *)
THEOREM NothingLostHolds == Spec => []NothingLost
<1>1. KeptInv => NothingLost
  BY DEF KeptInv, SavedKept, KeptBy, RowFor, NothingLost, Kept, CountedIn
<1>. QED BY <1>1, TypeInit, TypeStep, WithinInit, WithinStep, KeptInit, KeptStep,
            PTL DEF Spec
=============================================================================
