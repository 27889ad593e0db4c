----------------------- MODULE AnalyticsJobRunProofs ------------------------
(***************************************************************************)
(* What holds of AnalyticsJob until its first restart, for every set of    *)
(* events, partitions and window parameters: revisions are in the order of *)
(* what they count, and a late event is counted nowhere.                   *)
(***************************************************************************)
EXTENDS AnalyticsJobProofs

-----------------------------------------------------------------------------
(* A pending timer is ahead of the watermark; an emitted row is behind it, *)
(* and as long as its window has state that state is no older; of two rows *)
(* of a window the later revision counts what the earlier one counts; and  *)
(* ClickHouse shows an emitted row or none.                                *)
TimersAhead == \A w \in timers : ~Due(w, watermark)

RowBehind(r, mark, revisions, aggregate) ==
  /\ Due(r.window, mark)
  /\ ~Expired(r.window, mark) =>
        /\ r.revision <= revisions[r.window]
        /\ \A e \in Events : r.count[e] <= aggregate[r.window][e]

RowsBehind == \A r \in AllRows : RowBehind(r, watermark, revision, acc)

RowsOrdered(rows) ==
  \A r, s \in rows : r.window = s.window /\ r.revision <= s.revision =>
     \A e \in Events : r.count[e] <= s.count[e]

ShownRow(w) ==
  \/ table[w].revision = NoRevision /\ table[w].count = Nothing
  \/ \E r \in metrics : /\ r.window = w
                        /\ r.revision = table[w].revision
                        /\ r.count = table[w].count

RunInv ==
  /\ TimersAhead
  /\ RowsBehind
  /\ RowsOrdered(AllRows)
  /\ \A w \in Windows : ShownRow(w)

LEMMA MarkGrows ==
  ASSUME NEW w \in Windows, NEW s \in Int, NEW t \in Int, s <= t
  PROVE  /\ Due(w, s) => Due(w, t)
         /\ Expired(w, s) => Expired(w, t)
<1>1. End(w) \in Nat BY WindowShape
<1>2. Lateness \in Nat BY JobAssumption
<1>3. Due(w, s) => Due(w, t) BY <1>1 DEF Due
<1>4. Expired(w, s) => Expired(w, t) BY <1>1, <1>2 DEF Expired
<1>. QED BY <1>3, <1>4

(* A row of Results is the next revision of a window that fired. *)
LEMMA ResultShape ==
  ASSUME NEW fired, NEW aggregate, NEW r \in Results(fired, aggregate)
  PROVE  /\ r.window \in fired
         /\ r.revision = revision[r.window] + 1
         /\ r.count = aggregate[r.window]
BY DEF Results, NextRevision

LEMMA ResultsOrdered ==
  ASSUME NEW fired \in SUBSET Windows,
         NEW aggregate \in [Windows -> [Events -> Nat]],
         revision \in [Windows -> Nat \cup {NoRevision}],
         NEW rows \in SUBSET Row, RowsOrdered(rows),
         \A r \in rows : r.window \in fired =>
            /\ r.revision <= revision[r.window]
            /\ \A e \in Events : r.count[e] <= aggregate[r.window][e]
  PROVE  RowsOrdered(rows \cup Results(fired, aggregate))
<1>. SUFFICES ASSUME NEW r \in rows \cup Results(fired, aggregate),
                     NEW s \in rows \cup Results(fired, aggregate),
                     r.window = s.window, r.revision <= s.revision,
                     NEW e \in Events
              PROVE  r.count[e] <= s.count[e]
  BY DEF RowsOrdered
<1>1. CASE r \in rows /\ s \in rows
  BY <1>1 DEF RowsOrdered
<1>2. CASE r \in rows /\ s \in Results(fired, aggregate)
  BY <1>2, ResultShape
<1>3. CASE r \in Results(fired, aggregate) /\ s \in rows
  <2>1. /\ r.window \in fired /\ r.revision = revision[r.window] + 1
    BY <1>3, ResultShape
  <2>2. s.revision <= revision[r.window] BY <1>3, <2>1
  <2>3. revision[r.window] \in Int BY <2>1 DEF NoRevision
  <2>4. s.revision \in Nat BY <1>3 DEF Row
  <2>. QED BY <2>1, <2>2, <2>3, <2>4
<1>4. CASE r \in Results(fired, aggregate) /\ s \in Results(fired, aggregate)
  <2>1. r.count = aggregate[r.window] /\ s.count = aggregate[r.window]
        /\ r.window \in fired
    BY <1>4, ResultShape
  <2>2. aggregate[r.window][e] \in Nat BY <2>1
  <2>. QED BY <2>1, <2>2
<1>. QED BY <1>1, <1>2, <1>3, <1>4

LEMMA RunInit == Init => RunInv
<1>. SUFFICES ASSUME Init PROVE RunInv
  OBVIOUS
<1>1. AllRows = {} /\ timers = {} BY DEF Init, AllRows
<1>2. \A w \in Windows : ShownRow(w) BY DEF Init, ShownRow
<1>. QED BY <1>1, <1>2 DEF RunInv, TimersAhead, RowsBehind, RowsOrdered

-----------------------------------------------------------------------------
LEMMA RunAccept ==
  ASSUME TypeOK, TypeOK', RunInv, NEW e \in Events, Accept(e),
         UNCHANGED <<watermark, metrics, table>>
  PROVE  RunInv'
<1>f. /\ acc \in [Windows -> [Events -> Nat]]
      /\ revision \in [Windows -> Nat \cup {NoRevision}]
      /\ timers \in SUBSET Windows
      /\ watermark \in Int
      /\ AllRows \subseteq Row
  BY SnapshotFields DEF TypeOK, AllRows
<1>1. /\ acc' = Added(e, Into(e))
      /\ revision' = [w \in Windows |-> IF w \in FiredNow(e)
                                          THEN revision[w] + 1
                                          ELSE revision[w]]
      /\ timers' = timers \cup (Into(e) \ FiredNow(e))
      /\ rowsOut' = rowsOut \cup Results(FiredNow(e), acc')
  BY AcceptUnfolds
<1>2. /\ acc' \in [Windows -> [Events -> Nat]]
      /\ \A w \in Windows, g \in Events :
            acc'[w][g] = IF w \in Into(e) /\ g = e THEN acc[w][g] + 1
                                                   ELSE acc[w][g]
  BY <1>f, <1>1, IntoType, AddedType
<1>3. \A w \in Windows, g \in Events : acc[w][g] <= acc'[w][g]
  <2>1. \A w \in Windows, g \in Events : acc[w][g] \in Nat BY <1>f
  <2>. QED BY <1>2, <2>1
<1>4. FiredNow(e) \in SUBSET Windows
  BY IntoType
<1>5. AllRows' = AllRows \cup Results(FiredNow(e), acc')
  BY <1>1 DEF AllRows
<1>6. TimersAhead'
  BY <1>1 DEF RunInv, TimersAhead, FiredNow, Due, End
<1>7. ASSUME NEW r \in AllRows, ~Expired(r.window, watermark)
      PROVE  /\ r.revision <= revision[r.window]
             /\ \A g \in Events : r.count[g] <= acc'[r.window][g]
  <2>1. /\ r.revision <= revision[r.window]
        /\ \A g \in Events : r.count[g] <= acc[r.window][g]
    BY <1>7 DEF RunInv, RowsBehind, RowBehind
  <2>2. r.window \in Windows /\ \A g \in Events : r.count[g] \in Nat
    BY <1>7, <1>f DEF Row
  <2>3. \A g \in Events : /\ acc[r.window][g] \in Nat
                          /\ acc'[r.window][g] \in Nat
    BY <2>2, <1>f, <1>2
  <2>4. \A g \in Events : acc[r.window][g] <= acc'[r.window][g]
    BY <2>2, <1>3
  <2>. QED BY <2>1, <2>2, <2>3, <2>4
<1>8. RowsOrdered(AllRows')
  <2>1. \A w \in FiredNow(e) : ~Expired(w, watermark) BY DEF FiredNow, Into
  <2>2. RowsOrdered(AllRows) BY DEF RunInv
  <2>3. \A r \in AllRows : r.window \in FiredNow(e) =>
           /\ r.revision <= revision[r.window]
           /\ \A g \in Events : r.count[g] <= acc'[r.window][g]
    BY <2>1, <1>7
  <2>. QED BY <1>2, <1>f, <1>4, <1>5, <2>2, <2>3, ResultsOrdered
<1>9. ASSUME NEW r \in AllRows'
      PROVE  RowBehind(r, watermark, revision', acc')
  <2>1. CASE r \in AllRows
    <3>1. r.window \in Windows /\ r.revision \in Nat BY <2>1, <1>f DEF Row
    <3>2. Due(r.window, watermark) BY <2>1 DEF RunInv, RowsBehind, RowBehind
    <3>3. revision[r.window] \in Int BY <3>1, <1>f DEF NoRevision
    <3>4. revision[r.window] <= revision'[r.window] /\ revision'[r.window] \in Int
      BY <3>1, <3>3, <1>1
    <3>5. ~Expired(r.window, watermark) => r.revision <= revision'[r.window]
      BY <2>1, <3>1, <3>3, <3>4, <1>7
    <3>. QED BY <2>1, <3>2, <3>5, <1>7 DEF RowBehind
  <2>2. CASE r \in Results(FiredNow(e), acc')
    <3>1. /\ r.window \in FiredNow(e) /\ r.revision = revision[r.window] + 1
          /\ r.count = acc'[r.window]
      BY <2>2, ResultShape
    <3>2. r.window \in Windows BY <3>1, <1>4
    <3>3. revision'[r.window] = r.revision BY <3>1, <3>2, <1>1
    <3>4. revision[r.window] + 1 \in Int BY <3>2, <1>f DEF NoRevision
    <3>5. \A g \in Events : acc'[r.window][g] \in Nat BY <3>2, <1>2
    <3>6. Due(r.window, watermark) BY <3>1 DEF FiredNow
    <3>. QED BY <3>1, <3>3, <3>4, <3>5, <3>6 DEF RowBehind
  <2>. QED BY <2>1, <2>2, <1>5
<1>10. RowsBehind'
  BY <1>9 DEF RowsBehind, RowBehind, Due, Expired, End
<1>11. \A w \in Windows : ShownRow(w)'
  BY DEF RunInv, ShownRow
<1>. QED BY <1>6, <1>8, <1>10, <1>11 DEF RunInv, RowsOrdered

LEMMA RunAdvance ==
  ASSUME TypeOK, TypeOK', RunInv, AdvanceWatermark
  PROVE  RunInv'
<1>f. /\ acc \in [Windows -> [Events -> Nat]]
      /\ revision \in [Windows -> Nat \cup {NoRevision}]
      /\ timers \in SUBSET Windows
      /\ watermark \in Int /\ maxTime \in Int
      /\ AllRows \subseteq Row
  BY SnapshotFields DEF TypeOK, AllRows
<1>1. /\ watermark' = NextMark
      /\ rowsOut' = rowsOut \cup Results(Triggered, acc)
      /\ acc' = [w \in Windows |-> IF w \in Gone THEN Nothing ELSE acc[w]]
      /\ revision' = [w \in Windows |-> IF w \in Triggered THEN revision[w] + 1
                                                           ELSE revision[w]]
      /\ timers' = timers \ Triggered
      /\ UNCHANGED <<metrics, table>>
  BY AdvanceUnfolds
<1>2. NextMark \in Int /\ watermark <= NextMark
  BY <1>f, JobAssumption DEF AdvanceWatermark, NextMark
<1>3. Triggered \in SUBSET Windows /\ Triggered \subseteq timers
  BY <1>f DEF Triggered
<1>4. AllRows' = AllRows \cup Results(Triggered, acc)
  BY <1>1 DEF AllRows
<1>5. \A r \in AllRows : r.window \notin Triggered
  BY <1>3 DEF RunInv, TimersAhead, RowsBehind, RowBehind
<1>6. RowsOrdered(AllRows')
  <2>1. RowsOrdered(AllRows) BY DEF RunInv
  <2>. QED BY <1>f, <1>3, <1>4, <1>5, <2>1, ResultsOrdered
<1>7. TimersAhead'
  <2>1. \A w \in timers \ Triggered : ~Due(w, NextMark)
    BY DEF Triggered
  <2>. QED BY <1>1, <2>1 DEF TimersAhead, Due, End
<1>8. ASSUME NEW r \in AllRows'
      PROVE  RowBehind(r, NextMark, revision', acc')
  <2>1. CASE r \in AllRows
    <3>1. r.window \in Windows BY <2>1, <1>f DEF Row
    <3>2. Due(r.window, watermark) BY <2>1 DEF RunInv, RowsBehind, RowBehind
    <3>3. Due(r.window, NextMark) BY <3>1, <3>2, <1>f, <1>2, MarkGrows
    <3>4. ASSUME ~Expired(r.window, NextMark)
          PROVE  /\ r.revision <= revision'[r.window]
                 /\ \A g \in Events : r.count[g] <= acc'[r.window][g]
      <4>1. ~Expired(r.window, watermark)
        BY <3>4, <3>1, <1>f, <1>2, MarkGrows
      <4>2. r.window \notin Gone BY <3>4 DEF Gone
      <4>3. r.window \notin Triggered BY <2>1, <1>5
      <4>4. /\ revision'[r.window] = revision[r.window]
            /\ acc'[r.window] = acc[r.window]
        BY <1>1, <3>1, <4>2, <4>3
      <4>. QED BY <2>1, <4>1, <4>4 DEF RunInv, RowsBehind, RowBehind
    <3>. QED BY <3>3, <3>4 DEF RowBehind
  <2>2. CASE r \in Results(Triggered, acc)
    <3>1. /\ r.window \in Triggered /\ r.revision = revision[r.window] + 1
          /\ r.count = acc[r.window]
      BY <2>2, ResultShape
    <3>2. r.window \in Windows BY <3>1, <1>3
    <3>3. Due(r.window, NextMark) BY <3>1 DEF Triggered
    <3>4. ASSUME ~Expired(r.window, NextMark)
          PROVE  /\ r.revision <= revision'[r.window]
                 /\ \A g \in Events : r.count[g] <= acc'[r.window][g]
      <4>1. r.window \notin Gone BY <3>4 DEF Gone
      <4>2. /\ revision'[r.window] = r.revision /\ acc'[r.window] = r.count
        BY <1>1, <3>1, <3>2, <4>1
      <4>3. revision[r.window] + 1 \in Int BY <3>2, <1>f DEF NoRevision
      <4>4. \A g \in Events : acc[r.window][g] \in Nat BY <3>2, <1>f
      <4>. QED BY <3>1, <4>2, <4>3, <4>4
    <3>. QED BY <3>3, <3>4 DEF RowBehind
  <2>. QED BY <2>1, <2>2, <1>4
<1>9. RowsBehind'
  BY <1>8, <1>1 DEF RowsBehind, RowBehind, Due, Expired, End
<1>10. \A w \in Windows : ShownRow(w)'
  BY <1>1 DEF RunInv, ShownRow
<1>. QED BY <1>6, <1>7, <1>9, <1>10 DEF RunInv, RowsOrdered

(* Steps that leave the windows alone and hand rows on. *)
LEMMA RunHandOn ==
  ASSUME RunInv, UNCHANGED <<watermark, acc, revision, timers, table>>,
         AllRows' = AllRows, metrics \subseteq metrics'
  PROVE  RunInv'
<1>1. TimersAhead' BY DEF RunInv, TimersAhead, Due, End
<1>2. RowsBehind' BY DEF RunInv, RowsBehind, RowBehind, Due, Expired, End
<1>3. RowsOrdered(AllRows)' BY DEF RunInv, RowsOrdered
<1>4. \A w \in Windows : ShownRow(w)' BY DEF RunInv, ShownRow
<1>. QED BY <1>1, <1>2, <1>3, <1>4 DEF RunInv

LEMMA RunStep ==
  ASSUME TypeOK, TypeOK', RunInv, [Next]_vars, ~Restart
  PROVE  RunInv'
<1>1. ASSUME NEW p \in Partitions, Process(p) PROVE RunInv'
  <2>1. PICK e \in Events :
            /\ Reject(e) \/ Duplicate(e) \/ Accept(e)
            /\ UNCHANGED <<topic, watermark, metrics, dlq, table, checkpoint,
                           restarts, early>>
    BY <1>1, ProcessUnfolds
  <2>2. CASE Reject(e) \/ Duplicate(e)
    <3>1. UNCHANGED <<acc, revision, timers, rowsOut>>
      BY <2>2 DEF Reject, Duplicate
    <3>2. AllRows' = AllRows BY <3>1, <2>1 DEF AllRows
    <3>. QED BY <2>1, <3>1, <3>2, RunHandOn
  <2>3. CASE Accept(e)
    BY <2>1, <2>3, RunAccept
  <2>. QED BY <2>1, <2>2, <2>3
<1>2. CASE AdvanceWatermark
  BY <1>2, RunAdvance
<1>3. ASSUME NEW e \in Events, Forget(e) PROVE RunInv'
  <2>1. UNCHANGED <<watermark, acc, revision, timers, table, rowsOut, metrics>>
    BY <1>3 DEF Forget, sinks
  <2>2. AllRows' = AllRows BY <2>1 DEF AllRows
  <2>. QED BY <2>1, <2>2, RunHandOn
<1>4. CASE Flush \/ Checkpoint
  <2>1. /\ UNCHANGED <<watermark, acc, revision, timers, table>>
        /\ metrics' = metrics \cup rowsOut /\ rowsOut' = {}
    BY <1>4 DEF Flush, Checkpoint, state
  <2>2. AllRows' = AllRows BY <2>1 DEF AllRows
  <2>. QED BY <2>1, <2>2, RunHandOn
<1>5. ASSUME NEW row \in metrics, Ingest(row) PROVE RunInv'
  <2>1. /\ UNCHANGED <<watermark, acc, revision, timers, rowsOut, metrics>>
        /\ table' = [table EXCEPT ![row.window] =
                       [revision |-> row.revision, count |-> row.count]]
    BY <1>5 DEF Ingest, state, sinks
  <2>2. AllRows' = AllRows BY <2>1 DEF AllRows
  <2>3. TimersAhead' BY <2>1 DEF RunInv, TimersAhead, Due, End
  <2>4. RowsBehind'
    BY <2>1, <2>2 DEF RunInv, RowsBehind, RowBehind, Due, Expired, End
  <2>5. RowsOrdered(AllRows)' BY <2>2 DEF RunInv, RowsOrdered
  <2>6. ASSUME NEW w \in Windows PROVE ShownRow(w)'
    <3>1. CASE w = row.window
      <4>1. table'[w] = [revision |-> row.revision, count |-> row.count]
        BY <2>1, <3>1 DEF TypeOK
      <4>. QED BY <1>5, <2>1, <3>1, <4>1 DEF ShownRow
    <3>2. CASE w # row.window
      <4>1. table'[w] = table[w] BY <2>1, <3>2 DEF TypeOK
      <4>. QED BY <2>1, <4>1 DEF RunInv, ShownRow
    <3>. QED BY <3>1, <3>2
  <2>. QED BY <2>3, <2>4, <2>5, <2>6 DEF RunInv
<1>6. CASE UNCHANGED vars
  <2>1. UNCHANGED <<watermark, acc, revision, timers, table, rowsOut, metrics>>
    BY <1>6 DEF vars, state, sinks
  <2>2. AllRows' = AllRows BY <2>1 DEF AllRows
  <2>. QED BY <2>1, <2>2, RunHandOn
<1>. QED BY <1>1, <1>2, <1>3, <1>4, <1>5, <1>6 DEF Next

(* Restarts are never taken back. *)
LEMMA RestartsGrow ==
  ASSUME TypeOK, [Next]_vars, restarts' = 0
  PROVE  restarts = 0 /\ ~Restart
<1>1. ~Restart BY DEF TypeOK, Restart
<1>. QED BY <1>1 DEF Next, vars, Process, AdvanceWatermark, Forget, Flush,
                     Checkpoint, Ingest

FirstRun == restarts = 0 => RunInv

LEMMA FirstRunStep ==
  ASSUME TypeOK, TypeOK', FirstRun, [Next]_vars PROVE FirstRun'
BY RestartsGrow, RunStep DEF FirstRun

LEMMA FirstRunAlways == Spec => [](TypeOK /\ FirstRun)
<1>1. Init => FirstRun BY RunInit DEF FirstRun
<1>. QED BY <1>1, TypeInit, TypeStep, FirstRunStep, PTL DEF Spec

(* Until the first restart a window and a revision identify one aggregate, *)
(* whatever the sinks repeat.                                              *)
THEOREM RevisionIdentifiesHolds == Spec => []RevisionIdentifies
<1>1. ASSUME TypeOK, FirstRun PROVE RevisionIdentifies
  <2>. SUFFICES ASSUME restarts = 0, NEW r \in metrics, NEW s \in metrics,
                       r.window = s.window, r.revision = s.revision
                PROVE  r.count = s.count
    BY DEF RevisionIdentifies
  <2>1. r \in Row /\ s \in Row BY <1>1 DEF TypeOK
  <2>2. /\ r.revision \in Nat /\ r.count \in [Events -> Nat]
        /\ s.count \in [Events -> Nat]
    BY <2>1 DEF Row
  <2>3. \A e \in Events : r.count[e] <= s.count[e] /\ s.count[e] <= r.count[e]
    BY <1>1, <2>2 DEF FirstRun, RunInv, RowsOrdered, AllRows
  <2>4. \A e \in Events : r.count[e] = s.count[e] BY <2>2, <2>3
  <2>. QED BY <2>2, <2>4
<1>. QED BY <1>1, FirstRunAlways, PTL

(* Until the first restart the row that ClickHouse shows for a window      *)
(* never loses an event, in whatever order the revisions arrive.           *)
THEOREM VisibleGrowsHolds == Spec => VisibleGrows
<1>1. ASSUME TypeOK, FirstRun, [Next]_vars
      PROVE  [restarts' = 0 => \A w \in Windows, e \in Events :
                table[w].count[e] <= table'[w].count[e]]_vars
  <2>. SUFFICES ASSUME restarts' = 0, NEW w \in Windows, NEW e \in Events
                PROVE  table[w].count[e] <= table'[w].count[e]
    OBVIOUS
  <2>1. RunInv /\ ~Restart BY <1>1, RestartsGrow DEF FirstRun
  <2>2. table[w] \in [revision : Nat \cup {NoRevision}, count : [Events -> Nat]]
    BY <1>1 DEF TypeOK
  <2>3. table[w].count[e] \in Nat /\ table[w].revision \in Int
    BY <2>2 DEF NoRevision
  <2>4. CASE table' = table
    BY <2>3, <2>4
  <2>5. ASSUME NEW row \in metrics, Ingest(row)
        PROVE  table[w].count[e] <= table'[w].count[e]
    <3>1. table' = [table EXCEPT ![row.window] =
                      [revision |-> row.revision, count |-> row.count]]
      BY <2>5 DEF Ingest
    <3>2. CASE w # row.window
      <4>1. table'[w] = table[w] BY <3>1, <3>2, <1>1 DEF TypeOK
      <4>. QED BY <4>1, <2>3
    <3>3. CASE w = row.window
      <4>1. table'[w].count = row.count BY <3>1, <3>3, <1>1 DEF TypeOK
      <4>2. row.count[e] \in Nat BY <1>1, <2>5 DEF TypeOK, Row
      <4>3. row.revision >= table[w].revision BY <2>5, <3>3 DEF Ingest
      <4>4. row.revision \in Nat BY <1>1, <2>5 DEF TypeOK, Row
      <4>5. CASE table[w].count = Nothing
        BY <4>1, <4>2, <4>5 DEF Nothing
      <4>6. ASSUME NEW r \in metrics, r.window = w,
                   r.revision = table[w].revision, r.count = table[w].count
            PROVE  table[w].count[e] <= table'[w].count[e]
        <5>1. r.revision <= row.revision BY <4>3, <4>4, <4>6, <2>3
        <5>2. r.count[e] <= row.count[e]
          BY <5>1, <2>1, <2>5, <3>3, <4>6 DEF RunInv, RowsOrdered, AllRows
        <5>. QED BY <5>2, <4>1, <4>6
      <4>. QED BY <4>5, <4>6, <2>1 DEF RunInv, ShownRow
    <3>. QED BY <3>2, <3>3
  <2>. QED BY <1>1, <2>1, <2>4, <2>5
           DEF Next, vars, Process, AdvanceWatermark, Forget, Flush, Checkpoint
<1>. QED BY <1>1, FirstRunAlways, PTL DEF Spec, VisibleGrows

-----------------------------------------------------------------------------
(* Why a late event is counted nowhere: whatever mentions an event comes   *)
(* from a consumed record, so an event that is once in the topic is        *)
(* accepted with no trace of it before, and that one step audits it or     *)
(* adds it to its minute.                                                  *)
Placed == \A p \in Partitions : \A i \in 1..Len(topic[p]) :
             PartitionOf[topic[p][i]] = p

Consumed(e) == \E p \in Partitions : \E i \in 1..offset[p] : topic[p][i] = e

Late(e) == Letter("TOO_LATE", e) \in AllLetters

TracesConsumed ==
  \A e \in Events :
     /\ Late(e) => Consumed(e)
     /\ \A w \in Windows : acc[w][e] # 0 => Consumed(e)
     /\ \A r \in AllRows : r.count[e] # 0 => Consumed(e)

LateUncounted ==
  \A e \in Events : Single(e) /\ Late(e) =>
     /\ acc[WindowOf("node", e)][e] = 0
     /\ \A r \in AllRows : r.window = WindowOf("node", e) => r.count[e] = 0

AuditInv == Placed /\ TracesConsumed /\ LateUncounted

LEMMA AuditInit == Init => AuditInv
<1>. SUFFICES ASSUME Init PROVE AuditInv
  OBVIOUS
<1>1. AllRows = {} /\ AllLetters = {} BY DEF Init, AllRows, AllLetters
<1>2. \A w \in Windows, e \in Events : acc[w][e] = 0 BY DEF Init, Nothing
<1>3. Placed BY DEF Init, Placed
<1>4. TracesConsumed BY <1>1, <1>2 DEF TracesConsumed, Late
<1>5. LateUncounted BY <1>1 DEF LateUncounted, Late
<1>. QED BY <1>3, <1>4, <1>5 DEF AuditInv

(* A consumed event that is once in the topic does not come again. *)
LEMMA OnceConsumed ==
  ASSUME TypeOK, OffsetsWithin, Placed, NEW p \in Partitions,
         offset[p] + 1 \in 1..Len(topic[p]),
         NEW e \in Events, e = topic[p][offset[p] + 1], Single(e)
  PROVE  ~Consumed(e)
<1>. SUFFICES ASSUME NEW q \in Partitions, NEW i \in 1..offset[q],
                     topic[q][i] = e
              PROVE  FALSE
  BY DEF Consumed
<1>1. /\ offset \in [Partitions -> Nat]
      /\ \A r \in Partitions : Len(topic[r]) \in Nat
  BY SnapshotFields DEF TypeOK
<1>2. i \in 1..Len(topic[q]) BY <1>1 DEF OffsetsWithin
<1>3. q = p BY <1>2 DEF Placed
<1>4. i = offset[p] + 1 BY <1>2, <1>3 DEF Single
<1>5. offset[p] \in Nat /\ i <= offset[p] BY <1>1, <1>3
<1>. QED BY <1>4, <1>5

(* Consumed records stay consumed. *)
LEMMA ConsumedGrows ==
  ASSUME NEW p \in Partitions, offset \in [Partitions -> Nat],
         offset' = [offset EXCEPT ![p] = @ + 1], topic' = topic,
         NEW e, Consumed(e)
  PROVE  Consumed(e)'
<1>1. PICK q \in Partitions : \E i \in 1..offset[q] : topic[q][i] = e
  BY DEF Consumed
<1>2. PICK i \in 1..offset[q] : topic[q][i] = e
  BY <1>1
<1>3. offset[q] \in Nat /\ offset'[q] \in Nat /\ offset[q] <= offset'[q]
  BY <1>1
<1>4. i \in 1..offset'[q] BY <1>3
<1>. QED BY <1>2, <1>4 DEF Consumed

LEMMA AuditAccept ==
  ASSUME TypeOK, TypeOK', OffsetsWithin, AuditInv, NEW p \in Partitions,
         offset[p] + 1 \in 1..Len(topic[p]),
         NEW e \in Events, e = topic[p][offset[p] + 1], Accept(e),
         offset' = [offset EXCEPT ![p] = @ + 1],
         UNCHANGED <<topic, watermark, metrics, dlq>>
  PROVE  AuditInv'
<1>f. /\ acc \in [Windows -> [Events -> Nat]]
      /\ offset \in [Partitions -> Nat]
  BY SnapshotFields DEF TypeOK
<1>1. /\ acc' = Added(e, Into(e))
      /\ rowsOut' = rowsOut \cup Results(FiredNow(e), acc')
      /\ lettersOut' = IF WindowOf("node", e) \in Into(e)
                         THEN lettersOut
                         ELSE lettersOut \cup {Letter("TOO_LATE", e)}
  BY AcceptUnfolds
<1>2. \A w \in Windows, g \in Events :
         acc'[w][g] = IF w \in Into(e) /\ g = e THEN acc[w][g] + 1
                                                ELSE acc[w][g]
  <2>1. Into(e) \in SUBSET Windows BY IntoType
  <2>2. \A w \in Windows, g \in Events :
           Added(e, Into(e))[w][g] =
              IF w \in Into(e) /\ g = e THEN acc[w][g] + 1 ELSE acc[w][g]
    BY <1>f, <2>1, AddedType
  <2>. QED BY <1>1, <2>2
<1>3. AllRows' = AllRows \cup Results(FiredNow(e), acc')
  BY <1>1 DEF AllRows
<1>4. \A r \in Results(FiredNow(e), acc') :
         /\ r.window \in FiredNow(e) /\ r.window \in Into(e)
         /\ r.window \in Windows /\ r.count = acc'[r.window]
  BY ResultShape, IntoType DEF FiredNow
<1>5. \A g \in Events : Late(g)' =>
         \/ Late(g)
         \/ g = e /\ WindowOf("node", e) \notin Into(e)
  <2>1. CASE WindowOf("node", e) \in Into(e)
    <3>1. AllLetters' = AllLetters BY <2>1, <1>1 DEF AllLetters
    <3>. QED BY <3>1 DEF Late, Letter
  <2>2. CASE WindowOf("node", e) \notin Into(e)
    <3>1. AllLetters' = AllLetters \cup {Letter("TOO_LATE", e)}
      BY <2>2, <1>1 DEF AllLetters
    <3>2. \A g \in Events : Letter("TOO_LATE", g) = Letter("TOO_LATE", e) => g = e
      BY DEF Letter
    <3>. QED BY <2>2, <3>1, <3>2 DEF Late, Letter
  <2>. QED BY <2>1, <2>2
<1>6. Consumed(e)'
  <2>1. offset[p] \in Nat /\ offset'[p] = offset[p] + 1 BY <1>f
  <2>2. offset[p] + 1 \in 1..offset'[p] BY <2>1
  <2>. QED BY <2>2 DEF Consumed
<1>7. \A g \in Events : Consumed(g) => Consumed(g)'
  BY <1>f, ConsumedGrows
<1>8. Placed' BY DEF AuditInv, Placed
<1>9. TracesConsumed'
  <2>1. ASSUME NEW g \in Events
        PROVE  /\ Late(g)' => Consumed(g)'
               /\ \A w \in Windows : acc'[w][g] # 0 => Consumed(g)'
               /\ \A r \in AllRows' : r.count[g] # 0 => Consumed(g)'
    <3>1. Late(g)' => Consumed(g)'
      BY <1>5, <1>6, <1>7 DEF AuditInv, TracesConsumed
    <3>2. \A w \in Windows : acc'[w][g] # 0 => Consumed(g)'
      BY <1>2, <1>6, <1>7 DEF AuditInv, TracesConsumed
    <3>3. \A r \in AllRows' : r.count[g] # 0 => Consumed(g)'
      BY <1>3, <1>4, <1>7, <3>2 DEF AuditInv, TracesConsumed
    <3>. QED BY <3>1, <3>2, <3>3
  <2>. QED BY <2>1 DEF TracesConsumed
<1>10. ASSUME NEW g \in Events, Single(g), Late(g)'
       PROVE  /\ acc'[WindowOf("node", g)][g] = 0
              /\ \A r \in AllRows' :
                    r.window = WindowOf("node", g) => r.count[g] = 0
  <2>w. WindowOf("node", g) \in Windows
    BY NodeWindow, WindowsOfType
  <2>1. CASE g # e
    <3>1. Late(g) BY <2>1, <1>5, <1>10
    <3>2. acc'[WindowOf("node", g)][g] = 0
      BY <2>w, <2>1, <3>1, <1>2, <1>10 DEF AuditInv, LateUncounted
    <3>. QED BY <3>1, <3>2, <1>3, <1>4, <1>10 DEF AuditInv, LateUncounted
  <2>2. CASE g = e
    <3>1. ~Consumed(e) BY <2>2, <1>10, OnceConsumed DEF AuditInv
    <3>2. /\ ~Late(e) /\ acc[WindowOf("node", e)][e] = 0
          /\ \A r \in AllRows : r.count[e] = 0
      BY <3>1, <2>2, <2>w DEF AuditInv, TracesConsumed
    <3>3. WindowOf("node", e) \notin Into(e)
      BY <3>2, <2>2, <1>5, <1>10
    <3>4. acc'[WindowOf("node", e)][e] = 0
      BY <3>2, <3>3, <2>2, <2>w, <1>2
    <3>. QED BY <2>2, <3>2, <3>3, <3>4, <1>3, <1>4
  <2>. QED BY <2>1, <2>2
<1>11. LateUncounted'
  BY <1>10 DEF LateUncounted, Single
<1>. QED BY <1>8, <1>9, <1>11 DEF AuditInv

(* Steps that consume no event of value: nothing new is mentioned. *)
LEMMA AuditQuiet ==
  ASSUME AuditInv, topic' = topic,
         \A e \in Events : Consumed(e) => Consumed(e)',
         \A e \in Events : Late(e)' => Late(e),
         \A w \in Windows, e \in Events : acc'[w][e] # 0 => acc[w][e] # 0,
         \A r \in AllRows' : \/ r \in AllRows
                             \/ r.window \in Windows /\ r.count = acc[r.window]
  PROVE  AuditInv'
<1>1. Placed' BY DEF AuditInv, Placed
<1>2. TracesConsumed' BY DEF AuditInv, TracesConsumed
<1>3. ASSUME NEW e \in Events, Single(e), Late(e)'
      PROVE  /\ acc'[WindowOf("node", e)][e] = 0
             /\ \A r \in AllRows' :
                   r.window = WindowOf("node", e) => r.count[e] = 0
  BY <1>3, NodeWindow, WindowsOfType DEF AuditInv, LateUncounted
<1>4. LateUncounted' BY <1>3 DEF LateUncounted, Single
<1>. QED BY <1>1, <1>2, <1>4 DEF AuditInv

LEMMA AuditStep ==
  ASSUME TypeOK, TypeOK', OffsetsWithin, AuditInv, [Next]_vars, ~Restart
  PROVE  AuditInv'
<1>f. offset \in [Partitions -> Nat] /\ timers \in SUBSET Windows
      /\ acc \in [Windows -> [Events -> Nat]]
  BY SnapshotFields DEF TypeOK
<1>1. ASSUME NEW p \in Partitions, Process(p) PROVE AuditInv'
  <2>1. PICK e \in Events :
            /\ e = topic[p][offset[p] + 1]
            /\ offset[p] + 1 \in 1..Len(topic[p])
            /\ offset' = [offset EXCEPT ![p] = @ + 1]
            /\ Reject(e) \/ Duplicate(e) \/ Accept(e)
            /\ UNCHANGED <<topic, watermark, metrics, dlq, table, checkpoint,
                           restarts, early>>
    BY <1>1, ProcessUnfolds
  <2>2. \A g \in Events : Consumed(g) => Consumed(g)'
    BY <2>1, <1>f, ConsumedGrows
  <2>3. CASE Reject(e) \/ Duplicate(e)
    <3>1. /\ UNCHANGED <<acc, rowsOut>>
          /\ \/ lettersOut' = lettersOut
             \/ lettersOut' = lettersOut \cup {Letter("INVALID", e)}
      BY <2>3 DEF Reject, Duplicate
    <3>2. AllRows' = AllRows BY <3>1, <2>1 DEF AllRows
    <3>3. \A g \in Events : Letter("TOO_LATE", g) # Letter("INVALID", e)
      BY DEF Letter
    <3>4. \A g \in Events : Late(g)' => Late(g)
      BY <3>1, <3>3, <2>1 DEF Late, AllLetters, Letter
    <3>. QED BY <2>1, <2>2, <3>1, <3>2, <3>4, AuditQuiet
  <2>4. CASE Accept(e)
    BY <2>1, <2>4, AuditAccept
  <2>. QED BY <2>1, <2>3, <2>4
<1>2. CASE AdvanceWatermark
  <2>1. /\ rowsOut' = rowsOut \cup Results(Triggered, acc)
        /\ acc' = [w \in Windows |-> IF w \in Gone THEN Nothing ELSE acc[w]]
        /\ UNCHANGED <<topic, offset, lettersOut, metrics, dlq>>
    BY <1>2, AdvanceUnfolds
  <2>2. \A w \in Windows, e \in Events : acc'[w][e] # 0 => acc[w][e] # 0
    BY <2>1 DEF Nothing
  <2>3. Triggered \subseteq Windows BY <1>f DEF Triggered
  <2>4. \A r \in AllRows' : \/ r \in AllRows
                            \/ r.window \in Windows /\ r.count = acc[r.window]
    BY <2>1, <2>3, ResultShape DEF AllRows
  <2>5. \A e \in Events : /\ Late(e)' => Late(e)
                          /\ Consumed(e) => Consumed(e)'
    BY <2>1 DEF Late, AllLetters, Letter, Consumed
  <2>. QED BY <2>1, <2>2, <2>4, <2>5, AuditQuiet
<1>3. CASE Flush \/ Checkpoint
  <2>1. /\ UNCHANGED <<topic, offset, acc>>
        /\ metrics' = metrics \cup rowsOut /\ rowsOut' = {}
        /\ dlq' = dlq \cup lettersOut /\ lettersOut' = {}
    BY <1>3 DEF Flush, Checkpoint, state
  <2>2. AllRows' = AllRows /\ AllLetters' = AllLetters
    BY <2>1 DEF AllRows, AllLetters
  <2>3. \A e \in Events : /\ Late(e)' => Late(e)
                          /\ Consumed(e) => Consumed(e)'
    BY <2>1, <2>2 DEF Late, Letter, Consumed
  <2>. QED BY <2>1, <2>2, <2>3, AuditQuiet
<1>4. ASSUME UNCHANGED <<topic, offset, acc, rowsOut, metrics, lettersOut, dlq>>
      PROVE  AuditInv'
  <2>1. AllRows' = AllRows /\ AllLetters' = AllLetters
    BY <1>4 DEF AllRows, AllLetters
  <2>2. \A e \in Events : /\ Late(e)' => Late(e)
                          /\ Consumed(e) => Consumed(e)'
    BY <1>4, <2>1 DEF Late, Letter, Consumed
  <2>. QED BY <1>4, <2>1, <2>2, AuditQuiet
<1>5. ASSUME NEW e \in Events, Forget(e) PROVE AuditInv'
  BY <1>4, <1>5 DEF Forget, sinks
<1>6. ASSUME NEW row \in metrics, Ingest(row) PROVE AuditInv'
  BY <1>4, <1>6 DEF Ingest, state, sinks
<1>7. CASE UNCHANGED vars
  BY <1>4, <1>7 DEF vars, state, sinks
<1>. QED BY <1>1, <1>2, <1>3, <1>5, <1>6, <1>7 DEF Next

FirstAudit == restarts = 0 => AuditInv

LEMMA FirstAuditStep ==
  ASSUME TypeOK, TypeOK', OffsetsWithin, FirstAudit, [Next]_vars
  PROVE  FirstAudit'
BY RestartsGrow, AuditStep DEF FirstAudit

(* Every valid event that the job has consumed is audited as TOO_LATE or   *)
(* counted in its minute, over any number of restarts; until the first one *)
(* an event that is once in the topic is never both.                       *)
THEOREM AuditedOrCountedHolds == Spec => []AuditedOrCounted
<1>1. ASSUME TypeOK, OffsetsWithin, KeptInv, FirstAudit PROVE AuditedOrCounted
  <2>. SUFFICES ASSUME NEW p \in Partitions, NEW i \in 1..offset[p],
                       topic[p][i] \notin Invalid
                PROVE  LET e == topic[p][i]
                       IN /\ Audited(e) \/ Counted(e)
                          /\ restarts = 0 /\ Single(e) =>
                                ~(Audited(e) /\ Counted(e))
    BY DEF AuditedOrCounted, Valid
  <2>. DEFINE e == topic[p][i]
              w == WindowOf("node", e)
  <2>1. e \in Events BY <1>1, ConsumedIsEvent
  <2>2. w \in Windows BY <2>1, NodeWindow, WindowsOfType
  <2>3. KeptBy(e, AllLetters, AllRows, acc) BY <1>1 DEF KeptInv, LiveKept
  <2>4. Audited(e) \/ Counted(e)
    BY <2>3 DEF KeptBy, RowFor, AllLetters, AllRows, Audited, Counted, CountedIn
  <2>5. ASSUME restarts = 0, Single(e), Audited(e), Counted(e) PROVE FALSE
    <3>1. Late(e) BY <2>5 DEF Audited, Late, AllLetters
    <3>2. /\ acc[w][e] = 0
          /\ \A r \in AllRows : r.window = w => r.count[e] = 0
      BY <1>1, <2>1, <2>5, <3>1 DEF FirstAudit, AuditInv, LateUncounted
    <3>. QED BY <2>5, <3>2 DEF Counted, CountedIn, AllRows
  <2>. QED BY <2>4, <2>5
<1>2. Init => FirstAudit BY AuditInit DEF FirstAudit
<1>. QED BY <1>1, <1>2, TypeInit, TypeStep, WithinInit, WithinStep, KeptInit,
            KeptStep, FirstAuditStep, PTL DEF Spec
=============================================================================
