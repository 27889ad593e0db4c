------------------------ MODULE EventGeneratorProofs ------------------------
(***************************************************************************)
(* What holds of EventGenerator for every number of requests, set of keys, *)
(* batch size and number of attempts.                                      *)
(***************************************************************************)
EXTENDS EventGenerator, SequenceTheorems, FiniteSetTheorems, TLAPS

-----------------------------------------------------------------------------
(* A batch sent again is a sequence of the same records, and a batch sent  *)
(* at least once contains them all.                                        *)
LEMMA RepeatType ==
  ASSUME NEW R, NEW s \in Seq(R), NEW n \in Nat
  PROVE  Repeat(s, n) \in Seq(R)
<1>. DEFINE L == Len(s)
<1>1. L \in Nat /\ n * L \in Nat /\ s \in [1..L -> R]
  OBVIOUS
<1>2. ASSUME NEW p \in 1..(n * L) PROVE s[((p - 1) % L) + 1] \in R
  <2>. HIDE DEF L
  <2>1. L > 0
    <3>1. CASE L = 0
      <4>1. n * L = 0 BY <3>1
      <4>. QED BY <4>1, <1>2
    <3>. QED BY <3>1, <1>1
  <2>2. (p - 1) % L \in 0..(L - 1)
    BY <2>1, <1>1, <1>2
  <2>3. ((p - 1) % L) + 1 \in 1..L
    BY <2>1, <2>2, <1>1
  <2>. QED BY <2>3, <1>1
<1>3. Repeat(s, n) = [p \in 1..(n * L) |-> s[((p - 1) % L) + 1]]
  BY DEF Repeat
<1>4. Repeat(s, n) \in [1..(n * L) -> R]
  <2>. HIDE DEF L
  <2>. QED BY <1>2, <1>3
<1>. QED BY <1>1, <1>4

LEMMA RepeatCovers ==
  ASSUME NEW R, NEW s \in Seq(R), NEW n \in Nat \ {0}, NEW r \in Range(s)
  PROVE  r \in Range(Repeat(s, n))
<1>. DEFINE L == Len(s)
<1>1. PICK p \in 1..L : s[p] = r
  BY DEF Range
<1>2. L \in Nat
  OBVIOUS
<1>3. DOMAIN Repeat(s, n) = 1..(n * L)
  BY DEF Repeat
<1>4. p \in 1..(n * L)
  <2>. HIDE DEF L
  <2>1. n * L = (n - 1) * L + L
    BY <1>2
  <2>2. (n - 1) * L >= 0
    <3>1. n - 1 \in Nat OBVIOUS
    <3>. QED BY <3>1, <1>2
  <2>. QED BY <1>1, <1>2, <2>1, <2>2
<1>5. ((p - 1) % L) + 1 = p
  <2>. HIDE DEF L
  <2>. QED BY <1>1, <1>2
<1>6. Repeat(s, n)[p] = s[((p - 1) % L) + 1]
  BY <1>4 DEF Repeat
<1>. QED BY <1>1, <1>3, <1>4, <1>5, <1>6 DEF Range

(* The two parts of a concatenation. *)
LEMMA RangeConcat ==
  ASSUME NEW R, NEW s \in Seq(R), NEW t \in Seq(R)
  PROVE  Range(s) \subseteq Range(s \o t) /\ Range(t) \subseteq Range(s \o t)
<1>1. ASSUME NEW r \in Range(s) PROVE r \in Range(s \o t)
  <2>1. PICK p \in 1..Len(s) : s[p] = r BY <1>1 DEF Range
  <2>2. p \in 1..Len(s \o t) /\ (s \o t)[p] = r BY <2>1
  <2>. QED BY <2>2 DEF Range
<1>2. ASSUME NEW r \in Range(t) PROVE r \in Range(s \o t)
  <2>1. PICK p \in 1..Len(t) : t[p] = r BY <1>2 DEF Range
  <2>2. Len(s) + p \in 1..Len(s \o t) /\ (s \o t)[Len(s) + p] = r BY <2>1
  <2>. QED BY <2>2 DEF Range
<1>. QED BY <1>1, <1>2

LEMMA RangeAppend ==
  ASSUME NEW R, NEW s \in Seq(R), NEW r \in R
  PROVE  Range(s) \subseteq Range(Append(s, r)) /\ r \in Range(Append(s, r))
<1>1. ASSUME NEW x \in Range(s) PROVE x \in Range(Append(s, r))
  <2>1. PICK p \in 1..Len(s) : s[p] = x BY <1>1 DEF Range
  <2>2. p \in 1..Len(Append(s, r)) /\ Append(s, r)[p] = x BY <2>1
  <2>. QED BY <2>2 DEF Range
<1>2. Len(s) + 1 \in 1..Len(Append(s, r)) /\ Append(s, r)[Len(s) + 1] = r
  OBVIOUS
<1>. QED BY <1>1, <1>2 DEF Range

(* generateRequest returns well-formed records. *)
LEMMA RecordsType ==
  ASSUME NEW i \in 0..Total, NEW key \in Keys,
         NEW duplicate \in BOOLEAN, NEW invalid \in BOOLEAN
  PROVE  Records(i, key, duplicate, invalid) \in Seq(Record)
<1>. USE GeneratorAssumption
<1>. DEFINE Rec(topic, k, dup, inv) ==
              [lane |-> [topic |-> topic, key |-> k], index |-> i,
               duplicate |-> dup, invalid |-> inv]
            routing == Rec("routing", i, FALSE, FALSE)
            delivery == Rec("delivery", key, FALSE, invalid)
            player == Rec("player", i \div 8, FALSE, FALSE)
            copy == Rec("delivery", key, TRUE, invalid)
<1>1. routing \in Record
  BY DEF Record, Lanes
<1>2. delivery \in Record /\ copy \in Record
  BY DEF Record, Lanes
<1>3. player \in Record
  <2>1. i \div 8 \in 0..Total OBVIOUS
  <2>. QED BY <2>1 DEF Record, Lanes
<1>4. Records(i, key, duplicate, invalid) =
        <<routing, delivery>> \o (IF i % 4 = 0 THEN <<player>> ELSE <<>>)
                              \o (IF duplicate THEN <<copy>> ELSE <<>>)
  BY DEF Records
<1>. HIDE DEF Rec, routing, delivery, player, copy
<1>5. <<routing, delivery>> \in Seq(Record)
  BY <1>1, <1>2
<1>6. (IF i % 4 = 0 THEN <<player>> ELSE <<>>) \in Seq(Record)
  BY <1>3
<1>7. (IF duplicate THEN <<copy>> ELSE <<>>) \in Seq(Record)
  BY <1>2
<1>. QED BY <1>4, <1>5, <1>6, <1>7

(* What the broker has afterwards, of a batch that was sent. *)
LEMMA DeliveredType ==
  ASSUME NEW b \in [Lanes -> Seq(Record)], NEW copies \in [Used(b) -> Nat],
         log \in [Lanes -> Seq(Record)]
  PROVE  /\ Delivered(b, copies) \in [Lanes -> Seq(Record)]
         /\ \A l \in Lanes : Range(log[l]) \subseteq Range(Delivered(b, copies)[l])
<1>1. ASSUME NEW l \in Lanes
      PROVE  /\ Delivered(b, copies)[l] \in Seq(Record)
             /\ Range(log[l]) \subseteq Range(Delivered(b, copies)[l])
  <2>1. CASE l \in Used(b)
    <3>1. Delivered(b, copies)[l] = log[l] \o Repeat(b[l], copies[l])
      BY <1>1, <2>1 DEF Delivered
    <3>2. Repeat(b[l], copies[l]) \in Seq(Record)
      BY <1>1, <2>1, RepeatType
    <3>3. log[l] \in Seq(Record) BY <1>1
    <3>. QED BY <3>1, <3>2, <3>3, RangeConcat
  <2>2. CASE l \notin Used(b)
    BY <1>1, <2>2 DEF Delivered
  <2>. QED BY <2>1, <2>2
<1>2. Delivered(b, copies) = [l \in Lanes |-> Delivered(b, copies)[l]]
  BY DEF Delivered
<1>. QED BY <1>1, <1>2

LEMMA SentType ==
  ASSUME NEW b \in [Lanes -> Seq(Record)], log \in [Lanes -> Seq(Record)],
         Acknowledged(b) \/ Unacknowledged(b)
  PROVE  /\ log' \in [Lanes -> Seq(Record)]
         /\ \A l \in Lanes : Range(log[l]) \subseteq Range(log'[l])
<1>. USE GeneratorAssumption
<1>1. PICK copies \in [Used(b) -> 0..MaxAttempts] : log' = Delivered(b, copies)
  <2>1. CASE Acknowledged(b)
    <3>1. PICK copies \in [Used(b) -> 1..MaxAttempts] : log' = Delivered(b, copies)
      BY <2>1 DEF Acknowledged
    <3>2. copies \in [Used(b) -> 0..MaxAttempts] OBVIOUS
    <3>. QED BY <3>1, <3>2
  <2>2. CASE Unacknowledged(b)
    BY <2>2 DEF Unacknowledged
  <2>. QED BY <2>1, <2>2
<1>2. copies \in [Used(b) -> Nat] OBVIOUS
<1>. QED BY <1>1, <1>2, DeliveredType

(* An acknowledged batch is in the log. *)
LEMMA AcknowledgedDelivers ==
  ASSUME NEW b \in [Lanes -> Seq(Record)], log \in [Lanes -> Seq(Record)],
         Acknowledged(b), NEW l \in Lanes
  PROVE  Range(b[l]) \subseteq Range(log'[l])
<1>. USE GeneratorAssumption
<1>1. PICK copies \in [Used(b) -> 1..MaxAttempts] : log' = Delivered(b, copies)
  BY DEF Acknowledged
<1>2. ASSUME NEW r \in Range(b[l]) PROVE r \in Range(log'[l])
  <2>1. b[l] \in Seq(Record) /\ log[l] \in Seq(Record) OBVIOUS
  <2>2. b[l] # <<>>
    BY <1>2, <2>1 DEF Range
  <2>3. l \in Used(b) BY <2>2 DEF Used
  <2>4. copies[l] \in Nat \ {0} BY <1>1, <2>3
  <2>5. log'[l] = log[l] \o Repeat(b[l], copies[l])
    BY <1>1, <2>3 DEF Delivered
  <2>6. r \in Range(Repeat(b[l], copies[l]))
    BY <1>2, <2>1, <2>4, RepeatCovers
  <2>7. Repeat(b[l], copies[l]) \in Seq(Record)
    BY <2>1, <2>4, RepeatType
  <2>. QED BY <2>1, <2>5, <2>6, <2>7, RangeConcat
<1>. QED BY <1>2

LEMMA BufferedType ==
  ASSUME NEW r \in Record, buffer \in [Lanes -> Seq(Record)]
  PROVE  /\ Buffered(r) \in [Lanes -> Seq(Record)]
         /\ \A l \in Lanes : Range(buffer[l]) \subseteq Range(Buffered(r)[l])
         /\ r \in Range(Buffered(r)[r.lane])
<1>1. r.lane \in Lanes BY DEF Record
<1>2. buffer[r.lane] \in Seq(Record) BY <1>1
<1>3. Append(buffer[r.lane], r) \in Seq(Record) BY <1>2
<1>4. Buffered(r) \in [Lanes -> Seq(Record)] BY <1>1, <1>3 DEF Buffered
<1>5. Buffered(r)[r.lane] = Append(buffer[r.lane], r) BY <1>1 DEF Buffered
<1>6. \A l \in Lanes \ {r.lane} : Buffered(r)[l] = buffer[l] BY DEF Buffered
<1>7. /\ Range(buffer[r.lane]) \subseteq Range(Append(buffer[r.lane], r))
      /\ r \in Range(Append(buffer[r.lane], r))
  BY <1>2, RangeAppend
<1>. QED BY <1>1, <1>4, <1>5, <1>6, <1>7

-----------------------------------------------------------------------------
(* The counters stay counters. *)
LEMMA CountType ==
  ASSUME NEW r \in Record, manifest \in Manifest, Count(r)
  PROVE  manifest' \in Manifest
<1>1. r.lane \in Lanes /\ r.lane.topic \in Topics
  BY DEF Record, Lanes, Topics
<1>2. r.lane.topic = "delivery" => r.lane.key \in Keys
  BY <1>1 DEF Lanes
<1>3. /\ manifest.byTopic \in [Topics -> Nat] /\ manifest.byKey \in [Keys -> Nat]
      /\ manifest.duplicates \in Nat /\ manifest.schemaErrors \in Nat
  BY DEF Manifest
<1>4. [manifest.byTopic EXCEPT ![r.lane.topic] = @ + 1] \in [Topics -> Nat]
  BY <1>1, <1>3
<1>5. (IF r.lane.topic = "delivery"
         THEN [manifest.byKey EXCEPT ![r.lane.key] = @ + 1]
         ELSE manifest.byKey) \in [Keys -> Nat]
  BY <1>2, <1>3
<1>6. /\ manifest.duplicates + (IF r.duplicate THEN 1 ELSE 0) \in Nat
      /\ manifest.schemaErrors + (IF r.invalid THEN 1 ELSE 0) \in Nat
  BY <1>3
<1>. QED BY <1>4, <1>5, <1>6 DEF Count, Manifest

Empty == [l \in Lanes |-> <<>>]

LEMMA EmptyType == Empty \in [Lanes -> Seq(Record)]
BY DEF Empty

(* The type invariant is inductive. *)
LEMMA TypeStep ==
  ASSUME TypeOK, [Next]_vars PROVE TypeOK'
<1>. USE GeneratorAssumption
<1>h. ASSUME pending # <<>>
      PROVE  /\ Head(pending) \in Record
             /\ Tail(pending) \in Seq(Record)
  BY <1>h DEF TypeOK
<1>1. CASE NextRequest
  <2>1. PICK key \in Keys, duplicate \in BOOLEAN, invalid \in BOOLEAN :
           pending' = Records(index, key, duplicate, invalid)
    BY <1>1 DEF NextRequest
  <2>2. pending' \in Seq(Record)
    BY <2>1, RecordsType DEF TypeOK
  <2>3. index' \in 0..Total
    BY <1>1 DEF NextRequest, TypeOK
  <2>. QED BY <1>1, <2>2, <2>3 DEF NextRequest, TypeOK
<1>2. CASE Interrupted \/ RequestFails
  BY <1>2 DEF Interrupted, RequestFails, TypeOK
<1>3. CASE FinishRun
  BY <1>3 DEF FinishRun, TypeOK
<1>4. CASE EmitBuffered
  <2>1. Head(pending) \in Record /\ Tail(pending) \in Seq(Record)
    BY <1>4, <1>h DEF EmitBuffered
  <2>2. buffer' \in [Lanes -> Seq(Record)]
    BY <1>4, <2>1, BufferedType DEF EmitBuffered, TypeOK
  <2>3. manifest' \in Manifest
    BY <1>4, <2>1, CountType DEF EmitBuffered, TypeOK
  <2>. QED BY <1>4, <2>1, <2>2, <2>3 DEF EmitBuffered, TypeOK
<1>5. CASE EmitFlushed
  <2>1. Head(pending) \in Record /\ Tail(pending) \in Seq(Record)
    BY <1>5, <1>h DEF EmitFlushed
  <2>2. Buffered(Head(pending)) \in [Lanes -> Seq(Record)]
    BY <2>1, BufferedType DEF TypeOK
  <2>3. log' \in [Lanes -> Seq(Record)]
    BY <1>5, <2>2, SentType DEF EmitFlushed, TypeOK
  <2>4. manifest' \in Manifest
    BY <1>5, <2>1, CountType DEF EmitFlushed, TypeOK
  <2>5. buffer' \in [Lanes -> Seq(Record)]
    BY <1>5, EmptyType DEF EmitFlushed, Empty
  <2>. QED BY <1>5, <2>1, <2>3, <2>4, <2>5 DEF EmitFlushed, TypeOK
<1>6. CASE EmitFailed
  <2>1. Head(pending) \in Record
    BY <1>6, <1>h DEF EmitFailed
  <2>2. Buffered(Head(pending)) \in [Lanes -> Seq(Record)]
    BY <2>1, BufferedType DEF TypeOK
  <2>3. log' \in [Lanes -> Seq(Record)]
    BY <1>6, <2>2, SentType DEF EmitFailed, TypeOK
  <2>. QED BY <1>6, <2>2, <2>3 DEF EmitFailed, TypeOK
<1>7. CASE CloseFlushed
  <2>1. log' \in [Lanes -> Seq(Record)]
    BY <1>7, SentType DEF CloseFlushed, TypeOK
  <2>2. buffer' \in [Lanes -> Seq(Record)]
    BY <1>7, EmptyType DEF CloseFlushed, Empty
  <2>. QED BY <1>7, <2>1, <2>2 DEF CloseFlushed, TypeOK
<1>8. CASE CloseFailed
  <2>1. log' \in [Lanes -> Seq(Record)]
    BY <1>8, SentType DEF CloseFailed, TypeOK
  <2>. QED BY <1>8, <2>1 DEF CloseFailed, TypeOK
<1>9. CASE Exit
  <2>1. written' \in BOOLEAN
    BY <1>9, Zenon DEF Exit, TypeOK
  <2>. QED BY <1>9, <2>1 DEF Exit, TypeOK
<1>10. CASE Signal
  BY <1>10 DEF Signal, TypeOK
<1>11. CASE UNCHANGED vars
  BY <1>11 DEF vars, TypeOK
<1>. QED
  BY <1>1, <1>2, <1>3, <1>4, <1>5, <1>6, <1>7, <1>8, <1>9, <1>10, <1>11
  DEF Next, Step

LEMMA TypeInit == Init => TypeOK
<1>. SUFFICES ASSUME Init PROVE TypeOK
  OBVIOUS
<1>. USE GeneratorAssumption
<1>1. manifest \in Manifest
  BY DEF Init, NoCounts, Manifest
<1>2. buffer \in [Lanes -> Seq(Record)] /\ log \in [Lanes -> Seq(Record)]
  BY EmptyType DEF Init, Empty
<1>3. pending \in Seq(Record) /\ emitted \subseteq Record
  BY DEF Init
<1>4. index \in 0..Total /\ held \in Nat
  BY DEF Init
<1>5. /\ phase \in {"run", "close", "exit", "done"}
      /\ cancelled \in BOOLEAN /\ runErr \in BOOLEAN
      /\ closeErr \in BOOLEAN /\ written \in BOOLEAN
  BY DEF Init
<1>. QED BY <1>1, <1>2, <1>3, <1>4, <1>5 DEF TypeOK

(* The generator, its sink and its manifest stay well formed. *)
THEOREM GeneratorTypeCorrect == Spec => []TypeOK
<1>. QED BY TypeInit, TypeStep, PTL DEF Spec

-----------------------------------------------------------------------------
(* The sink holds at most one batch: a flush that fails ends Run. *)
THEOREM BufferBoundedHolds == Spec => []BufferBounded
<1>1. Init => BufferBounded
  BY GeneratorAssumption DEF Init, BufferBounded
<1>2. TypeOK /\ BufferBounded /\ [Next]_vars => BufferBounded'
  BY GeneratorAssumption
  DEF TypeOK, BufferBounded, Next, Step, vars, NextRequest, Interrupted, RequestFails,
      FinishRun, EmitBuffered, EmitFlushed, EmitFailed, CloseFlushed,
      CloseFailed, Exit, Signal
<1>. QED BY <1>1, <1>2, GeneratorTypeCorrect, PTL DEF Spec

-----------------------------------------------------------------------------
(* A record whose emit succeeded is in the buffer until it is in the log,  *)
(* and a Close without error leaves the buffer empty.                      *)
Conserved ==
  \A r \in emitted : r \in Range(log[r.lane]) \cup Range(buffer[r.lane])

ClosedEmpty ==
  (phase \in {"exit", "done"} /\ ~closeErr) => buffer = Empty

DeliveryInv == TypeOK /\ Conserved /\ ClosedEmpty

LEMMA ConservedStep ==
  ASSUME TypeOK, Conserved, [Next]_vars PROVE Conserved'
<1>h. ASSUME pending # <<>> PROVE Head(pending) \in Record
  BY <1>h DEF TypeOK
<1>l. \A r \in emitted : r.lane \in Lanes
  BY DEF TypeOK, Record
<1>1. CASE /\ UNCHANGED <<buffer, emitted>>
           /\ \A l \in Lanes : Range(log[l]) \subseteq Range(log'[l])
  BY <1>1, <1>l DEF Conserved
<1>2. CASE EmitBuffered
  <2>1. Head(pending) \in Record
    BY <1>2, <1>h DEF EmitBuffered
  <2>2. /\ \A l \in Lanes : Range(buffer[l]) \subseteq Range(buffer'[l])
        /\ Head(pending) \in Range(buffer'[Head(pending).lane])
    BY <1>2, <2>1, BufferedType DEF EmitBuffered, TypeOK
  <2>3. emitted' = emitted \cup {Head(pending)} /\ log' = log
    BY <1>2 DEF EmitBuffered
  <2>. QED BY <2>2, <2>3, <1>l DEF Conserved
<1>3. CASE EmitFlushed
  <2>. DEFINE b == Buffered(Head(pending))
  <2>1. Head(pending) \in Record
    BY <1>3, <1>h DEF EmitFlushed
  <2>2. /\ b \in [Lanes -> Seq(Record)]
        /\ \A l \in Lanes : Range(buffer[l]) \subseteq Range(b[l])
        /\ Head(pending) \in Range(b[Head(pending).lane])
    BY <2>1, BufferedType DEF TypeOK
  <2>3. Acknowledged(b) /\ emitted' = emitted \cup {Head(pending)}
    BY <1>3 DEF EmitFlushed
  <2>. HIDE DEF b
  <2>4. \A l \in Lanes : Range(b[l]) \subseteq Range(log'[l])
    BY <2>2, <2>3, AcknowledgedDelivers DEF TypeOK
  <2>5. \A l \in Lanes : Range(log[l]) \subseteq Range(log'[l])
    BY <2>2, <2>3, SentType DEF TypeOK
  <2>6. Head(pending).lane \in Lanes
    BY <2>1 DEF Record
  <2>. QED BY <2>2, <2>3, <2>4, <2>5, <2>6, <1>l DEF Conserved
<1>4. CASE EmitFailed
  <2>. DEFINE b == Buffered(Head(pending))
  <2>1. Head(pending) \in Record
    BY <1>4, <1>h DEF EmitFailed
  <2>2. /\ b \in [Lanes -> Seq(Record)]
        /\ \A l \in Lanes : Range(buffer[l]) \subseteq Range(b[l])
    BY <2>1, BufferedType DEF TypeOK
  <2>3. Unacknowledged(b) /\ emitted' = emitted /\ buffer' = b
    BY <1>4 DEF EmitFailed
  <2>. HIDE DEF b
  <2>4. \A l \in Lanes : Range(log[l]) \subseteq Range(log'[l])
    BY <2>2, <2>3, SentType DEF TypeOK
  <2>. QED BY <2>2, <2>3, <2>4, <1>l DEF Conserved
<1>5. CASE CloseFlushed
  <2>1. Acknowledged(buffer) /\ emitted' = emitted
    BY <1>5 DEF CloseFlushed
  <2>2. \A l \in Lanes : Range(buffer[l]) \subseteq Range(log'[l])
    BY <2>1, AcknowledgedDelivers DEF TypeOK
  <2>3. \A l \in Lanes : Range(log[l]) \subseteq Range(log'[l])
    BY <2>1, SentType DEF TypeOK
  <2>. QED BY <2>1, <2>2, <2>3, <1>l DEF Conserved
<1>6. CASE CloseFailed
  <2>1. Unacknowledged(buffer) /\ UNCHANGED <<buffer, emitted>>
    BY <1>6 DEF CloseFailed
  <2>2. \A l \in Lanes : Range(log[l]) \subseteq Range(log'[l])
    BY <2>1, SentType DEF TypeOK
  <2>. QED BY <2>1, <2>2, <1>1
<1>7. CASE \/ NextRequest \/ Interrupted \/ RequestFails \/ FinishRun \/ Exit \/ Signal
           \/ UNCHANGED vars
  <2>1. UNCHANGED <<buffer, emitted, log>>
    BY <1>7 DEF NextRequest, Interrupted, RequestFails, FinishRun, Exit, Signal, vars
  <2>. QED BY <2>1, <1>1
<1>. QED BY <1>2, <1>3, <1>4, <1>5, <1>6, <1>7 DEF Next, Step

LEMMA ClosedEmptyStep ==
  ASSUME ClosedEmpty, [Next]_vars PROVE ClosedEmpty'
BY DEF ClosedEmpty, Empty, Next, Step, vars, NextRequest, Interrupted, RequestFails,
       FinishRun, EmitBuffered, EmitFlushed, EmitFailed, CloseFlushed,
       CloseFailed, Exit, Signal

(* When Close returns nil, all that was emitted is in the topics, whatever *)
(* flushes failed before and however Run ended.                            *)
THEOREM CloseDeliversHolds == Spec => []CloseDelivers
<1>1. Init => DeliveryInv
  <2>1. Init => Conserved /\ ClosedEmpty
    BY DEF Init, Conserved, ClosedEmpty, Empty
  <2>. QED BY <2>1, TypeInit DEF DeliveryInv
<1>2. DeliveryInv /\ [Next]_vars => DeliveryInv'
  BY TypeStep, ConservedStep, ClosedEmptyStep DEF DeliveryInv
<1>3. DeliveryInv => CloseDelivers
  <2>. SUFFICES ASSUME DeliveryInv, phase \in {"exit", "done"}, ~closeErr,
                       NEW r \in emitted
                PROVE  r \in Range(log[r.lane])
    BY DEF CloseDelivers
  <2>1. r.lane \in Lanes
    BY DEF DeliveryInv, TypeOK, Record
  <2>2. buffer[r.lane] = <<>>
    BY <2>1 DEF DeliveryInv, ClosedEmpty, Empty
  <2>3. Range(buffer[r.lane]) = {}
    BY <2>2 DEF Range
  <2>. QED BY <2>3 DEF DeliveryInv, Conserved
<1>. QED BY <1>1, <1>2, <1>3, PTL DEF Spec

-----------------------------------------------------------------------------
(* Order.  Within a batch too, all that was emitted earlier for a lane is  *)
(* in the log or in front.                                                 *)
OrderedIn(b) ==
  \A l \in Lanes : \A q \in 1..Len(b[l]) : \A s \in emitted :
     Before(s, b[l][q]) => \/ s \in Range(log[l])
                           \/ \E p \in 1..(q - 1) : b[l][p] = s

(* What has left the loop of Run: in its lane, of an earlier request or of *)
(* the current one, and not overtaken by what is pending.                  *)
Left(x, l) ==
  /\ x.lane = l
  /\ x.index < index
  /\ \A k \in 1..Len(pending) : ~ Before(pending[k], x)

LeftAll(b) == \A l \in Lanes : \A x \in Range(b[l]) : Left(x, l)

(* The records of a request come in the order in which they are emitted. *)
PendingOrdered ==
  \A k \in 1..Len(pending) :
     /\ pending[k].index < index
     /\ \A j \in 1..(k - 1) : ~ Before(pending[k], pending[j])

OrderInv == /\ TypeOK /\ Conserved
            /\ LeftAll(log) /\ LeftAll(buffer) /\ PendingOrdered
            /\ LaneOrder /\ OrderedIn(buffer)

(* The first copy of a batch is the batch, and every record of a copy is *)
(* at the position it has in the batch, or further on.                   *)
LEMMA RepeatFirst ==
  ASSUME NEW R, NEW s \in Seq(R), NEW n \in Nat, NEW q \in 1..(n * Len(s))
  PROVE  \E j \in 1..Len(s) :
            /\ j <= q
            /\ Repeat(s, n)[q] = s[j]
            /\ \A p \in 1..j : Repeat(s, n)[p] = s[p]
<1>. DEFINE L == Len(s)
            j == ((q - 1) % L) + 1
<1>1. L \in Nat /\ n * L \in Nat
  OBVIOUS
<1>2. L > 0
  <2>1. CASE L = 0
    <3>1. n * L = 0 BY <2>1
    <3>. QED BY <3>1
  <2>. QED BY <2>1, <1>1
<1>3. \A p \in 1..(n * L) : Repeat(s, n)[p] = s[((p - 1) % L) + 1]
  BY DEF Repeat
<1>. HIDE DEF L
<1>4. j \in 1..L
  <2>1. (q - 1) % L \in 0..(L - 1) BY <1>1, <1>2
  <2>. QED BY <2>1, <1>1, <1>2
<1>5. \A p \in 1..L : ((p - 1) % L) + 1 = p
  BY <1>1, <1>2
<1>6. j <= q
  <2>1. CASE q <= L BY <2>1, <1>5, <1>1
  <2>2. CASE q > L BY <2>2, <1>4, <1>1
  <2>. QED BY <2>1, <2>2, <1>1
<1>7. Repeat(s, n)[q] = s[j]
  BY <1>1, <1>3 DEF L
<1>. HIDE DEF j
<1>8. ASSUME NEW p \in 1..j PROVE Repeat(s, n)[p] = s[p]
  <2>1. p \in 1..(n * L) BY <1>8, <1>6, <1>1, <1>4 DEF L
  <2>2. p \in 1..L BY <1>8, <1>4, <1>1
  <2>. QED BY <2>1, <2>2, <1>3, <1>5
<1>. QED BY <1>4, <1>6, <1>7, <1>8 DEF L

(* Sending a batch, whether it is acknowledged or not, keeps the order. *)
LEMMA SentOrder ==
  ASSUME NEW b \in [Lanes -> Seq(Record)], log \in [Lanes -> Seq(Record)],
         LaneOrder, OrderedIn(b), Acknowledged(b) \/ Unacknowledged(b)
  PROVE  \A l \in Lanes :
            /\ Range(log'[l]) \subseteq Range(log[l]) \cup Range(b[l])
            /\ \A q \in 1..Len(log'[l]) : \A s \in emitted :
                 Before(s, log'[l][q]) => \E p \in 1..(q - 1) : log'[l][p] = s
<1>. USE GeneratorAssumption
<1>1. PICK copies \in [Used(b) -> 0..MaxAttempts] : log' = Delivered(b, copies)
  <2>1. CASE Acknowledged(b)
    <3>1. PICK copies \in [Used(b) -> 1..MaxAttempts] : log' = Delivered(b, copies)
      BY <2>1 DEF Acknowledged
    <3>2. copies \in [Used(b) -> 0..MaxAttempts] OBVIOUS
    <3>. QED BY <3>1, <3>2
  <2>2. CASE Unacknowledged(b)
    BY <2>2 DEF Unacknowledged
  <2>. QED BY <2>1, <2>2
<1>. SUFFICES ASSUME NEW l \in Lanes
              PROVE  /\ Range(log'[l]) \subseteq Range(log[l]) \cup Range(b[l])
                     /\ \A q \in 1..Len(log'[l]) : \A s \in emitted :
                          Before(s, log'[l][q]) => \E p \in 1..(q - 1) : log'[l][p] = s
  OBVIOUS
<1>2. CASE l \notin Used(b)
  <2>1. log'[l] = log[l] BY <1>1, <1>2 DEF Delivered
  <2>. QED BY <2>1 DEF LaneOrder
<1>3. CASE l \in Used(b)
  <2>. DEFINE n == copies[l]
              old == log[l]
              new == Repeat(b[l], n)
  <2>1. n \in Nat BY <1>3
  <2>2. old \in Seq(Record) /\ b[l] \in Seq(Record) OBVIOUS
  <2>3. log'[l] = old \o new BY <1>1, <1>3 DEF Delivered
  <2>4. new \in Seq(Record) BY <2>1, <2>2, RepeatType
  <2>5. Len(new) = n * Len(b[l])
    BY <2>1, <2>2, <2>4 DEF Repeat
  <2>6. ASSUME NEW q \in 1..Len(new)
        PROVE  \E j \in 1..Len(b[l]) : /\ j <= q
                                       /\ new[q] = b[l][j]
                                       /\ \A p \in 1..j : new[p] = b[l][p]
    <3>1. q \in 1..(n * Len(b[l])) BY <2>5
    <3>. QED BY ONLY <3>1, <2>1, <2>2, RepeatFirst
  <2>. HIDE DEF n, new
  <2>7. \A q \in 1..Len(old) : (old \o new)[q] = old[q]
    BY <2>2, <2>4
  <2>8. \A q \in 1..Len(new) : (old \o new)[Len(old) + q] = new[q]
    BY <2>2, <2>4
  <2>9. /\ Len(old \o new) = Len(old) + Len(new)
        /\ Len(old) \in Nat /\ Len(new) \in Nat /\ Len(b[l]) \in Nat
    BY <2>2, <2>4
  <2>. DEFINE all == old \o new
  <2>10. ASSUME NEW q \in 1..Len(all)
         PROVE  \/ q \in 1..Len(old)
                \/ \E k \in 1..Len(new) : q = Len(old) + k
    <3>. DEFINE k == q - Len(old)
    <3>1. CASE q > Len(old)
      <4>1. k \in 1..Len(new) /\ q = Len(old) + k
        BY <3>1, <2>9, <2>10
      <4>. QED BY <4>1
    <3>2. CASE ~ (q > Len(old))
      BY <3>2, <2>9, <2>10
    <3>. QED BY <3>1, <3>2
  <2>11. DOMAIN all = 1..Len(all) /\ DOMAIN old = 1..Len(old) /\ DOMAIN b[l] = 1..Len(b[l])
    BY <2>2, <2>4
  <2>. HIDE DEF all
  <2>12. Range(all) \subseteq Range(old) \cup Range(b[l])
    <3>. SUFFICES ASSUME NEW q \in 1..Len(all) PROVE all[q] \in Range(old) \cup Range(b[l])
      BY <2>11 DEF Range
    <3>1. CASE q \in 1..Len(old) BY <3>1, <2>7, <2>11 DEF Range, all
    <3>2. CASE \E k \in 1..Len(new) : q = Len(old) + k
      <4>1. PICK k \in 1..Len(new) : q = Len(old) + k BY <3>2
      <4>2. PICK j \in 1..Len(b[l]) : new[k] = b[l][j] BY <2>6
      <4>3. all[q] = b[l][j] BY <4>1, <4>2, <2>8 DEF all
      <4>. QED BY <4>3, <2>11 DEF Range
    <3>. QED BY <3>1, <3>2, <2>10
  <2>13. ASSUME NEW q \in 1..Len(all), NEW s \in emitted, Before(s, all[q])
         PROVE  \E p \in 1..(q - 1) : all[p] = s
    <3>1. CASE q \in 1..Len(old)
      <4>1. Before(s, old[q]) BY <3>1, <2>7, <2>13 DEF all
      <4>2. PICK p \in 1..(q - 1) : old[p] = s BY <4>1, <3>1 DEF LaneOrder
      <4>3. p \in 1..Len(old) BY <4>2, <3>1, <2>9
      <4>. QED BY <4>2, <4>3, <2>7 DEF all
    <3>2. CASE \E k \in 1..Len(new) : q = Len(old) + k
      <4>1. PICK k \in 1..Len(new) : q = Len(old) + k BY <3>2
      <4>2. PICK j \in 1..Len(b[l]) : /\ j <= k
                                      /\ new[k] = b[l][j]
                                      /\ \A p \in 1..j : new[p] = b[l][p]
        BY <2>6
      <4>3. Before(s, b[l][j]) BY <4>1, <4>2, <2>8, <2>13 DEF all
      <4>4. s \in Range(old) \/ \E p \in 1..(j - 1) : b[l][p] = s
        BY <4>3 DEF OrderedIn
      <4>5. CASE s \in Range(old)
        <5>1. PICK p \in 1..Len(old) : old[p] = s BY <4>5, <2>11 DEF Range
        <5>2. p \in 1..(q - 1) BY <5>1, <4>1, <2>9
        <5>. QED BY <5>1, <5>2, <2>7 DEF all
      <4>6. CASE \E p \in 1..(j - 1) : b[l][p] = s
        <5>1. PICK p \in 1..(j - 1) : b[l][p] = s BY <4>6
        <5>2. /\ p \in 1..j /\ p \in 1..Len(new) /\ Len(old) + p \in 1..(q - 1)
          BY <5>1, <4>1, <4>2, <2>9
        <5>3. all[Len(old) + p] = s
          BY <5>1, <5>2, <4>2, <2>8 DEF all
        <5>. QED BY <5>2, <5>3
      <4>. QED BY <4>4, <4>5, <4>6
    <3>. QED BY <3>1, <3>2, <2>10
  <2>14. log'[l] = all BY <2>3 DEF all
  <2>. QED BY <2>12, <2>13, <2>14
<1>. QED BY <1>2, <1>3

LEMMA NotBeforeItself ==
  ASSUME NEW r \in Record PROVE ~ Before(r, r)
BY GeneratorAssumption DEF Before, Record

(* The first of the pending records joins the batch. *)
LEMMA JoinOrder ==
  ASSUME OrderInv, pending # <<>>
  PROVE  LeftAll(Buffered(Head(pending))) /\ OrderedIn(Buffered(Head(pending)))
<1>. DEFINE r == Head(pending)
            b == Buffered(r)
<1>. USE DEF OrderInv
<1>1. /\ r \in Record /\ r = pending[1] /\ 1 \in 1..Len(pending)
      /\ r.lane \in Lanes /\ Len(pending) \in Nat
  <2>1. r \in Record /\ r = pending[1] /\ 1 \in 1..Len(pending) /\ Len(pending) \in Nat
    BY DEF TypeOK
  <2>. QED BY <2>1 DEF Record
<1>2. \A l \in Lanes : buffer[l] \in Seq(Record)
  BY DEF TypeOK
<1>3. b[r.lane] = Append(buffer[r.lane], r)
  BY <1>1 DEF Buffered, TypeOK
<1>4. \A l \in Lanes : l # r.lane => b[l] = buffer[l]
  BY DEF Buffered, TypeOK
<1>. HIDE DEF r, b
<1>5. Left(r, r.lane)
  <2>1. ASSUME NEW k \in 1..Len(pending) PROVE ~ Before(pending[k], r)
    <3>1. CASE k = 1 BY <3>1, <1>1, NotBeforeItself
    <3>2. CASE k # 1
      <4>1. 1 \in 1..(k - 1) BY <3>2, <1>1
      <4>. QED BY <4>1, <1>1 DEF PendingOrdered
    <3>. QED BY <3>1, <3>2
  <2>. QED BY <2>1, <1>1 DEF Left, PendingOrdered
<1>6. ASSUME NEW l \in Lanes
      PROVE  /\ \A x \in Range(b[l]) : Left(x, l)
             /\ \A q \in 1..Len(b[l]) : \A s \in emitted :
                  Before(s, b[l][q]) => \/ s \in Range(log[l])
                                        \/ \E p \in 1..(q - 1) : b[l][p] = s
  <2>1. CASE l # r.lane
    BY <2>1, <1>4 DEF LeftAll, OrderedIn
  <2>2. CASE l = r.lane
    <3>. DEFINE old == buffer[l]
    <3>1. b[l] = Append(old, r) /\ old \in Seq(Record)
      BY <2>2, <1>2, <1>3
    <3>2. /\ Len(Append(old, r)) = Len(old) + 1 /\ Len(old) \in Nat
          /\ Append(old, r)[Len(old) + 1] = r
          /\ \A q \in 1..Len(old) : Append(old, r)[q] = old[q]
      BY <3>1, <1>1
    <3>3. ASSUME NEW q \in 1..Len(b[l]) PROVE q \in 1..Len(old) \/ q = Len(old) + 1
      BY <3>1, <3>2
    <3>4. DOMAIN b[l] = 1..Len(b[l]) /\ DOMAIN old = 1..Len(old)
      BY <3>1, <1>1
    <3>. HIDE DEF old
    <3>5. ASSUME NEW x \in Range(b[l]) PROVE Left(x, l)
      <4>1. PICK q \in 1..Len(b[l]) : b[l][q] = x BY <3>5, <3>4 DEF Range
      <4>2. CASE q \in 1..Len(old)
        <5>1. x \in Range(old) BY <4>1, <4>2, <3>1, <3>2, <3>4 DEF Range
        <5>. QED BY <5>1 DEF LeftAll, old
      <4>3. CASE q = Len(old) + 1
        BY <4>1, <4>3, <3>1, <3>2, <1>5, <2>2
      <4>. QED BY <4>2, <4>3, <3>3
    <3>6. ASSUME NEW q \in 1..Len(b[l]), NEW s \in emitted, Before(s, b[l][q])
          PROVE  s \in Range(log[l]) \/ \E p \in 1..(q - 1) : b[l][p] = s
      <4>1. CASE q \in 1..Len(old)
        <5>1. Before(s, old[q]) BY <4>1, <3>1, <3>2, <3>6
        <5>2. s \in Range(log[l]) \/ \E p \in 1..(q - 1) : old[p] = s
          BY <5>1, <4>1 DEF OrderedIn, old
        <5>3. \A p \in 1..(q - 1) : p \in 1..Len(old) BY <4>1, <3>2
        <5>. QED BY <5>2, <5>3, <3>1, <3>2
      <4>2. CASE q = Len(old) + 1
        <5>1. s.lane = l BY <4>2, <3>1, <3>2, <3>6, <2>2 DEF Before
        <5>2. s \in Range(log[l]) \cup Range(old) BY <5>1 DEF Conserved, old
        <5>3. ASSUME s \in Range(old) PROVE \E p \in 1..(q - 1) : b[l][p] = s
          <6>1. PICK p \in 1..Len(old) : old[p] = s BY <5>3, <3>4 DEF Range
          <6>2. p \in 1..(q - 1) BY <4>2, <3>2
          <6>. QED BY <6>1, <6>2, <3>1, <3>2
        <5>. QED BY <5>2, <5>3
      <4>. QED BY <4>1, <4>2, <3>3
    <3>. QED BY <3>5, <3>6
  <2>. QED BY <2>1, <2>2
<1>7. LeftAll(b) /\ OrderedIn(b)
  BY <1>6 DEF LeftAll, OrderedIn
<1>. QED BY <1>7 DEF b, r

(* Dropping the first pending record keeps what holds of all of them. *)
LEMMA TailOrder ==
  ASSUME TypeOK, PendingOrdered, pending # <<>>,
         pending' = Tail(pending), index' = index
  PROVE  /\ PendingOrdered'
         /\ \A l \in Lanes : \A x : Left(x, l) => Left(x, l)'
<1>1. /\ Len(pending') = Len(pending) - 1 /\ Len(pending) \in Nat
      /\ \A k \in 1..Len(pending') : pending'[k] = pending[k + 1]
  BY DEF TypeOK
<1>2. \A k \in 1..Len(pending') : k + 1 \in 1..Len(pending)
  BY <1>1
<1>3. PendingOrdered'
  <2>. SUFFICES ASSUME NEW k \in 1..Len(pending')
                PROVE  /\ pending'[k].index < index'
                       /\ \A j \in 1..(k - 1) : ~ Before(pending'[k], pending'[j])
    BY DEF PendingOrdered, Before
  <2>1. pending'[k].index < index'
    BY <1>1, <1>2 DEF PendingOrdered
  <2>2. ASSUME NEW j \in 1..(k - 1) PROVE ~ Before(pending'[k], pending'[j])
    <3>1. j \in 1..Len(pending') /\ j + 1 \in 1..((k + 1) - 1)
      BY <1>1
    <3>2. ~ Before(pending[k + 1], pending[j + 1])
      BY <3>1, <1>2 DEF PendingOrdered
    <3>. QED BY <3>1, <3>2, <1>1
  <2>. QED BY <2>1, <2>2
<1>4. ASSUME NEW l \in Lanes, NEW x, Left(x, l) PROVE Left(x, l)'
  <2>1. ASSUME NEW k \in 1..Len(pending') PROVE ~ Before(pending'[k], x)
    BY <1>1, <1>2, <1>4 DEF Left
  <2>. QED BY <2>1, <1>4 DEF Left, Before
<1>. QED BY <1>3, <1>4

(* One more record at the end of a sequence. *)
LEMMA ConcatOne ==
  ASSUME NEW R, NEW s \in Seq(R), NEW r \in R
  PROVE  /\ s \o <<r>> \in Seq(R)
         /\ Len(s \o <<r>>) = Len(s) + 1 /\ Len(s) \in Nat
         /\ \A k \in 1..Len(s \o <<r>>) :
              (s \o <<r>>)[k] = IF k <= Len(s) THEN s[k] ELSE r
OBVIOUS

(* generateRequest puts the duplicate, if there is one, at the end. *)
LEMMA RecordsOrder ==
  ASSUME NEW i \in 0..Total, NEW key \in Keys,
         NEW duplicate \in BOOLEAN, NEW invalid \in BOOLEAN
  PROVE  LET rs == Records(i, key, duplicate, invalid)
         IN \A k \in 1..Len(rs) :
               /\ rs[k].index = i
               /\ \A j \in 1..(k - 1) : ~ Before(rs[k], rs[j])
<1>. USE GeneratorAssumption
<1>. DEFINE Rec(topic, k, dup, inv) ==
              [lane |-> [topic |-> topic, key |-> k], index |-> i,
               duplicate |-> dup, invalid |-> inv]
            routing == Rec("routing", i, FALSE, FALSE)
            delivery == Rec("delivery", key, FALSE, invalid)
            player == Rec("player", i \div 8, FALSE, FALSE)
            copy == Rec("delivery", key, TRUE, invalid)
            rs == Records(i, key, duplicate, invalid)
<1>1. rs = <<routing, delivery>> \o (IF i % 4 = 0 THEN <<player>> ELSE <<>>)
                                 \o (IF duplicate THEN <<copy>> ELSE <<>>)
  BY DEF Records
<1>2. /\ routing.index = i /\ delivery.index = i /\ player.index = i /\ copy.index = i
      /\ ~ routing.duplicate /\ ~ delivery.duplicate /\ ~ player.duplicate
  OBVIOUS
<1>. HIDE DEF Rec, routing, delivery, player, copy, rs
<1>. DEFINE R == {routing, delivery, player, copy}
            first == <<routing, delivery>>
            second == first \o (IF i % 4 = 0 THEN <<player>> ELSE <<>>)
<1>3. first \in Seq(R) /\ \A k \in 1..Len(first) : first[k].index = i /\ ~ first[k].duplicate
  BY <1>2
<1>. HIDE DEF first
<1>a. /\ second \in Seq(R)
      /\ \A k \in 1..Len(second) : second[k].index = i /\ ~ second[k].duplicate
  <2>1. CASE i % 4 = 0
    <3>1. second = first \o <<player>> BY <2>1
    <3>. HIDE DEF second
    <3>. QED BY <3>1, <1>2, <1>3, ConcatOne
  <2>2. CASE i % 4 # 0
    <3>1. second = first \o <<>> BY <2>2
    <3>2. second = first BY <3>1, <1>3
    <3>. QED BY <3>2, <1>3
  <2>. QED BY <2>1, <2>2
<1>. HIDE DEF second
<1>4. \A k \in 1..Len(rs) : rs[k].index = i /\ (k < Len(rs) => ~ rs[k].duplicate)
  <2>1. CASE duplicate
    <3>1. rs = second \o <<copy>> BY <2>1, <1>1 DEF second, first
    <3>. QED BY <3>1, <1>2, <1>a, ConcatOne
  <2>2. CASE ~ duplicate
    <3>1. rs = second \o <<>> BY <2>2, <1>1 DEF second, first
    <3>2. rs = second BY <3>1, <1>a
    <3>. QED BY <3>2, <1>a
  <2>. QED BY <2>1, <2>2
<1>5. Len(rs) \in Nat
  BY RecordsType DEF rs
<1>6. ASSUME NEW k \in 1..Len(rs), NEW j \in 1..(k - 1)
      PROVE  ~ Before(rs[k], rs[j])
  <2>1. j \in 1..Len(rs) /\ j < Len(rs) BY <1>5
  <2>. QED BY <2>1, <1>4 DEF Before
<1>7. \A k \in 1..Len(rs) : /\ rs[k].index = i
                            /\ \A j \in 1..(k - 1) : ~ Before(rs[k], rs[j])
  BY <1>4, <1>6
<1>. QED BY <1>7 DEF rs

(* What a step leaves alone keeps its order. *)
LEMMA OrderKept ==
  ASSUME OrderInv, UNCHANGED <<index, pending, buffer, log, emitted>>
  PROVE  /\ LeftAll(log)' /\ LeftAll(buffer)' /\ PendingOrdered'
         /\ LaneOrder' /\ OrderedIn(buffer)'
BY DEF OrderInv, LeftAll, Left, PendingOrdered, LaneOrder, OrderedIn, Before

(* A batch is sent; the buffer is cleared or kept.  `r` is what the step *)
(* emits, if it emits anything.                                          *)
LEMMA SendOrder ==
  ASSUME OrderInv, NEW b \in [Lanes -> Seq(Record)],
         LeftAll(b), OrderedIn(b), Acknowledged(b) \/ Unacknowledged(b),
         buffer' = b \/ buffer' = Empty,
         \/ emitted' = emitted /\ pending' = pending
         \/ /\ pending # <<>> /\ emitted' = emitted \cup {Head(pending)}
            /\ pending' = Tail(pending) /\ buffer' = Empty,
         index' = index
  PROVE  /\ LeftAll(log)' /\ LeftAll(buffer)' /\ PendingOrdered'
         /\ LaneOrder' /\ OrderedIn(buffer)'
<1>. USE DEF OrderInv
<1>1. \A l \in Lanes :
        /\ Range(log'[l]) \subseteq Range(log[l]) \cup Range(b[l])
        /\ \A q \in 1..Len(log'[l]) : \A s \in emitted :
             Before(s, log'[l][q]) => \E p \in 1..(q - 1) : log'[l][p] = s
  BY SentOrder DEF TypeOK
<1>2. /\ log' \in [Lanes -> Seq(Record)]
      /\ \A l \in Lanes : Range(log[l]) \subseteq Range(log'[l])
  BY SentType DEF TypeOK
<1>3. /\ PendingOrdered'
      /\ \A l \in Lanes : \A x : Left(x, l) => Left(x, l)'
  <2>1. CASE pending' = pending
    BY <2>1 DEF PendingOrdered, Left, Before
  <2>2. CASE pending # <<>> /\ pending' = Tail(pending)
    BY <2>2, TailOrder
  <2>. QED BY <2>1, <2>2
<1>4. \A l \in Lanes : \A x \in Range(log'[l]) : Left(x, l)
  BY <1>1 DEF LeftAll
<1>5. LeftAll(log)'
  BY <1>3, <1>4 DEF LeftAll
<1>6. \A l \in Lanes : Range(Empty[l]) = {} /\ Len(Empty[l]) = 0
  BY DEF Empty, Range
<1>7. LeftAll(buffer)'
  BY <1>3, <1>6 DEF LeftAll
<1>8. LaneOrder'
  <2>. SUFFICES ASSUME NEW l \in Lanes, NEW q \in 1..Len(log'[l]), NEW s \in emitted',
                       Before(s, log'[l][q])
                PROVE  \E p \in 1..(q - 1) : log'[l][p] = s
    BY DEF LaneOrder, Before
  <2>1. CASE s \in emitted BY <2>1, <1>1
  <2>2. CASE s \notin emitted
    <3>1. pending # <<>> /\ s = Head(pending) BY <2>2
    <3>2. s = pending[1] /\ 1 \in 1..Len(pending) BY <3>1 DEF TypeOK
    <3>3. log'[l][q] \in Range(log'[l]) BY <1>2 DEF Range
    <3>4. Left(log'[l][q], l) BY <3>3, <1>4
    <3>. QED BY <3>2, <3>4 DEF Left
  <2>. QED BY <2>1, <2>2
<1>9. OrderedIn(buffer)'
  <2>1. CASE buffer' = Empty
    BY <2>1, <1>6 DEF OrderedIn
  <2>2. CASE buffer' = b /\ emitted' = emitted
    BY <2>2, <1>2 DEF OrderedIn, Before
  <2>. QED BY <2>1, <2>2
<1>. QED BY <1>3, <1>5, <1>7, <1>8, <1>9

(* The order is inductive. *)
LEMMA OrderStep ==
  ASSUME OrderInv, [Next]_vars PROVE OrderInv'
<1>. USE DEF OrderInv
<1>t. TypeOK' /\ Conserved'
  BY TypeStep, ConservedStep
<1>h. ASSUME pending # <<>>
      PROVE  /\ Buffered(Head(pending)) \in [Lanes -> Seq(Record)]
             /\ Head(pending) = pending[1] /\ 1 \in 1..Len(pending)
  <2>1. Head(pending) \in Record /\ Head(pending) = pending[1] /\ 1 \in 1..Len(pending)
    BY <1>h DEF TypeOK
  <2>. QED BY <2>1, BufferedType DEF TypeOK
<1>. DEFINE Goal == /\ LeftAll(log)' /\ LeftAll(buffer)' /\ PendingOrdered'
                    /\ LaneOrder' /\ OrderedIn(buffer)'
<1>1. CASE NextRequest
  <2>1. PICK key \in Keys, duplicate \in BOOLEAN, invalid \in BOOLEAN :
           pending' = Records(index, key, duplicate, invalid)
    BY <1>1 DEF NextRequest
  <2>2. /\ index \in 0..Total /\ index' = index + 1
        /\ UNCHANGED <<buffer, log, emitted>>
    BY <1>1 DEF NextRequest, TypeOK
  <2>3. \A k \in 1..Len(pending') :
           /\ pending'[k].index = index
           /\ \A j \in 1..(k - 1) : ~ Before(pending'[k], pending'[j])
    BY <2>1, <2>2, RecordsOrder
  <2>4. PendingOrdered'
    BY <2>2, <2>3, GeneratorAssumption DEF PendingOrdered, Before
  <2>5. ASSUME NEW l \in Lanes, NEW x \in Record, Left(x, l) PROVE Left(x, l)'
    <3>1. x.lane = l /\ x.index < index /\ x.index \in Nat
      BY <2>5, GeneratorAssumption DEF Left, Record
    <3>2. \A k \in 1..Len(pending') : ~ Before(pending'[k], x)
      BY <3>1, <2>2, <2>3, GeneratorAssumption DEF Before
    <3>3. x.index < index' BY <3>1, <2>2, GeneratorAssumption
    <3>. QED BY <3>1, <3>2, <3>3 DEF Left, Before
  <2>6. \A l \in Lanes : Range(log[l]) \subseteq Record /\ Range(buffer[l]) \subseteq Record
    BY DEF TypeOK, Range
  <2>7. LeftAll(log)' /\ LeftAll(buffer)'
    BY <2>2, <2>5, <2>6 DEF LeftAll
  <2>8. LaneOrder' /\ OrderedIn(buffer)'
    BY <2>2 DEF LaneOrder, OrderedIn, Before
  <2>. QED BY <2>4, <2>7, <2>8, <1>t
<1>2. CASE EmitBuffered
  <2>. DEFINE r == Head(pending)
              b == Buffered(r)
  <2>1. /\ pending # <<>> /\ buffer' = b /\ emitted' = emitted \cup {r}
        /\ pending' = Tail(pending) /\ UNCHANGED <<index, log>>
    BY <1>2 DEF EmitBuffered
  <2>2. LeftAll(b) /\ OrderedIn(b)
    BY <2>1, JoinOrder
  <2>3. b \in [Lanes -> Seq(Record)] /\ r = pending[1] /\ 1 \in 1..Len(pending)
    BY <2>1, <1>h
  <2>. HIDE DEF r, b
  <2>4. PendingOrdered' /\ \A l \in Lanes : \A x : Left(x, l) => Left(x, l)'
    BY <2>1, TailOrder
  <2>5. LeftAll(log)' /\ LeftAll(buffer)'
    BY <2>1, <2>2, <2>4 DEF LeftAll
  <2>6. \A l \in Lanes : \A x : Left(x, l) => ~ Before(r, x)
    BY <2>3 DEF Left
  <2>7. \A l \in Lanes : \A q \in 1..Len(log[l]) : ~ Before(r, log[l][q])
    <3>. SUFFICES ASSUME NEW l \in Lanes, NEW q \in 1..Len(log[l])
                  PROVE  ~ Before(r, log[l][q])
      OBVIOUS
    <3>1. log[l][q] \in Range(log[l]) BY DEF TypeOK, Range
    <3>. QED BY <3>1, <2>6 DEF LeftAll
  <2>8. \A l \in Lanes : \A q \in 1..Len(b[l]) : ~ Before(r, b[l][q])
    <3>. SUFFICES ASSUME NEW l \in Lanes, NEW q \in 1..Len(b[l])
                  PROVE  ~ Before(r, b[l][q])
      OBVIOUS
    <3>1. b[l][q] \in Range(b[l]) BY <2>3 DEF Range
    <3>. QED BY <3>1, <2>2, <2>6 DEF LeftAll
  <2>9. LaneOrder'
    <3>1. \A l \in Lanes : \A q \in 1..Len(log[l]) : \A s \in emitted' :
             Before(s, log[l][q]) => \E p \in 1..(q - 1) : log[l][p] = s
      BY <2>1, <2>7 DEF LaneOrder
    <3>. QED BY <3>1, <2>1 DEF LaneOrder, Before
  <2>10. OrderedIn(buffer)'
    <3>1. \A l \in Lanes : \A q \in 1..Len(b[l]) : \A s \in emitted' :
             Before(s, b[l][q]) => \/ s \in Range(log[l])
                                   \/ \E p \in 1..(q - 1) : b[l][p] = s
      BY <2>1, <2>2, <2>8 DEF OrderedIn
    <3>. QED BY <3>1, <2>1 DEF OrderedIn, Before
  <2>. QED BY <2>4, <2>5, <2>9, <2>10, <1>t
<1>3. CASE EmitFlushed
  <2>1. /\ pending # <<>> /\ Acknowledged(Buffered(Head(pending)))
        /\ buffer' = Empty /\ emitted' = emitted \cup {Head(pending)}
        /\ pending' = Tail(pending) /\ index' = index
    BY <1>3 DEF EmitFlushed, Empty
  <2>2. Goal BY <2>1, <1>h, JoinOrder, SendOrder
  <2>. QED BY <2>2, <1>t
<1>4. CASE EmitFailed
  <2>1. /\ pending # <<>> /\ Unacknowledged(Buffered(Head(pending)))
        /\ buffer' = Buffered(Head(pending)) /\ UNCHANGED <<emitted, pending, index>>
    BY <1>4 DEF EmitFailed
  <2>2. Goal BY <2>1, <1>h, JoinOrder, SendOrder
  <2>. QED BY <2>2, <1>t
<1>5. CASE CloseFlushed
  <2>1. /\ Acknowledged(buffer) /\ buffer' = Empty
        /\ UNCHANGED <<emitted, pending, index>>
    BY <1>5 DEF CloseFlushed, Empty
  <2>2. Goal BY <2>1, SendOrder DEF TypeOK
  <2>. QED BY <2>2, <1>t
<1>6. CASE CloseFailed
  <2>1. Unacknowledged(buffer) /\ UNCHANGED <<buffer, emitted, pending, index>>
    BY <1>6 DEF CloseFailed
  <2>2. Goal BY <2>1, SendOrder DEF TypeOK
  <2>. QED BY <2>2, <1>t
<1>7. CASE Interrupted \/ RequestFails \/ FinishRun \/ Exit \/ Signal \/ UNCHANGED vars
  <2>1. UNCHANGED <<index, pending, buffer, log, emitted>>
    BY <1>7 DEF Interrupted, RequestFails, FinishRun, Exit, Signal, vars
  <2>. QED BY <2>1, OrderKept, <1>t
<1>. QED BY <1>1, <1>2, <1>3, <1>4, <1>5, <1>6, <1>7 DEF Next, Step

(* No record overtakes another of its key, whatever flushes are repeated,  *)
(* partly appended or tried again by Close.                                *)
THEOREM LaneOrderHolds == Spec => []LaneOrder
<1>1. Init => OrderInv
  <2>. SUFFICES ASSUME Init PROVE OrderInv
    OBVIOUS
  <2>1. TypeOK /\ Conserved
    BY TypeInit DEF Init, Conserved
  <2>2. \A l \in Lanes : /\ Range(log[l]) = {} /\ Range(buffer[l]) = {}
                         /\ Len(log[l]) = 0 /\ Len(buffer[l]) = 0
    BY DEF Init, Range
  <2>3. Len(pending) = 0
    BY DEF Init
  <2>4. LeftAll(log) /\ LeftAll(buffer)
    BY <2>2 DEF LeftAll
  <2>a. PendingOrdered
    <3>1. 1..Len(pending) = {} BY <2>3
    <3>. QED BY <3>1 DEF PendingOrdered
  <2>5. LaneOrder /\ OrderedIn(buffer)
    BY <2>2 DEF LaneOrder, OrderedIn
  <2>. QED BY <2>1, <2>4, <2>5, <2>a DEF OrderInv
<1>2. OrderInv /\ [Next]_vars => OrderInv'
  BY OrderStep
<1>3. OrderInv => LaneOrder
  BY DEF OrderInv
<1>. QED BY <1>1, <1>2, <1>3, PTL DEF Spec

-----------------------------------------------------------------------------
(* Why a manifest on disk is the truth about the topics. *)

(* No record is emitted twice, so the counters count a set: what is        *)
(* pending is new and pairwise different.                                  *)
Fresh ==
  /\ \A k \in 1..Len(pending) :
        /\ pending[k] \notin emitted
        /\ pending[k].index < index
        /\ \A j \in 1..(k - 1) : pending[j] # pending[k]
  /\ \A r \in emitted : r.index < index

(* The counters of the manifest are those of the emitted records. *)
CountsTrue ==
  /\ IsFiniteSet(emitted)
  /\ \A t \in Topics : manifest.byTopic[t] =
        Cardinality({r \in emitted : r.lane.topic = t})
  /\ \A k \in Keys : manifest.byKey[k] =
        Cardinality({r \in emitted : r.lane = [topic |-> "delivery", key |-> k]})
  /\ manifest.duplicates = Cardinality({r \in emitted : r.duplicate})
  /\ manifest.schemaErrors = Cardinality({r \in emitted : r.invalid})

(* Every request has one routing record, its first. *)
RoutingFirst ==
  \A k \in 1..Len(pending) : pending[k].lane.topic = "routing" => k = 1

RoutingAhead == pending # <<>> /\ pending[1].lane.topic = "routing"

RoutingCounted ==
  manifest.byTopic["routing"] = index - (IF RoutingAhead THEN 1 ELSE 0)

(* Until a flush fails nothing is sent that was not counted. *)
Within(b) == \A l \in Lanes : Range(b[l]) \subseteq {r \in emitted : r.lane = l}

OnlyEmitted == ~runErr => Within(log) /\ Within(buffer)

(* Run without an error is complete, and main asks for both errors. *)
Complete == phase # "run" /\ ~runErr => pending = <<>> /\ index = Total

WrittenOnce == written => phase = "done" /\ ~runErr /\ ~closeErr

ManifestInv == /\ DeliveryInv /\ Fresh /\ CountsTrue
               /\ RoutingFirst /\ RoutingCounted
               /\ OnlyEmitted /\ Complete /\ WrittenOnce

-----------------------------------------------------------------------------
(* One new element of a finite set. *)
LEMMA OneMore ==
  ASSUME NEW S, IsFiniteSet(S), NEW A \in SUBSET S, NEW x, x \notin S
  PROVE  Cardinality(A) \in Nat /\ Cardinality(A \cup {x}) = Cardinality(A) + 1
<1>1. IsFiniteSet(A) BY FS_Subset
<1>. QED BY <1>1, FS_AddElement, FS_CardinalityType

(* A sent batch brings its own records and no others. *)
LEMMA SentWithin ==
  ASSUME NEW b \in [Lanes -> Seq(Record)], log \in [Lanes -> Seq(Record)],
         Acknowledged(b) \/ Unacknowledged(b), NEW l \in Lanes
  PROVE  Range(log'[l]) \subseteq Range(log[l]) \cup Range(b[l])
<1>. USE GeneratorAssumption
<1>1. PICK copies \in [Used(b) -> 0..MaxAttempts] : log' = Delivered(b, copies)
  <2>1. CASE Acknowledged(b)
    <3>1. PICK copies \in [Used(b) -> 1..MaxAttempts] : log' = Delivered(b, copies)
      BY <2>1 DEF Acknowledged
    <3>2. copies \in [Used(b) -> 0..MaxAttempts] OBVIOUS
    <3>. QED BY <3>1, <3>2
  <2>2. CASE Unacknowledged(b)
    BY <2>2 DEF Unacknowledged
  <2>. QED BY <2>1, <2>2
<1>2. CASE l \notin Used(b)
  <2>1. log'[l] = log[l] BY <1>1, <1>2 DEF Delivered
  <2>. QED BY <2>1
<1>3. CASE l \in Used(b)
  <2>. DEFINE s == b[l]
              n == copies[l]
              t == Repeat(s, n)
              u == log[l]
  <2>1. log'[l] = u \o t BY <1>1, <1>3 DEF Delivered
  <2>2. n \in Nat /\ s \in Seq(Record) /\ u \in Seq(Record) BY <1>1, <1>3
  <2>3. t \in Seq(Record) BY <2>2, RepeatType
  <2>4. Len(t) = n * Len(s)
    <3>1. n * Len(s) \in Nat BY <2>2
    <3>2. DOMAIN t = 1..(n * Len(s)) BY DEF Repeat
    <3>. HIDE DEF t
    <3>. QED BY <3>1, <3>2, <2>3
  <2>5. \A q \in 1..Len(t) : t[q] \in Range(s)
    <3>1. ASSUME NEW q \in 1..Len(t) PROVE t[q] \in Range(s)
      <4>0. q \in 1..(n * Len(s))
        BY <3>1, <2>4, Zenon
      <4>1. \E j \in 1..Len(s) : j <= q /\ t[q] = s[j]
        BY ONLY <4>0, <2>2, RepeatFirst
      <4>. QED BY <4>1, <2>2 DEF Range
    <3>. QED BY <3>1
  <2>. HIDE DEF s, n, t, u
  <2>6. ASSUME NEW x \in Range(u \o t) PROVE x \in Range(u) \cup Range(s)
    <3>1. PICK q \in 1..Len(u \o t) : (u \o t)[q] = x
      BY <2>6, <2>2, <2>3 DEF Range
    <3>2. CASE q <= Len(u)
      <4>1. x = u[q] /\ q \in 1..Len(u) BY <3>1, <3>2, <2>2, <2>3
      <4>. QED BY <4>1, <2>2 DEF Range
    <3>3. CASE q > Len(u)
      <4>1. x = t[q - Len(u)] /\ q - Len(u) \in 1..Len(t)
        BY <3>1, <3>3, <2>2, <2>3
      <4>. QED BY <4>1, <2>5
    <3>. QED BY <3>1, <3>2, <3>3, <2>2
  <2>. QED BY <2>1, <2>6 DEF u, s
<1>. QED BY <1>2, <1>3

(* generateRequest returns different records, the routing record first. *)
LEMMA RecordsFresh ==
  ASSUME NEW i \in 0..Total, NEW key \in Keys,
         NEW duplicate \in BOOLEAN, NEW invalid \in BOOLEAN
  PROVE  LET rs == Records(i, key, duplicate, invalid)
         IN /\ rs # <<>> /\ rs[1].lane.topic = "routing"
            /\ \A k \in 1..Len(rs) :
                  /\ rs[k].index = i
                  /\ rs[k].lane.topic = "routing" => k = 1
                  /\ \A j \in 1..(k - 1) : rs[j] # rs[k]
<1>. USE GeneratorAssumption
<1>. DEFINE Rec(topic, k, dup, inv) ==
              [lane |-> [topic |-> topic, key |-> k], index |-> i,
               duplicate |-> dup, invalid |-> inv]
            routing == Rec("routing", i, FALSE, FALSE)
            delivery == Rec("delivery", key, FALSE, invalid)
            player == Rec("player", i \div 8, FALSE, FALSE)
            copy == Rec("delivery", key, TRUE, invalid)
            rs == Records(i, key, duplicate, invalid)
<1>1. rs = <<routing, delivery>> \o (IF i % 4 = 0 THEN <<player>> ELSE <<>>)
                                 \o (IF duplicate THEN <<copy>> ELSE <<>>)
  BY DEF Records
<1>2. /\ routing.index = i /\ delivery.index = i /\ player.index = i /\ copy.index = i
      /\ ~ routing.duplicate /\ ~ delivery.duplicate /\ ~ player.duplicate
      /\ copy.duplicate
      /\ routing.lane.topic = "routing" /\ delivery.lane.topic = "delivery"
      /\ player.lane.topic = "player" /\ copy.lane.topic = "delivery"
  OBVIOUS
<1>. HIDE DEF Rec, routing, delivery, player, copy, rs
<1>. DEFINE R == {routing, delivery, player, copy}
            first == <<routing, delivery>>
            second == first \o (IF i % 4 = 0 THEN <<player>> ELSE <<>>)
            Good(s) == /\ s \in Seq(R) /\ Len(s) >= 1
                       /\ s[1].lane.topic = "routing"
                       /\ \A k \in 1..Len(s) :
                            /\ s[k].index = i
                            /\ s[k].lane.topic = "routing" => k = 1
                            /\ \A j \in 1..(k - 1) : s[j] # s[k]
<1>3. /\ Good(first)
      /\ \A k \in 1..Len(first) : /\ ~ first[k].duplicate
                                  /\ first[k].lane.topic # "player"
  <2>1. first \in Seq(R) /\ Len(first) = 2 /\ first[1] = routing /\ first[2] = delivery
    OBVIOUS
  <2>. HIDE DEF first, R
  <2>2. \A k \in 1..2 : k = 1 \/ k = 2 OBVIOUS
  <2>. QED BY <1>2, <2>1, <2>2
<1>. HIDE DEF first
<1>4. Good(second) /\ \A k \in 1..Len(second) : ~ second[k].duplicate
  <2>1. CASE i % 4 = 0
    <3>1. second = first \o <<player>> BY <2>1
    <3>2. /\ second \in Seq(R)
          /\ Len(second) = Len(first) + 1 /\ Len(first) \in Nat
          /\ \A k \in 1..Len(second) :
               second[k] = IF k <= Len(first) THEN first[k] ELSE player
      <4>1. player \in R /\ first \in Seq(R) BY <1>3
      <4>. HIDE DEF second, R
      <4>. QED BY <3>1, <4>1, ConcatOne
    <3>. HIDE DEF second, R
    <3>. QED BY <3>2, <1>2, <1>3
  <2>2. CASE i % 4 # 0
    <3>1. second = first \o <<>> BY <2>2
    <3>2. second = first BY <3>1, <1>3
    <3>. QED BY <3>2, <1>3
  <2>. QED BY <2>1, <2>2
<1>. HIDE DEF second
<1>5. Good(rs)
  <2>1. CASE duplicate
    <3>1. rs = second \o <<copy>> BY <2>1, <1>1 DEF second, first
    <3>2. /\ rs \in Seq(R)
          /\ Len(rs) = Len(second) + 1 /\ Len(second) \in Nat
          /\ \A k \in 1..Len(rs) :
               rs[k] = IF k <= Len(second) THEN second[k] ELSE copy
      <4>1. copy \in R /\ second \in Seq(R) BY <1>4
      <4>. HIDE DEF R
      <4>. QED BY <3>1, <4>1, ConcatOne
    <3>. HIDE DEF R
    <3>. QED BY <3>2, <1>2, <1>4
  <2>2. CASE ~ duplicate
    <3>1. rs = second \o <<>> BY <2>2, <1>1 DEF second, first
    <3>2. rs = second BY <3>1, <1>4
    <3>. QED BY <3>2, <1>4
  <2>. QED BY <2>1, <2>2
<1>6. rs # <<>> BY <1>5
<1>. QED BY <1>5, <1>6 DEF rs

-----------------------------------------------------------------------------
(* The bookkeeping of one emitted record. *)
LEMMA CountKept ==
  ASSUME TypeOK, CountsTrue, NEW h \in Record, h \notin emitted,
         emitted' = emitted \cup {h}, Count(h)
  PROVE  CountsTrue'
<1>f. IsFiniteSet(emitted) BY DEF CountsTrue
<1>m. /\ manifest.byTopic \in [Topics -> Nat] /\ manifest.byKey \in [Keys -> Nat]
      /\ manifest.duplicates \in Nat /\ manifest.schemaErrors \in Nat
  BY DEF TypeOK, Manifest
<1>h. /\ h.lane \in Lanes /\ h.lane.topic \in Topics
      /\ h.lane.topic = "delivery" =>
            h.lane.key \in Keys /\ h.lane = [topic |-> "delivery", key |-> h.lane.key]
      /\ h.duplicate \in BOOLEAN /\ h.invalid \in BOOLEAN
  BY DEF Record, Lanes, Topics
<1>c. /\ manifest'.byTopic = [manifest.byTopic EXCEPT ![h.lane.topic] = @ + 1]
      /\ manifest'.byKey = IF h.lane.topic = "delivery"
                             THEN [manifest.byKey EXCEPT ![h.lane.key] = @ + 1]
                             ELSE manifest.byKey
      /\ manifest'.duplicates = manifest.duplicates + (IF h.duplicate THEN 1 ELSE 0)
      /\ manifest'.schemaErrors = manifest.schemaErrors + (IF h.invalid THEN 1 ELSE 0)
  BY DEF Count
<1>1. IsFiniteSet(emitted') BY <1>f, FS_AddElement
<1>2. ASSUME NEW t \in Topics
      PROVE  manifest'.byTopic[t] = Cardinality({r \in emitted' : r.lane.topic = t})
  <2>. DEFINE A == {r \in emitted : r.lane.topic = t}
              B == {r \in emitted' : r.lane.topic = t}
  <2>1. manifest.byTopic[t] = Cardinality(A) BY DEF CountsTrue
  <2>2. A \in SUBSET emitted OBVIOUS
  <2>3. CASE h.lane.topic = t
    <3>1. B = A \cup {h} BY <2>3
    <3>. HIDE DEF A, B
    <3>2. Cardinality(A \cup {h}) = Cardinality(A) + 1 BY <1>f, <2>2, OneMore
    <3>3. manifest'.byTopic[t] = manifest.byTopic[t] + 1 BY <1>c, <1>m, <2>3
    <3>. QED BY <2>1, <3>1, <3>2, <3>3 DEF B
  <2>4. CASE h.lane.topic # t
    <3>1. B = A BY <2>4
    <3>2. manifest'.byTopic[t] = manifest.byTopic[t] BY <1>c, <1>m, <2>4
    <3>. QED BY <2>1, <3>1, <3>2
  <2>. QED BY <2>3, <2>4
<1>3. ASSUME NEW k \in Keys
      PROVE  manifest'.byKey[k] =
               Cardinality({r \in emitted' : r.lane = [topic |-> "delivery", key |-> k]})
  <2>. DEFINE A == {r \in emitted : r.lane = [topic |-> "delivery", key |-> k]}
              B == {r \in emitted' : r.lane = [topic |-> "delivery", key |-> k]}
  <2>1. manifest.byKey[k] = Cardinality(A) BY DEF CountsTrue
  <2>2. A \in SUBSET emitted OBVIOUS
  <2>3. CASE h.lane = [topic |-> "delivery", key |-> k]
    <3>1. B = A \cup {h} BY <2>3
    <3>. HIDE DEF A, B
    <3>2. Cardinality(A \cup {h}) = Cardinality(A) + 1 BY <1>f, <2>2, OneMore
    <3>3. h.lane.topic = "delivery" /\ h.lane.key = k BY <2>3
    <3>4. manifest'.byKey[k] = manifest.byKey[k] + 1 BY <1>c, <1>m, <3>3
    <3>. QED BY <2>1, <3>1, <3>2, <3>4 DEF B
  <2>4. CASE h.lane # [topic |-> "delivery", key |-> k]
    <3>1. B = A BY <2>4
    <3>2. manifest'.byKey[k] = manifest.byKey[k]
      <4>1. CASE h.lane.topic = "delivery"
        <5>1. h.lane.key # k BY <4>1, <2>4, <1>h
        <5>. QED BY <4>1, <5>1, <1>c, <1>m
      <4>2. CASE h.lane.topic # "delivery" BY <4>2, <1>c
      <4>. QED BY <4>1, <4>2
    <3>. QED BY <2>1, <3>1, <3>2
  <2>. QED BY <2>3, <2>4
<1>4. manifest'.duplicates = Cardinality({r \in emitted' : r.duplicate})
  <2>. DEFINE A == {r \in emitted : r.duplicate}
              B == {r \in emitted' : r.duplicate}
  <2>1. manifest.duplicates = Cardinality(A) BY DEF CountsTrue
  <2>2. A \in SUBSET emitted OBVIOUS
  <2>3. CASE h.duplicate
    <3>1. B = A \cup {h} BY <2>3
    <3>. HIDE DEF A, B
    <3>2. Cardinality(A \cup {h}) = Cardinality(A) + 1 BY <1>f, <2>2, OneMore
    <3>3. manifest'.duplicates = manifest.duplicates + 1 BY <1>c, <2>3
    <3>. QED BY <2>1, <3>1, <3>2, <3>3 DEF B
  <2>4. CASE ~ h.duplicate
    <3>1. B = A BY <2>4
    <3>2. manifest'.duplicates = manifest.duplicates BY <1>c, <1>m, <2>4
    <3>. QED BY <2>1, <3>1, <3>2
  <2>. QED BY <2>3, <2>4
<1>5. manifest'.schemaErrors = Cardinality({r \in emitted' : r.invalid})
  <2>. DEFINE A == {r \in emitted : r.invalid}
              B == {r \in emitted' : r.invalid}
  <2>1. manifest.schemaErrors = Cardinality(A) BY DEF CountsTrue
  <2>2. A \in SUBSET emitted OBVIOUS
  <2>3. CASE h.invalid
    <3>1. B = A \cup {h} BY <2>3
    <3>. HIDE DEF A, B
    <3>2. Cardinality(A \cup {h}) = Cardinality(A) + 1 BY <1>f, <2>2, OneMore
    <3>3. manifest'.schemaErrors = manifest.schemaErrors + 1 BY <1>c, <2>3
    <3>. QED BY <2>1, <3>1, <3>2, <3>3 DEF B
  <2>4. CASE ~ h.invalid
    <3>1. B = A BY <2>4
    <3>2. manifest'.schemaErrors = manifest.schemaErrors BY <1>c, <1>m, <2>4
    <3>. QED BY <2>1, <3>1, <3>2
  <2>. QED BY <2>3, <2>4
<1>. QED BY <1>1, <1>2, <1>3, <1>4, <1>5 DEF CountsTrue

LEMMA EmitKept ==
  ASSUME ManifestInv, pending # <<>>, NEW h, h = Head(pending),
         emitted' = emitted \cup {h}, Count(h),
         pending' = Tail(pending), index' = index
  PROVE  /\ Fresh' /\ CountsTrue' /\ RoutingFirst' /\ RoutingCounted'
         /\ h \in Record /\ h \notin emitted
<1>. USE DEF ManifestInv, DeliveryInv
<1>1. /\ pending \in Seq(Record) /\ Len(pending) \in Nat /\ Len(pending) >= 1
      /\ h = pending[1] /\ h \in Record
      /\ Len(pending') = Len(pending) - 1
      /\ \A k \in 1..Len(pending') :
           k + 1 \in 1..Len(pending) /\ pending'[k] = pending[k + 1]
  BY DEF TypeOK
<1>2. h \notin emitted /\ h.index < index
  BY <1>1 DEF Fresh
<1>3. Fresh'
  <2>1. ASSUME NEW k \in 1..Len(pending')
        PROVE  /\ pending'[k] \notin emitted'
               /\ pending'[k].index < index'
               /\ \A j \in 1..(k - 1) : pending'[j] # pending'[k]
    <3>1. k + 1 \in 1..Len(pending) /\ pending'[k] = pending[k + 1] /\ k \in Nat
      BY <1>1
    <3>2. /\ pending[k + 1] \notin emitted /\ pending[k + 1].index < index
          /\ \A j \in 1..k : pending[j] # pending[k + 1]
      <4>1. (k + 1) - 1 = k BY <3>1
      <4>. QED BY <3>1, <4>1 DEF Fresh
    <3>3. pending[1] # pending[k + 1] BY <3>1, <3>2
    <3>4. ASSUME NEW j \in 1..(k - 1) PROVE pending'[j] # pending'[k]
      <4>1. j \in 1..Len(pending') /\ j + 1 \in 1..k BY <1>1, <3>1
      <4>. QED BY <4>1, <3>1, <3>2, <1>1
    <3>. QED BY <1>1, <3>1, <3>2, <3>3, <3>4
  <2>2. \A r \in emitted' : r.index < index' BY <1>2 DEF Fresh
  <2>. QED BY <2>1, <2>2 DEF Fresh
<1>4. CountsTrue'
  BY <1>1, <1>2, CountKept
<1>5. \A k \in 1..Len(pending') : pending'[k].lane.topic # "routing"
  <2>1. ASSUME NEW k \in 1..Len(pending') PROVE pending'[k].lane.topic # "routing"
    <3>1. k + 1 \in 1..Len(pending) /\ k + 1 # 1 BY <1>1
    <3>. QED BY <1>1, <3>1 DEF RoutingFirst
  <2>. QED BY <2>1
<1>6. RoutingFirst' BY <1>5 DEF RoutingFirst
<1>7. RoutingCounted'
  <2>1. ~RoutingAhead'
    <3>. SUFFICES ASSUME pending' # <<>> PROVE pending'[1].lane.topic # "routing"
      BY DEF RoutingAhead
    <3>1. pending' \in Seq(Record) BY <1>1
    <3>2. 1 \in 1..Len(pending') BY <3>1
    <3>. QED BY <3>2, <1>5
  <2>2. h.lane.topic \in Topics /\ "routing" \in Topics
    BY <1>1 DEF Record, Lanes, Topics
  <2>3. manifest.byTopic \in [Topics -> Nat] BY DEF TypeOK, Manifest
  <2>4. manifest'.byTopic = [manifest.byTopic EXCEPT ![h.lane.topic] = @ + 1]
    BY DEF Count
  <2>5. index \in Nat BY GeneratorAssumption DEF TypeOK
  <2>6. RoutingAhead <=> h.lane.topic = "routing" BY <1>1 DEF RoutingAhead
  <2>7. CASE h.lane.topic = "routing"
    <3>1. manifest.byTopic["routing"] = index - 1 BY <2>6, <2>7 DEF RoutingCounted
    <3>2. manifest'.byTopic["routing"] = manifest.byTopic["routing"] + 1
      BY <2>2, <2>3, <2>4, <2>7
    <3>. QED BY <3>1, <3>2, <2>1, <2>5 DEF RoutingCounted
  <2>8. CASE h.lane.topic # "routing"
    <3>1. manifest.byTopic["routing"] = index BY <2>5, <2>6, <2>8 DEF RoutingCounted
    <3>2. manifest'.byTopic["routing"] = manifest.byTopic["routing"]
      BY <2>2, <2>3, <2>4, <2>8
    <3>. QED BY <3>1, <3>2, <2>1, <2>5 DEF RoutingCounted
  <2>. QED BY <2>7, <2>8
<1>. QED BY <1>1, <1>2, <1>3, <1>4, <1>6, <1>7

(* A buffer with one more record that is being emitted. *)
LEMMA BufferedWithin ==
  ASSUME TypeOK, NEW h \in Record, Within(buffer), NEW l \in Lanes
  PROVE  Range(Buffered(h)[l]) \subseteq {r \in emitted \cup {h} : r.lane = l}
<1>1. h.lane \in Lanes BY DEF Record
<1>2. CASE l # h.lane
  <2>1. Buffered(h)[l] = buffer[l] BY <1>2 DEF Buffered, TypeOK
  <2>. QED BY <2>1 DEF Within
<1>3. CASE l = h.lane
  <2>. DEFINE s == buffer[l]
  <2>1. s \in Seq(Record) BY DEF TypeOK
  <2>2. Buffered(h)[l] = Append(s, h) BY <1>1, <1>3 DEF Buffered, TypeOK
  <2>3. Range(s) \subseteq {r \in emitted : r.lane = l} BY DEF Within
  <2>. HIDE DEF s
  <2>4. ASSUME NEW x \in Range(Append(s, h)) PROVE x \in Range(s) \/ x = h
    <3>1. PICK q \in 1..Len(Append(s, h)) : Append(s, h)[q] = x
      BY <2>4, <2>1 DEF Range
    <3>2. (q \in 1..Len(s) /\ x = s[q]) \/ x = h BY <3>1, <2>1
    <3>. QED BY <3>2, <2>1 DEF Range
  <2>. QED BY <1>3, <2>2, <2>3, <2>4
<1>. QED BY <1>2, <1>3

LEMMA ManifestStep ==
  ASSUME ManifestInv, [Next]_vars PROVE ManifestInv'
<1>. USE DEF ManifestInv
<1>t. DeliveryInv'
  BY TypeStep, ConservedStep, ClosedEmptyStep DEF DeliveryInv
<1>y. TypeOK BY DEF DeliveryInv
<1>c. Complete' /\ WrittenOnce'
  <2>1. Complete'
    BY <1>y DEF Complete, TypeOK, Next, Step, vars, NextRequest, Interrupted, RequestFails,
       FinishRun, EmitBuffered, EmitFlushed, EmitFailed, CloseFlushed,
       CloseFailed, Exit, Signal
  <2>2. CASE Exit
    <3>1. phase' = "done" /\ UNCHANGED <<runErr, closeErr>> BY <2>2 DEF Exit
    <3>2. written' => ~runErr /\ ~closeErr BY <2>2, Zenon DEF Exit
    <3>. QED BY <2>1, <3>1, <3>2 DEF WrittenOnce
  <2>3. CASE ~Exit
    <3>1. WrittenOnce'
      BY <2>3 DEF WrittenOnce, Next, Step, vars, NextRequest, Interrupted, RequestFails,
         FinishRun, EmitBuffered, EmitFlushed, EmitFailed, CloseFlushed,
         CloseFailed, Signal
    <3>. QED BY <2>1, <3>1
  <2>. QED BY <2>2, <2>3
<1>. DEFINE Counting == Fresh' /\ CountsTrue' /\ RoutingFirst' /\ RoutingCounted'
<1>u. ASSUME UNCHANGED <<pending, emitted, index, manifest>> PROVE Counting
  <2>1. Fresh' BY <1>u DEF Fresh
  <2>2. CountsTrue' BY <1>u DEF CountsTrue
  <2>3. RoutingFirst' /\ RoutingCounted'
    BY <1>u DEF RoutingFirst, RoutingCounted, RoutingAhead
  <2>. QED BY <2>1, <2>2, <2>3
<1>e. Within(Empty) BY DEF Within, Empty, Range
<1>1. CASE NextRequest
  <2>1. PICK key \in Keys, duplicate \in BOOLEAN, invalid \in BOOLEAN :
           pending' = Records(index, key, duplicate, invalid)
    BY <1>1 DEF NextRequest
  <2>2. /\ index \in 0..Total /\ index' = index + 1 /\ pending = <<>>
        /\ UNCHANGED <<buffer, log, emitted, manifest, runErr>>
    BY <1>1, <1>y DEF NextRequest, TypeOK
  <2>3. /\ pending' # <<>> /\ pending'[1].lane.topic = "routing"
        /\ \A k \in 1..Len(pending') :
              /\ pending'[k].index = index
              /\ pending'[k].lane.topic = "routing" => k = 1
              /\ \A j \in 1..(k - 1) : pending'[j] # pending'[k]
    <3>. DEFINE rs == Records(index, key, duplicate, invalid)
    <3>1. /\ rs # <<>> /\ rs[1].lane.topic = "routing"
          /\ \A k \in 1..Len(rs) :
                /\ rs[k].index = index
                /\ rs[k].lane.topic = "routing" => k = 1
                /\ \A j \in 1..(k - 1) : rs[j] # rs[k]
      BY <2>2, RecordsFresh
    <3>2. pending' = rs BY <2>1
    <3>. HIDE DEF rs
    <3>. QED BY <3>1, <3>2
  <2>4. index \in Nat BY <2>2, GeneratorAssumption
  <2>5. Fresh'
    <3>1. \A r \in emitted : r.index < index /\ r.index \in Int
      BY <1>y, GeneratorAssumption DEF Fresh, TypeOK, Record
    <3>. QED BY <2>2, <2>3, <2>4, <3>1 DEF Fresh
  <2>6. CountsTrue' BY <2>2 DEF CountsTrue
  <2>7. RoutingFirst' BY <2>3 DEF RoutingFirst
  <2>8. RoutingCounted'
    <3>1. RoutingAhead' BY <2>3 DEF RoutingAhead
    <3>2. ~RoutingAhead BY <2>2 DEF RoutingAhead
    <3>. QED BY <2>2, <2>4, <3>1, <3>2 DEF RoutingCounted
  <2>9. OnlyEmitted' BY <2>2 DEF OnlyEmitted, Within
  <2>. QED BY <2>5, <2>6, <2>7, <2>8, <2>9, <1>t, <1>c
<1>2. CASE EmitBuffered \/ EmitFlushed
  <2>1. /\ pending # <<>> /\ Count(Head(pending))
        /\ emitted' = emitted \cup {Head(pending)}
        /\ pending' = Tail(pending) /\ UNCHANGED <<index, runErr>>
    BY <1>2 DEF EmitBuffered, EmitFlushed
  <2>2. Counting /\ Head(pending) \in Record
    BY <2>1, EmitKept
  <2>3. ASSUME ~runErr PROVE Within(log)' /\ Within(buffer)'
    <3>. DEFINE h == Head(pending)
                b == Buffered(h)
    <3>1. Within(log) /\ Within(buffer) BY <2>3 DEF OnlyEmitted
    <3>2. \A l \in Lanes : Range(b[l]) \subseteq {r \in emitted' : r.lane = l}
      BY <1>y, <2>1, <2>2, <3>1, BufferedWithin
    <3>3. \A l \in Lanes : Range(log[l]) \subseteq {r \in emitted' : r.lane = l}
      BY <2>1, <3>1 DEF Within
    <3>4. CASE EmitBuffered
      <4>1. buffer' = b /\ log' = log BY <3>4 DEF EmitBuffered
      <4>. HIDE DEF b, h
      <4>. QED BY <4>1, <3>2, <3>3 DEF Within
    <3>5. CASE EmitFlushed
      <4>1. buffer' = Empty /\ Acknowledged(b) BY <3>5 DEF EmitFlushed, Empty
      <4>2. b \in [Lanes -> Seq(Record)] BY <1>y, <2>2, BufferedType DEF TypeOK
      <4>. HIDE DEF b, h
      <4>3. \A l \in Lanes : Range(log'[l]) \subseteq Range(log[l]) \cup Range(b[l])
        BY <1>y, <4>1, <4>2, SentWithin DEF TypeOK
      <4>4. Within(log)' BY <4>3, <3>2, <3>3 DEF Within
      <4>5. Within(buffer)' BY <4>1 DEF Within, Empty, Range
      <4>. QED BY <4>4, <4>5
    <3>. QED BY <1>2, <3>4, <3>5
  <2>4. OnlyEmitted' BY <2>1, <2>3 DEF OnlyEmitted
  <2>. QED BY <2>2, <2>4, <1>t, <1>c
<1>3. CASE EmitFailed
  <2>1. runErr' = TRUE /\ UNCHANGED <<pending, emitted, index, manifest>>
    BY <1>3 DEF EmitFailed
  <2>2. OnlyEmitted' BY <2>1 DEF OnlyEmitted
  <2>. QED BY <2>1, <2>2, <1>u, <1>t, <1>c
<1>4. CASE CloseFlushed \/ CloseFailed
  <2>1. /\ Acknowledged(buffer) \/ Unacknowledged(buffer)
        /\ buffer' = Empty \/ buffer' = buffer
        /\ UNCHANGED <<pending, emitted, index, manifest, runErr>>
    BY <1>4 DEF CloseFlushed, CloseFailed, Empty
  <2>2. \A l \in Lanes : Range(log'[l]) \subseteq Range(log[l]) \cup Range(buffer[l])
    BY <1>y, <2>1, SentWithin DEF TypeOK
  <2>3. ASSUME ~runErr PROVE Within(log)' /\ Within(buffer)'
    <3>1. Within(log) /\ Within(buffer) BY <2>3 DEF OnlyEmitted
    <3>2. Within(log)' BY <2>1, <2>2, <3>1 DEF Within
    <3>3. Within(buffer)' BY <2>1, <3>1, <1>e DEF Within
    <3>. QED BY <3>2, <3>3
  <2>4. OnlyEmitted' BY <2>1, <2>3 DEF OnlyEmitted
  <2>. QED BY <2>1, <2>4, <1>u, <1>t, <1>c
<1>5. CASE Interrupted \/ RequestFails \/ FinishRun \/ Exit \/ Signal \/ UNCHANGED vars
  <2>1. /\ UNCHANGED <<pending, emitted, index, manifest, log, buffer>>
        /\ runErr' = runErr \/ runErr' = TRUE
    BY <1>5 DEF Interrupted, RequestFails, FinishRun, Exit, Signal, vars
  <2>2. OnlyEmitted' BY <2>1 DEF OnlyEmitted, Within
  <2>. QED BY <2>1, <2>2, <1>u, <1>t, <1>c
<1>. QED BY <1>1, <1>2, <1>3, <1>4, <1>5 DEF Next, Step

LEMMA ManifestInit == Init => ManifestInv
<1>. SUFFICES ASSUME Init PROVE ManifestInv
  OBVIOUS
<1>1. DeliveryInv
  <2>1. Conserved /\ ClosedEmpty BY DEF Init, Conserved, ClosedEmpty, Empty
  <2>. QED BY <2>1, TypeInit DEF DeliveryInv
<1>2. /\ emitted = {} /\ pending = <<>> /\ index = 0 /\ manifest = NoCounts
      /\ phase = "run" /\ written = FALSE
      /\ log = Empty /\ buffer = Empty
  BY DEF Init, Empty
<1>3. Fresh /\ RoutingFirst BY <1>2 DEF Fresh, RoutingFirst
<1>4. RoutingCounted
  BY <1>2 DEF RoutingCounted, RoutingAhead, NoCounts, Topics
<1>5. CountsTrue
  <2>1. /\ \A t \in Topics : {r \in emitted : r.lane.topic = t} = {}
        /\ \A k \in Keys :
             {r \in emitted : r.lane = [topic |-> "delivery", key |-> k]} = {}
        /\ {r \in emitted : r.duplicate} = {}
        /\ {r \in emitted : r.invalid} = {}
    BY <1>2
  <2>2. IsFiniteSet({}) /\ Cardinality({}) = 0 BY FS_EmptySet
  <2>. QED BY <1>2, <2>1, <2>2 DEF CountsTrue, NoCounts
<1>6. OnlyEmitted BY <1>2 DEF OnlyEmitted, Within, Empty, Range
<1>7. Complete /\ WrittenOnce BY <1>2 DEF Complete, WrittenOnce
<1>. QED BY <1>1, <1>3, <1>4, <1>5, <1>6, <1>7 DEF ManifestInv

(* A manifest on disk tells the truth: the run was complete, its counters  *)
(* are those of the emitted records, and the partitions hold these records *)
(* and no others, whatever flushes were repeated or partly appended.       *)
THEOREM ManifestTrueHolds == Spec => []ManifestTrue
<1>1. ManifestInv => ManifestTrue
  <2>. SUFFICES ASSUME ManifestInv, written PROVE ManifestTrue
    BY DEF ManifestTrue
  <2>. USE DEF ManifestInv, DeliveryInv
  <2>1. phase = "done" /\ ~runErr /\ ~closeErr BY DEF WrittenOnce
  <2>2. pending = <<>> /\ index = Total BY <2>1 DEF Complete
  <2>3. manifest.byTopic["routing"] = Total
    BY <2>2, GeneratorAssumption DEF RoutingCounted, RoutingAhead
  <2>4. ASSUME NEW l \in Lanes
        PROVE  Range(log[l]) = {r \in emitted : r.lane = l}
    <3>1. Range(log[l]) \subseteq {r \in emitted : r.lane = l}
      BY <2>1 DEF OnlyEmitted, Within
    <3>2. buffer[l] = <<>> BY <2>1 DEF ClosedEmpty, Empty
    <3>3. Range(buffer[l]) = {} BY <3>2 DEF Range
    <3>4. {r \in emitted : r.lane = l} \subseteq Range(log[l])
      BY <3>3 DEF Conserved
    <3>. QED BY <3>1, <3>4
  <2>. QED BY <2>3, <2>4 DEF ManifestTrue, CountsTrue
<1>. QED BY <1>1, ManifestInit, ManifestStep, PTL DEF Spec
=============================================================================
