--------------------------- MODULE EventGenerator ---------------------------
(***************************************************************************)
(* services/event-generator writing to Kafka: Generator.Run emits the      *)
(* records of every request into the Kafka sink, which buffers them and    *)
(* flushes full batches; main then closes the sink and writes the ground   *)
(* truth manifest.                                                         *)
(*                                                                         *)
(* A lane is a topic and a key: the Hash balancer sends a lane to one      *)
(* partition, so the order within a lane is all the order Kafka keeps.     *)
(* The sink's one slice is represented by its lanes and its length.  The   *)
(* random draws of generateRequest are free choices, and a record carries  *)
(* its place in the run instead of its payload: a duplicate repeats the    *)
(* bytes of the delivery event and differs by the ghost field duplicate.   *)
(***************************************************************************)
EXTENDS Integers, Sequences, FiniteSets, Functions

CONSTANTS Total,       \* requests of the run: duration times rate
          Keys,        \* delivery keys: location, network, session bucket
          BatchSize,   \* kafkaBatchSize
          MaxAttempts  \* bound: times kafka-go sends one batch of a partition

ASSUME GeneratorAssumption ==
  /\ Total \in Nat
  /\ Keys \subseteq Nat
  /\ BatchSize \in Nat \ {0}
  /\ MaxAttempts \in Nat \ {0}

VARIABLES phase,       \* "run", "close", "exit", "done"
          cancelled,   \* the signal context is done
          index,       \* requests generated so far
          pending,     \* records of the current request not yet emitted
          buffer,      \* Kafka.messages: lane -> records in order
          held,        \* len(Kafka.messages)
          log,         \* lane -> what its partition holds of it
          emitted,     \* ghost: records whose emit returned nil
          manifest,    \* the counters of Manifest
          runErr, closeErr,
          written      \* the manifest file exists

vars == <<phase, cancelled, index, pending, buffer, held, log, emitted,
          manifest, runErr, closeErr, written>>

Topics == {"routing", "delivery", "player"}

(* Request ids key the routing topic, sessions the player topic. *)
Lanes == [topic : {"routing", "player"}, key : 0..Total]
           \cup [topic : {"delivery"}, key : Keys]

Record == [lane : Lanes, index : 0..Total, duplicate : BOOLEAN,
           invalid : BOOLEAN]

(* What generateRequest returns: a player event every fourth request, in a *)
(* session of eight requests, and perhaps a second copy of the delivery.   *)
Records(i, key, duplicate, invalid) ==
  LET Rec(topic, k, dup, inv) ==
        [lane |-> [topic |-> topic, key |-> k], index |-> i,
         duplicate |-> dup, invalid |-> inv]
  IN <<Rec("routing", i, FALSE, FALSE), Rec("delivery", key, FALSE, invalid)>>
     \o (IF i % 4 = 0 THEN <<Rec("player", i \div 8, FALSE, FALSE)>> ELSE <<>>)
     \o (IF duplicate THEN <<Rec("delivery", key, TRUE, invalid)>> ELSE <<>>)

NoCounts == [byTopic |-> [t \in Topics |-> 0], byKey |-> [k \in Keys |-> 0],
             duplicates |-> 0, schemaErrors |-> 0]

Init ==
  /\ phase = "run"
  /\ cancelled = FALSE
  /\ index = 0
  /\ pending = <<>>
  /\ buffer = [l \in Lanes |-> <<>>]
  /\ held = 0
  /\ log = [l \in Lanes |-> <<>>]
  /\ emitted = {}
  /\ manifest = NoCounts
  /\ runErr = FALSE
  /\ closeErr = FALSE
  /\ written = FALSE

-----------------------------------------------------------------------------
(* SIGINT or SIGTERM. *)
Signal ==
  /\ ~cancelled
  /\ phase # "done"
  /\ cancelled' = TRUE
  /\ UNCHANGED <<phase, index, pending, buffer, held, log, emitted, manifest,
                 runErr, closeErr, written>>

(* Fault: the loop runs once more. *)
NextRequestPastEnd ==
  /\ phase = "run"
  /\ pending = <<>>
  /\ index <= Total
  /\ ~cancelled
  /\ \E key \in Keys, duplicate, invalid \in BOOLEAN :
        pending' = Records(index, key, duplicate, invalid)
  /\ index' = index + 1
  /\ UNCHANGED <<phase, cancelled, buffer, held, log, emitted, manifest,
                 runErr, closeErr, written>>

NextRequest ==
  /\ phase = "run"
  /\ pending = <<>>
  /\ index < Total
  /\ ~cancelled
  /\ \E key \in Keys, duplicate, invalid \in BOOLEAN :
        pending' = Records(index, key, duplicate, invalid)
  /\ index' = index + 1
  /\ UNCHANGED <<phase, cancelled, buffer, held, log, emitted, manifest,
                 runErr, closeErr, written>>

(* Fault: an interrupted Run waits for the sink to be empty. *)
InterruptedDraining ==
  /\ phase = "run"
  /\ pending = <<>>
  /\ index < Total
  /\ cancelled
  /\ held = 0
  /\ runErr' = TRUE
  /\ phase' = "close"
  /\ UNCHANGED <<cancelled, index, pending, buffer, held, log, emitted,
                 manifest, closeErr, written>>

Interrupted ==
  /\ phase = "run"
  /\ pending = <<>>
  /\ index < Total
  /\ cancelled
  /\ runErr' = TRUE
  /\ phase' = "close"
  /\ UNCHANGED <<cancelled, index, pending, buffer, held, log, emitted,
                 manifest, closeErr, written>>

(* generateRequest returns an error: a record cannot be encoded. *)
RequestFails ==
  /\ phase = "run"
  /\ pending = <<>>
  /\ index < Total
  /\ ~cancelled
  /\ runErr' = TRUE
  /\ phase' = "close"
  /\ UNCHANGED <<cancelled, index, pending, buffer, held, log, emitted,
                 manifest, closeErr, written>>

FinishRun ==
  /\ phase = "run"
  /\ pending = <<>>
  /\ index = Total
  /\ phase' = "close"
  /\ UNCHANGED <<cancelled, index, pending, buffer, held, log, emitted,
                 manifest, runErr, closeErr, written>>

-----------------------------------------------------------------------------
(* kafka.Writer: every lane with messages is appended some number of      *)
(* times.  A nil error means that each was acknowledged at least once; an *)
(* error says nothing about any of them.                                  *)
Repeat(s, n) == [p \in 1..(n * Len(s)) |-> s[((p - 1) % Len(s)) + 1]]

Used(b) == {l \in Lanes : b[l] # <<>>}

Delivered(b, copies) ==
  [l \in Lanes |->
     IF l \in Used(b) THEN log[l] \o Repeat(b[l], copies[l]) ELSE log[l]]

Acknowledged(b) ==
  \E copies \in [Used(b) -> 1..MaxAttempts] : log' = Delivered(b, copies)

Unacknowledged(b) ==
  \E copies \in [Used(b) -> 0..MaxAttempts] : log' = Delivered(b, copies)

(* Fault: the newest record is sent first. *)
BufferedFront(r) == [buffer EXCEPT ![r.lane] = <<r>> \o @]

Buffered(r) == [buffer EXCEPT ![r.lane] = Append(@, r)]

(* The bookkeeping of Run after emit returned nil. *)
Count(r) ==
  manifest' = [byTopic |-> [manifest.byTopic EXCEPT ![r.lane.topic] = @ + 1],
               byKey |-> IF r.lane.topic = "delivery"
                           THEN [manifest.byKey EXCEPT ![r.lane.key] = @ + 1]
                           ELSE manifest.byKey,
               duplicates |-> manifest.duplicates
                                + (IF r.duplicate THEN 1 ELSE 0),
               schemaErrors |-> manifest.schemaErrors
                                  + (IF r.invalid THEN 1 ELSE 0)]

(* Write with room left in the batch. *)
EmitBuffered ==
  /\ phase = "run"
  /\ pending # <<>>
  /\ held + 1 < BatchSize
  /\ buffer' = Buffered(Head(pending))
  /\ held' = held + 1
  /\ emitted' = emitted \cup {Head(pending)}
  /\ Count(Head(pending))
  /\ pending' = Tail(pending)
  /\ UNCHANGED <<phase, cancelled, index, log, runErr, closeErr, written>>

(* Write that fills the batch and flushes it. *)
EmitFlushed ==
  /\ phase = "run"
  /\ pending # <<>>
  /\ held + 1 >= BatchSize
  /\ Acknowledged(Buffered(Head(pending)))
  /\ buffer' = [l \in Lanes |-> <<>>]
  /\ held' = 0
  /\ emitted' = emitted \cup {Head(pending)}
  /\ Count(Head(pending))
  /\ pending' = Tail(pending)
  /\ UNCHANGED <<phase, cancelled, index, runErr, closeErr, written>>

(* Faults: the failed batch is dropped; it is kept but Run carries on. *)
EmitFailedDropping ==
  /\ phase = "run"
  /\ pending # <<>>
  /\ held + 1 >= BatchSize
  /\ Unacknowledged(Buffered(Head(pending)))
  /\ buffer' = [l \in Lanes |-> <<>>]
  /\ held' = 0
  /\ runErr' = TRUE
  /\ phase' = "close"
  /\ UNCHANGED <<cancelled, index, pending, emitted, manifest, closeErr, written>>

EmitFailedKeeping ==
  /\ phase = "run"
  /\ pending # <<>>
  /\ held + 1 >= BatchSize
  /\ Unacknowledged(Buffered(Head(pending)))
  /\ buffer' = Buffered(Head(pending))
  /\ held' = held + 1
  /\ pending' = Tail(pending)
  /\ UNCHANGED <<phase, cancelled, index, emitted, manifest, runErr, closeErr,
                 written>>

(* The flush fails: the batch stays in the buffer, Run returns. *)
EmitFailed ==
  /\ phase = "run"
  /\ pending # <<>>
  /\ held + 1 >= BatchSize
  /\ Unacknowledged(Buffered(Head(pending)))
  /\ buffer' = Buffered(Head(pending))
  /\ held' = held + 1
  /\ runErr' = TRUE
  /\ phase' = "close"
  /\ UNCHANGED <<cancelled, index, pending, emitted, manifest, closeErr, written>>

CloseFlushed ==
  /\ phase = "close"
  /\ Acknowledged(buffer)
  /\ buffer' = [l \in Lanes |-> <<>>]
  /\ held' = 0
  /\ closeErr' \in BOOLEAN        \* writer.Close may still report an error
  /\ phase' = "exit"
  /\ UNCHANGED <<cancelled, index, pending, emitted, manifest, runErr, written>>

CloseFailed ==
  /\ phase = "close"
  /\ held > 0
  /\ Unacknowledged(buffer)
  /\ closeErr' = TRUE
  /\ phase' = "exit"
  /\ UNCHANGED <<cancelled, index, pending, buffer, held, emitted, manifest,
                 runErr, written>>

(* Fault: the manifest is written whatever Run returned. *)
ExitUnchecked ==
  /\ phase = "exit"
  /\ phase' = "done"
  /\ written' = ~closeErr
  /\ UNCHANGED <<cancelled, index, pending, buffer, held, log, emitted,
                 manifest, runErr, closeErr>>

(* check(runErr), check(closeErr), writeJSON, which may itself fail. *)
Exit ==
  /\ phase = "exit"
  /\ phase' = "done"
  /\ \/ written' = (~runErr /\ ~closeErr)
     \/ written' = FALSE
  /\ UNCHANGED <<cancelled, index, pending, buffer, held, log, emitted,
                 manifest, runErr, closeErr>>

Step == \/ NextRequest \/ Interrupted \/ RequestFails \/ FinishRun
        \/ EmitBuffered \/ EmitFlushed \/ EmitFailed
        \/ CloseFlushed \/ CloseFailed \/ Exit

Next == Step \/ Signal

Spec == Init /\ [][Next]_vars

(* Every call of the loop returns: kafka-go bounds its attempts and their *)
(* time, and Close flushes under a thirty second context.                 *)
FairSpec == Spec /\ WF_vars(Step)

-----------------------------------------------------------------------------
Manifest == [byTopic : [Topics -> Nat], byKey : [Keys -> Nat],
             duplicates : Nat, schemaErrors : Nat]

(* The state of the generator, its sink and its manifest is well formed. *)
TypeOK ==
  /\ phase \in {"run", "close", "exit", "done"}
  /\ cancelled \in BOOLEAN
  /\ index \in 0..Total
  /\ pending \in Seq(Record)
  /\ buffer \in [Lanes -> Seq(Record)]
  /\ held \in Nat
  /\ log \in [Lanes -> Seq(Record)]
  /\ emitted \subseteq Record
  /\ manifest \in Manifest
  /\ runErr \in BOOLEAN
  /\ closeErr \in BOOLEAN
  /\ written \in BOOLEAN

(* The sink never holds more than one batch, also when a flush failed and *)
(* Run handed the buffer over to Close (Kafka.Write, Kafka.flush).        *)
BufferBounded ==
  /\ held <= BatchSize
  /\ phase = "run" => held < BatchSize

(* When Close returns nil, every record whose emit succeeded is in its     *)
(* partition, even if Run failed or was interrupted half-way: a failed     *)
(* flush keeps its batch and Close sends it again.                         *)
CloseDelivers ==
  (phase \in {"exit", "done"} /\ ~closeErr) =>
     \A r \in emitted : r \in Range(log[r.lane])

(* s was emitted before r on their lane. *)
Before(s, r) ==
  /\ s.lane = r.lane
  /\ \/ s.index < r.index
     \/ s.index = r.index /\ ~s.duplicate /\ r.duplicate

(* Batches that are sent again never let a record overtake: wherever a     *)
(* record is in a partition, everything emitted earlier with the same key  *)
(* has an occurrence in front of it.                                       *)
LaneOrder ==
  \A l \in Lanes : \A q \in 1..Len(log[l]) : \A s \in emitted :
     Before(s, log[l][q]) => \E p \in 1..(q - 1) : log[l][p] = s

(* A manifest on disk is the truth about the topics: the run was complete, *)
(* its counters are those of the records emitted, and the partitions hold  *)
(* these records (some perhaps repeated) and no others.                    *)
ManifestTrue ==
  written =>
    /\ manifest.byTopic["routing"] = Total
    /\ \A t \in Topics : manifest.byTopic[t] =
          Cardinality({r \in emitted : r.lane.topic = t})
    /\ \A k \in Keys : manifest.byKey[k] =
          Cardinality({r \in emitted : r.lane = [topic |-> "delivery", key |-> k]})
    /\ manifest.duplicates = Cardinality({r \in emitted : r.duplicate})
    /\ manifest.schemaErrors = Cardinality({r \in emitted : r.invalid})
    /\ \A l \in Lanes : Range(log[l]) = {r \in emitted : r.lane = l}

(* The process ends, whatever flushes fail and whenever it is signalled. *)
RunEnds == <>(phase = "done")
=============================================================================
