------------------------------- MODULE Audit -------------------------------
(***************************************************************************)
(* POST /v1/recommendations/{id}/ack and .../outcome: the service stamps   *)
(* the request and inserts one row into a MergeTree table of ClickHouse,   *)
(* over an HTTP client whose timeout is the only bound on the wait.        *)
(*                                                                         *)
(* The handlers of the two endpoints differ in the fields they ask for and *)
(* in the table, so a post here is either.  Its client is who sends it: an *)
(* acknowledgement names the client as its actor, an outcome names nobody. *)
(* Posts are numbered in the order in which they are sent; a client sends  *)
(* its next post when it has the answer to the last, or when it no longer  *)
(* waits for it.  DateTime64(3) drops digits of observed_at, which keeps   *)
(* their order; stored_at, which the tables add, is read by nothing.       *)
(***************************************************************************)
EXTENDS Integers, FiniteSets

CONSTANTS Clients,
          GivenTimes,       \* values of observed_at in a body that has one
          InsertTimeout,    \* CLICKHOUSE_TIMEOUT
          Retention,        \* TTL observed_at + INTERVAL 30 DAY
          MaxPosts, MaxTime, MaxRestarts     \* bounds

ASSUME AuditAssumption ==
  /\ Clients # {}
  /\ GivenTimes \subseteq Nat
  /\ InsertTimeout \in Nat
  /\ Retention \in Nat
  /\ MaxPosts \in Nat /\ MaxTime \in Nat /\ MaxRestarts \in Nat

VARIABLES clock, restarts,
          posted,      \* posts sent so far
          post,        \* number -> what the body says
          stage,       \* number -> where its handler is, or its answer
          insert,      \* number -> what became of its INSERT
          observed,    \* number -> observed_at of its row
          deadline,    \* number -> when the HTTP client gives up
          abandoned,   \* posts whose client stopped waiting
          table        \* posts that have a row

vars == <<clock, restarts, posted, post, stage, insert, observed, deadline,
          abandoned, table>>

Ids == 1..MaxPosts
NoTime == -1

Post == [client : Clients, given : GivenTimes \cup {NoTime}, valid : BOOLEAN]

Answers == {"204", "400", "503", "dead"}    \* dead: the process stopped first
Stages == {"unsent", "received", "inserting"} \cup Answers
Inserts == {"none", "sent", "executed"}

Sent == 1..posted

Init ==
  /\ clock = 0 /\ restarts = 0 /\ posted = 0
  /\ post = [i \in Ids |-> CHOOSE p \in Post : TRUE]
  /\ stage = [i \in Ids |-> "unsent"]
  /\ insert = [i \in Ids |-> "none"]
  /\ observed = [i \in Ids |-> 0]
  /\ deadline = [i \in Ids |-> 0]
  /\ abandoned = {} /\ table = {}

-----------------------------------------------------------------------------
(* Clients *)

(* The client waits for no answer. *)
Free(c) == \A i \in Sent : post[i].client = c => stage[i] \in Answers \/ i \in abandoned

Send(p) ==
  /\ posted < MaxPosts
  /\ Free(p.client)
  /\ posted' = posted + 1
  /\ post' = [post EXCEPT ![posted + 1] = p]
  /\ stage' = [stage EXCEPT ![posted + 1] = "received"]
  /\ UNCHANGED <<clock, restarts, insert, observed, deadline, abandoned, table>>

(* The same body again, unless it was accepted or refused. *)
Retry(i) ==
  /\ i \in Sent
  /\ stage[i] \in {"503", "dead"} \/ i \in abandoned
  /\ Send(post[i])

Abandon(i) ==
  /\ stage[i] \in {"received", "inserting"}
  /\ abandoned' = abandoned \cup {i}
  /\ UNCHANGED <<clock, restarts, posted, post, stage, insert, observed,
                 deadline, table>>

-----------------------------------------------------------------------------
(* Service.Acknowledge, Service.RecordOutcome *)

(* The handler returns. *)
Answer(i, a) == /\ stage' = [stage EXCEPT ![i] = a]
                /\ deadline' = [deadline EXCEPT ![i] = 0]

(* A body that does not decode, or lacks what its endpoint asks for. *)
Refuse(i) ==
  /\ stage[i] = "received"
  /\ ~ post[i].valid
  /\ Answer(i, "400")
  /\ UNCHANGED <<clock, restarts, posted, post, insert, observed, abandoned, table>>

(* observed_at of the body, or else the service's clock *)
Stamp(i) == IF post[i].given = NoTime THEN clock ELSE post[i].given

Insert(i) ==
  /\ stage[i] = "received"
  /\ post[i].valid
  /\ observed' = [observed EXCEPT ![i] = Stamp(i)]
  /\ insert' = [insert EXCEPT ![i] = "sent"]
  /\ deadline' = [deadline EXCEPT ![i] = clock + InsertTimeout]
  /\ stage' = [stage EXCEPT ![i] = "inserting"]
  /\ UNCHANGED <<clock, restarts, posted, post, abandoned, table>>

(* Fault: the answer does not wait for the status of the response. *)
AnswerOkEarly(i) ==
  /\ stage[i] = "inserting"
  /\ clock <= deadline[i]
  /\ Answer(i, "204")
  /\ UNCHANGED <<clock, restarts, posted, post, insert, observed, abandoned, table>>

AnswerOk(i) ==
  /\ stage[i] = "inserting"
  /\ insert[i] = "executed"
  /\ clock <= deadline[i]
  /\ Answer(i, "204")
  /\ UNCHANGED <<clock, restarts, posted, post, insert, observed, abandoned, table>>

(* Fault: an HTTP client without a timeout. *)
AnswerUnavailableOnCancel(i) ==
  /\ stage[i] = "inserting"
  /\ i \in abandoned
  /\ Answer(i, "503")
  /\ UNCHANGED <<clock, restarts, posted, post, insert, observed, abandoned, table>>

(* An error, the timeout, or a client that has gone and cancels the context. *)
(* None of them recalls an INSERT that is on its way.                        *)
AnswerUnavailable(i) ==
  /\ stage[i] = "inserting"
  /\ Answer(i, "503")
  /\ UNCHANGED <<clock, restarts, posted, post, insert, observed, abandoned, table>>

-----------------------------------------------------------------------------
(* ClickHouse, restarts and time *)

(* Fault: observed_at is filled in by the database. *)
ExecuteStamping(i) ==
  /\ insert[i] = "sent"
  /\ insert' = [insert EXCEPT ![i] = "executed"]
  /\ observed' = [observed EXCEPT ![i] = IF post[i].given = NoTime THEN clock ELSE @]
  /\ table' = table \cup {i}
  /\ UNCHANGED <<clock, restarts, posted, post, stage, deadline, abandoned>>

(* An INSERT takes effect some time after it was sent, or never: ClickHouse *)
(* may not get it, or may fail.                                             *)
Execute(i) ==
  /\ insert[i] = "sent"
  /\ insert' = [insert EXCEPT ![i] = "executed"]
  /\ table' = table \cup {i}
  /\ UNCHANGED <<clock, restarts, posted, post, stage, observed, deadline, abandoned>>

(* A merge drops a row that is past its TTL. *)
Expire(i) ==
  /\ i \in table
  /\ observed[i] + Retention <= clock
  /\ table' = table \ {i}
  /\ UNCHANGED <<clock, restarts, posted, post, stage, insert, observed,
                 deadline, abandoned>>

(* Fault: whatever has no answer is taken for a handler that was running. *)
RestartAll ==
  /\ restarts < MaxRestarts
  /\ restarts' = restarts + 1
  /\ stage' = [i \in Ids |-> IF stage[i] \in Answers THEN stage[i] ELSE "dead"]
  /\ deadline' = [i \in Ids |-> 0]
  /\ UNCHANGED <<clock, posted, post, insert, observed, abandoned, table>>

Restart ==
  /\ restarts < MaxRestarts
  /\ restarts' = restarts + 1
  /\ stage' = [i \in Ids |-> IF stage[i] \in {"received", "inserting"}
                               THEN "dead" ELSE stage[i]]
  /\ deadline' = [i \in Ids |-> 0]
  /\ UNCHANGED <<clock, posted, post, insert, observed, abandoned, table>>

(* No INSERT is waited for beyond its deadline. *)
Tick ==
  /\ clock < MaxTime
  /\ \A i \in Ids : stage[i] = "inserting" => clock < deadline[i]
  /\ clock' = clock + 1
  /\ UNCHANGED <<restarts, posted, post, stage, insert, observed, deadline,
                 abandoned, table>>

Handle(i) == Refuse(i) \/ Insert(i) \/ AnswerOk(i) \/ AnswerUnavailable(i)

Next ==
  \/ \E p \in Post : Send(p)
  \/ \E i \in Ids : \/ Retry(i) \/ Abandon(i) \/ Handle(i)
                    \/ Execute(i) \/ Expire(i)
  \/ Restart
  \/ Tick

Spec == Init /\ [][Next]_vars

(* Handlers run, and the timeout of the HTTP client ends every wait for    *)
(* ClickHouse.  ClickHouse itself, which may never execute an INSERT, and  *)
(* the clients owe nothing.                                                *)
FairSpec == Spec /\ \A i \in Ids : WF_vars(Handle(i))

-----------------------------------------------------------------------------
(* Properties *)

(* Handlers, inserts and rows are where the two endpoints can put them:    *)
(* only a post that reached the insert has a row.                          *)
TypeOK ==
  /\ clock \in Nat
  /\ restarts \in Nat
  /\ posted \in 0..MaxPosts
  /\ post \in [Ids -> Post]
  /\ stage \in [Ids -> Stages]
  /\ insert \in [Ids -> Inserts]
  /\ observed \in [Ids -> Nat]
  /\ deadline \in [Ids -> Nat]
  /\ abandoned \subseteq Sent
  /\ table \subseteq {i \in Sent : insert[i] = "executed"}
  /\ \A i \in Ids : stage[i] = "unsent" <=> i \notin Sent

(* What was answered with 204 is in the table, over restarts of the        *)
(* service, until the TTL of its own observed_at ends: a body that carries *)
(* an old time is all that can cut this short.                             *)
AcknowledgedDurable ==
  \A i \in Ids : stage[i] = "204" => i \in table \/ observed[i] + Retention <= clock

(* Posts that the service stamps itself. *)
Stamped(i) == post[i].given = NoTime

(* The last word of a client stands: as long as it waits for its answers,  *)
(* a row of an earlier post never shows a later observed_at than the row   *)
(* of a later one, although the INSERT of a post that was answered with    *)
(* 503 or died with the process may be executed after both.                *)
LatestStands ==
  \A i, j \in table :
    (i < j /\ post[i].client = post[j].client /\ Stamped(i) /\ Stamped(j) /\ i \notin abandoned)
      => observed[i] <= observed[j]

(* Every post is answered, or the process stops: ClickHouse never answering *)
(* does not keep a handler waiting.                                         *)
PostAnswered ==
  \A i \in Ids : stage[i] \in {"received", "inserting"} ~> stage[i] \in Answers
=============================================================================
