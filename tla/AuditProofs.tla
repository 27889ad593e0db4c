---------------------------- MODULE AuditProofs ----------------------------
(* Theorems about Audit, for any number of clients and posts, any bodies,   *)
(* restarts and timeouts.                                                  *)
EXTENDS Audit, TLAPS

(* The posts of a client that awaits its answers are handled one by one. *)
OneByOne ==
  \A i, j \in Sent : (i < j /\ post[i].client = post[j].client /\ i \notin abandoned)
                       => stage[i] \in Answers

(* An INSERT exists from the stamp on, and was executed before the 204. *)
InsertStages ==
  \A i \in Ids : /\ stage[i] \in {"unsent", "received"} => insert[i] = "none"
                 /\ stage[i] = "204" => insert[i] = "executed"

(* A row is there until its TTL ends. *)
RowsKept ==
  \A i \in Ids : insert[i] = "executed" => i \in table \/ observed[i] + Retention <= clock

(* A stamp is the time of the body, or no later than now. *)
StampsTrue ==
  \A i \in Ids : insert[i] # "none" =>
    IF Stamped(i) THEN observed[i] <= clock ELSE observed[i] = post[i].given

(* Stamps are in the order of the posts, whether or not their rows are there. *)
StampsOrdered ==
  \A i, j \in Sent :
    (/\ i < j /\ post[i].client = post[j].client /\ i \notin abandoned
     /\ insert[i] # "none" /\ insert[j] # "none" /\ Stamped(i) /\ Stamped(j))
      => observed[i] <= observed[j]

AuditInv == OneByOne /\ InsertStages /\ RowsKept /\ StampsTrue /\ StampsOrdered

(* Sent posts are posts, and the client of a post that can be sent exists. *)
LEMMA SentIds == TypeOK => Sent \subseteq Ids
  BY AuditAssumption DEF TypeOK, Sent, Ids

-----------------------------------------------------------------------------
LEMMA TypeInit == Init => TypeOK
  <1> SUFFICES ASSUME Init PROVE TypeOK
    OBVIOUS
  <1>1. \A c \in Clients : [client |-> c, given |-> NoTime, valid |-> TRUE] \in Post
    BY DEF Post
  <1>2. (CHOOSE p \in Post : TRUE) \in Post
    BY <1>1, AuditAssumption
  <1>3. post \in [Ids -> Post]
    BY <1>2 DEF Init
  <1>4. Sent = {} /\ posted \in 0..MaxPosts
    BY AuditAssumption DEF Init, Sent
  <1>5. stage \in [Ids -> Stages] /\ insert \in [Ids -> Inserts]
    BY DEF Init, Stages, Inserts
  <1>6. observed \in [Ids -> Nat] /\ deadline \in [Ids -> Nat]
    BY DEF Init
  <1>7. \A i \in Ids : stage[i] = "unsent" <=> i \notin Sent
    BY <1>4 DEF Init
  <1>8. clock \in Nat /\ restarts \in Nat /\ abandoned = {} /\ table = {}
    BY DEF Init
  <1> QED BY <1>3, <1>4, <1>5, <1>6, <1>7, <1>8 DEF TypeOK

(* One more post. *)
LEMMA SendType == ASSUME TypeOK, NEW p \in Post, Send(p) PROVE TypeOK'
  <1>1. /\ posted' \in 0..MaxPosts /\ posted' = posted + 1 /\ posted \in Nat
        /\ posted + 1 \in Ids
    BY AuditAssumption DEF Send, TypeOK, Ids
  <1>2. post' \in [Ids -> Post] /\ stage' \in [Ids -> Stages]
    BY DEF Send, TypeOK, Stages
  <1>3. Sent' = Sent \cup {posted + 1}
    BY <1>1 DEF Sent
  <1>4. table' \subseteq {i \in Sent' : insert'[i] = "executed"}
    BY <1>3 DEF Send, TypeOK
  <1>5. \A i \in Ids : stage'[i] = IF i = posted + 1 THEN "received" ELSE stage[i]
    BY DEF Send, TypeOK
  <1>6. \A i \in Ids : stage'[i] = "unsent" <=> i \notin Sent'
    BY <1>3, <1>5 DEF TypeOK
  <1> QED BY <1>1, <1>2, <1>3, <1>4, <1>6 DEF Send, TypeOK

(* A handler whose post has arrived moves on. *)
LEMMA StageType ==
  ASSUME TypeOK, NEW i \in Ids, NEW s \in Stages \ {"unsent"}, stage[i] # "unsent",
         stage' = [stage EXCEPT ![i] = s], posted' = posted
  PROVE  /\ stage' \in [Ids -> Stages]
         /\ \A k \in Ids : stage'[k] = "unsent" <=> k \notin Sent'
  BY DEF TypeOK, Sent

LEMMA TypeNext == TypeOK /\ InsertStages /\ [Next]_vars => TypeOK'
  <1> SUFFICES ASSUME TypeOK, InsertStages, [Next]_vars PROVE TypeOK'
    OBVIOUS
  <1>1. ASSUME NEW p \in Post, Send(p) PROVE TypeOK'
    BY <1>1, SendType
  <1>2. ASSUME NEW i \in Ids, Retry(i) PROVE TypeOK'
    <2>1. post[i] \in Post /\ Send(post[i])
      BY <1>2 DEF Retry, TypeOK
    <2> QED BY <2>1, SendType
  <1>3. ASSUME NEW i \in Ids, Abandon(i) PROVE TypeOK'
    <2>1. i \in Sent
      BY <1>3 DEF Abandon, TypeOK
    <2> QED BY <1>3, <2>1 DEF Abandon, TypeOK, Sent
  <1>4. ASSUME NEW i \in Ids, Refuse(i) \/ AnswerOk(i) \/ AnswerUnavailable(i)
        PROVE  TypeOK'
    <2>1. PICK s \in {"400", "204", "503"} :
            /\ stage' = [stage EXCEPT ![i] = s] /\ stage[i] # "unsent"
            /\ deadline' = [deadline EXCEPT ![i] = 0]
            /\ UNCHANGED <<clock, restarts, posted, post, insert, observed,
                           abandoned, table>>
      BY <1>4 DEF Refuse, AnswerOk, AnswerUnavailable, Answer
    <2>2. s \in Stages \ {"unsent"}
      BY DEF Stages, Answers
    <2>3. /\ stage' \in [Ids -> Stages]
          /\ \A k \in Ids : stage'[k] = "unsent" <=> k \notin Sent'
      BY <2>1, <2>2, StageType
    <2>4. deadline' \in [Ids -> Nat]
      BY <2>1 DEF TypeOK
    <2> QED BY <2>1, <2>3, <2>4 DEF TypeOK, Sent
  <1>5. ASSUME NEW i \in Ids, Insert(i) PROVE TypeOK'
    <2>1. /\ stage' = [stage EXCEPT ![i] = "inserting"] /\ stage[i] # "unsent"
          /\ UNCHANGED <<clock, restarts, posted, post, abandoned, table>>
      BY <1>5 DEF Insert
    <2>2. "inserting" \in Stages \ {"unsent"}
      BY DEF Stages
    <2>3. /\ stage' \in [Ids -> Stages]
          /\ \A k \in Ids : stage'[k] = "unsent" <=> k \notin Sent'
      BY <2>1, <2>2, StageType
    <2>4. Stamp(i) \in Nat
      BY AuditAssumption DEF Stamp, TypeOK, Post
    <2>5. observed' \in [Ids -> Nat] /\ deadline' \in [Ids -> Nat]
      BY <1>5, <2>4, AuditAssumption DEF Insert, TypeOK
    <2>6. insert' \in [Ids -> Inserts]
      BY <1>5 DEF Insert, TypeOK, Inserts
    <2>7. i \notin table
      BY <1>5 DEF Insert, InsertStages, TypeOK
    <2>8. table' \subseteq {k \in Sent' : insert'[k] = "executed"}
      BY <1>5, <2>1, <2>7 DEF Insert, TypeOK, Sent
    <2> QED BY <2>1, <2>3, <2>5, <2>6, <2>8 DEF TypeOK, Sent
  <1>6. ASSUME NEW i \in Ids, Execute(i) PROVE TypeOK'
    <2>1. i \in Sent
      BY <1>6 DEF Execute, InsertStages, TypeOK
    <2>2. insert' \in [Ids -> Inserts]
      BY <1>6 DEF Execute, TypeOK, Inserts
    <2>3. table' \subseteq {k \in Sent' : insert'[k] = "executed"}
      BY <1>6, <2>1, SentIds DEF Execute, TypeOK, Sent
    <2> QED BY <1>6, <2>2, <2>3 DEF Execute, TypeOK, Sent
  <1>7. ASSUME NEW i \in Ids, Expire(i) PROVE TypeOK'
    BY <1>7 DEF Expire, TypeOK, Sent
  <1>8. CASE Restart
    <2>1. stage' \in [Ids -> Stages] /\ deadline' \in [Ids -> Nat]
      BY <1>8 DEF Restart, TypeOK, Stages, Answers
    <2>2. \A k \in Ids : stage'[k] = "unsent" <=> stage[k] = "unsent"
      BY <1>8 DEF Restart
    <2> QED BY <1>8, <2>1, <2>2 DEF Restart, TypeOK, Sent
  <1>9. CASE Tick
    BY <1>9 DEF Tick, TypeOK, Sent
  <1>10. CASE UNCHANGED vars
    BY <1>10 DEF vars, TypeOK, Sent
  <1> QED
    BY <1>1, <1>2, <1>3, <1>4, <1>5, <1>6, <1>7, <1>8, <1>9, <1>10 DEF Next, Handle

-----------------------------------------------------------------------------
LEMMA AuditInit == Init => AuditInv
  <1> SUFFICES ASSUME Init PROVE AuditInv
    OBVIOUS
  <1>1. Sent = {}
    BY DEF Init, Sent
  <1>2. InsertStages /\ RowsKept /\ StampsTrue
    BY DEF Init, InsertStages, RowsKept, StampsTrue
  <1> QED BY <1>1, <1>2 DEF AuditInv, OneByOne, StampsOrdered

(* A new post comes after all posts of its client have been answered. *)
LEMMA SendAudit == ASSUME TypeOK, AuditInv, NEW p \in Post, Send(p) PROVE AuditInv'
  <1> DEFINE n == posted + 1
  <1>1. /\ n \in Ids /\ n \notin Sent /\ Sent' = Sent \cup {n}
        /\ \A k \in Sent : k \in Ids /\ k < n
    BY AuditAssumption DEF Send, TypeOK, Ids, Sent
  <1>2. /\ post' = [post EXCEPT ![n] = p] /\ stage' = [stage EXCEPT ![n] = "received"]
        /\ UNCHANGED <<clock, insert, observed, abandoned, table>>
        /\ Free(p.client)
    BY DEF Send
  <1>3. insert[n] = "none" /\ stage[n] = "unsent"
    BY <1>1 DEF TypeOK, AuditInv, InsertStages
  <1> HIDE DEF n
  <1>4. \A k \in Ids : /\ post'[k] = IF k = n THEN p ELSE post[k]
                       /\ stage'[k] = IF k = n THEN "received" ELSE stage[k]
    BY <1>2 DEF TypeOK
  <1>5. OneByOne'
    <2> SUFFICES ASSUME NEW i \in Sent', NEW j \in Sent', i < j,
                        post'[i].client = post'[j].client, i \notin abandoned
                 PROVE  stage'[i] \in Answers
      BY <1>2 DEF OneByOne
    <2>1. i \in Sent /\ i # n /\ i \in Ids /\ j \in Ids
      <3>1. n \in Int /\ \A k \in Sent : k \in Int
        BY <1>1 DEF Ids
      <3>2. ~ (n < j)
        BY <1>1, <3>1
      <3> QED BY <1>1, <3>2
    <2>2. CASE j = n
      <3>1. post[i].client = p.client
        BY <1>4, <2>1, <2>2
      <3> QED BY <1>2, <1>4, <2>1, <3>1 DEF Free
    <2>3. CASE j # n
      BY <1>1, <1>4, <2>1, <2>3 DEF AuditInv, OneByOne
    <2> QED BY <2>2, <2>3
  <1>6. InsertStages'
    BY <1>2, <1>3, <1>4 DEF AuditInv, InsertStages
  <1>7. RowsKept'
    BY <1>2 DEF AuditInv, RowsKept
  <1>8. StampsTrue'
    BY <1>2, <1>3, <1>4 DEF AuditInv, StampsTrue, Stamped
  <1>9. StampsOrdered'
    BY <1>1, <1>2, <1>3, <1>4 DEF AuditInv, StampsOrdered, Stamped
  <1> QED BY <1>5, <1>6, <1>7, <1>8, <1>9 DEF AuditInv

(* A handler that only answers. *)
LEMMA AnswerAudit ==
  ASSUME TypeOK, AuditInv, NEW i \in Ids, NEW s \in Answers, stage[i] # "unsent",
         s = "204" => insert[i] = "executed",
         stage' = [stage EXCEPT ![i] = s],
         UNCHANGED <<clock, posted, post, insert, observed, abandoned, table>>
  PROVE  AuditInv'
  <1>1. \A k \in Ids : stage'[k] = IF k = i THEN s ELSE stage[k]
    BY DEF TypeOK
  <1>2. Sent' = Sent /\ Sent \subseteq Ids
    BY SentIds DEF Sent
  <1>3. OneByOne'
    BY <1>1, <1>2 DEF AuditInv, OneByOne
  <1>4. InsertStages'
    BY <1>1 DEF AuditInv, InsertStages, Answers
  <1>5. RowsKept' /\ StampsTrue' /\ StampsOrdered'
    BY <1>2 DEF AuditInv, RowsKept, StampsTrue, StampsOrdered, Stamped
  <1> QED BY <1>3, <1>4, <1>5 DEF AuditInv

(* The stamp of a post is the latest of its client, and nobody else's. *)
LEMMA InsertAudit == ASSUME TypeOK, AuditInv, NEW i \in Ids, Insert(i) PROVE AuditInv'
  <1>1. /\ stage[i] = "received" /\ stage' = [stage EXCEPT ![i] = "inserting"]
        /\ observed' = [observed EXCEPT ![i] = Stamp(i)]
        /\ insert' = [insert EXCEPT ![i] = "sent"]
        /\ UNCHANGED <<clock, posted, post, abandoned, table>>
    BY DEF Insert
  <1>2. \A k \in Ids : /\ stage'[k] = IF k = i THEN "inserting" ELSE stage[k]
                       /\ observed'[k] = IF k = i THEN Stamp(i) ELSE observed[k]
                       /\ insert'[k] = IF k = i THEN "sent" ELSE insert[k]
    BY <1>1 DEF TypeOK
  <1>3. Sent' = Sent /\ Sent \subseteq Ids /\ i \in Sent
    BY <1>1, SentIds DEF Sent, TypeOK
  <1>4. clock \in Nat /\ \A k \in Ids : k \in Int /\ observed[k] \in Nat
    BY DEF TypeOK, Ids
  <1>5. OneByOne'
    BY <1>1, <1>2, <1>3 DEF AuditInv, OneByOne, Answers
  <1>6. InsertStages'
    BY <1>1, <1>2 DEF AuditInv, InsertStages
  <1>7. RowsKept'
    BY <1>1, <1>2 DEF AuditInv, RowsKept
  <1>8. StampsTrue'
    BY <1>1, <1>2, <1>4 DEF AuditInv, StampsTrue, Stamped, Stamp
  <1>9. StampsOrdered'
    <2> SUFFICES ASSUME NEW k \in Sent, NEW j \in Sent, k < j,
                        post[k].client = post[j].client, k \notin abandoned,
                        insert'[k] # "none", insert'[j] # "none",
                        Stamped(k), Stamped(j)
                 PROVE  observed'[k] <= observed'[j]
      BY <1>1, <1>3 DEF StampsOrdered, Stamped
    <2>1. k # i
      BY <1>1 DEF AuditInv, OneByOne, Answers
    <2>2. CASE j = i
      <3>1. observed'[j] = clock
        BY <1>2, <2>2 DEF Stamp, Stamped
      <3>2. observed'[k] <= clock
        BY <1>2, <1>3, <2>1 DEF AuditInv, StampsTrue
      <3> QED BY <3>1, <3>2
    <2>3. CASE j # i
      BY <1>2, <1>3, <2>1, <2>3 DEF AuditInv, StampsOrdered
    <2> QED BY <2>2, <2>3
  <1> QED BY <1>5, <1>6, <1>7, <1>8, <1>9 DEF AuditInv

LEMMA AuditNext == TypeOK /\ AuditInv /\ [Next]_vars => AuditInv'
  <1> SUFFICES ASSUME TypeOK, AuditInv, [Next]_vars PROVE AuditInv'
    OBVIOUS
  <1>0. Sent \subseteq Ids
    BY SentIds
  <1>1. ASSUME NEW p \in Post, Send(p) PROVE AuditInv'
    BY <1>1, SendAudit
  <1>2. ASSUME NEW i \in Ids, Retry(i) PROVE AuditInv'
    <2>1. post[i] \in Post /\ Send(post[i])
      BY <1>2 DEF Retry, TypeOK
    <2> QED BY <2>1, SendAudit
  <1>3. ASSUME NEW i \in Ids, Abandon(i) PROVE AuditInv'
    BY <1>3 DEF Abandon, AuditInv, OneByOne, InsertStages, RowsKept, StampsTrue,
                StampsOrdered, Stamped, Sent
  <1>4. ASSUME NEW i \in Ids, Refuse(i) \/ AnswerOk(i) \/ AnswerUnavailable(i)
        PROVE  AuditInv'
    <2>1. PICK s \in {"400", "204", "503"} :
            /\ stage' = [stage EXCEPT ![i] = s] /\ stage[i] # "unsent"
            /\ s = "204" => insert[i] = "executed"
            /\ UNCHANGED <<clock, posted, post, insert, observed, abandoned, table>>
      BY <1>4 DEF Refuse, AnswerOk, AnswerUnavailable, Answer
    <2>2. s \in Answers
      BY DEF Answers
    <2> QED BY <2>1, <2>2, AnswerAudit
  <1>5. ASSUME NEW i \in Ids, Insert(i) PROVE AuditInv'
    BY <1>5, InsertAudit
  <1>6. ASSUME NEW i \in Ids, Execute(i) PROVE AuditInv'
    <2>1. /\ insert[i] = "sent" /\ table' = table \cup {i}
          /\ \A k \in Ids : insert'[k] = IF k = i THEN "executed" ELSE insert[k]
          /\ UNCHANGED <<clock, posted, post, stage, observed, abandoned>>
      BY <1>6 DEF Execute, TypeOK
    <2>2. Sent' = Sent
      BY <2>1 DEF Sent
    <2>3. OneByOne' /\ InsertStages' /\ RowsKept'
      BY <2>1, <2>2 DEF AuditInv, OneByOne, InsertStages, RowsKept
    <2>4. StampsTrue' /\ StampsOrdered'
      BY <1>0, <2>1, <2>2 DEF AuditInv, StampsTrue, StampsOrdered, Stamped
    <2> QED BY <2>3, <2>4 DEF AuditInv
  <1>7. ASSUME NEW i \in Ids, Expire(i) PROVE AuditInv'
    BY <1>7 DEF Expire, AuditInv, OneByOne, InsertStages, RowsKept, StampsTrue,
                StampsOrdered, Stamped, Sent
  <1>8. CASE Restart
    <2>1. /\ \A k \in Ids : stage'[k] = stage[k] \/ stage'[k] = "dead"
          /\ UNCHANGED <<clock, posted, post, insert, observed, abandoned, table>>
      BY <1>8 DEF Restart
    <2>2. \A k \in Ids : stage[k] \in {"unsent", "204"} \cup Answers => stage'[k] = stage[k]
      BY <1>8 DEF Restart, Answers
    <2>3. Sent' = Sent
      BY <2>1 DEF Sent
    <2>4. OneByOne' /\ InsertStages'
      BY <1>0, <2>1, <2>2, <2>3 DEF AuditInv, OneByOne, InsertStages
    <2>5. RowsKept' /\ StampsTrue' /\ StampsOrdered'
      BY <2>1, <2>3 DEF AuditInv, RowsKept, StampsTrue, StampsOrdered, Stamped
    <2> QED BY <2>4, <2>5 DEF AuditInv
  <1>9. CASE Tick
    <2>1. /\ clock' = clock + 1
          /\ UNCHANGED <<posted, post, stage, insert, observed, abandoned, table>>
      BY <1>9 DEF Tick
    <2>2. clock \in Nat /\ Retention \in Nat /\ \A k \in Ids : observed[k] \in Nat
      BY AuditAssumption DEF TypeOK
    <2>3. RowsKept'
      BY <2>1, <2>2 DEF AuditInv, RowsKept
    <2>4. StampsTrue'
      BY <2>1, <2>2 DEF AuditInv, StampsTrue, Stamped
    <2>5. OneByOne' /\ InsertStages' /\ StampsOrdered'
      BY <2>1 DEF AuditInv, OneByOne, InsertStages, StampsOrdered, Stamped, Sent
    <2> QED BY <2>3, <2>4, <2>5 DEF AuditInv
  <1>10. CASE UNCHANGED vars
    BY <1>10 DEF vars, AuditInv, OneByOne, InsertStages, RowsKept, StampsTrue,
                 StampsOrdered, Stamped, Sent
  <1> QED
    BY <1>1, <1>2, <1>3, <1>4, <1>5, <1>6, <1>7, <1>8, <1>9, <1>10 DEF Next, Handle

LEMMA AuditAlways == Spec => [](TypeOK /\ AuditInv)
  <1>1. AuditInv => InsertStages
    BY DEF AuditInv
  <1> QED BY <1>1, TypeInit, TypeNext, AuditInit, AuditNext, PTL DEF Spec

(* Posts, handlers, inserts and rows keep their types. *)
THEOREM AuditTypeCorrect == Spec => []TypeOK
  BY AuditAlways, PTL

(* A post that was answered with 204 has its row, over restarts of the     *)
(* service, until the TTL of its observed_at ends.                         *)
THEOREM AcknowledgedDurableHolds == Spec => []AcknowledgedDurable
  <1>1. AuditInv => AcknowledgedDurable
    BY DEF AuditInv, InsertStages, RowsKept, AcknowledgedDurable
  <1> QED BY <1>1, AuditAlways, PTL

(* Rows of posts that the service stamped show the order in which their    *)
(* client sent them, however late an INSERT is executed.                    *)
THEOREM LatestStandsHolds == Spec => []LatestStands
  <1>1. TypeOK /\ AuditInv => LatestStands
    <2> SUFFICES ASSUME TypeOK, AuditInv PROVE LatestStands
      OBVIOUS
    <2>1. \A i \in table : i \in Sent /\ insert[i] # "none"
      BY DEF TypeOK
    <2> QED BY <2>1 DEF AuditInv, StampsOrdered, LatestStands
  <1> QED BY <1>1, AuditAlways, PTL
=============================================================================
