---------------------------- MODULE DwellLimiter ----------------------------
(***************************************************************************)
(* What a consumer of cdn.recommendations.v1 may rely on, without the      *)
(* mechanism: a limiter for each scope.  It hands a recommendation to the  *)
(* topic, known by its creation time, and perhaps confirms it to whoever   *)
(* asked.  A confirmed time closes the limiter: no other time is handed    *)
(* over, confirmed or not, that is later by more than Slack, which is lost *)
(* to requests that overlap, and by less than the dwell without Slack.  A  *)
(* limiter that starts afresh forgets what it confirmed; it knows only of  *)
(* former times that had been stored, and these bar the dwell after them,  *)
(* up to the precision they are stored with.                               *)
(***************************************************************************)
EXTENDS Integers

CONSTANTS Scopes, Dwell, Slack, Precision, Times

VARIABLES granted,    \* scope -> times handed over since the last start
          confirmed,  \* scope -> those of them that were confirmed
          former,     \* scope -> times handed over before
          barred      \* scope -> those of them stored at the last start

vars == <<granted, confirmed, former, barred>>

(* u does not fall into the dwell that a confirmed t closes. *)
Clear(t, u) == u <= t + Slack \/ u >= t + Dwell - Slack

Init ==
  /\ granted = [s \in Scopes |-> {}]
  /\ confirmed = [s \in Scopes |-> {}]
  /\ former = [s \in Scopes |-> {}]
  /\ barred = [s \in Scopes |-> {}]

Grant(s, u) ==
  /\ \A t \in confirmed[s] : Clear(t, u)
  /\ \A t \in barred[s] : u - t > Dwell - Precision
  /\ granted' = [granted EXCEPT ![s] = @ \cup {u}]
  /\ UNCHANGED <<confirmed, former, barred>>

Confirm(s, t) ==
  /\ t \in granted[s]
  /\ \A u \in granted[s] : Clear(t, u)
  /\ confirmed' = [confirmed EXCEPT ![s] = @ \cup {t}]
  /\ UNCHANGED <<granted, former, barred>>

StartAfresh ==
  /\ former' = [s \in Scopes |-> former[s] \cup granted[s]]
  /\ barred' \in [Scopes -> SUBSET Times]
  /\ \A s \in Scopes : barred[s] \subseteq barred'[s] /\ barred'[s] \subseteq former'[s]
  /\ granted' = [s \in Scopes |-> {}]
  /\ confirmed' = [s \in Scopes |-> {}]

Next == \/ \E s \in Scopes, t \in Times : Grant(s, t) \/ Confirm(s, t)
        \/ StartAfresh

Spec == Init /\ [][Next]_vars
=============================================================================
