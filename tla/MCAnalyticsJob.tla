--------------------------- MODULE MCAnalyticsJob ---------------------------
(* Small instances of AnalyticsJob for TLC: events a and b share a minute, *)
(* c closes it, d ends its lateness, f ends the five minutes of a, and x   *)
(* does not validate.                                                      *)
EXTENDS AnalyticsJob, TLC

CONSTANTS a, b, c, d, f, x

MCEventTime == [e \in Events |->
                  CASE e = c -> 2 [] e = d -> 3 [] e = f -> 7 [] OTHER -> 0]

MCKeyOf == [branch \in Branches |->
              [e \in Events |-> IF branch = "node" /\ e = c THEN 2 ELSE 1]]

OnePartition == [e \in Events |-> 1]

(* b, d and f are written with another delivery key. *)
TwoPartitions == [e \in Events |-> IF e \in {b, d, f} THEN 2 ELSE 1]

=============================================================================
