-------------------------- MODULE MCEventGenerator --------------------------
(* Small instances of EventGenerator for TLC. *)
EXTENDS EventGenerator, TLC

=============================================================================
