------------------------------ MODULE MCAudit ------------------------------
(* No property relates two clients, so that one of them is enough. *)
EXTENDS Audit

CONSTANT operator
=============================================================================
