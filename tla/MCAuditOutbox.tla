---------------------------- MODULE MCAuditOutbox ----------------------------
(* Values for the constants of AuditOutbox. *)
EXTENDS AuditOutboxProps

CONSTANTS w1, w2, e1, e2
=============================================================================
