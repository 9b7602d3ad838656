-------------------------- MODULE MCOutboxSchedule --------------------------
(* Small instances of the outbox's schedule for TLC. *)
EXTENDS OutboxSchedule
=============================================================================
