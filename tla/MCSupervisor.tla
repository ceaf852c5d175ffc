---------------------------- MODULE MCSupervisor ----------------------------
(* The two workers of the supervisor, for TLC. *)
EXTENDS Supervisor

TwoWorkers == {"ingestion", "trading"}

=============================================================================
