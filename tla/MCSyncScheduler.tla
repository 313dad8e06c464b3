---------------------------- MODULE MCSyncScheduler ----------------------------
(* Instances of SyncScheduler for TLC. *)
EXTENDS SyncScheduler
=============================================================================
