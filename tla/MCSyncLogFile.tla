---------------------------- MODULE MCSyncLogFile ----------------------------
(* Instances of SyncLogFile for TLC. *)
EXTENDS SyncLogFile

MCEntries == 1 .. 2
=============================================================================
