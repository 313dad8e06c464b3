----------------------------- MODULE MCSyncMerge -----------------------------
(* Instances of SyncMerge for TLC. *)
EXTENDS SyncMerge

MCDevices == 1 .. 2
MCValues == 1 .. 2
MCNow == {1}
=============================================================================
