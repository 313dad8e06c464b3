-------------------------- MODULE MCPreparedSessions --------------------------
(* Instances of PreparedSessions for TLC. *)
EXTENDS PreparedSessions

MCTwoSources == 1..2
=============================================================================
