----------------------------- MODULE MCSyncEngine -----------------------------
(* Instances of SyncEngine for TLC. *)
EXTENDS SyncEngine

MCPair == 1 .. 2
MCTrio == 1 .. 3
MCBothWays == {<<1, 2>>, <<2, 1>>}
MCRing == {<<1, 2>>, <<2, 1>>, <<2, 3>>, <<3, 2>>}
MCOneWay == {<<1, 2>>}
MCFarPair == {<<2, 3>>, <<3, 2>>}
MCFarLink == {<<3, 2>>}
MCFarImport == {<<1, 3>>}
MCOneValue == {1}
MCTwoValues == 1 .. 2
MCStill == {0}
=============================================================================
