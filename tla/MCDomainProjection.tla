------------------------ MODULE MCDomainProjection ------------------------
(* Instances of DomainProjection for TLC. *)
EXTENDS DomainProjection

CONSTANTS a, b
MCTwoRows == {a, b}
=============================================================================
