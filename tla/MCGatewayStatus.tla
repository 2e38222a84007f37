--------------------------- MODULE MCGatewayStatus ---------------------------
(* Instances of GatewayStatus for TLC. *)
EXTENDS GatewayStatus, TLC

\* Tasks are interchangeable.
Symmetry == Permutations(Tasks)
=============================================================================
