-------------------------- MODULE MCGatewayEvents --------------------------
(* Instances of GatewayEvents for TLC. *)
EXTENDS GatewayEvents, TLC

\* Gateways are interchangeable (safety runs only).
Symmetry == Permutations(Gateways)
=============================================================================
