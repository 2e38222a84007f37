------------------------------ MODULE MCServer ------------------------------
(* Instances of Server for TLC. *)
EXTENDS Server

CONSTANTS g1, g2

MCGateways == {g1, g2}
MCLists == {<<>>, <<g1>>, <<g1, g2>>}
=============================================================================
