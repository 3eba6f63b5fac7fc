-------------------------- MODULE MCGatewayBreaker --------------------------
(***************************************************************************)
(* TLC instance of GatewayBreaker.                                         *)
(***************************************************************************)
EXTENDS GatewayBreaker

CONSTANTS g1, g2, g3
=============================================================================
