---------------------------- MODULE MCPiGateway ----------------------------
(***************************************************************************)
(* Model-checking instances of PiGateway.                                  *)
(***************************************************************************)
EXTENDS PiGateway, TLC
=============================================================================
