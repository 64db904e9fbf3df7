------------------------------ MODULE MCHealth ------------------------------
(***************************************************************************)
(* Model-checking instances of Health.                                     *)
(***************************************************************************)
EXTENDS Health
=============================================================================
