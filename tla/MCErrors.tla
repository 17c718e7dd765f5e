------------------------------ MODULE MCErrors ------------------------------
(* The constant of Errors is given in the configurations.                   *)
EXTENDS Errors
=============================================================================
