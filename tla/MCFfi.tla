------------------------------- MODULE MCFfi -------------------------------
(* The constants of Ffi are given in the configurations.                   *)
EXTENDS Ffi
=============================================================================
