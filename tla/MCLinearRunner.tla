-------------------------- MODULE MCLinearRunner --------------------------
(* Model-checking instance of LinearRunner. *)
EXTENDS LinearRunner
=============================================================================
