------------------------------ MODULE MCPiRun ------------------------------
(* Model-checking instances of PiRun. *)
EXTENDS PiRun
=============================================================================
