------------------------------ MODULE MCPiPipe ------------------------------
(* Model-checking instances of PiPipe. *)
EXTENDS PiPipe
=============================================================================
