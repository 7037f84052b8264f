--------------------------- MODULE MCPiSessions ---------------------------
(* Model-checking instances of PiSessions. *)
EXTENDS PiSessions
=============================================================================
