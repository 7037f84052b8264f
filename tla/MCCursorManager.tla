-------------------------- MODULE MCCursorManager --------------------------
(* Model-checking instances of CursorManager. *)
EXTENDS CursorManager
=============================================================================
