---------------------------- MODULE MCPiReaders ----------------------------
(* Model-checking instance of PiReaders. *)
EXTENDS PiReaders

\* A request does not see another one: one at a time is checked, with the
\* cursor of one submission.  lastUsed matters only while the slot is free.
OneRequest ==
    /\ (\A l \in Listers : lister[l].at = "idle") \/ (\A p \in Pollers : poller[p].at = "idle")
    /\ Cardinality(cursors) <= 1
    /\ recent \/ slot \in {Free, Janitor}
=============================================================================
