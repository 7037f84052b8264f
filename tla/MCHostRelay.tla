---------------------------- MODULE MCHostRelay ----------------------------
(* Model-checking instances of HostRelay. *)
EXTENDS HostRelay, TLC

Symmetry == Permutations(Grants) \cup Permutations(CallIds) \cup Permutations(Answers)

\* At most two tool calls are made.
TwoCalls == Cardinality({x \in Grants \X CallIds : tool[x[1]][x[2]] # "none"}) <= 2
=============================================================================
