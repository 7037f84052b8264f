------------------------------ MODULE Answers -------------------------------
(* The two APIs of the box. They share no state; what clients of both may rely *)
(* on is that an answer is well formed.                                        *)
EXTENDS PiApi, CursorApi

\* The type invariants of the two APIs: a successful answer is a response message
\* of its rpc, whatever the request, the processes and the bridge did.
AnswersWellFormed == ApiTypeOK /\ CursorTypeOK
=============================================================================
