------------------------------- MODULE OneRun -------------------------------
(***************************************************************************)
(* What a pi session promises its callers, without timeouts, supervision   *)
(* or barriers: one reservation at a time, at most one run per             *)
(* reservation, no reservation while a run is in progress or while pi      *)
(* still has to answer a command of an earlier one.                        *)
(***************************************************************************)
CONSTANTS Calls, None, Closed

VARIABLES
    holder,       \* the call that holds the reservation, None, or Closed
    running,      \* the call whose run is in progress, or None
    ran,          \* the reservation has had its run
    outstanding   \* pi has to answer a set_model or abort command

vars == <<holder, running, ran, outstanding>>

Init == holder = None /\ running = None /\ ran = FALSE /\ outstanding = FALSE

Quiet == running = None /\ ~outstanding

Reserve(c) ==
    /\ holder = None /\ Quiet
    /\ holder' = c
    /\ UNCHANGED <<running, ran, outstanding>>

Start ==
    /\ holder \in Calls /\ running = None /\ ~ran
    /\ running' = holder
    /\ ran' = TRUE
    /\ UNCHANGED <<holder, outstanding>>

\* By settlement or by an abort.
End ==
    /\ running # None
    /\ running' = None
    /\ UNCHANGED <<holder, ran, outstanding>>

Release ==
    /\ holder \in Calls /\ running = None
    /\ holder' = None
    /\ ran' = FALSE
    /\ UNCHANGED <<running, outstanding>>

Ask == outstanding' = TRUE /\ UNCHANGED <<holder, running, ran>>

Answer == outstanding' = FALSE /\ UNCHANGED <<holder, running, ran>>

\* The session is collected.
Close ==
    /\ holder = None /\ Quiet
    /\ holder' = Closed
    /\ UNCHANGED <<running, ran, outstanding>>

\* The process exits.
Crash ==
    /\ running' = None
    /\ outstanding' = FALSE
    /\ UNCHANGED <<holder, ran>>

Next ==
    \/ \E c \in Calls : Reserve(c)
    \/ Start \/ End \/ Release \/ Ask \/ Answer \/ Close \/ Crash

Spec == Init /\ [][Next]_vars
=============================================================================
