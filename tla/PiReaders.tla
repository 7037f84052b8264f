----------------------------- MODULE PiReaders -----------------------------
(***************************************************************************)
(* The two requests that tell a client whether a session's run is over,    *)
(* Entries and Turn (internal/pi/manager.go), beside the calls of PiRun.   *)
(* Each samples the manager's flags and asks pi several questions one      *)
(* after the other, while reservations come and go.                        *)
(***************************************************************************)
EXTENDS PiRun, Sequences

CONSTANTS
    Listers,     \* clients of Entries
    Pollers,     \* clients of Turn
    MaxEntries   \* bound: entries of the session file

VARIABLES
    entries,     \* pi's session entries: of, the reservation whose run wrote an
                 \* assistant message (0 for an entry of another kind), and
                 \* asks, whether it stopped to use a tool (stopReason toolUse)
    cursors,     \* reservations whose cursor a client has
    lister,      \* each Entries request
    poller       \* each Turn request

readerVars == <<entries, cursors, lister, poller>>
allVars == <<vars, readerVars>>

IdleLister == [at |-> "idle", epoch |-> 0, running |-> FALSE, seen |-> 0]
IdlePoller == [at |-> "idle", epoch |-> 0, waitFor |-> 0, result |-> 0]

-----------------------------------------------------------------------------
(* External: pi records entries while it works on a run, and a set_model    *)
(* records a model_change.                                                  *)
Record ==
    /\ Len(entries) < MaxEntries
    /\ \/ run # None /\ \E asks \in BOOLEAN :
                          entries' = Append(entries, [of |-> runEpoch, asks |-> asks])
       \/ (run # None \/ setModel # 0) /\ entries' = Append(entries, [of |-> 0, asks |-> FALSE])
    /\ UNCHANGED <<vars, cursors, lister, poller>>

-----------------------------------------------------------------------------
(* Entries *)

Flagged == slot # Free \/ modelPending \/ abortPending # 0

Listing(l, from, to) ==
    /\ lister[l].at = from
    /\ lister' = [lister EXCEPT ![l] = to]
    /\ UNCHANGED <<entries, cursors, poller>>

\* attach, then the epoch and the flags in one locked section.
SampleFlags(l) ==
    /\ mapped /\ proc # "exited"
    /\ Listing(l, "idle", [at |-> IF Flagged THEN "fetch" ELSE "state",
                           epoch |-> runEpoch, running |-> Flagged, seen |-> 0])
    /\ UNCHANGED vars

ListState(l) ==
    /\ proc # "exited"
    /\ Listing(l, "state", [lister[l] EXCEPT !.at = "fetch", !.running = run # None])
    /\ UNCHANGED vars

FetchEntries(l) ==
    /\ proc # "exited"
    /\ Listing(l, "fetch", [lister[l] EXCEPT !.at = "verdict", !.seen = Len(entries)])
    /\ UNCHANGED vars

\* Mutant: the listing only looks at the flags again.
ReportFlags(l) ==
    /\ Listing(l, "verdict",
               [lister[l] EXCEPT !.at = "answered", !.running = @ \/ Flagged])
    /\ recent' = TRUE
    /\ UNCHANGED <<sessionVars, abortVars, hostVars, piVars, lifeVars, pc>>
\* The second locked section; touch follows.
ReportEntries(l) ==
    /\ Listing(l, "verdict",
               [lister[l] EXCEPT !.at = "answered",
                                 !.running = @ \/ Flagged \/ runEpoch # lister[l].epoch])
    /\ recent' = TRUE
    /\ UNCHANGED <<sessionVars, abortVars, hostVars, piVars, lifeVars, pc>>

\* The answer is delivered, or a question to pi failed.
EndListing(l) ==
    /\ \/ lister[l].at = "answered"
       \/ lister[l].at \in {"state", "fetch"} /\ proc = "exited"
    /\ lister' = [lister EXCEPT ![l] = IdleLister]
    /\ UNCHANGED <<vars, entries, cursors, poller>>

-----------------------------------------------------------------------------
(* Turn *)

\* SubmitWithHostTools returns its cursor once the run is detached.
ReturnCursor ==
    /\ Pollers # {}  \* tracked only for pollers
    /\ slot \in Submitters
    /\ pc[slot] \in {"verify", "abortWaitD", "supervise", "finish"}
    /\ cursors' = cursors \cup {runEpoch}
    /\ UNCHANGED <<vars, entries, lister, poller>>

Polling(p, from, to) ==
    /\ poller[p].at = from
    /\ poller' = [poller EXCEPT ![p] = to]
    /\ UNCHANGED <<vars, entries, cursors, lister>>

\* attach with the cursor of a submitted run.
Poll(p) ==
    /\ mapped /\ proc # "exited"
    /\ \E e \in cursors : Polling(p, "idle", [IdlePoller EXCEPT !.at = "turn", !.epoch = e])

\* Mutant: Turn does not wait for a detached turn.
SampleTurnHasty(p) ==
    /\ Polling(p, "turn", [poller[p] EXCEPT !.at = IF turn = None THEN "state" ELSE "result"])
\* s.turn under the lock; waitFor is the reservation of the turn, 0 for none.
SampleTurn(p) ==
    /\ Polling(p, "turn",
               [poller[p] EXCEPT !.at = IF turn = None THEN "state" ELSE "wait",
                                 !.waitFor = IF turn = None THEN 0 ELSE runEpoch])

\* A run of Send shows in pi's streaming flag only.
PollState(p) ==
    /\ proc # "exited"
    /\ Polling(p, "state", [poller[p] EXCEPT !.at = IF run = None THEN "result" ELSE "wait"])

\* t.done was closed (its slot is released), or half a second passed without a
\* turn: sample again.
PollAgain(p) ==
    /\ poller[p].waitFor < runEpoch \/ slot \notin Calls
    /\ Polling(p, "wait", [poller[p] EXCEPT !.at = "turn"])

\* The wait is over: Running = TRUE.
PollRunning(p) ==
    /\ poller[p].at = "wait"
    /\ poller' = [poller EXCEPT ![p] = IdlePoller]
    /\ recent' = TRUE
    /\ UNCHANGED <<sessionVars, abortVars, hostVars, piVars, lifeVars, pc,
                   entries, cursors, lister>>

\* turnResult: the last assistant message after the cursor.  The cursor of
\* reservation e is the leaf at a time when e held the slot and had no run, so
\* the messages after it are those of e and of later reservations.  There is
\* no result (0) without such a message, and none when the last one asks for a
\* tool: the transcript was interrupted.
LastAfter(e) ==
    LET after == {i \in DOMAIN entries : entries[i].of >= e}
        last == entries[CHOOSE i \in after : \A j \in after : j <= i]
    IN  IF after = {} \/ last.asks THEN 0 ELSE last.of

ReportTurn(p) ==
    /\ proc # "exited"
    /\ poller[p].at = "result"
    /\ poller' = [poller EXCEPT ![p].at = "answered",
                                ![p].result = LastAfter(poller[p].epoch)]
    /\ recent' = TRUE
    /\ UNCHANGED <<sessionVars, abortVars, hostVars, piVars, lifeVars, pc,
                   entries, cursors, lister>>

EndPoll(p) ==
    /\ \/ poller[p].at = "answered"
       \/ poller[p].at \in {"state", "result"} /\ proc = "exited"
    /\ poller' = [poller EXCEPT ![p] = IdlePoller]
    /\ UNCHANGED <<vars, entries, cursors, lister>>

-----------------------------------------------------------------------------
(* Specification *)

ReadersInit ==
    /\ Init
    /\ entries = <<>> /\ cursors = {}
    /\ lister = [l \in Listers |-> IdleLister]
    /\ poller = [p \in Pollers |-> IdlePoller]

ReadersNext ==
    \/ Next /\ UNCHANGED readerVars
    \/ Record \/ ReturnCursor
    \/ \E l \in Listers :
         SampleFlags(l) \/ ListState(l) \/ FetchEntries(l) \/ ReportEntries(l) \/ EndListing(l)
    \/ \E p \in Pollers :
         Poll(p) \/ SampleTurn(p) \/ PollState(p) \/ PollAgain(p) \/ PollRunning(p)
         \/ ReportTurn(p) \/ EndPoll(p)

ReadersSpec == ReadersInit /\ [][ReadersNext]_allVars

-----------------------------------------------------------------------------
(* Properties *)

\* EntriesResult.Running: a client that stops polling because Running is false
\* has the complete transcript, even if reservations came, ran and ended while
\* the listing was on its way.
NotRunningMeansComplete ==
    [][\A l \in Listers :
          lister[l].at = "verdict" /\ lister'[l].at = "answered" /\ ~lister'[l].running =>
              /\ lister[l].seen = Len(entries)
              /\ run = None /\ setModel = 0
              /\ \A c \in Calls : prompt[c] # "sent"]_allVars

\* The last assistant message of the session is a request for a tool.
Interrupted ==
    \E i \in DOMAIN entries :
        entries[i].asks /\ \A j \in DOMAIN entries : j > i => entries[j].of = 0

\* Turn: a run is reported as ended only after it ended.  If it wrote messages the
\* answer has a result, its own or that of a later run, unless the transcript
\* ends in a request for a tool (docs/pi-host-tools.md:28, such a turn "is not a
\* completed final answer"): then it has none.
TurnReportsEndedRun ==
    [][\A p \in Pollers :
          poller[p].at = "result" /\ poller'[p].at = "answered" =>
              /\ ~(run # None /\ runEpoch = poller[p].epoch)
              /\ IF Interrupted THEN poller'[p].result = 0
                 ELSE \A i \in DOMAIN entries :
                        entries[i].of = poller[p].epoch =>
                            poller'[p].result >= poller[p].epoch]_allVars
=============================================================================
