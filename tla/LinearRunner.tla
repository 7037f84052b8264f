---------------------------- MODULE LinearRunner ----------------------------
(***************************************************************************)
(* The run loop that backs one Linear agent session with one pi session    *)
(* (internal/linear/runner.go, with store.go, progress.go and linear.go):  *)
(* webhook handlers that acknowledge, queue and stop, the loop goroutine   *)
(* that runs queued prompts one batch at a time, its progress worker, the  *)
(* run mark kept on disk, and a box that shuts down, crashes and restarts. *)
(* A post to Linear takes a step to begin and a step to end.               *)
(***************************************************************************)
EXTENDS Naturals, FiniteSets

CONSTANTS
    Created,         \* "created" events
    FollowUps,       \* "prompted" events that carry a message
    Stops,           \* "prompted" events that carry the stop signal
    Loops,           \* identities of loop goroutines and their runState
    None,            \* model value: no loop
    MaxCrashes,      \* bound: ends of the box process
    MayShutDown,     \* whether the box may be asked to shut down
    StoreMayFail,    \* whether a write of sessions.json may fail
    OtherClients     \* whether pi API clients use or delete the pi session

ASSUME LinearAssumption ==
    /\ None \notin Loops
    /\ MaxCrashes \in Nat
    /\ {MayShutDown, StoreMayFail, OtherClients} \subseteq BOOLEAN
    /\ Created \cap FollowUps = {} /\ (Created \cup FollowUps) \cap Stops = {}

Prompts == Created \cup FollowUps
Events  == Prompts \cup Stops

VARIABLES
    at,        \* where each event's handler is
    halts,     \* what each stop halted: the batch and the queue it found
    target,    \* the loop on whose runDone each stop waits, None if it is closed
    active,    \* runner.active of the session
    loop,      \* each loop goroutine with its runState
    rec,       \* the session's record, in memory and on disk
    slot,      \* who holds the pi session's run slot
    barrier,   \* stops whose abort pi has not answered
    closing,   \* runner.closing
    up,        \* the box process runs
    crashes,   \* how often it ended
    note,      \* the restart notice: none, being posted
    cut,       \* history: the end of the last process cut a Send short whose mark was written
    answered   \* history: prompts whose run's outcome this process posted

handlerVars == <<at, halts, target>>
loopVars    == <<active, loop>>
piVars      == <<slot, barrier>>
boxVars     == <<closing, up, crashes, note, cut>>
vars == <<handlerVars, loopVars, rec, piVars, boxVars, answered>>

NoLoop == [at |-> "idle", batch |-> {}, pending |-> {}, stopped |-> FALSE, open |-> FALSE,
           cancelled |-> FALSE, marked |-> FALSE, worker |-> "off", gone |-> FALSE,
           quiet |-> FALSE]
NoRecord == [known |-> FALSE, running |-> FALSE]

Sending == {"running", "closing"}
InRun   == {"ensure", "mark", "send", "finish", "unmark", "forget", "final", "close"} \cup Sending

Halted == UNION {halts[e] : e \in Stops}

-----------------------------------------------------------------------------
(* Webhook handlers; each runs on a goroutine of its own *)

\* created: post the acknowledgement first.
Receive(p) ==
    /\ at[p] = "away"
    /\ at' = [at EXCEPT ![p] = IF p \in Created THEN "acking" ELSE "ready"]
    /\ UNCHANGED <<halts, target, loopVars, rec, piVars, boxVars, answered>>

Acknowledged(p) ==
    /\ at[p] = "acking"
    /\ at' = [at EXCEPT ![p] = "ready"]
    /\ UNCHANGED <<halts, target, loopVars, rec, piVars, boxVars, answered>>

StartLoop(p) ==
    LET l == CHOOSE l \in Loops : loop[l].at = "idle" IN
    /\ \E m \in Loops : loop[m].at = "idle"
    /\ loop' = [loop EXCEPT ![l] = [NoLoop EXCEPT !.at = "start", !.batch = {p}]]
    /\ active' = l
    /\ at' = [at EXCEPT ![p] = "done"]

\* Dropped while shutting down, queued behind the active loop, or run.
Enqueue(p) ==
    /\ at[p] = "ready"
    /\ \/ /\ closing
          /\ at' = [at EXCEPT ![p] = "lost"]
          /\ UNCHANGED <<active, loop>>
       \/ /\ ~closing /\ active # None
          /\ loop' = [loop EXCEPT ![active].pending = @ \cup {p}]
          /\ at' = [at EXCEPT ![p] = IF p \in Created THEN "done" ELSE "noting"]
          /\ UNCHANGED active
       \/ /\ ~closing /\ active = None
          /\ StartLoop(p)
    /\ UNCHANGED <<halts, target, rec, piVars, boxVars, answered>>

Noted(p) ==
    /\ at[p] = "noting"
    /\ at' = [at EXCEPT ![p] = "done"]
    /\ UNCHANGED <<halts, target, loopVars, rec, piVars, boxVars, answered>>

-----------------------------------------------------------------------------
(* stop *)

\* Mutant: it waits for a run even if none has begun.
StopWaitsAlways(e) ==
    /\ at[e] = "away"
    /\ IF active = None
       THEN /\ at' = [at EXCEPT ![e] = "confirm"]
            /\ UNCHANGED <<halts, target, loop>>
       ELSE LET st == loop[active] IN
            /\ halts' = [halts EXCEPT ![e] =
                            st.pending \cup (IF st.at = "end" THEN {} ELSE st.batch)]
            /\ target' = [target EXCEPT ![e] = active]
            /\ loop' = [loop EXCEPT ![active].pending = {}, ![active].stopped = TRUE,
                                    ![active].cancelled = TRUE]
            /\ at' = [at EXCEPT ![e] = "abort"]
    /\ UNCHANGED <<active, rec, piVars, boxVars, answered>>
\* The locked section, and cancel() after it.
Stop(e) ==
    /\ at[e] = "away"
    /\ IF active = None
       THEN /\ at' = [at EXCEPT ![e] = "confirm"]
            /\ UNCHANGED <<halts, target, loop>>
       ELSE LET st == loop[active] IN
            /\ halts' = [halts EXCEPT ![e] =
                            st.pending \cup (IF st.at = "end" THEN {} ELSE st.batch)]
            /\ target' = [target EXCEPT ![e] = IF st.open THEN active ELSE None]
            /\ loop' = [loop EXCEPT ![active].pending = {}, ![active].stopped = TRUE,
                                    ![active].cancelled = TRUE]
            /\ at' = [at EXCEPT ![e] = "abort"]
    /\ UNCHANGED <<active, rec, piVars, boxVars, answered>>

\* agent.Abort reserves: no reservation begins until pi answers.  Whether it
\* struck a run only changes the text of that run's outcome.
AbortPi(e) ==
    /\ at[e] = "abort"
    /\ IF rec.known
       THEN /\ barrier' = barrier \cup {e}
            /\ at' = [at EXCEPT ![e] = "aborting"]
       ELSE /\ at' = [at EXCEPT ![e] = "wait"]
            /\ UNCHANGED barrier
    /\ UNCHANGED <<halts, target, loopVars, rec, slot, boxVars, answered>>

\* pi answered, or stopTimeout passed and the barrier stays.
AbortReturns(e) ==
    /\ at[e] = "aborting"
    /\ at' = [at EXCEPT ![e] = "wait"]
    /\ barrier' \in {barrier, barrier \ {e}}
    /\ UNCHANGED <<halts, target, loopVars, rec, slot, boxVars, answered>>

BarrierLifts(e) ==
    /\ e \in barrier /\ at[e] # "aborting"
    /\ barrier' = barrier \ {e}
    /\ UNCHANGED <<handlerVars, loopVars, rec, slot, boxVars, answered>>

\* The run's channel is closed, or there is none: begin to post the confirmation.
Confirm(e) ==
    /\ at[e] = "wait" /\ target[e] = None
    /\ at' = [at EXCEPT ![e] = "confirm"]
    /\ UNCHANGED <<halts, target, loopVars, rec, piVars, boxVars, answered>>

\* stopTimeout passed first (a post of the run may take postTimeout, which is
\* longer): begin to post it all the same.
StopTimesOut(e) ==
    /\ at[e] = "wait" /\ target[e] # None
    /\ at' = [at EXCEPT ![e] = "confirmLate"]
    /\ UNCHANGED <<halts, target, loopVars, rec, piVars, boxVars, answered>>

Confirmed(e) ==
    /\ \/ at[e] = "confirm" /\ at' = [at EXCEPT ![e] = "done"]
       \/ at[e] = "confirmLate" /\ at' = [at EXCEPT ![e] = "doneLate"]
    /\ UNCHANGED <<halts, target, loopVars, rec, piVars, boxVars, answered>>

-----------------------------------------------------------------------------
(* runOnce *)

\* Loop l goes from one point to another, changing some of its fields.
Advance(l, from, new) ==
    /\ loop[l].at = from
    /\ loop' = [loop EXCEPT ![l] = new]

LoopOnly == UNCHANGED <<handlerVars, active, boxVars>>

\* Send returns.  A shutdown by then cuts the run short.
SendReturns(l) ==
    /\ cut' = (cut \/ (closing /\ loop[l].marked))
    /\ UNCHANGED <<handlerVars, active, closing, up, crashes, note>>

\* A stop before the first locked section leaves nothing to run.
Begin(l) ==
    /\ IF loop[l].stopped \/ closing
       THEN Advance(l, "start", [loop[l] EXCEPT !.at = "end"])
       ELSE Advance(l, "start", [loop[l] EXCEPT !.at = "ensure", !.open = TRUE,
                                                !.cancelled = FALSE])
    /\ LoopOnly /\ UNCHANGED <<rec, piVars, answered>>

EnsureKnown(l) ==
    /\ rec.known
    /\ Advance(l, "ensure", [loop[l] EXCEPT !.at = "mark"])
    /\ LoopOnly /\ UNCHANGED <<rec, piVars, answered>>

\* A pi session with no history, recorded on disk before it is used.
EnsureCreates(l) ==
    /\ ~rec.known
    /\ Advance(l, "ensure", [loop[l] EXCEPT !.at = "mark"])
    /\ rec' = [known |-> TRUE, running |-> FALSE]
    /\ LoopOnly /\ UNCHANGED <<slot, barrier, answered>>

\* Create failed, or the record could not be written.
EnsureFails(l) ==
    /\ ~rec.known
    /\ Advance(l, "ensure", [loop[l] EXCEPT !.at = "finish"])
    /\ LoopOnly /\ UNCHANGED <<rec, piVars, answered>>

\* setRunning: a failed write and a missing record change nothing.
SetRunning(b) ==
    \/ rec' = IF rec.known THEN [rec EXCEPT !.running = b] ELSE rec
    \/ StoreMayFail /\ UNCHANGED rec

Mark(l) ==
    /\ SetRunning(TRUE)
    /\ Advance(l, "mark", [loop[l] EXCEPT !.at = "send", !.marked = rec'.running])
    /\ LoopOnly /\ UNCHANGED <<piVars, answered>>

\* Send reserves the slot and writes the prompt, cancelled or not.
SendStarts(l) ==
    /\ slot = "free" /\ barrier = {}
    /\ Advance(l, "send", [loop[l] EXCEPT !.at = "running", !.worker = "idle"])
    /\ slot' = "linear"
    /\ LoopOnly /\ UNCHANGED <<rec, barrier, answered>>

\* ErrBusy; or ErrNotFound, ErrTooManySessions, a process that will not start.
SendRefused(l) ==
    /\ \E gone \in {FALSE, OtherClients} :
         Advance(l, "send", [loop[l] EXCEPT !.at = "closing", !.worker = "idle", !.gone = gone])
    /\ LoopOnly /\ UNCHANGED <<rec, piVars, answered>>

\* The run settled, or the pi process exited (manager.Stop included).
SendSettles(l) ==
    /\ Advance(l, "running", [loop[l] EXCEPT !.at = "closing"])
    /\ slot' = "free"
    /\ SendReturns(l) /\ UNCHANGED <<rec, barrier, answered>>

RunTimesOut(l) ==
    /\ loop[l].open /\ ~loop[l].cancelled
    /\ loop' = [loop EXCEPT ![l].cancelled = TRUE]
    /\ LoopOnly /\ UNCHANGED <<rec, piVars, answered>>

\* Send of a cancelled context aborts its run; the slot stays supervised if pi
\* does not confirm in time.
SendCancelled(l) ==
    /\ loop[l].cancelled
    /\ Advance(l, "running", [loop[l] EXCEPT !.at = "closing"])
    /\ slot' \in {"free", "draining"}
    /\ SendReturns(l) /\ UNCHANGED <<rec, barrier, answered>>

\* The progress worker: isStopped, then a post; the last one of a closed
\* report is waited for.
Progress(l) ==
    /\ loop[l].at \in Sending /\ loop[l].worker = "idle" /\ ~loop[l].stopped
    /\ loop' = [loop EXCEPT ![l].worker = "posting"]
    /\ LoopOnly /\ UNCHANGED <<rec, piVars, answered>>

ProgressPosted(l) ==
    /\ loop[l].worker = "posting"
    /\ loop' = [loop EXCEPT ![l].worker = IF loop[l].at = "closing" THEN "exited" ELSE "idle"]
    /\ LoopOnly /\ UNCHANGED <<rec, piVars, answered>>

\* Mutant: close does not wait for the worker.
CloseReportAtOnce(l) ==
    /\ Advance(l, "closing", [loop[l] EXCEPT !.at = "finish"])
    /\ LoopOnly /\ UNCHANGED <<rec, piVars, answered>>
CloseReport(l) ==
    /\ loop[l].worker # "posting"
    /\ Advance(l, "closing", [loop[l] EXCEPT !.at = "finish", !.worker = "off"])
    /\ LoopOnly /\ UNCHANGED <<rec, piVars, answered>>

-----------------------------------------------------------------------------
(* finish and the loop's end *)

\* Mutant: a shutdown clears the mark like any other end.
FinishUnmarks(l) ==
    /\ Advance(l, "finish", [loop[l] EXCEPT !.at = "unmark", !.quiet = loop[l].stopped \/ closing])
    /\ LoopOnly /\ UNCHANGED <<rec, piVars, answered>>
\* stopped and closing are sampled together; a shutdown keeps the mark.
Finish(l) ==
    /\ Advance(l, "finish", [loop[l] EXCEPT !.at = IF closing THEN "close" ELSE "unmark",
                                            !.quiet = loop[l].stopped])
    /\ LoopOnly /\ UNCHANGED <<rec, piVars, answered>>

\* Where the run goes once its mark is cleared: the outcome begins to be posted
\* unless a stop was seen, after the record of a missing pi session is dropped.
Unmark(l) ==
    /\ SetRunning(FALSE)
    /\ LET next == CASE loop[l].quiet -> "close"
                     [] ~loop[l].quiet /\ loop[l].gone -> "forget"
                     [] OTHER -> "final"
       IN  /\ Advance(l, "unmark", [loop[l] EXCEPT !.at = next, !.gone = FALSE, !.quiet = FALSE])
           /\ answered' = answered \cup (IF next = "close" THEN {} ELSE loop[l].batch)
    /\ LoopOnly /\ UNCHANGED <<piVars>>

Forget(l) ==
    /\ Advance(l, "forget", [loop[l] EXCEPT !.at = "final"])
    /\ \/ rec' = NoRecord
       \/ StoreMayFail /\ UNCHANGED rec
    /\ LoopOnly /\ UNCHANGED <<piVars, answered>>

FinalPosted(l) ==
    /\ Advance(l, "final", [loop[l] EXCEPT !.at = "close"])
    /\ LoopOnly /\ UNCHANGED <<rec, piVars, answered>>

\* The deferred calls of runOnce: cancel = nil, close(runDone), cancel().
CloseRun(l) ==
    /\ Advance(l, "close", [loop[l] EXCEPT !.at = "end", !.open = FALSE, !.marked = FALSE])
    /\ target' = [e \in Stops |-> IF target[e] = l THEN None ELSE target[e]]
    /\ UNCHANGED <<at, halts, active, rec, piVars, boxVars, answered>>

\* Mutant: a queued batch inherits the stop of the run before it.
NextBatchStopped(l) ==
    /\ UNCHANGED <<handlerVars, boxVars, rec, piVars, answered>>
    /\ IF closing \/ loop[l].pending = {}
       THEN Advance(l, "end", NoLoop) /\ active' = None
       ELSE /\ Advance(l, "end", [loop[l] EXCEPT !.at = "start", !.batch = loop[l].pending,
                                                 !.pending = {}])
            /\ UNCHANGED active
NextBatch(l) ==
    /\ UNCHANGED <<handlerVars, boxVars, rec, piVars, answered>>
    /\ IF closing \/ loop[l].pending = {}
       THEN Advance(l, "end", NoLoop) /\ active' = None
       ELSE /\ Advance(l, "end", [loop[l] EXCEPT !.at = "start", !.batch = loop[l].pending,
                                                 !.pending = {}, !.stopped = FALSE])
            /\ UNCHANGED active

-----------------------------------------------------------------------------
(* The pi session's slot, and the box *)

SlotDrains ==
    /\ slot = "draining"
    /\ slot' = "free"
    /\ UNCHANGED <<handlerVars, loopVars, rec, barrier, boxVars, answered>>

ClientSends ==
    /\ OtherClients /\ rec.known /\ slot = "free" /\ barrier = {}
    /\ slot' = "client"
    /\ UNCHANGED <<handlerVars, loopVars, rec, barrier, boxVars, answered>>

ClientSettles ==
    /\ slot = "client"
    /\ slot' = "free"
    /\ UNCHANGED <<handlerVars, loopVars, rec, barrier, boxVars, answered>>

\* Integration.Close, before the pi processes are stopped.
Close ==
    /\ MayShutDown /\ ~closing
    /\ closing' = TRUE
    /\ UNCHANGED <<handlerVars, loopVars, rec, piVars, up, crashes, note, cut, answered>>

\* The box process ends, at any point, and the pi processes with it.
Crash ==
    /\ crashes < MaxCrashes
    /\ up' = FALSE /\ crashes' = crashes + 1 /\ closing' = FALSE /\ note' = "none"
    /\ cut' = (cut \/ \E l \in Loops : loop[l].at \in Sending /\ loop[l].marked)
    /\ at' = [e \in Events |-> IF at[e] = "away" THEN "away" ELSE "lost"]
    /\ loop' = [l \in Loops |-> NoLoop] /\ active' = None
    /\ halts' = [e \in Stops |-> {}] /\ target' = [e \in Stops |-> None]
    /\ slot' = "free" /\ barrier' = {} /\ answered' = {}
    /\ UNCHANGED rec

\* Integration.Start: the marks are cleared before it returns, the notices are
\* posted in the background.
Restart ==
    /\ ~up
    /\ up' = TRUE
    /\ note' = IF rec.running THEN "posting" ELSE "none"
    /\ IF rec.running THEN SetRunning(FALSE) ELSE UNCHANGED rec
    /\ cut' = FALSE
    /\ UNCHANGED <<handlerVars, loopVars, piVars, closing, crashes, answered>>

NoticePosted ==
    /\ note = "posting"
    /\ note' = "none"
    /\ UNCHANGED <<handlerVars, loopVars, rec, piVars, closing, up, crashes, cut, answered>>

-----------------------------------------------------------------------------
(* Specification *)

Init ==
    /\ at = [e \in Events |-> "away"]
    /\ halts = [e \in Stops |-> {}] /\ target = [e \in Stops |-> None]
    /\ active = None /\ loop = [l \in Loops |-> NoLoop]
    /\ rec = NoRecord
    /\ slot = "free" /\ barrier = {}
    /\ closing = FALSE /\ up = TRUE /\ crashes = 0 /\ note = "none" /\ cut = FALSE
    /\ answered = {}

PromptStep(p) == Acknowledged(p) \/ Enqueue(p) \/ Noted(p)
StopStep(e)   == AbortPi(e) \/ AbortReturns(e) \/ Confirm(e) \/ Confirmed(e)
EndRun(l)     == Finish(l) \/ Unmark(l) \/ Forget(l) \/ FinalPosted(l) \/ CloseRun(l)
LoopStep(l)   == \/ Begin(l) \/ EnsureKnown(l) \/ EnsureCreates(l) \/ EnsureFails(l) \/ Mark(l)
                 \/ SendStarts(l) \/ SendRefused(l) \/ SendCancelled(l) \/ CloseReport(l)
                 \/ EndRun(l) \/ NextBatch(l)

Next ==
    \/ up /\ \/ \E p \in Prompts : Receive(p) \/ PromptStep(p)
             \/ \E e \in Stops : Stop(e) \/ StopStep(e) \/ StopTimesOut(e) \/ BarrierLifts(e)
             \/ \E l \in Loops : \/ LoopStep(l) \/ SendSettles(l) \/ RunTimesOut(l)
                                 \/ Progress(l) \/ ProgressPosted(l)
             \/ SlotDrains \/ ClientSends \/ ClientSettles
             \/ Close \/ Crash \/ NoticePosted
    \/ Restart

Spec == Init /\ [][Next]_vars

\* Goroutines run; a post ends after at most postTimeout, Abort after
\* stopTimeout, a run after RunTimeout and the abort that follows.  pi need not
\* settle a run, and events need not arrive.
Fairness ==
    /\ \A p \in Prompts : WF_vars(up /\ PromptStep(p))
    /\ \A e \in Stops : WF_vars(up /\ StopStep(e))
    /\ \A l \in Loops : /\ WF_vars(up /\ LoopStep(l))
                        /\ WF_vars(up /\ RunTimesOut(l))
                        /\ WF_vars(up /\ ProgressPosted(l))

FairSpec == Spec /\ Fairness

-----------------------------------------------------------------------------
(* Properties *)

HandlerPoints == {"away", "acking", "ready", "noting", "abort", "aborting", "wait",
                  "confirm", "confirmLate", "done", "doneLate", "lost"}
LoopState == [at : {"idle", "start", "end"} \cup InRun, batch : SUBSET Prompts,
              pending : SUBSET Prompts, stopped : BOOLEAN, open : BOOLEAN, cancelled : BOOLEAN,
              marked : BOOLEAN,
              worker : {"off", "idle", "posting", "exited"},
              gone : BOOLEAN, quiet : BOOLEAN]

\* Types; a progress worker lives only inside Send and report.close.
TypeOK ==
    /\ at \in [Events -> HandlerPoints]
    /\ halts \in [Stops -> SUBSET Prompts] /\ target \in [Stops -> Loops \cup {None}]
    /\ active \in Loops \cup {None} /\ loop \in [Loops -> LoopState]
    /\ rec \in [known : BOOLEAN, running : BOOLEAN]
    /\ slot \in {"free", "linear", "draining", "client"}
    /\ barrier \subseteq Stops
    /\ closing \in BOOLEAN /\ up \in BOOLEAN /\ crashes \in 0..MaxCrashes
    /\ note \in {"none", "posting"} /\ cut \in BOOLEAN
    /\ answered \subseteq Prompts
    /\ \A l \in Loops : loop[l].worker # "off" => loop[l].at \in Sending

\* runner: "runs the session's prompts one at a time"; active names the one
\* loop goroutine there is, whatever handlers race to start one.
OneAtATime == \A l \in Loops : loop[l].at # "idle" <=> active = l

\* A prompt the runner took is queued, being run, answered, or halted by a
\* stop, until the box shuts down: no race of a stop, a queued message and the
\* end of a run loses one or suppresses its answer.
PromptAccounted ==
    up /\ ~closing =>
        \A p \in Prompts : at[p] \in {"noting", "done"} =>
            \/ p \in answered \cup Halted
            \/ active # None /\ p \in loop[active].pending \cup loop[active].batch

Posting(l) == loop[l].worker = "posting" \/ loop[l].at = "final"

\* A stop that waited for its run: no progress and no outcome of a halted prompt
\* is on its way when Stopped is posted, or later.  If stopTimeout passed first,
\* one may be, but only of the run it waited for, until that run has wound down.
StoppedIsSilent ==
    \A e \in Stops, l \in Loops :
        Posting(l) /\ loop[l].batch \cap halts[e] # {} =>
            /\ at[e] \notin {"confirm", "done"}
            /\ at[e] \in {"confirmLate", "doneLate"} => target[e] = l

\* A session's runs and its stops exclude each other.
RunsExclusive == TypeOK /\ OneAtATime /\ StoppedIsSilent

\* runner.go, stop: it "confirms to Linear once the stopped run can post nothing
\* more".
SilentAfterStop ==
    \A e \in Stops : at[e] \in {"confirm", "confirmLate", "done", "doneLate"} =>
        \A l \in Loops : Posting(l) => loop[l].batch \cap halts[e] = {}

\* A Send that a crash or a shutdown cut short is told by the next start.
CutShortReported == [][~up /\ up' /\ cut => note' = "posting"]_vars

\* Every prompt taken is answered, unless it is halted or the box goes down.
PromptServed ==
    \A p \in Prompts : at[p] \in {"acking", "ready"} ~>
        p \in answered \cup Halted \/ closing \/ at[p] = "lost"

\* Every stop is answered: the run it halted winds down, if stopTimeout does not
\* pass first.
StopAnswered == \A e \in Stops : at[e] = "abort" ~> at[e] \in {"done", "doneLate", "lost"}
=============================================================================
