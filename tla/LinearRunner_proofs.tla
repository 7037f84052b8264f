------------------------ MODULE LinearRunner_proofs ------------------------
(***************************************************************************)
(* Proofs about LinearRunner, for any prompts, stops, loops and crashes.   *)
(* The invariant is built in layers: types and the one loop goroutine      *)
(* (Base), what was halted (Halting), where every prompt is (Accounted),   *)
(* what a stop has waited for unless stopTimeout passed (Waited), and the  *)
(* mark of the run under way (Marking).                                    *)
(***************************************************************************)
EXTENDS LinearRunner, TLAPS

-----------------------------------------------------------------------------
(* First layer: a step of a loop *)

\* A loop with no goroutine is blank; runDone is open exactly inside runOnce.
LoopOK(l) ==
    /\ loop[l].at = "idle" => loop[l] = NoLoop
    /\ loop[l].open <=> loop[l].at \in InRun

\* The first layer: types, one goroutine per session, and the shape of its state.
Base == TypeOK /\ OneAtATime /\ \A l \in Loops : LoopOK(l)

\* A step changes no loop but l, and leaves it typed.
Moves(l) ==
    /\ loop' \in [Loops -> LoopState]
    /\ \A m \in Loops \ {l} : loop'[m] = loop[m]
    /\ loop'[l].worker # "off" => loop'[l].at \in Sending

\* The prompts of l and its stopped flag stay.
KeepsBatch(l) ==
    /\ loop'[l].batch = loop[l].batch /\ loop'[l].pending = loop[l].pending
    /\ loop'[l].stopped = loop[l].stopped

\* Handlers, the active loop and the life of the box stay.
RunOnly == UNCHANGED <<handlerVars, active, closing, up>>

\* The points of runOnce before its outcome is decided.
Early == {"ensure", "mark", "send", "running", "closing", "finish"}

\* l goes on within those points.
Advances(l) ==
    /\ Moves(l) /\ KeepsBatch(l) /\ RunOnly /\ UNCHANGED answered
    /\ loop[l].at \in Early /\ loop'[l].at \in Early
    /\ loop'[l].open = loop[l].open

\* The steps that do.
EarlyStep(l) ==
    \/ EnsureKnown(l) \/ EnsureCreates(l) \/ EnsureFails(l) \/ Mark(l)
    \/ SendStarts(l) \/ SendRefused(l) \/ SendCancelled(l) \/ CloseReport(l)
    \/ SendSettles(l) \/ Progress(l) \/ ProgressPosted(l)

\* A loop of the right type put in place of another changes nothing else.
LEMMA Replaced ==
  ASSUME TypeOK, NEW l \in Loops, NEW new \in LoopState, loop' = [loop EXCEPT ![l] = new]
  PROVE  /\ loop' \in [Loops -> LoopState]
         /\ loop'[l] = new
         /\ \A m \in Loops \ {l} : loop'[m] = loop[m]
  BY DEF TypeOK

\* Every step of runOnce before its outcome keeps batch, queue and runDone.
LEMMA Earlies ==
  ASSUME Base, NEW l \in Loops, EarlyStep(l)
  PROVE  Advances(l)
<1> DEFINE r == loop[l]
<1>t. TypeOK
  BY DEF Base
<1>r. r \in LoopState
  BY DEF Base, TypeOK
<1>w. r.worker # "off" => r.at \in Sending
  BY DEF Base, TypeOK
<1>1. CASE EnsureKnown(l) \/ EnsureCreates(l)
  <2> DEFINE new == [r EXCEPT !.at = "mark"]
  <2>1. new \in LoopState
    BY <1>r, Zenon DEF LoopState, InRun
  <2>2. r.at = "ensure" /\ loop' = [loop EXCEPT ![l] = new] /\ RunOnly /\ UNCHANGED answered
    BY <1>1 DEF EnsureKnown, EnsureCreates, Advance, LoopOnly, RunOnly, handlerVars, boxVars
  <2>3. /\ new.batch = r.batch /\ new.pending = r.pending /\ new.stopped = r.stopped
        /\ new.open = r.open /\ r.at \in Early /\ new.at \in Early
        /\ new.worker # "off" => new.at \in Sending
    BY <1>r, <1>w, <2>1, <2>2 DEF Early, LoopState, Sending
  <2> QED
    BY <1>t, <2>1, <2>2, <2>3, Replaced DEF Advances, Moves, KeepsBatch
<1>2. CASE EnsureFails(l)
  <2> DEFINE new == [r EXCEPT !.at = "finish"]
  <2>1. new \in LoopState
    BY <1>r, Zenon DEF LoopState, InRun
  <2>2. r.at = "ensure" /\ loop' = [loop EXCEPT ![l] = new] /\ RunOnly /\ UNCHANGED answered
    BY <1>2 DEF EnsureFails, Advance, LoopOnly, RunOnly, handlerVars, boxVars
  <2>3. /\ new.batch = r.batch /\ new.pending = r.pending /\ new.stopped = r.stopped
        /\ new.open = r.open /\ r.at \in Early /\ new.at \in Early
        /\ new.worker # "off" => new.at \in Sending
    BY <1>r, <1>w, <2>1, <2>2 DEF Early, LoopState, Sending
  <2> QED
    BY <1>t, <2>1, <2>2, <2>3, Replaced DEF Advances, Moves, KeepsBatch
<1>3. CASE Mark(l)
  <2> DEFINE new == [r EXCEPT !.at = "send", !.marked = rec'.running]
  <2>0. rec'.running \in BOOLEAN
    BY <1>3 DEF Base, TypeOK, Mark, SetRunning
  <2>1. new \in LoopState
    BY <1>r, <2>0, Zenon DEF LoopState, InRun
  <2>2. r.at = "mark" /\ loop' = [loop EXCEPT ![l] = new] /\ RunOnly /\ UNCHANGED answered
    BY <1>3 DEF Mark, Advance, LoopOnly, RunOnly, handlerVars, boxVars
  <2>3. /\ new.batch = r.batch /\ new.pending = r.pending /\ new.stopped = r.stopped
        /\ new.open = r.open /\ r.at \in Early /\ new.at \in Early
        /\ new.worker # "off" => new.at \in Sending
    BY <1>r, <1>w, <2>1, <2>2 DEF Early, LoopState, Sending
  <2> QED
    BY <1>t, <2>1, <2>2, <2>3, Replaced DEF Advances, Moves, KeepsBatch
<1>4. CASE SendStarts(l)
  <2> DEFINE new == [r EXCEPT !.at = "running", !.worker = "idle"]
  <2>1. new \in LoopState
    BY <1>r, Zenon DEF LoopState, InRun, Sending
  <2>2. r.at = "send" /\ loop' = [loop EXCEPT ![l] = new] /\ RunOnly /\ UNCHANGED answered
    BY <1>4 DEF SendStarts, Advance, LoopOnly, RunOnly, handlerVars, boxVars
  <2>3. /\ new.batch = r.batch /\ new.pending = r.pending /\ new.stopped = r.stopped
        /\ new.open = r.open /\ r.at \in Early /\ new.at \in Early
        /\ new.worker # "off" => new.at \in Sending
    BY <1>r, <2>1, <2>2 DEF Early, LoopState, Sending
  <2> QED
    BY <1>t, <2>1, <2>2, <2>3, Replaced DEF Advances, Moves, KeepsBatch
<1>5. CASE SendRefused(l)
  <2>1. PICK g \in BOOLEAN : loop' = [loop EXCEPT ![l] = [r EXCEPT !.at = "closing", !.worker = "idle", !.gone = g]]
    BY <1>5, LinearAssumption DEF SendRefused, Advance
  <2> DEFINE new == [r EXCEPT !.at = "closing", !.worker = "idle", !.gone = g]
  <2>2. new \in LoopState
    BY <1>r, Zenon DEF LoopState, InRun, Sending
  <2>3. r.at = "send" /\ RunOnly /\ UNCHANGED answered
    BY <1>5 DEF SendRefused, Advance, LoopOnly, RunOnly, handlerVars, boxVars
  <2>4. /\ new.batch = r.batch /\ new.pending = r.pending /\ new.stopped = r.stopped
        /\ new.open = r.open /\ r.at \in Early /\ new.at \in Early
        /\ new.worker # "off" => new.at \in Sending
    BY <1>r, <2>2, <2>3 DEF Early, LoopState, Sending
  <2> QED
    BY <1>t, <2>1, <2>2, <2>3, <2>4, Replaced DEF Advances, Moves, KeepsBatch
<1>6. CASE SendCancelled(l) \/ SendSettles(l)
  <2> DEFINE new == [r EXCEPT !.at = "closing"]
  <2>1. new \in LoopState
    BY <1>r, Zenon DEF LoopState, InRun, Sending
  <2>2. r.at = "running" /\ loop' = [loop EXCEPT ![l] = new] /\ RunOnly /\ UNCHANGED answered
    BY <1>6 DEF SendCancelled, SendSettles, SendReturns, Advance, RunOnly, handlerVars, boxVars
  <2>3. /\ new.batch = r.batch /\ new.pending = r.pending /\ new.stopped = r.stopped
        /\ new.open = r.open /\ r.at \in Early /\ new.at \in Early
        /\ new.worker # "off" => new.at \in Sending
    BY <1>r, <2>1, <2>2 DEF Early, LoopState, Sending
  <2> QED
    BY <1>t, <2>1, <2>2, <2>3, Replaced DEF Advances, Moves, KeepsBatch
<1>7. CASE CloseReport(l)
  <2> DEFINE new == [r EXCEPT !.at = "finish", !.worker = "off"]
  <2>1. new \in LoopState
    BY <1>r, Zenon DEF LoopState, InRun
  <2>2. r.at = "closing" /\ loop' = [loop EXCEPT ![l] = new] /\ RunOnly /\ UNCHANGED answered
    BY <1>7 DEF CloseReport, Advance, LoopOnly, RunOnly, handlerVars, boxVars
  <2>3. /\ new.batch = r.batch /\ new.pending = r.pending /\ new.stopped = r.stopped
        /\ new.open = r.open /\ r.at \in Early /\ new.at \in Early
        /\ new.worker # "off" => new.at \in Sending
    BY <1>r, <2>1, <2>2 DEF Early, LoopState, Sending
  <2> QED
    BY <1>t, <2>1, <2>2, <2>3, Replaced DEF Advances, Moves, KeepsBatch
<1>8. CASE Progress(l) \/ ProgressPosted(l)
  <2>1. PICK w \in {"posting", "exited", "idle"} : loop' = [loop EXCEPT ![l].worker = w]
    BY <1>8 DEF Progress, ProgressPosted
  <2> DEFINE new == [r EXCEPT !.worker = w]
  <2>2. new \in LoopState
    BY <1>r, Zenon DEF LoopState
  <2>3. r.at \in Sending /\ loop' = [loop EXCEPT ![l] = new] /\ RunOnly /\ UNCHANGED answered
    BY <1>8, <1>w, <2>1 DEF Progress, ProgressPosted, LoopOnly, RunOnly, handlerVars, boxVars
  <2>4. /\ new.batch = r.batch /\ new.pending = r.pending /\ new.stopped = r.stopped
        /\ new.open = r.open /\ r.at \in Early /\ new.at \in Early
        /\ new.worker # "off" => new.at \in Sending
    BY <1>r, <2>2, <2>3 DEF Early, LoopState, Sending
  <2> QED
    BY <1>t, <2>2, <2>3, <2>4, Replaced DEF Advances, Moves, KeepsBatch
<1> QED
  BY <1>1, <1>2, <1>3, <1>4, <1>5, <1>6, <1>7, <1>8 DEF EarlyStep

-----------------------------------------------------------------------------
(* The remaining actions of a loop, and the handlers that reach one *)

\* What the first locked section of runOnce leaves: an ended run or an open one.
LEMMA Begins ==
  ASSUME Base, NEW l \in Loops, Begin(l)
  PROVE  /\ Moves(l) /\ KeepsBatch(l) /\ RunOnly /\ UNCHANGED answered
         /\ loop[l].at = "start"
         /\ IF loop[l].stopped \/ closing
            THEN loop'[l].at = "end" /\ ~loop'[l].open
            ELSE loop'[l].at = "ensure" /\ loop'[l].open
<1> DEFINE r == loop[l]
<1>r. TypeOK /\ r \in LoopState /\ r.worker = "off" /\ ~r.open /\ r.at = "start"
  BY DEF Base, TypeOK, LoopOK, Begin, Advance, Sending, InRun
<1>u. RunOnly /\ UNCHANGED answered
  BY DEF Begin, LoopOnly, RunOnly, boxVars
<1>1. CASE r.stopped \/ closing
  <2> DEFINE new == [r EXCEPT !.at = "end"]
  <2>1. new \in LoopState
    BY <1>r, Zenon DEF LoopState
  <2>2. loop' = [loop EXCEPT ![l] = new]
    BY <1>1 DEF Begin, Advance
  <2>3. /\ new.batch = r.batch /\ new.pending = r.pending /\ new.stopped = r.stopped
        /\ ~new.open /\ new.worker = "off" /\ new.at = "end"
    BY <1>r, <2>1 DEF LoopState
  <2> QED
    BY <1>r, <1>u, <1>1, <2>1, <2>2, <2>3, Replaced DEF Moves, KeepsBatch
<1>2. CASE ~(r.stopped \/ closing)
  <2> DEFINE new == [r EXCEPT !.at = "ensure", !.open = TRUE, !.cancelled = FALSE]
  <2>1. new \in LoopState
    BY <1>r, Zenon DEF LoopState, InRun
  <2>2. loop' = [loop EXCEPT ![l] = new]
    BY <1>2 DEF Begin, Advance
  <2>3. /\ new.batch = r.batch /\ new.pending = r.pending /\ new.stopped = r.stopped
        /\ new.open /\ new.worker = "off" /\ new.at = "ensure"
    BY <1>r, <2>1 DEF LoopState
  <2> QED
    BY <1>r, <1>u, <1>2, <2>1, <2>2, <2>3, Replaced DEF Moves, KeepsBatch
<1> QED
  BY <1>1, <1>2

\* RunTimeout cancels the run and changes nothing that is accounted for.
LEMMA TimesOut ==
  ASSUME Base, NEW l \in Loops, RunTimesOut(l)
  PROVE  /\ Moves(l) /\ KeepsBatch(l) /\ RunOnly /\ UNCHANGED answered
         /\ loop[l].open /\ loop'[l].open
         /\ loop'[l].at = loop[l].at /\ loop'[l].worker = loop[l].worker /\ loop'[l].quiet = loop[l].quiet
<1> DEFINE r == loop[l]
           new == [r EXCEPT !.cancelled = TRUE]
<1>r. TypeOK /\ r \in LoopState /\ (r.worker # "off" => r.at \in Sending)
  BY DEF Base, TypeOK
<1>u. r.open /\ RunOnly /\ UNCHANGED answered
  BY DEF RunTimesOut, LoopOnly, RunOnly, boxVars
<1>1. new \in LoopState
  BY <1>r, Zenon DEF LoopState
<1>2. loop' = [loop EXCEPT ![l] = new]
  BY DEF RunTimesOut
<1>3. /\ new.batch = r.batch /\ new.pending = r.pending /\ new.stopped = r.stopped
      /\ new.open = r.open /\ new.worker = r.worker /\ new.at = r.at /\ new.quiet = r.quiet
  BY <1>r, <1>1 DEF LoopState
<1> QED
  BY <1>r, <1>u, <1>1, <1>2, <1>3, Replaced DEF Moves, KeepsBatch

\* finish samples stopped and closing together.
LEMMA Finishes ==
  ASSUME Base, NEW l \in Loops, Finish(l)
  PROVE  /\ Moves(l) /\ KeepsBatch(l) /\ RunOnly /\ UNCHANGED answered
         /\ loop[l].at = "finish" /\ loop'[l].at = IF closing THEN "close" ELSE "unmark"
         /\ loop'[l].open = loop[l].open /\ loop'[l].quiet = loop[l].stopped
<1> DEFINE r == loop[l]
           new == [r EXCEPT !.at = IF closing THEN "close" ELSE "unmark", !.quiet = r.stopped]
<1>r. TypeOK /\ r \in LoopState /\ r.worker = "off" /\ r.at = "finish"
  BY DEF Base, TypeOK, Finish, Advance, Sending
<1>u. RunOnly /\ UNCHANGED answered
  BY DEF Finish, LoopOnly, RunOnly, boxVars
<1>0. r.stopped \in BOOLEAN
  BY <1>r, Zenon DEF LoopState
<1>1. new \in LoopState
  <2>1. (IF closing THEN "close" ELSE "unmark") \in {"idle", "start", "end"} \cup InRun
    BY DEF InRun
  <2> QED
    BY <1>r, <1>0, <2>1, Zenon DEF LoopState
<1>2. loop' = [loop EXCEPT ![l] = new]
  BY DEF Finish, Advance
<1>3. /\ new.batch = r.batch /\ new.pending = r.pending /\ new.stopped = r.stopped
      /\ new.open = r.open /\ new.worker = r.worker /\ new.quiet = r.stopped
      /\ new.at = IF closing THEN "close" ELSE "unmark"
  BY <1>r, <1>1 DEF LoopState
<1> QED
  BY <1>r, <1>u, <1>1, <1>2, <1>3, Replaced DEF Moves, KeepsBatch

\* A run that was not stopped answers its batch, a stopped one nothing.
LEMMA Unmarks ==
  ASSUME Base, NEW l \in Loops, Unmark(l)
  PROVE  /\ Moves(l) /\ KeepsBatch(l) /\ RunOnly
         /\ loop[l].at = "unmark" /\ loop'[l].open = loop[l].open
         /\ IF loop[l].quiet THEN loop'[l].at = "close" /\ answered' = answered
            ELSE loop'[l].at \in {"forget", "final"} /\ answered' = answered \cup loop[l].batch
<1> DEFINE r == loop[l]
           next == CASE r.quiet -> "close" [] ~r.quiet /\ r.gone -> "forget" [] OTHER -> "final"
           new == [r EXCEPT !.at = next, !.gone = FALSE, !.quiet = FALSE]
<1>r. TypeOK /\ r \in LoopState /\ r.worker = "off" /\ r.at = "unmark"
  BY DEF Base, TypeOK, Unmark, Advance, Sending
<1>u. RunOnly
  BY DEF Unmark, LoopOnly, RunOnly, boxVars
<1>n. IF r.quiet THEN next = "close" ELSE next \in {"forget", "final"}
  OBVIOUS
<1>1. new \in LoopState
  <2>1. next \in {"idle", "start", "end"} \cup InRun
    BY <1>n DEF InRun
  <2> QED
    BY <1>r, <2>1, Zenon DEF LoopState
<1>2. /\ loop' = [loop EXCEPT ![l] = new]
      /\ answered' = answered \cup (IF next = "close" THEN {} ELSE r.batch)
  BY DEF Unmark, Advance
<1>3. /\ new.batch = r.batch /\ new.pending = r.pending /\ new.stopped = r.stopped
      /\ new.open = r.open /\ new.worker = r.worker /\ new.at = next
  BY <1>r, <1>1 DEF LoopState
<1>4. IF r.quiet THEN answered' = answered ELSE answered' = answered \cup r.batch
  BY <1>n, <1>2
<1> QED
  BY <1>r, <1>u, <1>n, <1>1, <1>2, <1>3, <1>4, Replaced DEF Moves, KeepsBatch

\* Dropping the record of a lost pi session leads to the outcome.
LEMMA Forgets ==
  ASSUME Base, NEW l \in Loops, Forget(l)
  PROVE  /\ Moves(l) /\ KeepsBatch(l) /\ RunOnly /\ UNCHANGED answered
         /\ loop[l].at = "forget" /\ loop'[l].at = "final" /\ loop'[l].open = loop[l].open
<1> DEFINE r == loop[l]
           new == [r EXCEPT !.at = "final"]
<1>r. TypeOK /\ r \in LoopState /\ r.worker = "off" /\ r.at = "forget"
  BY DEF Base, TypeOK, Forget, Advance, Sending
<1>u. RunOnly /\ UNCHANGED answered
  BY DEF Forget, LoopOnly, RunOnly, boxVars
<1>1. new \in LoopState
  BY <1>r, Zenon DEF LoopState, InRun
<1>2. loop' = [loop EXCEPT ![l] = new]
  BY DEF Forget, Advance
<1>3. /\ new.batch = r.batch /\ new.pending = r.pending /\ new.stopped = r.stopped
      /\ new.open = r.open /\ new.worker = r.worker /\ new.at = "final"
  BY <1>r, <1>1 DEF LoopState
<1> QED
  BY <1>r, <1>u, <1>1, <1>2, <1>3, Replaced DEF Moves, KeepsBatch

\* The outcome is posted before the deferred calls run.
LEMMA Posts ==
  ASSUME Base, NEW l \in Loops, FinalPosted(l)
  PROVE  /\ Moves(l) /\ KeepsBatch(l) /\ RunOnly /\ UNCHANGED answered
         /\ loop[l].at = "final" /\ loop'[l].at = "close" /\ loop'[l].open = loop[l].open
<1> DEFINE r == loop[l]
           new == [r EXCEPT !.at = "close"]
<1>r. TypeOK /\ r \in LoopState /\ r.worker = "off" /\ r.at = "final"
  BY DEF Base, TypeOK, FinalPosted, Advance, Sending
<1>u. RunOnly /\ UNCHANGED answered
  BY DEF FinalPosted, LoopOnly, RunOnly, boxVars
<1>1. new \in LoopState
  BY <1>r, Zenon DEF LoopState, InRun
<1>2. loop' = [loop EXCEPT ![l] = new]
  BY DEF FinalPosted, Advance
<1>3. /\ new.batch = r.batch /\ new.pending = r.pending /\ new.stopped = r.stopped
      /\ new.open = r.open /\ new.worker = r.worker /\ new.at = "close"
  BY <1>r, <1>1 DEF LoopState
<1> QED
  BY <1>r, <1>u, <1>1, <1>2, <1>3, Replaced DEF Moves, KeepsBatch

\* The deferred calls close runDone: every stop that awaited it goes on.
LEMMA Closes ==
  ASSUME Base, NEW l \in Loops, CloseRun(l)
  PROVE  /\ Moves(l) /\ KeepsBatch(l) /\ UNCHANGED <<at, halts, active, closing, up, answered>>
         /\ target' = [e \in Stops |-> IF target[e] = l THEN None ELSE target[e]]
         /\ loop[l].at = "close" /\ loop'[l].at = "end" /\ ~loop'[l].open
<1> DEFINE r == loop[l]
           new == [r EXCEPT !.at = "end", !.open = FALSE, !.marked = FALSE]
<1>r. TypeOK /\ r \in LoopState /\ r.worker = "off" /\ r.at = "close"
  BY DEF Base, TypeOK, CloseRun, Advance, Sending
<1>1. new \in LoopState
  BY <1>r, Zenon DEF LoopState
<1>2. /\ loop' = [loop EXCEPT ![l] = new]
      /\ UNCHANGED <<at, halts, active, closing, up, answered>>
      /\ target' = [e \in Stops |-> IF target[e] = l THEN None ELSE target[e]]
  BY DEF CloseRun, Advance, boxVars
<1>3. /\ new.batch = r.batch /\ new.pending = r.pending /\ new.stopped = r.stopped
      /\ ~new.open /\ new.worker = r.worker /\ new.at = "end"
  BY <1>r, <1>1 DEF LoopState
<1> QED
  BY <1>r, <1>1, <1>2, <1>3, Replaced DEF Moves, KeepsBatch

\* The loop takes the queue as its next batch, or is no longer active.
LEMMA Continues ==
  ASSUME Base, NEW l \in Loops, NextBatch(l)
  PROVE  /\ Moves(l) /\ UNCHANGED <<handlerVars, closing, up, answered>>
         /\ loop[l].at = "end"
         /\ IF closing \/ loop[l].pending = {}
            THEN loop'[l] = NoLoop /\ active' = None
            ELSE /\ loop'[l].at = "start" /\ ~loop'[l].stopped /\ ~loop'[l].open
                 /\ loop'[l].batch = loop[l].pending /\ loop'[l].pending = {}
                 /\ active' = active
<1> DEFINE r == loop[l]
<1>r. TypeOK /\ r \in LoopState /\ r.worker = "off" /\ ~r.open /\ r.at = "end"
  BY DEF Base, TypeOK, LoopOK, NextBatch, Advance, Sending, InRun
<1>u. UNCHANGED <<handlerVars, closing, up, answered>>
  BY DEF NextBatch, boxVars
<1>1. CASE closing \/ r.pending = {}
  <2>1. NoLoop \in LoopState /\ NoLoop.worker = "off"
    BY Zenon DEF LoopState, NoLoop
  <2>2. loop' = [loop EXCEPT ![l] = NoLoop] /\ active' = None
    BY <1>1 DEF NextBatch, Advance
  <2> QED
    BY <1>r, <1>u, <1>1, <2>1, <2>2, Replaced DEF Moves
<1>2. CASE ~(closing \/ r.pending = {})
  <2> DEFINE new == [r EXCEPT !.at = "start", !.batch = r.pending, !.pending = {}, !.stopped = FALSE]
  <2>0. r.pending \in SUBSET Prompts
    BY <1>r DEF LoopState
  <2>1. new \in LoopState
    BY <1>r, <2>0, Zenon DEF LoopState
  <2>2. loop' = [loop EXCEPT ![l] = new] /\ active' = active
    BY <1>2 DEF NextBatch, Advance
  <2>3. /\ new.batch = r.pending /\ new.pending = {} /\ ~new.stopped
        /\ ~new.open /\ new.worker = "off" /\ new.at = "start"
    BY <1>r, <2>1 DEF LoopState
  <2> QED
    BY <1>r, <1>u, <1>2, <2>1, <2>2, <2>3, Replaced DEF Moves
<1> QED
  BY <1>1, <1>2

\* A message queued behind the active loop joins its queue only.
LEMMA Queues ==
  ASSUME Base, NEW p \in Prompts, NEW l \in Loops, active = l,
         loop' = [loop EXCEPT ![l].pending = @ \cup {p}]
  PROVE  /\ Moves(l)
         /\ loop'[l].batch = loop[l].batch /\ loop'[l].pending = loop[l].pending \cup {p}
         /\ loop'[l].stopped = loop[l].stopped /\ loop'[l].at = loop[l].at
         /\ loop'[l].open = loop[l].open /\ loop'[l].quiet = loop[l].quiet
<1> DEFINE r == loop[l]
           new == [r EXCEPT !.pending = r.pending \cup {p}]
<1>r. TypeOK /\ r \in LoopState /\ (r.worker # "off" => r.at \in Sending)
  BY DEF Base, TypeOK
<1>0. r.pending \cup {p} \in SUBSET Prompts
  BY <1>r DEF LoopState
<1>1. new \in LoopState
  BY <1>r, <1>0, Zenon DEF LoopState
<1>2. loop' = [loop EXCEPT ![l] = new]
  OBVIOUS
<1>3. /\ new.batch = r.batch /\ new.pending = r.pending \cup {p} /\ new.stopped = r.stopped
      /\ new.open = r.open /\ new.worker = r.worker /\ new.at = r.at /\ new.quiet = r.quiet
  BY <1>r, <1>1 DEF LoopState
<1> QED
  BY <1>r, <1>1, <1>2, <1>3, Replaced DEF Moves

\* A message that finds no loop becomes the batch of a new one.
LEMMA Starts ==
  ASSUME Base, NEW p \in Prompts, StartLoop(p)
  PROVE  \E l \in Loops :
           /\ Moves(l) /\ loop[l].at = "idle" /\ active' = l
           /\ at' = [at EXCEPT ![p] = "done"]
           /\ loop'[l].at = "start" /\ ~loop'[l].stopped /\ ~loop'[l].open
           /\ loop'[l].batch = {p} /\ loop'[l].pending = {}
<1> DEFINE l == CHOOSE m \in Loops : loop[m].at = "idle"
           new == [NoLoop EXCEPT !.at = "start", !.batch = {p}]
<1>1. l \in Loops /\ loop[l].at = "idle"
  BY DEF StartLoop
<1>2. loop' = [loop EXCEPT ![l] = new] /\ active' = l /\ at' = [at EXCEPT ![p] = "done"]
  BY DEF StartLoop
<1>3. new \in LoopState
  <2>1. {p} \in SUBSET Prompts
    OBVIOUS
  <2> QED
    BY <2>1, Zenon DEF LoopState, NoLoop
<1>4. /\ new.at = "start" /\ ~new.stopped /\ ~new.open /\ new.worker = "off"
      /\ new.batch = {p} /\ new.pending = {}
  BY DEF NoLoop
<1> HIDE DEF l, new
<1> QED
  BY <1>1, <1>2, <1>3, <1>4, Replaced DEF Moves, Base

\* A stop takes queue and batch of the active loop, and awaits its open run.
LEMMA StopHits ==
  ASSUME Base, NEW e \in Stops, Stop(e), active # None
  PROVE  \E l \in Loops :
           /\ active = l /\ active' = l /\ Moves(l)
           /\ loop'[l].at = loop[l].at /\ loop'[l].open = loop[l].open /\ loop'[l].quiet = loop[l].quiet
           /\ loop'[l].batch = loop[l].batch /\ loop'[l].pending = {} /\ loop'[l].stopped
           /\ halts' = [halts EXCEPT ![e] = loop[l].pending
                                           \cup (IF loop[l].at = "end" THEN {} ELSE loop[l].batch)]
           /\ target' = [target EXCEPT ![e] = IF loop[l].open THEN l ELSE None]
           /\ at' = [at EXCEPT ![e] = "abort"]
<1> DEFINE l == active
           r == loop[l]
           new == [r EXCEPT !.pending = {}, !.stopped = TRUE, !.cancelled = TRUE]
<1>r. TypeOK /\ l \in Loops /\ r \in LoopState /\ (r.worker # "off" => r.at \in Sending)
  BY DEF Base, TypeOK
<1>1. new \in LoopState
  BY <1>r, Zenon DEF LoopState
<1>2. loop' = [loop EXCEPT ![l] = new]
  BY <1>r DEF Stop, Base, TypeOK
<1>3. /\ new.batch = r.batch /\ new.pending = {} /\ new.stopped /\ new.quiet = r.quiet
      /\ new.open = r.open /\ new.worker = r.worker /\ new.at = r.at
  BY <1>r, <1>1 DEF LoopState
<1>4. /\ active' = l
      /\ halts' = [halts EXCEPT ![e] = r.pending \cup (IF r.at = "end" THEN {} ELSE r.batch)]
      /\ target' = [target EXCEPT ![e] = IF r.open THEN l ELSE None]
      /\ at' = [at EXCEPT ![e] = "abort"]
  BY DEF Stop
<1>5. /\ Moves(l) /\ loop'[l] = new
  BY <1>r, <1>1, <1>2, <1>3, Replaced DEF Moves
<1> QED
  BY <1>r, <1>3, <1>4, <1>5

-----------------------------------------------------------------------------
(* Record, slot and box *)

\* The records of the store.
Records == [known : BOOLEAN, running : BOOLEAN]

\* The part of the type invariant that no loop and no handler enters.
Rest ==
    /\ rec \in Records
    /\ slot \in {"free", "linear", "draining", "client"}
    /\ barrier \subseteq Stops
    /\ crashes \in 0..MaxCrashes
    /\ note \in {"none", "posting"}
    /\ closing \in BOOLEAN /\ up \in BOOLEAN /\ cut \in BOOLEAN

\* setRunning leaves a record, whether or not it is written.
LEMMA SetRunningTyped ==
  ASSUME rec \in Records, NEW b \in BOOLEAN, SetRunning(b)
  PROVE  rec' \in Records
  BY DEF SetRunning, Records

\* No step breaks the types of record, slot, barrier and box.
LEMMA RestTyped ==
  ASSUME Base, [Next]_vars
  PROVE  Rest'
<1> USE LinearAssumption
<1> Rest
  BY DEF Base, TypeOK, Rest, Records
<1>r. rec \in Records /\ NoRecord \in Records /\ [known |-> TRUE, running |-> FALSE] \in Records
  BY DEF Rest, Records, NoRecord
<1>1. CASE \E p \in Prompts : Receive(p) \/ PromptStep(p)
  BY <1>1 DEF Rest, Receive, PromptStep, Acknowledged, Enqueue, StartLoop, Noted, piVars, boxVars
<1>2. CASE \E e \in Stops : Stop(e) \/ StopStep(e) \/ StopTimesOut(e) \/ BarrierLifts(e)
  BY <1>2 DEF Rest, Stop, StopStep, BarrierLifts, AbortPi, AbortReturns, Confirm, StopTimesOut, Confirmed, piVars, boxVars
<1>3. CASE \E l \in Loops : LoopStep(l) \/ SendSettles(l) \/ RunTimesOut(l) \/ Progress(l) \/ ProgressPosted(l)
  <2> PICK l \in Loops : LoopStep(l) \/ SendSettles(l) \/ RunTimesOut(l) \/ Progress(l) \/ ProgressPosted(l)
    BY <1>3
  <2>1. CASE EarlyStep(l)
    <3>1. UNCHANGED <<closing, up, crashes, note>>
      BY <2>1 DEF EarlyStep, EnsureKnown, EnsureCreates, EnsureFails, Mark, SendStarts, SendRefused,
                  SendCancelled, SendSettles, SendReturns, CloseReport, Progress, ProgressPosted, LoopOnly, boxVars
    <3>2. cut' = cut \/ cut' = (cut \/ (closing /\ loop[l].marked))
      BY <2>1, Zenon DEF EarlyStep, EnsureKnown, EnsureCreates, EnsureFails, Mark, SendStarts, SendRefused,
                  SendCancelled, SendSettles, SendReturns, CloseReport, Progress, ProgressPosted, LoopOnly, boxVars
    <3>3. slot' \in {"free", "linear", "draining", "client"} /\ barrier' = barrier
      BY <2>1 DEF Rest, EarlyStep, EnsureKnown, EnsureCreates, EnsureFails, Mark, SendStarts, SendRefused,
                  SendCancelled, SendSettles, CloseReport, Progress, ProgressPosted, piVars
    <3>4. rec' = rec \/ rec' = [known |-> TRUE, running |-> FALSE] \/ SetRunning(TRUE)
      BY <2>1 DEF EarlyStep, EnsureKnown, EnsureCreates, EnsureFails, Mark, SendStarts, SendRefused,
                  SendCancelled, SendSettles, CloseReport, Progress, ProgressPosted
    <3>5. rec' \in Records
      <4>1. CASE SetRunning(TRUE)
        BY <1>r, <4>1, SetRunningTyped
      <4>2. CASE rec' = rec \/ rec' = [known |-> TRUE, running |-> FALSE]
        BY <1>r, <4>2, Zenon
      <4> QED
        BY <3>4, <4>1, <4>2
    <3> QED
      BY <3>1, <3>2, <3>3, <3>5 DEF Rest
  <2>2. CASE Begin(l) \/ RunTimesOut(l) \/ EndRun(l) \/ NextBatch(l)
    <3>1. UNCHANGED <<boxVars, piVars>>
      BY <2>2 DEF EndRun, Begin, RunTimesOut, Finish, Unmark, Forget, FinalPosted, CloseRun, NextBatch,
                  LoopOnly
    <3>2. rec' = rec \/ rec' = NoRecord \/ SetRunning(FALSE)
      BY <2>2 DEF EndRun, Begin, RunTimesOut, Finish, Unmark, Forget, FinalPosted, CloseRun, NextBatch
    <3>3. rec' \in Records
      <4>1. CASE SetRunning(FALSE)
        BY <1>r, <4>1, SetRunningTyped
      <4>2. CASE rec' = rec \/ rec' = NoRecord
        BY <1>r, <4>2, Zenon
      <4> QED
        BY <3>2, <4>1, <4>2
    <3> QED
      BY <3>1, <3>3 DEF Rest, piVars, boxVars
  <2> QED
    BY <2>1, <2>2 DEF LoopStep, EarlyStep
<1>4. CASE SlotDrains \/ ClientSends \/ ClientSettles \/ Close \/ NoticePosted
  BY <1>4 DEF Rest, SlotDrains, ClientSends, ClientSettles, Close, NoticePosted, piVars, boxVars
<1>6. CASE Crash
  <2>1. crashes' \in 0..MaxCrashes
    BY <1>6 DEF Rest, Crash
  <2>2. cut' \in BOOLEAN
    BY <1>6 DEF Rest, Crash
  <2> QED
  BY <1>6, <2>1, <2>2 DEF Rest, Crash
<1>7. CASE Restart
  BY <1>7, SetRunningTyped DEF Rest, Restart, piVars
<1>5. CASE UNCHANGED vars
  BY <1>5 DEF Rest, vars, piVars, boxVars
<1> QED
  BY <1>1, <1>2, <1>3, <1>4, <1>5, <1>6, <1>7 DEF Next

-----------------------------------------------------------------------------
(* The first layer is inductive *)

\* The part that handlers enter.
Shape ==
    /\ at \in [Events -> HandlerPoints]
    /\ halts \in [Stops -> SUBSET Prompts] /\ target \in [Stops -> Loops \cup {None}]
    /\ active \in Loops \cup {None}
    /\ answered \subseteq Prompts

\* The part that loops enter.
LoopShape ==
    /\ loop \in [Loops -> LoopState]
    /\ \A l \in Loops : loop[l].worker # "off" => loop[l].at \in Sending
    /\ OneAtATime
    /\ \A l \in Loops : LoopOK(l)

\* The first layer is the conjunction of its three parts.
LEMMA BaseParts == Base <=> Shape /\ LoopShape /\ Rest
  BY DEF Base, TypeOK, Shape, LoopShape, Rest, Records

\* A step of a loop that goes on keeps the shape of the loops.
LEMMA GoesOn ==
  ASSUME Base, NEW l \in Loops, Moves(l), active' = active,
         loop[l].at # "idle", loop'[l].at # "idle", loop'[l].open <=> loop'[l].at \in InRun
  PROVE  LoopShape'
  BY DEF Base, TypeOK, LoopShape, Moves, OneAtATime, LoopOK

\* So does one that leaves the loops alone.
LEMMA LoopIdle ==
  ASSUME Base, UNCHANGED loopVars
  PROVE  LoopShape'
  BY DEF Base, TypeOK, LoopShape, OneAtATime, LoopOK, loopVars

\* Every step keeps the types of the handlers.
LEMMA NextShape == Base /\ [Next]_vars => Shape'
<1> USE LinearAssumption DEF Shape
<1> SUFFICES ASSUME Base, [Next]_vars PROVE Shape'
  OBVIOUS
<1>s. Shape
  BY BaseParts
<1>1. ASSUME NEW p \in Prompts, Receive(p) \/ Acknowledged(p) \/ Noted(p)
      PROVE  Shape'
  BY <1>s, <1>1 DEF Receive, Acknowledged, Noted, HandlerPoints, Events, loopVars
<1>2. ASSUME NEW p \in Prompts, Enqueue(p) PROVE Shape'
  <2>1. /\ at' = [at EXCEPT ![p] = "lost"] \/ at' = [at EXCEPT ![p] = "done"] \/ at' = [at EXCEPT ![p] = "noting"]
        /\ UNCHANGED <<halts, target, answered>>
    BY <1>2 DEF Enqueue, StartLoop
  <2>2. active' \in Loops \cup {None}
    <3>1. CASE StartLoop(p)
      BY <3>1, Starts
    <3>2. CASE active' = active
      BY <1>s, <3>2
    <3> QED
      BY <1>2, <3>1, <3>2 DEF Enqueue
  <2> QED
    BY <1>s, <2>1, <2>2 DEF HandlerPoints, Events
<1>3. ASSUME NEW e \in Stops, Stop(e) PROVE Shape'
  <2>1. CASE active = None
    BY <1>s, <1>3, <2>1 DEF Stop, HandlerPoints, Events
  <2>2. CASE active # None
    <3>1. PICK l \in Loops :
           /\ active' = l /\ at' = [at EXCEPT ![e] = "abort"]
           /\ halts' = [halts EXCEPT ![e] = loop[l].pending
                                           \cup (IF loop[l].at = "end" THEN {} ELSE loop[l].batch)]
           /\ target' = [target EXCEPT ![e] = IF loop[l].open THEN l ELSE None]
      BY <1>3, <2>2, StopHits
    <3>2. loop[l].pending \subseteq Prompts /\ loop[l].batch \subseteq Prompts
      BY DEF Base, TypeOK, LoopState
    <3>3. UNCHANGED answered
      BY <1>3 DEF Stop
    <3> QED
      BY <1>s, <3>1, <3>2, <3>3 DEF HandlerPoints, Events
  <2> QED
    BY <2>1, <2>2
<1>4. ASSUME NEW e \in Stops, StopStep(e) \/ StopTimesOut(e) \/ BarrierLifts(e) PROVE Shape'
  BY <1>s, <1>4 DEF StopStep, AbortPi, AbortReturns, Confirm, StopTimesOut, Confirmed, BarrierLifts, HandlerPoints,
                    Events, handlerVars, loopVars
<1>5. ASSUME NEW l \in Loops, EarlyStep(l) \/ Begin(l) \/ RunTimesOut(l) \/ Finish(l) \/ Forget(l) \/ FinalPosted(l)
      PROVE  Shape'
  <2>1. RunOnly /\ UNCHANGED answered
    BY <1>5, Earlies, Begins, TimesOut, Finishes, Forgets, Posts DEF Advances
  <2> QED
    BY <1>s, <2>1 DEF RunOnly, handlerVars
<1>6. ASSUME NEW l \in Loops, Unmark(l) PROVE Shape'
  <2>1. loop[l].batch \subseteq Prompts
    BY DEF Base, TypeOK, LoopState
  <2> QED
    BY <1>s, <1>6, <2>1, Unmarks DEF RunOnly, handlerVars
<1>7. ASSUME NEW l \in Loops, CloseRun(l) PROVE Shape'
  BY <1>s, <1>7, Closes
<1>8. ASSUME NEW l \in Loops, NextBatch(l) PROVE Shape'
  BY <1>s, <1>8, Continues DEF handlerVars
<1>9. CASE Crash
  <2>1. /\ at' = [e \in Events |-> IF at[e] = "away" THEN "away" ELSE "lost"]
        /\ active' = None /\ halts' = [e \in Stops |-> {}] /\ target' = [e \in Stops |-> None]
        /\ answered' = {}
    BY <1>9 DEF Crash
  <2> QED
    BY <2>1 DEF HandlerPoints
<1>10. CASE SlotDrains \/ ClientSends \/ ClientSettles \/ Close \/ NoticePosted \/ Restart \/ UNCHANGED vars
  BY <1>s, <1>10 DEF SlotDrains, ClientSends, ClientSettles, Close, NoticePosted, Restart, vars, handlerVars, loopVars
<1> QED
  BY <1>1, <1>2, <1>3, <1>4, <1>5, <1>6, <1>7, <1>8, <1>9, <1>10
     DEF Next, PromptStep, LoopStep, EndRun, EarlyStep

\* Every step keeps one loop goroutine, named by active.
LEMMA NextLoops == Base /\ [Next]_vars => LoopShape'
<1> USE LinearAssumption
<1> SUFFICES ASSUME Base, [Next]_vars PROVE LoopShape'
  OBVIOUS
<1>1. ASSUME NEW p \in Prompts, Receive(p) \/ Acknowledged(p) \/ Noted(p)
      PROVE  LoopShape'
  BY <1>1, LoopIdle DEF Receive, Acknowledged, Noted
<1>2. ASSUME NEW p \in Prompts, Enqueue(p) PROVE LoopShape'
  <2>1. CASE closing
    BY <1>2, <2>1, LoopIdle DEF Enqueue, loopVars
  <2>2. CASE ~closing /\ active # None
    <3>1. active \in Loops /\ active' = active /\ loop' = [loop EXCEPT ![active].pending = @ \cup {p}]
      BY <1>2, <2>2 DEF Enqueue, Base, TypeOK
    <3>2. loop[active].at # "idle" /\ (loop[active].open <=> loop[active].at \in InRun)
      BY <3>1 DEF Base, OneAtATime, LoopOK
    <3> QED
      BY <3>1, <3>2, Queues, GoesOn
  <2>3. CASE ~closing /\ active = None
    <3>1. PICK l \in Loops :
           /\ Moves(l) /\ loop[l].at = "idle" /\ active' = l
           /\ loop'[l].at = "start" /\ ~loop'[l].open
      BY <1>2, <2>3, Starts DEF Enqueue
    <3>2. \A m \in Loops : loop[m].at = "idle"
      BY <2>3 DEF Base, OneAtATime
    <3> QED
      BY <3>1, <3>2 DEF Base, TypeOK, LoopShape, Moves, OneAtATime, LoopOK, InRun, Sending
  <2> QED
    BY <1>2, <2>1, <2>2, <2>3 DEF Enqueue
<1>3. ASSUME NEW e \in Stops, Stop(e) PROVE LoopShape'
  <2>1. CASE active = None
    BY <1>3, <2>1, LoopIdle DEF Stop, loopVars
  <2>2. CASE active # None
    <3>1. PICK l \in Loops :
           /\ active = l /\ active' = l /\ Moves(l)
           /\ loop'[l].at = loop[l].at /\ loop'[l].open = loop[l].open
      BY <1>3, <2>2, StopHits
    <3>2. loop[l].at # "idle" /\ (loop[l].open <=> loop[l].at \in InRun)
      BY <3>1 DEF Base, OneAtATime, LoopOK
    <3> QED
      BY <3>1, <3>2, GoesOn
  <2> QED
    BY <2>1, <2>2
<1>4. ASSUME NEW e \in Stops, StopStep(e) \/ StopTimesOut(e) \/ BarrierLifts(e) PROVE LoopShape'
  BY <1>4, LoopIdle DEF StopStep, AbortPi, AbortReturns, Confirm, StopTimesOut, Confirmed, BarrierLifts
<1>5. ASSUME NEW l \in Loops PROVE loop[l].open <=> loop[l].at \in InRun
  BY DEF Base, LoopOK
<1>6. ASSUME NEW l \in Loops, EarlyStep(l) PROVE LoopShape'
  BY <1>5, <1>6, Earlies, GoesOn DEF Advances, RunOnly, Early, InRun, Sending
<1>7. ASSUME NEW l \in Loops, Begin(l) PROVE LoopShape'
  BY <1>7, Begins, GoesOn DEF RunOnly, InRun, Sending
<1>8. ASSUME NEW l \in Loops, RunTimesOut(l) PROVE LoopShape'
  BY <1>5, <1>8, TimesOut, GoesOn DEF RunOnly, InRun, Sending
<1>9. ASSUME NEW l \in Loops, Finish(l) \/ Unmark(l) \/ Forget(l) \/ FinalPosted(l) PROVE LoopShape'
  <2>1. /\ Moves(l) /\ active' = active /\ loop'[l].open = loop[l].open
        /\ loop[l].at \in InRun /\ loop'[l].at \in InRun
    BY <1>9, Finishes, Unmarks, Forgets, Posts DEF RunOnly, InRun
  <2> QED
    BY <1>5, <2>1, GoesOn DEF InRun, Sending
<1>10. ASSUME NEW l \in Loops, CloseRun(l) PROVE LoopShape'
  BY <1>10, Closes, GoesOn DEF InRun, Sending
<1>11. ASSUME NEW l \in Loops, NextBatch(l) PROVE LoopShape'
  <2>1. CASE closing \/ loop[l].pending = {}
    <3>1. Moves(l) /\ loop[l].at = "end" /\ loop'[l] = NoLoop /\ active' = None
      BY <1>11, <2>1, Continues
    <3>2. \A m \in Loops \ {l} : loop[m].at = "idle"
      BY <3>1 DEF Base, OneAtATime
    <3> QED
      BY <3>1, <3>2 DEF Base, TypeOK, LoopShape, Moves, OneAtATime, LoopOK, NoLoop, InRun, Sending
  <2>2. CASE ~(closing \/ loop[l].pending = {})
    BY <1>11, <2>2, Continues, GoesOn DEF InRun, Sending
  <2> QED
    BY <2>1, <2>2
<1>12. CASE Crash
  <2>1. loop' = [l \in Loops |-> NoLoop] /\ active' = None
    BY <1>12 DEF Crash
  <2>2. NoLoop \in LoopState /\ NoLoop.at = "idle" /\ NoLoop.worker = "off" /\ ~NoLoop.open
    BY Zenon DEF LoopState, NoLoop
  <2> QED
    BY <2>1, <2>2 DEF LoopShape, OneAtATime, LoopOK, InRun, Sending
<1>13. CASE SlotDrains \/ ClientSends \/ ClientSettles \/ Close \/ NoticePosted \/ Restart \/ UNCHANGED vars
  BY <1>13, LoopIdle DEF SlotDrains, ClientSends, ClientSettles, Close, NoticePosted, Restart, vars
<1> QED
  BY <1>1, <1>2, <1>3, <1>4, <1>6, <1>7, <1>8, <1>9, <1>10, <1>11, <1>12, <1>13
     DEF Next, PromptStep, LoopStep, EndRun, EarlyStep

\* The first layer is inductive.
LEMMA NextBase == Base /\ [Next]_vars => Base'
  <1> SUFFICES ASSUME Base, [Next]_vars PROVE Base'
    OBVIOUS
  <1>1. Shape' /\ LoopShape' /\ Rest'
    BY NextShape, NextLoops, RestTyped
  <1> QED
    BY <1>1 DEF Base, TypeOK, Shape, LoopShape, Rest, Records

\* It holds at first.
LEMMA InitBase == Init => Base
  <1>1. NoLoop \in LoopState /\ NoLoop.at = "idle" /\ NoLoop.worker = "off" /\ ~NoLoop.open
    BY Zenon DEF LoopState, NoLoop
  <1> SUFFICES ASSUME Init PROVE Base
    OBVIOUS
  <1>2. LoopShape
    BY <1>1, LinearAssumption DEF Init, LoopShape, OneAtATime, LoopOK, InRun, Sending
  <1>3. Shape
    BY DEF Init, Shape, HandlerPoints
  <1>4. Rest
    <2>1. rec \in Records
      BY DEF Init, Records, NoRecord
    <2>2. crashes \in 0..MaxCrashes
      BY LinearAssumption DEF Init
    <2> QED
      BY <2>1, <2>2 DEF Init, Rest
  <1> QED
    BY <1>2, <1>3, <1>4, BaseParts

-----------------------------------------------------------------------------
(* Halting and the account of prompts *)

\* Points of a message handler whose prompt the runner took.
Taken == {"noting", "done"}

\* The second layer: what was halted is not queued again, is not begun, and is run
\* only by the loop that the stop waits for.
Halting ==
    /\ \A e \in Stops : at[e] = "away" => halts[e] = {} /\ target[e] = None
    /\ \A p \in Halted : at[p] \in Taken
    /\ \A l \in Loops :
        /\ \A p \in loop[l].batch \cup loop[l].pending : at[p] \in Taken
        /\ loop[l].pending \cap Halted = {}
        /\ loop[l].at = "start" /\ ~loop[l].stopped => loop[l].batch \cap Halted = {}
        /\ \A e \in Stops :
            loop[l].at \in InRun /\ loop[l].batch \cap halts[e] # {} => target[e] = l

\* The third layer, per loop: where the prompts of its batch went.
LoopAccount(l) ==
        /\ loop[l].at \notin {"idle", "end"} /\ loop[l].stopped => loop[l].batch \subseteq Halted
        /\ loop[l].at = "unmark" /\ loop[l].quiet => loop[l].batch \subseteq Halted
        /\ loop[l].at \in {"forget", "final"} => loop[l].batch \subseteq answered
        /\ loop[l].at \in {"close", "end"} /\ ~closing => loop[l].batch \subseteq answered \cup Halted

\* The third layer: every prompt taken is in its place.
Accounted ==
    /\ \A l \in Loops : LoopAccount(l)
    /\ ~up => \A p \in Prompts : at[p] \notin Taken
    /\ PromptAccounted

\* The fourth layer: a stop that did not time out posts Stopped with no run awaited.
Waited == \A e \in Stops : at[e] \in {"confirm", "done"} => target[e] = None

\* A step of a handler or of the box that leaves loops, queues and what was halted.
Still ==
    /\ UNCHANGED <<halts, target, loopVars, answered>>
    /\ \A p \in Prompts : at'[p] \in Taken <=> at[p] \in Taken
    /\ \A e \in Stops : at'[e] = "away" => at[e] = "away"
    /\ (closing => closing') /\ (up => up') /\ (~up => at' = at)

\* A step of loop l inside a run.
Runs(l) ==
    /\ Moves(l) /\ KeepsBatch(l) /\ RunOnly
    /\ loop[l].at \in InRun /\ loop'[l].at \in InRun

\* The actions that are such steps.
RunStep(l) ==
    EarlyStep(l) \/ RunTimesOut(l) \/ Finish(l) \/ Unmark(l) \/ Forget(l) \/ FinalPosted(l)

\* Only prompts are halted.
LEMMA HaltedTyped ==
  ASSUME Base
  PROVE  Halted \subseteq Prompts
  BY DEF Base, TypeOK, Halted

\* The fields of a loop, one by one.
LEMMA LoopTyped ==
  ASSUME Base, NEW l \in Loops
  PROVE  /\ loop[l].batch \subseteq Prompts /\ loop[l].pending \subseteq Prompts
         /\ loop[l].stopped \in BOOLEAN /\ loop[l].quiet \in BOOLEAN
         /\ loop[l].at \in {"idle", "start", "end"} \cup InRun
  <1>1. loop[l] \in LoopState
    BY DEF Base, TypeOK
  <1>2. loop[l].stopped \in BOOLEAN /\ loop[l].quiet \in BOOLEAN
    BY <1>1, Zenon DEF LoopState
  <1> QED
    BY <1>1, <1>2 DEF LoopState

\* Handlers and the box leave the second layer.
LEMMA HaltingStill ==
  ASSUME Base, Halting, Still
  PROVE  Halting'
  <1>1. Halted' = Halted /\ Halted \subseteq Prompts
    BY HaltedTyped DEF Still, Halted
  <1>2. \A l \in Loops : loop[l].batch \subseteq Prompts /\ loop[l].pending \subseteq Prompts
    BY LoopTyped
  <1> QED
    BY <1>1, <1>2 DEF Halting, Still, loopVars

\* A run leaves it: no prompt joins its batch.
LEMMA HaltingRuns ==
  ASSUME Base, Halting, NEW l \in Loops, Runs(l)
  PROVE  Halting'
  <1>1. UNCHANGED <<at, halts, target>> /\ Halted' = Halted
    BY DEF Runs, RunOnly, handlerVars, Halted
  <1>2. \A m \in Loops \ {l} : loop'[m] = loop[m]
    BY DEF Runs, Moves
  <1>3. /\ loop'[l].batch = loop[l].batch /\ loop'[l].pending = loop[l].pending
        /\ loop[l].at \in InRun /\ loop'[l].at # "start"
    BY DEF Runs, KeepsBatch, InRun, Sending
  <1> QED
    BY <1>1, <1>2, <1>3 DEF Halting

\* A loop that begins a run was not stopped, so nothing of its batch is halted.
LEMMA HaltingBegin ==
  ASSUME Base, Halting, NEW l \in Loops, Begin(l)
  PROVE  Halting'
  <1>1. UNCHANGED <<at, halts, target>> /\ Halted' = Halted
    BY Begins DEF RunOnly, handlerVars, Halted
  <1>2. \A m \in Loops \ {l} : loop'[m] = loop[m]
    BY Begins DEF Moves
  <1>3. /\ loop'[l].batch = loop[l].batch /\ loop'[l].pending = loop[l].pending
        /\ loop'[l].at \in InRun => ~loop[l].stopped
        /\ loop[l].at = "start" /\ loop'[l].at # "start"
    BY Begins DEF KeepsBatch, InRun, Sending
  <1>4. loop'[l].at \in InRun => loop[l].batch \cap Halted = {}
    BY <1>3 DEF Halting
  <1>5. \A e \in Stops : loop'[l].at \in InRun => loop[l].batch \cap halts[e] = {}
    BY <1>4 DEF Halted
  <1> QED
    BY <1>1, <1>2, <1>3, <1>5 DEF Halting

\* A stop is released only when the run it awaited has ended.
LEMMA HaltingClose ==
  ASSUME Base, Halting, NEW l \in Loops, CloseRun(l)
  PROVE  Halting'
  <1>1. UNCHANGED <<at, halts>> /\ Halted' = Halted
    BY Closes DEF Halted
  <1>2. \A m \in Loops \ {l} : loop'[m] = loop[m] /\ loop[m].at \notin InRun
    <2>1. active = l
      BY Closes DEF Base, OneAtATime
    <2> QED
      BY <2>1, Closes DEF Base, OneAtATime, Moves, InRun, Sending
  <1>3. /\ loop'[l].batch = loop[l].batch /\ loop'[l].pending = loop[l].pending
        /\ loop'[l].at \notin InRun /\ loop'[l].at # "start"
    BY Closes DEF KeepsBatch, InRun, Sending
  <1>4. \A e \in Stops : target[e] = None => target'[e] = None
    BY Closes
  <1> QED
    BY <1>1, <1>2, <1>3, <1>4 DEF Halting

\* The queue becomes a batch; nothing of it was halted.
LEMMA HaltingNext ==
  ASSUME Base, Halting, NEW l \in Loops, NextBatch(l)
  PROVE  Halting'
  <1>1. UNCHANGED <<at, halts, target>> /\ Halted' = Halted
    BY Continues DEF handlerVars, Halted
  <1>2. \A m \in Loops \ {l} : loop'[m] = loop[m]
    BY Continues DEF Moves
  <1>3. /\ loop'[l].at \notin InRun /\ loop'[l].pending = {}
        /\ loop'[l].batch \in {{}, loop[l].pending}
    BY Continues DEF NoLoop, InRun, Sending
  <1> QED
    BY <1>1, <1>2, <1>3 DEF Halting

\* A stop halts the queue it empties and a batch whose end it awaits.
LEMMA HaltingStop ==
  ASSUME Base, Halting, NEW e \in Stops, Stop(e), active # None
  PROVE  Halting'
  <1>1. PICK l \in Loops :
           /\ active = l /\ active' = l /\ Moves(l)
           /\ loop'[l].at = loop[l].at /\ loop'[l].open = loop[l].open
           /\ loop'[l].batch = loop[l].batch /\ loop'[l].pending = {} /\ loop'[l].stopped
           /\ halts' = [halts EXCEPT ![e] = loop[l].pending
                                           \cup (IF loop[l].at = "end" THEN {} ELSE loop[l].batch)]
           /\ target' = [target EXCEPT ![e] = IF loop[l].open THEN l ELSE None]
           /\ at' = [at EXCEPT ![e] = "abort"]
    BY StopHits
  <1> DEFINE H == loop[l].pending \cup (IF loop[l].at = "end" THEN {} ELSE loop[l].batch)
  <1>2. at[e] = "away" /\ halts[e] = {}
    BY DEF Stop, Halting
  <1>3. halts'[e] = H /\ \A d \in Stops \ {e} : halts'[d] = halts[d] /\ target'[d] = target[d]
    BY <1>1 DEF Base, TypeOK
  <1>4. Halted' = Halted \cup H
    <2>1. \A x : (\E d \in Stops : x \in halts'[d]) <=> (\E d \in Stops : x \in halts[d]) \/ x \in H
      BY <1>2, <1>3
    <2> QED
      BY <2>1 DEF Halted
  <1>5. \A p \in Prompts : at'[p] = at[p]
    BY <1>1, LinearAssumption DEF Base, TypeOK, Events, Prompts
  <1>6. at'[e] = "abort" /\ target'[e] = (IF loop[l].open THEN l ELSE None)
        /\ \A d \in Stops \ {e} : at'[d] = at[d]
    BY <1>1 DEF Base, TypeOK, Events
  <1>7. loop[l].open <=> loop[l].at \in InRun
    BY DEF Base, LoopOK
  <1>8. \A m \in Loops \ {l} : loop'[m] = loop[m] /\ loop[m] = NoLoop
    BY <1>1 DEF Moves, Base, OneAtATime, LoopOK
  <1>9. Halted \subseteq Prompts /\ loop[l].batch \subseteq Prompts /\ loop[l].pending \subseteq Prompts
    BY HaltedTyped, LoopTyped
  <1>a. \A p \in Halted' : at'[p] \in Taken
    BY <1>4, <1>5, <1>9 DEF Halting
  <1>b. ASSUME NEW m \in Loops
        PROVE  /\ \A p \in loop'[m].batch \cup loop'[m].pending : at'[p] \in Taken
               /\ loop'[m].pending \cap Halted' = {}
               /\ loop'[m].at = "start" /\ ~loop'[m].stopped => loop'[m].batch \cap Halted' = {}
               /\ \A d \in Stops :
                    loop'[m].at \in InRun /\ loop'[m].batch \cap halts'[d] # {} => target'[d] = m
    <2>1. CASE m = l
      BY <1>1, <1>3, <1>5, <1>6, <1>7, <1>9, <2>1 DEF Halting
    <2>2. CASE m # l
      BY <1>8, <2>2 DEF NoLoop, InRun, Sending
    <2> QED
      BY <2>1, <2>2
  <1>c. \A d \in Stops : at'[d] = "away" => halts'[d] = {} /\ target'[d] = None
    BY <1>3, <1>6 DEF Halting
  <1> QED
    BY <1>a, <1>b, <1>c DEF Halting

\* A message that is queued or run was never halted.
LEMMA HaltingEnqueue ==
  ASSUME Base, Halting, NEW p \in Prompts, Enqueue(p), ~closing
  PROVE  Halting'
  <1>1. at[p] = "ready" /\ UNCHANGED <<halts, target>> /\ Halted' = Halted
    BY DEF Enqueue, Halted
  <1>2. p \notin Halted
    BY <1>1 DEF Halting, Taken
  <1>3. at' = [at EXCEPT ![p] = "done"] \/ at' = [at EXCEPT ![p] = "noting"]
    BY DEF Enqueue, StartLoop
  <1>4. /\ \A q \in Prompts : at[q] \in Taken => at'[q] \in Taken
        /\ at'[p] \in Taken
        /\ \A e \in Stops : at'[e] = at[e]
    BY <1>3, LinearAssumption DEF Base, TypeOK, Taken, Events, Prompts
  <1>5. \E l \in Loops :
          /\ \A m \in Loops \ {l} : loop'[m] = loop[m]
          /\ \/ /\ loop'[l].batch = loop[l].batch /\ loop'[l].pending = loop[l].pending \cup {p}
                /\ loop'[l].stopped = loop[l].stopped /\ loop'[l].at = loop[l].at
             \/ loop'[l].batch = {p} /\ loop'[l].pending = {} /\ loop'[l].at = "start"
    <2>1. CASE active # None
      <3>1. active \in Loops /\ loop' = [loop EXCEPT ![active].pending = @ \cup {p}]
        BY <2>1 DEF Enqueue, Base, TypeOK
      <3> QED
        BY <3>1, Queues DEF Moves
    <2>2. CASE active = None
      BY <2>2, Starts DEF Enqueue, Moves
    <2> QED
      BY <2>1, <2>2
  <1>6. PICK l \in Loops :
          /\ \A m \in Loops \ {l} : loop'[m] = loop[m]
          /\ \/ /\ loop'[l].batch = loop[l].batch /\ loop'[l].pending = loop[l].pending \cup {p}
                /\ loop'[l].stopped = loop[l].stopped /\ loop'[l].at = loop[l].at
             \/ loop'[l].batch = {p} /\ loop'[l].pending = {} /\ loop'[l].at = "start"
    BY <1>5
  <1>7. Halted \subseteq Prompts /\ \A m \in Loops : loop[m].batch \subseteq Prompts /\ loop[m].pending \subseteq Prompts
    BY HaltedTyped, LoopTyped
  <1>8. "start" \notin InRun
    BY DEF InRun, Sending
  <1>a. (\A q \in Halted' : at'[q] \in Taken) /\ (\A e \in Stops : at'[e] = "away" => halts'[e] = {} /\ target'[e] = None)
    BY <1>1, <1>4, <1>7 DEF Halting
  <1>b. ASSUME NEW m \in Loops
        PROVE  /\ \A q \in loop'[m].batch \cup loop'[m].pending : at'[q] \in Taken
               /\ loop'[m].pending \cap Halted' = {}
               /\ loop'[m].at = "start" /\ ~loop'[m].stopped => loop'[m].batch \cap Halted' = {}
               /\ \A d \in Stops :
                    loop'[m].at \in InRun /\ loop'[m].batch \cap halts'[d] # {} => target'[d] = m
    BY <1>1, <1>2, <1>4, <1>6, <1>7, <1>8 DEF Halting
  <1> QED
    BY <1>a, <1>b DEF Halting

\* After a crash nothing is left.
LEMMA HaltingCrash ==
  ASSUME Base, Crash
  PROVE  Halting'
  <1>1. /\ at' = [e \in Events |-> IF at[e] = "away" THEN "away" ELSE "lost"]
        /\ loop' = [l \in Loops |-> NoLoop]
        /\ halts' = [e \in Stops |-> {}] /\ target' = [e \in Stops |-> None]
    BY DEF Crash
  <1>2. Halted' = {}
    BY <1>1 DEF Halted
  <1> QED
    BY <1>1, <1>2 DEF Halting, NoLoop, InRun, Sending

\* Every step is of one of six kinds.
LEMMA Kinds ==
  ASSUME Base, [Next]_vars
  PROVE  \/ Still
         \/ /\ up
            /\ \/ \E l \in Loops : RunStep(l) \/ Begin(l) \/ CloseRun(l) \/ NextBatch(l)
               \/ \E e \in Stops : Stop(e) /\ active # None
               \/ \E p \in Prompts : Enqueue(p) /\ ~closing
         \/ Crash
  <1> USE LinearAssumption
  <1>1. ASSUME up, NEW p \in Prompts,
               Receive(p) \/ Acknowledged(p) \/ Noted(p) \/ (Enqueue(p) /\ closing)
        PROVE  Still
    <2>1. /\ UNCHANGED <<halts, target, loopVars, answered, closing, up>>
          /\ \/ at[p] \notin Taken
                 /\ \E s \in {"acking", "ready", "lost"} : at' = [at EXCEPT ![p] = s]
             \/ at[p] = "noting" /\ at' = [at EXCEPT ![p] = "done"]
      BY <1>1 DEF Receive, Acknowledged, Noted, Enqueue, Taken, loopVars, boxVars
    <2> QED
      BY <1>1, <2>1 DEF Still, Taken, Base, TypeOK, Events, Prompts
  <1>2. ASSUME up, NEW e \in Stops, StopStep(e) \/ StopTimesOut(e) \/ BarrierLifts(e) \/ (Stop(e) /\ active = None)
        PROVE  Still
    <2>1. /\ UNCHANGED <<halts, target, loopVars, answered, closing, up>>
          /\ at' = at \/ \E s \in {"abort", "aborting", "wait", "confirm", "confirmLate", "done", "doneLate"} : at' = [at EXCEPT ![e] = s]
      BY <1>2 DEF StopStep, BarrierLifts, Stop, AbortPi, AbortReturns, Confirm, StopTimesOut, Confirmed, handlerVars,
                  loopVars, boxVars
    <2> QED
      BY <1>2, <2>1 DEF Still, Base, TypeOK, Events, Prompts
  <1>3. CASE SlotDrains \/ ClientSends \/ ClientSettles \/ Close \/ NoticePosted \/ Restart \/ UNCHANGED vars
    BY <1>3 DEF Still, SlotDrains, ClientSends, ClientSettles, Close, NoticePosted, Restart, vars,
                handlerVars, boxVars
  <1> QED
    BY <1>1, <1>2, <1>3 DEF Next, PromptStep, LoopStep, EndRun, EarlyStep, RunStep

\* The steps of a run stay inside it.
LEMMA RunsOn ==
  ASSUME Base, NEW l \in Loops, RunStep(l)
  PROVE  Runs(l)
  <1>1. CASE EarlyStep(l)
    BY <1>1, Earlies DEF Advances, Runs, Early, InRun, Sending
  <1>2. CASE RunTimesOut(l)
    BY <1>2, TimesOut DEF Base, LoopOK, Runs
  <1>3. CASE Finish(l) \/ Unmark(l) \/ Forget(l) \/ FinalPosted(l)
    BY <1>3, Finishes, Unmarks, Forgets, Posts DEF Runs, InRun
  <1> QED
    BY <1>1, <1>2, <1>3 DEF RunStep

\* The second layer is inductive.
LEMMA NextHalting ==
  ASSUME Base, Halting, [Next]_vars
  PROVE  Halting'
  BY Kinds, RunsOn, HaltingStill, HaltingRuns, HaltingBegin, HaltingClose, HaltingNext, HaltingStop,
     HaltingEnqueue, HaltingCrash

\* The fourth layer is inductive.
LEMMA NextWaited ==
  ASSUME Base, Halting, Waited, [Next]_vars
  PROVE  Waited'
  <1> USE LinearAssumption
  <1>1. ASSUME NEW e \in Stops, at'[e] \in {"confirm", "done"}
        PROVE  target'[e] = None
    <2>0. at \in [Events -> HandlerPoints] /\ e \in Events /\ target \in [Stops -> Loops \cup {None}]
      BY DEF Base, TypeOK, Events
    <2>1. CASE \E p \in Prompts : Receive(p) \/ PromptStep(p)
      <3>1. at'[e] = at[e] /\ target' = target
        BY <2>0, <2>1 DEF Receive, PromptStep, Acknowledged, Enqueue, StartLoop, Noted, Prompts
      <3> QED
        BY <1>1, <3>1 DEF Waited
    <2>2. CASE \E d \in Stops : Stop(d)
      <3>1. PICK d \in Stops : Stop(d)
        BY <2>2
      <3>2. CASE d = e
        BY <1>1, <2>0, <3>1, <3>2 DEF Stop, Halting
      <3>3. CASE d # e
        <4>1. at'[e] = at[e] /\ target'[e] = target[e]
          BY <2>0, <3>1, <3>3 DEF Stop
        <4> QED
          BY <1>1, <4>1 DEF Waited
      <3> QED
        BY <3>2, <3>3
    <2>3. CASE \E d \in Stops : StopStep(d) \/ StopTimesOut(d) \/ BarrierLifts(d)
      <3>1. target' = target
        BY <2>3 DEF StopStep, BarrierLifts, AbortPi, AbortReturns, Confirm, StopTimesOut, Confirmed, handlerVars
      <3>2. at[e] \in {"confirm", "done"} \/ target[e] = None
        BY <1>1, <2>0, <2>3 DEF StopStep, BarrierLifts, AbortPi, AbortReturns, Confirm, StopTimesOut, Confirmed, handlerVars
      <3> QED
        BY <3>1, <3>2 DEF Waited
    <2>4. CASE \E l \in Loops : \/ LoopStep(l) \/ SendSettles(l) \/ RunTimesOut(l)
                                 \/ Progress(l) \/ ProgressPosted(l)
      <3>1. PICK l \in Loops : \/ LoopStep(l) \/ SendSettles(l) \/ RunTimesOut(l)
                                 \/ Progress(l) \/ ProgressPosted(l)
        BY <2>4
      <3>2. CASE CloseRun(l)
        BY <1>1, <3>2, Closes DEF Waited
      <3>3. CASE ~CloseRun(l)
        <4>1. RunOnly \/ UNCHANGED handlerVars
          BY <3>1, <3>3, Earlies, Begins, TimesOut, Finishes, Unmarks, Forgets, Posts, Continues
             DEF Advances, EarlyStep, LoopStep, EndRun
        <4> QED
          BY <1>1, <4>1 DEF Waited, RunOnly, handlerVars
      <3> QED
        BY <3>2, <3>3
    <2>5. CASE Crash
      BY <2>5 DEF Crash
    <2>6. CASE SlotDrains \/ ClientSends \/ ClientSettles \/ Close \/ NoticePosted \/ Restart \/ UNCHANGED vars
      BY <1>1, <2>6 DEF Waited, SlotDrains, ClientSends, ClientSettles, Close, NoticePosted, Restart, vars, handlerVars
    <2> QED
      BY <2>1, <2>2, <2>3, <2>4, <2>5, <2>6 DEF Next
  <1> QED
    BY <1>1 DEF Waited

\* A halted prompt is posted about only by the loop that its stop waits for.
LEMMA WaitedSilent ==
  ASSUME Base, Halting, Waited
  PROVE  StoppedIsSilent
  <1> SUFFICES ASSUME NEW e \in Stops, NEW l \in Loops, Posting(l),
                      loop[l].batch \cap halts[e] # {}
               PROVE  at[e] \notin {"confirm", "done"} /\ target[e] = l
    BY DEF StoppedIsSilent
  <1>1. loop[l].at \in InRun
    BY DEF Posting, Base, TypeOK, InRun
  <1>2. target[e] = l
    BY <1>1 DEF Halting
  <1> QED
    BY <1>2, LinearAssumption DEF Waited

\* What no loop but l can lose in a step of l.
LEMMA OthersAccount ==
  ASSUME Accounted, NEW m \in Loops, loop'[m] = loop[m], Halted \subseteq Halted',
         answered \subseteq answered', closing => closing'
  PROVE  LoopAccount(m)'
  BY DEF Accounted, LoopAccount

\* A step that moves no prompt between its places keeps them accounted for.
LEMMA PlacesKept ==
  ASSUME Accounted, Halted \subseteq Halted', answered \subseteq answered', closing => closing',
         active' = active,
         active # None => /\ loop'[active].batch = loop[active].batch
                          /\ loop[active].pending \subseteq loop'[active].pending \cup Halted',
         \A p \in Prompts : at'[p] \in Taken => at[p] \in Taken,
         up
  PROVE  PromptAccounted'
  BY DEF Accounted, PromptAccounted, Taken

\* Handlers and the box keep the account; a restart finds no prompt taken.
LEMMA AccountedStill ==
  ASSUME Base, Accounted, Still
  PROVE  Accounted'
  <1>1. Halted' = Halted /\ loop' = loop /\ active' = active /\ answered' = answered /\ (closing => closing')
    BY DEF Still, Halted, loopVars
  <1>2. \A l \in Loops : LoopAccount(l)'
    BY <1>1, OthersAccount
  <1>3. ~up' => \A p \in Prompts : at'[p] \notin Taken
    BY DEF Still, Accounted
  <1>4. PromptAccounted'
    <2>1. CASE up
      BY <1>1, <2>1, PlacesKept DEF Still
    <2>2. CASE ~up
      BY <2>2 DEF Still, Accounted, PromptAccounted, Taken
    <2> QED
      BY <2>1, <2>2
  <1> QED
    BY <1>2, <1>3, <1>4 DEF Accounted

\* A step of a run keeps the account of its loop: outcome, silence or shutdown.
LEMMA RunAccount ==
  ASSUME Base, Accounted, NEW l \in Loops, RunStep(l)
  PROVE  LoopAccount(l)' /\ answered \subseteq answered'
  <1>h. Halted' = Halted /\ closing' = closing /\ loop'[l].batch = loop[l].batch /\ loop'[l].stopped = loop[l].stopped
    BY RunsOn DEF Runs, KeepsBatch, RunOnly, handlerVars, Halted
  <1>a. LoopAccount(l) /\ loop[l].stopped \in BOOLEAN /\ loop[l].quiet \in BOOLEAN
    BY LoopTyped DEF Accounted
  <1>1. CASE EarlyStep(l)
    BY <1>1, <1>h, <1>a, Earlies DEF LoopAccount, Advances, Early
  <1>2. CASE RunTimesOut(l)
    BY <1>2, <1>h, <1>a, TimesOut DEF LoopAccount
  <1>3. CASE Finish(l)
    BY <1>3, <1>h, <1>a, Finishes DEF LoopAccount
  <1>4. CASE Unmark(l)
    BY <1>4, <1>h, <1>a, Unmarks DEF LoopAccount
  <1>5. CASE Forget(l)
    BY <1>5, <1>h, <1>a, Forgets DEF LoopAccount
  <1>6. CASE FinalPosted(l)
    BY <1>6, <1>h, <1>a, Posts DEF LoopAccount
  <1> QED
    BY <1>1, <1>2, <1>3, <1>4, <1>5, <1>6 DEF RunStep

\* A step of a run keeps the whole account.
LEMMA AccountedRuns ==
  ASSUME Base, Accounted, up, NEW l \in Loops, RunStep(l)
  PROVE  Accounted'
  <1>1. /\ Halted' = Halted /\ UNCHANGED <<at, active, closing, up>> /\ answered \subseteq answered'
        /\ \A m \in Loops \ {l} : loop'[m] = loop[m]
        /\ loop'[l].batch = loop[l].batch /\ loop'[l].pending = loop[l].pending
    BY RunsOn, RunAccount DEF Runs, Moves, KeepsBatch, RunOnly, handlerVars, Halted
  <1>2. \A m \in Loops : LoopAccount(m)'
    BY <1>1, RunAccount, OthersAccount
  <1>3. PromptAccounted'
    <2>1. active = None \/ (/\ loop'[active].batch = loop[active].batch
                            /\ loop[active].pending \subseteq loop'[active].pending)
      BY <1>1 DEF Base, TypeOK
    <2> QED
      BY <1>1, <2>1, PlacesKept
  <1> QED
    BY <1>1, <1>2, <1>3 DEF Accounted

\* So do the first and the last step of runOnce: what ends unanswered is halted.
LEMMA AccountedEnds ==
  ASSUME Base, Accounted, up, NEW l \in Loops, Begin(l) \/ CloseRun(l)
  PROVE  Accounted'
  <1>0. /\ Moves(l) /\ KeepsBatch(l)
        /\ UNCHANGED <<at, halts, active, closing, up, answered>>
    <2>1. CASE Begin(l)
      BY <2>1, Begins DEF RunOnly, handlerVars
    <2>2. CASE CloseRun(l)
      BY <2>2, Closes
    <2> QED
      BY <2>1, <2>2
  <1>1. /\ Halted' = Halted /\ UNCHANGED <<at, active, closing, up, answered>>
        /\ \A m \in Loops \ {l} : loop'[m] = loop[m]
        /\ loop'[l].batch = loop[l].batch /\ loop'[l].pending = loop[l].pending
        /\ loop'[l].stopped = loop[l].stopped
    <2>1. Halted' = Halted
      BY <1>0 DEF Halted
    <2> QED
      BY <1>0, <2>1 DEF Moves, KeepsBatch
  <1>a. LoopAccount(l) /\ loop[l].stopped \in BOOLEAN
    BY LoopTyped DEF Accounted
  <1>b. LoopAccount(l)'
    <2>1. CASE Begin(l)
      BY <1>1, <1>a, <2>1, Begins DEF LoopAccount
    <2>2. CASE CloseRun(l)
      BY <1>1, <1>a, <2>2, Closes DEF LoopAccount
    <2> QED
      BY <2>1, <2>2
  <1>2. \A m \in Loops : LoopAccount(m)'
    BY <1>1, <1>b, OthersAccount
  <1>3. PromptAccounted'
    <2>1. active = None \/ (/\ loop'[active].batch = loop[active].batch
                            /\ loop[active].pending \subseteq loop'[active].pending)
      BY <1>1 DEF Base, TypeOK
    <2> QED
      BY <1>1, <2>1, PlacesKept
  <1> QED
    BY <1>1, <1>2, <1>3 DEF Accounted

\* The next batch is the queue; the batch before it was answered or halted.
LEMMA AccountedNext ==
  ASSUME Base, Accounted, up, NEW l \in Loops, NextBatch(l)
  PROVE  Accounted'
  <1>1. /\ Halted' = Halted /\ UNCHANGED <<at, closing, up, answered>> /\ active = l
        /\ \A m \in Loops \ {l} : loop'[m] = loop[m]
        /\ loop[l].at = "end"
    <2>1. Moves(l) /\ UNCHANGED <<handlerVars, closing, up, answered>> /\ loop[l].at = "end"
      BY Continues
    <2>2. active = l
      BY <2>1 DEF Base, OneAtATime
    <2>3. Halted' = Halted
      BY <2>1 DEF handlerVars, Halted
    <2> QED
      BY <2>1, <2>2, <2>3 DEF Moves, handlerVars
  <1>2. \A m \in Loops : LoopAccount(m)'
    <2>0. loop'[l] = NoLoop \/ (loop'[l].at = "start" /\ ~loop'[l].stopped)
      BY Continues
    <2>1. LoopAccount(l)'
      <3>1. CASE loop'[l] = NoLoop
        BY <3>1 DEF LoopAccount, NoLoop
      <3>2. CASE loop'[l].at = "start" /\ ~loop'[l].stopped
        BY <3>2 DEF LoopAccount
      <3> QED
        BY <2>0, <3>1, <3>2
    <2> QED
      BY <1>1, <2>1, OthersAccount
  <1>3. PromptAccounted'
    <2>1. ~closing => loop[l].batch \subseteq answered \cup Halted
      BY <1>1 DEF Accounted, LoopAccount
    <2>2. SUFFICES ASSUME ~closing, NEW p \in Prompts, at[p] \in {"noting", "done"},
                          p \notin answered \cup Halted
                   PROVE  active' # None /\ p \in loop'[active'].pending \cup loop'[active'].batch
      BY <1>1 DEF PromptAccounted
    <2>3. p \in loop[l].pending
      BY <1>1, <2>1, <2>2 DEF Accounted, PromptAccounted
    <2> QED
      BY <1>1, <2>2, <2>3, Continues, LinearAssumption
  <1> QED
    BY <1>1, <1>2, <1>3 DEF Accounted

\* A stop moves prompts from queue and batch to what it halted.
LEMMA AccountedStop ==
  ASSUME Base, Halting, Accounted, up, NEW e \in Stops, Stop(e), active # None
  PROVE  Accounted'
  <1>1. PICK l \in Loops :
           /\ active = l /\ active' = l /\ Moves(l)
           /\ loop'[l].at = loop[l].at /\ loop'[l].quiet = loop[l].quiet
           /\ loop'[l].batch = loop[l].batch /\ loop'[l].pending = {} /\ loop'[l].stopped
           /\ halts' = [halts EXCEPT ![e] = loop[l].pending
                                           \cup (IF loop[l].at = "end" THEN {} ELSE loop[l].batch)]
           /\ at' = [at EXCEPT ![e] = "abort"]
    BY StopHits
  <1> DEFINE H == loop[l].pending \cup (IF loop[l].at = "end" THEN {} ELSE loop[l].batch)
  <1>2. halts[e] = {} /\ halts'[e] = H /\ \A d \in Stops \ {e} : halts'[d] = halts[d]
    BY <1>1 DEF Stop, Halting, Base, TypeOK
  <1>3. Halted \cup H \subseteq Halted'
    <2>1. \A x : (\E d \in Stops : x \in halts[d]) \/ x \in H => (\E d \in Stops : x \in halts'[d])
      BY <1>2
    <2> QED
      BY <2>1 DEF Halted
  <1>4. \A p \in Prompts : at'[p] = at[p]
    BY <1>1, LinearAssumption DEF Base, TypeOK, Events, Prompts
  <1>5. UNCHANGED <<answered, closing, up>>
    BY DEF Stop, boxVars
  <1>6. \A m \in Loops : LoopAccount(m)'
    <2>1. LoopAccount(l)'
      BY <1>1, <1>3, <1>5 DEF Accounted, LoopAccount
    <2>2. \A m \in Loops \ {l} : loop'[m] = loop[m]
      BY <1>1 DEF Moves
    <2> QED
      BY <1>3, <1>5, <2>1, <2>2, OthersAccount
  <1>7. PromptAccounted'
    BY <1>1, <1>3, <1>4, <1>5, PlacesKept
  <1> QED
    BY <1>4, <1>5, <1>6, <1>7 DEF Accounted

\* A message taken is in the queue or the batch of the active loop.
LEMMA AccountedEnqueue ==
  ASSUME Base, Accounted, up, NEW p \in Prompts, Enqueue(p), ~closing
  PROVE  Accounted'
  <1>1. UNCHANGED <<answered, closing, up>> /\ Halted' = Halted
    BY DEF Enqueue, boxVars, Halted
  <1>2. at' = [at EXCEPT ![p] = "done"] \/ at' = [at EXCEPT ![p] = "noting"]
    BY DEF Enqueue, StartLoop
  <1>3. \A q \in Prompts \ {p} : at'[q] = at[q]
    BY <1>2 DEF Base, TypeOK, Events
  <1>4. CASE active # None
    <2>1. PICK l \in Loops : active = l /\ active' = l /\ loop' = [loop EXCEPT ![l].pending = @ \cup {p}]
      BY <1>4 DEF Enqueue, Base, TypeOK
    <2>2. /\ loop'[l].batch = loop[l].batch
          /\ loop'[l].pending = loop[l].pending \cup {p}
          /\ loop'[l].stopped = loop[l].stopped /\ loop'[l].at = loop[l].at
          /\ loop'[l].quiet = loop[l].quiet
          /\ \A m \in Loops \ {l} : loop'[m] = loop[m]
      BY <2>1, Queues DEF Moves
    <2>3. \A m \in Loops : LoopAccount(m)'
      <3>1. LoopAccount(l)'
        BY <1>1, <2>1, <2>2 DEF Accounted, LoopAccount
      <3> QED
        BY <1>1, <2>2, <3>1, OthersAccount
    <2>4. PromptAccounted'
      BY <1>1, <1>3, <1>4, <2>1, <2>2 DEF Accounted, PromptAccounted
    <2> QED
      BY <1>1, <2>3, <2>4 DEF Accounted
  <1>5. CASE active = None
    <2>1. PICK l \in Loops :
           /\ Moves(l) /\ active' = l
           /\ loop'[l].at = "start" /\ ~loop'[l].stopped
           /\ loop'[l].batch = {p}
      BY <1>5, Starts DEF Enqueue
    <2>2. \A m \in Loops : LoopAccount(m)'
      <3>1. LoopAccount(l)'
        BY <2>1 DEF LoopAccount
      <3>2. \A m \in Loops \ {l} : loop'[m] = loop[m]
        BY <2>1 DEF Moves
      <3> QED
        BY <1>1, <3>1, <3>2, OthersAccount
    <2>3. PromptAccounted'
      BY <1>1, <1>3, <1>5, <2>1, LinearAssumption DEF Accounted, PromptAccounted
    <2> QED
      BY <1>1, <2>2, <2>3 DEF Accounted
  <1> QED
    BY <1>4, <1>5

\* A crash takes every prompt with the process.
LEMMA AccountedCrash ==
  ASSUME Base, Crash
  PROVE  Accounted'
  <1>1. /\ at' = [e \in Events |-> IF at[e] = "away" THEN "away" ELSE "lost"]
        /\ loop' = [l \in Loops |-> NoLoop] /\ ~up'
    BY DEF Crash
  <1>2. \A l \in Loops : LoopAccount(l)'
    BY <1>1 DEF LoopAccount, NoLoop
  <1>3. \A p \in Prompts : at'[p] \notin Taken
    BY <1>1 DEF Taken, Events
  <1> QED
    BY <1>1, <1>2, <1>3 DEF Accounted, PromptAccounted

\* The third layer is inductive.
LEMMA NextAccounted ==
  ASSUME Base, Halting, Accounted, [Next]_vars
  PROVE  Accounted'
  BY Kinds, AccountedStill, AccountedRuns, AccountedEnds, AccountedNext, AccountedStop,
     AccountedEnqueue, AccountedCrash

\* All layers hold at first.
LEMMA InitLayers == Init => Base /\ Halting /\ Accounted /\ Waited
  <1> SUFFICES ASSUME Init PROVE Halting /\ Accounted /\ Waited
    BY InitBase
  <1>0. Halted = {}
    BY DEF Init, Halted
  <1>1. \A e \in Events : at[e] = "away"
    BY DEF Init
  <1>2. Halting
    BY <1>0 DEF Init, Halting, NoLoop, InRun, Sending
  <1>3. Accounted
    BY <1>1 DEF Init, Accounted, PromptAccounted, LoopAccount, NoLoop, Events
  <1>4. Waited
    BY <1>1 DEF Init, Waited, Events
  <1> QED
    BY <1>2, <1>3, <1>4

\* A prompt the runner took (enqueue, loop, runOnce, finish and stop of runner.go) is
\* queued, being run, answered, or halted by a stop, until the box shuts down.
THEOREM PromptsAccounted == Spec => []PromptAccounted
  <1>1. Init => Base /\ Halting /\ Accounted
    BY InitLayers
  <1>2. (Base /\ Halting /\ Accounted) /\ [Next]_vars => (Base /\ Halting /\ Accounted)'
    BY NextBase, NextHalting, NextAccounted
  <1>3. Base /\ Halting /\ Accounted => PromptAccounted
    BY DEF Accounted
  <1> QED
    BY <1>1, <1>2, <1>3, PTL DEF Spec

\* Prompts run one at a time.  Once Stopped is posted (runner.stop), nothing of a
\* halted prompt is posted any more, but by the run whose end the stop waited for
\* in vain for stopTimeout.
THEOREM StopsExclusive == Spec => []RunsExclusive
  <1>1. Init => Base /\ Halting /\ Waited
    BY InitLayers
  <1>2. (Base /\ Halting /\ Waited) /\ [Next]_vars => (Base /\ Halting /\ Waited)'
    BY NextBase, NextHalting, NextWaited
  <1>3. Base /\ Halting /\ Waited => RunsExclusive
    BY WaitedSilent DEF RunsExclusive, Base
  <1> QED
    BY <1>1, <1>2, <1>3, PTL DEF Spec

-----------------------------------------------------------------------------
(* Fifth layer: the mark of a run under way *)

\* The mark that a loop wrote stands until the run's end clears it.  Once a
\* shutdown cut a Send short the loop goes to its end past that; a box that is
\* down has no loops.
MarkOK(l) ==
    /\ loop[l].marked => loop[l].at \in InRun \ {"ensure", "mark"}
    /\ loop[l].marked /\ loop[l].at \in Sending \cup {"send", "finish"} => rec.running
    /\ up /\ cut => loop[l].at \in {"idle", "closing", "finish", "close", "end"}
    /\ ~up => loop[l].at = "idle"

\* A Send cut short left its mark, and the box shuts down or is down.
Marking ==
    /\ \A l \in Loops : MarkOK(l)
    /\ rec.running => rec.known
    /\ cut => rec.running
    /\ up /\ cut => closing

\* While a loop is active the others are blank: what a step does to them is
\* nothing.
LEMMA MarkedApart ==
  ASSUME Base, NEW l \in Loops, loop[l].at # "idle", NEW m \in Loops \ {l}, loop'[m] = loop[m]
  PROVE  MarkOK(m)'
  <1>1. loop[m].at = "idle" /\ ~loop[m].marked
    BY DEF Base, OneAtATime, LoopOK, NoLoop
  <1> QED
    BY <1>1 DEF MarkOK

\* A step of the goroutine of l: where it goes from and to, the mark it carries on.
Goes(l, from, to, mark) ==
    /\ loop[l].at = from /\ loop'[l].at = to /\ loop'[l].marked = mark
    /\ \A m \in Loops \ {l} : loop'[m] = loop[m]

\* Advance does that, whatever record it writes.
LEMMA Going ==
  ASSUME Base, NEW l \in Loops, NEW from, NEW to, NEW mark, NEW new, Advance(l, from, new),
         new.at = to, new.marked = mark
  PROVE  Goes(l, from, to, mark)
  <1>1. loop \in [Loops -> LoopState]
    BY DEF Base, TypeOK
  <1>2. loop[l].at = from /\ loop' = [loop EXCEPT ![l] = new]
    BY DEF Advance
  <1>3. loop'[l] = new /\ \A m \in Loops \ {l} : loop'[m] = loop[m]
    BY <1>1, <1>2
  <1> QED
    BY <1>2, <1>3, Zenon DEF Goes

\* The steps of a loop that has a goroutine keep the layer.
LEMMA MarkingRuns ==
  ASSUME Base, Marking, up, NEW l \in Loops,
         LoopStep(l) \/ SendSettles(l) \/ RunTimesOut(l) \/ Progress(l) \/ ProgressPosted(l)
  PROVE  Marking'
  <1> DEFINE r == loop[l]
             BoxStays == UNCHANGED <<closing, up, cut>>
             Own == /\ MarkOK(l)' /\ (rec.running => rec.known)' /\ (cut => rec.running)'
                    /\ (up /\ cut => closing)'
                    /\ r.at # "idle" /\ \A m \in Loops \ {l} : loop'[m] = loop[m]
  <1>r. r \in LoopState /\ rec \in Records /\ r.marked \in BOOLEAN
    BY DEF Base, TypeOK, Records, LoopState
  <1>m. MarkOK(l) /\ (r.at = "idle" => r = NoLoop)
    BY DEF Marking, Base, LoopOK
  <1>o. Own => Marking'
    BY MarkedApart DEF Marking
  <1>1. CASE Begin(l)
    <2>1. ASSUME r.stopped \/ closing PROVE Goes(l, "start", "end", r.marked)
      <3> DEFINE new == [r EXCEPT !.at = "end"]
      <3>1. Advance(l, "start", new)
        BY <1>1, <2>1 DEF Begin
      <3>2. new.at = "end" /\ new.marked = r.marked
        BY <1>r DEF LoopState
      <3> QED
        BY <3>1, <3>2, Going
    <2>2. ASSUME ~(r.stopped \/ closing) PROVE Goes(l, "start", "ensure", r.marked)
      <3> DEFINE new == [r EXCEPT !.at = "ensure", !.open = TRUE, !.cancelled = FALSE]
      <3>1. Advance(l, "start", new)
        BY <1>1, <2>2 DEF Begin
      <3>2. new.at = "ensure" /\ new.marked = r.marked
        BY <1>r DEF LoopState
      <3> QED
        BY <3>1, <3>2, Going
    <2>3. rec' = rec /\ BoxStays
      BY <1>1, <1>r DEF Begin, LoopOnly, boxVars
    <2>4. Own
      BY <2>1, <2>2, <2>3, <1>r, <1>m DEF Goes, MarkOK, Marking, InRun, Sending, Records
    <2> QED
      BY <1>o, <2>4
  <1>2. CASE EnsureKnown(l)
    <2>1. Goes(l, "ensure", "mark", r.marked)
      <3> DEFINE new == [r EXCEPT !.at = "mark"]
      <3>1. Advance(l, "ensure", new)
        BY <1>2 DEF EnsureKnown
      <3>2. new.at = "mark" /\ new.marked = r.marked
        BY <1>r DEF LoopState
      <3> QED
        BY <3>1, <3>2, Going
    <2>2. rec' = rec /\ BoxStays
      BY <1>2, <1>r DEF EnsureKnown, LoopOnly, boxVars
    <2>3. Own
      BY <2>1, <2>2, <1>r, <1>m DEF Goes, MarkOK, Marking, InRun, Sending, Records
    <2> QED
      BY <1>o, <2>3
  <1>3. CASE EnsureCreates(l)
    <2>1. Goes(l, "ensure", "mark", r.marked)
      <3> DEFINE new == [r EXCEPT !.at = "mark"]
      <3>1. Advance(l, "ensure", new)
        BY <1>3 DEF EnsureCreates
      <3>2. new.at = "mark" /\ new.marked = r.marked
        BY <1>r DEF LoopState
      <3> QED
        BY <3>1, <3>2, Going
    <2>2. ~rec.known /\ rec'.known /\ ~rec'.running /\ BoxStays
      BY <1>3, <1>r DEF EnsureCreates, LoopOnly, boxVars
    <2>3. Own
      BY <2>1, <2>2, <1>r, <1>m DEF Goes, MarkOK, Marking, InRun, Sending, Records
    <2> QED
      BY <1>o, <2>3
  <1>4. CASE EnsureFails(l)
    <2>1. Goes(l, "ensure", "finish", r.marked)
      <3> DEFINE new == [r EXCEPT !.at = "finish"]
      <3>1. Advance(l, "ensure", new)
        BY <1>4 DEF EnsureFails
      <3>2. new.at = "finish" /\ new.marked = r.marked
        BY <1>r DEF LoopState
      <3> QED
        BY <3>1, <3>2, Going
    <2>2. rec' = rec /\ BoxStays
      BY <1>4, <1>r DEF EnsureFails, LoopOnly, boxVars
    <2>3. Own
      BY <2>1, <2>2, <1>r, <1>m DEF Goes, MarkOK, Marking, InRun, Sending, Records
    <2> QED
      BY <1>o, <2>3
  <1>5. CASE Mark(l)
    <2>1. Goes(l, "mark", "send", rec'.running)
      <3> DEFINE new == [r EXCEPT !.at = "send", !.marked = rec'.running]
      <3>1. Advance(l, "mark", new)
        BY <1>5 DEF Mark
      <3>2. new.at = "send" /\ new.marked = rec'.running
        BY <1>r DEF LoopState
      <3> QED
        BY <3>1, <3>2, Going
    <2>2. rec' \in Records /\ rec'.known = rec.known /\ (rec.known \/ rec' = rec) /\ (rec.running => rec'.running) /\ BoxStays
      BY <1>5, <1>r DEF Mark, LoopOnly, boxVars, SetRunning, Records
    <2>3. Own
      BY <2>1, <2>2, <1>r, <1>m DEF Goes, MarkOK, Marking, InRun, Sending, Records
    <2> QED
      BY <1>o, <2>3
  <1>6. CASE SendStarts(l)
    <2>1. Goes(l, "send", "running", r.marked)
      <3> DEFINE new == [r EXCEPT !.at = "running", !.worker = "idle"]
      <3>1. Advance(l, "send", new)
        BY <1>6 DEF SendStarts
      <3>2. new.at = "running" /\ new.marked = r.marked
        BY <1>r DEF LoopState
      <3> QED
        BY <3>1, <3>2, Going
    <2>2. rec' = rec /\ BoxStays
      BY <1>6, <1>r DEF SendStarts, LoopOnly, boxVars
    <2>3. Own
      BY <2>1, <2>2, <1>r, <1>m DEF Goes, MarkOK, Marking, InRun, Sending, Records
    <2> QED
      BY <1>o, <2>3
  <1>7. CASE SendSettles(l) \/ SendCancelled(l)
    <2>1. Goes(l, "running", "closing", r.marked)
      <3> DEFINE new == [r EXCEPT !.at = "closing"]
      <3>1. Advance(l, "running", new)
        BY <1>7 DEF SendSettles, SendCancelled
      <3>2. new.at = "closing" /\ new.marked = r.marked
        BY <1>r DEF LoopState
      <3> QED
        BY <3>1, <3>2, Going
    <2>2. rec' = rec /\ UNCHANGED <<closing, up>> /\ cut' = (cut \/ (closing /\ r.marked))
      BY <1>7, <1>r DEF SendSettles, SendCancelled, SendReturns
    <2>3. Own
      BY <2>1, <2>2, <1>r, <1>m DEF Goes, MarkOK, Marking, InRun, Sending, Records
    <2> QED
      BY <1>o, <2>3
  <1>8. CASE CloseReport(l)
    <2>1. Goes(l, "closing", "finish", r.marked)
      <3> DEFINE new == [r EXCEPT !.at = "finish", !.worker = "off"]
      <3>1. Advance(l, "closing", new)
        BY <1>8 DEF CloseReport
      <3>2. new.at = "finish" /\ new.marked = r.marked
        BY <1>r DEF LoopState
      <3> QED
        BY <3>1, <3>2, Going
    <2>2. rec' = rec /\ BoxStays
      BY <1>8, <1>r DEF CloseReport, LoopOnly, boxVars
    <2>3. Own
      BY <2>1, <2>2, <1>r, <1>m DEF Goes, MarkOK, Marking, InRun, Sending, Records
    <2> QED
      BY <1>o, <2>3
  <1>9. CASE Finish(l)
    <2>1. Goes(l, "finish", (IF closing THEN "close" ELSE "unmark"), r.marked)
      <3> DEFINE new == [r EXCEPT !.at = IF closing THEN "close" ELSE "unmark", !.quiet = r.stopped]
      <3>1. Advance(l, "finish", new)
        BY <1>9 DEF Finish
      <3>2. new.at = (IF closing THEN "close" ELSE "unmark") /\ new.marked = r.marked
        BY <1>r DEF LoopState
      <3> QED
        BY <3>1, <3>2, Going
    <2>2. rec' = rec /\ BoxStays
      BY <1>9, <1>r DEF Finish, LoopOnly, boxVars
    <2>3. Own
      BY <2>1, <2>2, <1>r, <1>m DEF Goes, MarkOK, Marking, InRun, Sending, Records
    <2> QED
      BY <1>o, <2>3
  <1>10. CASE Forget(l)
    <2>1. Goes(l, "forget", "final", r.marked)
      <3> DEFINE new == [r EXCEPT !.at = "final"]
      <3>1. Advance(l, "forget", new)
        BY <1>10 DEF Forget
      <3>2. new.at = "final" /\ new.marked = r.marked
        BY <1>r DEF LoopState
      <3> QED
        BY <3>1, <3>2, Going
    <2>2. (rec' = rec \/ rec' = NoRecord) /\ ~NoRecord.running /\ BoxStays
      BY <1>10, <1>r DEF Forget, LoopOnly, boxVars, NoRecord
    <2>3. Own
      BY <2>1, <2>2, <1>r, <1>m DEF Goes, MarkOK, Marking, InRun, Sending, Records
    <2> QED
      BY <1>o, <2>3
  <1>11. CASE FinalPosted(l)
    <2>1. Goes(l, "final", "close", r.marked)
      <3> DEFINE new == [r EXCEPT !.at = "close"]
      <3>1. Advance(l, "final", new)
        BY <1>11 DEF FinalPosted
      <3>2. new.at = "close" /\ new.marked = r.marked
        BY <1>r DEF LoopState
      <3> QED
        BY <3>1, <3>2, Going
    <2>2. rec' = rec /\ BoxStays
      BY <1>11, <1>r DEF FinalPosted, LoopOnly, boxVars
    <2>3. Own
      BY <2>1, <2>2, <1>r, <1>m DEF Goes, MarkOK, Marking, InRun, Sending, Records
    <2> QED
      BY <1>o, <2>3
  <1>12. CASE CloseRun(l)
    <2>1. Goes(l, "close", "end", FALSE)
      <3> DEFINE new == [r EXCEPT !.at = "end", !.open = FALSE, !.marked = FALSE]
      <3>1. Advance(l, "close", new)
        BY <1>12 DEF CloseRun
      <3>2. new.at = "end" /\ new.marked = FALSE
        BY <1>r DEF LoopState
      <3> QED
        BY <3>1, <3>2, Going
    <2>2. rec' = rec /\ BoxStays
      BY <1>12, <1>r DEF CloseRun, LoopOnly, boxVars
    <2>3. Own
      BY <2>1, <2>2, <1>r, <1>m DEF Goes, MarkOK, Marking, InRun, Sending, Records
    <2> QED
      BY <1>o, <2>3
  <1>13. CASE NextBatch(l)
    <2>1. ASSUME closing \/ r.pending = {} PROVE Goes(l, "end", "idle", FALSE)
      <3> DEFINE new == NoLoop
      <3>1. Advance(l, "end", new)
        BY <1>13, <2>1 DEF NextBatch
      <3>2. new.at = "idle" /\ new.marked = FALSE
        BY <1>r DEF LoopState, NoLoop
      <3> QED
        BY <3>1, <3>2, Going
    <2>2. ASSUME ~(closing \/ r.pending = {}) PROVE Goes(l, "end", "start", r.marked)
      <3> DEFINE new == [r EXCEPT !.at = "start", !.batch = r.pending, !.pending = {}, !.stopped = FALSE]
      <3>1. Advance(l, "end", new)
        BY <1>13, <2>2 DEF NextBatch
      <3>2. new.at = "start" /\ new.marked = r.marked
        BY <1>r DEF LoopState
      <3> QED
        BY <3>1, <3>2, Going
    <2>3. rec' = rec /\ BoxStays
      BY <1>13, <1>r DEF NextBatch, LoopOnly, boxVars
    <2>4. Own
      BY <2>1, <2>2, <2>3, <1>r, <1>m DEF Goes, MarkOK, Marking, InRun, Sending, Records
    <2> QED
      BY <1>o, <2>4
  <1>14. CASE Unmark(l)
    <2>1. ASSUME r.quiet PROVE Goes(l, "unmark", "close", r.marked)
      <3> DEFINE new == [r EXCEPT !.at = "close", !.gone = FALSE, !.quiet = FALSE]
      <3>1. Advance(l, "unmark", new)
        BY <1>14, <2>1 DEF Unmark
      <3>2. new.at = "close" /\ new.marked = r.marked
        BY <1>r DEF LoopState
      <3> QED
        BY <3>1, <3>2, Going
    <2>2. ASSUME ~r.quiet /\ r.gone PROVE Goes(l, "unmark", "forget", r.marked)
      <3> DEFINE new == [r EXCEPT !.at = "forget", !.gone = FALSE, !.quiet = FALSE]
      <3>1. Advance(l, "unmark", new)
        BY <1>14, <2>2 DEF Unmark
      <3>2. new.at = "forget" /\ new.marked = r.marked
        BY <1>r DEF LoopState
      <3> QED
        BY <3>1, <3>2, Going
    <2>3. ASSUME ~r.quiet /\ ~r.gone PROVE Goes(l, "unmark", "final", r.marked)
      <3> DEFINE new == [r EXCEPT !.at = "final", !.gone = FALSE, !.quiet = FALSE]
      <3>1. Advance(l, "unmark", new)
        BY <1>14, <2>3 DEF Unmark
      <3>2. new.at = "final" /\ new.marked = r.marked
        BY <1>r DEF LoopState
      <3> QED
        BY <3>1, <3>2, Going
    <2>4. rec' \in Records /\ rec'.known = rec.known /\ (rec' = rec \/ ~rec'.running) /\ BoxStays
      BY <1>14, <1>r DEF Unmark, LoopOnly, boxVars, SetRunning, Records
    <2>5. Own
      BY <2>1, <2>2, <2>3, <2>4, <1>r, <1>m DEF Goes, MarkOK, Marking, InRun, Sending, Records
    <2> QED
      BY <1>o, <2>5
  <1>15. CASE SendRefused(l)
    <2>1. PICK g \in {FALSE, OtherClients} :
             Advance(l, "send", [r EXCEPT !.at = "closing", !.worker = "idle", !.gone = g])
      BY <1>15 DEF SendRefused
    <2> DEFINE new == [r EXCEPT !.at = "closing", !.worker = "idle", !.gone = g]
    <2>2. new.at = "closing" /\ new.marked = r.marked
      BY <1>r DEF LoopState
    <2>3. Goes(l, "send", "closing", r.marked)
      BY <2>1, <2>2, Going
    <2>4. rec' = rec /\ BoxStays
      BY <1>15 DEF SendRefused, LoopOnly, boxVars
    <2>5. Own
      BY <2>3, <2>4, <1>r, <1>m DEF Goes, MarkOK, Marking, InRun, Sending, Records
    <2> QED
      BY <1>o, <2>5
  <1>16. CASE RunTimesOut(l) \/ Progress(l) \/ ProgressPosted(l)
    <2>1. Goes(l, r.at, r.at, r.marked)
      BY <1>16, <1>r DEF RunTimesOut, Progress, ProgressPosted, Goes, Base, TypeOK, LoopState
    <2>2. rec' = rec /\ BoxStays
      BY <1>16 DEF RunTimesOut, Progress, ProgressPosted, LoopOnly, boxVars
    <2>3. r.at # "idle"
      BY <1>16, <1>m DEF RunTimesOut, Progress, ProgressPosted, Sending, NoLoop
    <2>4. Own
      BY <2>1, <2>2, <2>3, <1>r, <1>m DEF Goes, MarkOK, Marking, InRun, Sending, Records
    <2> QED
      BY <1>o, <2>4
  <1> QED
    BY <1>1, <1>2, <1>3, <1>4, <1>5, <1>6, <1>7, <1>8, <1>9, <1>10, <1>11, <1>12, <1>13, <1>14, <1>15, <1>16 DEF LoopStep, EndRun

\* So does every other step.
LEMMA NextMarking ==
  ASSUME Base, Marking, [Next]_vars
  PROVE  Marking'
  <1>1. CASE up /\ \E l \in Loops : \/ LoopStep(l) \/ SendSettles(l) \/ RunTimesOut(l)
                                   \/ Progress(l) \/ ProgressPosted(l)
    BY <1>1, MarkingRuns
  <1>2. CASE up /\ \E p \in Prompts : Enqueue(p)
    <2>1. PICK p \in Prompts : Enqueue(p)
      BY <1>2
    <2>2. UNCHANGED <<rec, boxVars>>
      BY <2>1 DEF Enqueue
    <2>3. CASE loop' = loop
      BY <2>2, <2>3 DEF Marking, MarkOK, boxVars
    <2>4. CASE ~closing /\ active # None /\ loop' = [loop EXCEPT ![active].pending = @ \cup {p}]
      <3>1. \A l \in Loops : loop'[l].at = loop[l].at /\ loop'[l].marked = loop[l].marked
        BY <2>4 DEF Base, TypeOK, LoopState
      <3> QED
        BY <2>2, <3>1 DEF Marking, MarkOK, boxVars
    <2>5. CASE ~closing /\ StartLoop(p)
      <3>1. PICK l \in Loops : loop[l].at = "idle"
        BY <2>5 DEF StartLoop
      <3>2. PICK s \in Loops : loop' = [loop EXCEPT ![s] = [NoLoop EXCEPT !.at = "start", !.batch = {p}]]
        BY <2>5, <3>1 DEF StartLoop
      <3>3. loop'[s].at = "start" /\ ~loop'[s].marked /\ \A m \in Loops \ {s} : loop'[m] = loop[m]
        BY <3>2 DEF Base, TypeOK, NoLoop
      <3>4. up /\ ~cut
        BY <1>2, <2>5 DEF Marking
      <3> QED
        BY <2>2, <3>3, <3>4 DEF Marking, MarkOK, boxVars
    <2> QED
      BY <2>1, <2>3, <2>4, <2>5 DEF Enqueue
  <1>3. CASE up /\ \E e \in Stops : Stop(e)
    <2>1. \A l \in Loops : loop'[l].at = loop[l].at /\ loop'[l].marked = loop[l].marked
      BY <1>3 DEF Stop, Base, TypeOK, LoopState
    <2>2. UNCHANGED <<rec, boxVars>>
      BY <1>3 DEF Stop
    <2> QED
      BY <2>1, <2>2 DEF Marking, MarkOK, boxVars
  <1>4. CASE \/ \E p \in Prompts : Receive(p) \/ Acknowledged(p) \/ Noted(p)
             \/ \E e \in Stops : StopStep(e) \/ StopTimesOut(e) \/ BarrierLifts(e)
             \/ SlotDrains \/ ClientSends \/ ClientSettles \/ NoticePosted \/ UNCHANGED vars
    <2>1. UNCHANGED <<loop, rec, closing, up, cut>>
      BY <1>4 DEF Receive, Acknowledged, Noted, StopStep, BarrierLifts, AbortPi, AbortReturns, Confirm,
                  StopTimesOut, Confirmed, SlotDrains, ClientSends, ClientSettles, NoticePosted, loopVars, boxVars, vars
    <2> QED
      BY <2>1 DEF Marking, MarkOK
  <1>5. CASE Close
    BY <1>5 DEF Close, Marking, MarkOK, loopVars
  <1>6. CASE Crash
    <2>1. \A l \in Loops : loop'[l].at = "idle" /\ ~loop'[l].marked
      BY <1>6 DEF Crash, NoLoop
    <2>2. rec' = rec /\ ~up' /\ (cut' => rec.running)
      BY <1>6 DEF Crash, Marking, MarkOK
    <2> QED
      BY <2>1, <2>2 DEF Marking, MarkOK
  <1>7. CASE Restart
    <2>1. loop' = loop /\ ~cut' /\ ~up
      BY <1>7 DEF Restart, loopVars
    <2>2. rec'.running => rec'.known
      BY <1>7 DEF Restart, SetRunning, Marking, Base, TypeOK
    <2>3. \A l \in Loops : loop[l].at = "idle" /\ ~loop[l].marked
      BY <2>1 DEF Marking, MarkOK, Base, LoopOK, NoLoop
    <2> QED
      BY <2>1, <2>2, <2>3 DEF Marking, MarkOK, Sending
  <1> QED
    BY <1>1, <1>2, <1>3, <1>4, <1>5, <1>6, <1>7 DEF Next, PromptStep

\* A run whose Send a crash or a shutdown cut short, with its mark on disk, is
\* told by the next start (Interrupted, noticeRestart): no step in between
\* clears the mark.
THEOREM CutRunsReported == Spec => CutShortReported
  <1>1. Init => Base /\ Marking
    <2> SUFFICES ASSUME Init PROVE Marking
      BY InitBase
    <2> QED
      BY DEF Init, Marking, MarkOK, NoLoop, NoRecord
  <1>2. (Base /\ Marking) /\ [Next]_vars => (Base /\ Marking)'
    BY NextBase, NextMarking
  <1>3. (Base /\ Marking) /\ [Next]_vars => [~up /\ up' /\ cut => note' = "posting"]_vars
    <2> SUFFICES ASSUME Base, Marking, Next, ~up, up', cut PROVE note' = "posting"
      OBVIOUS
    <2>1. Restart
      BY DEF Next
    <2> QED
      BY <2>1 DEF Restart, Marking
  <1> QED
    BY <1>1, <1>2, <1>3, PTL DEF Spec, CutShortReported
=============================================================================
