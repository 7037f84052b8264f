------------------------------- MODULE BoxApp -------------------------------
(***************************************************************************)
(* app.Run (internal/app/run.go) and the supervisor of pi-web (piweb.go):  *)
(* which parts of the box start, in which order, what a failure on the way *)
(* or the end of the context leaves, and the deferred stops.               *)
(*                                                                         *)
(* The parts are here what Run sees of them: "off", "up" or "stopped".     *)
(* pi-web is external: it exits at any time, or ignores the SIGTERM that   *)
(* the end of the context sends it.  The context is the caller's.          *)
(*                                                                         *)
(* A definition marked "Mutant" is a plausible mistake in the definition   *)
(* below it and is used by no specification.                               *)
(***************************************************************************)
EXTENDS Naturals, Sequences

VARIABLES
    config,     \* the parts that are enabled
    run,        \* where Run is
    ctxDone,    \* its context ended
    part,       \* "pi" (the manager), "linear" and "cursor": off, up or stopped
    defers,     \* the deferred calls that stop them, the last one first
    serving,    \* the HTTP server: "no", "yes", "draining", "closed"
    supervisor, \* superviseProcess: "off", "start", "up", "backoff", "over"
    webDelay,   \* its backoff, in seconds
    webOld      \* pi-web has run longer than piWebRestartResetAfter

partVars == <<part, defers>>
boxVars == <<config, run, ctxDone, partVars, serving, supervisor, webDelay, webOld>>
webVars == <<supervisor, webDelay, webOld>>

Features == {"piWeb", "piAPI", "linear", "cursor"}
Parts    == {"pi", "linear", "cursor"}

RunAt(from, to) == run = from /\ run' = to

\* A part starts, and the defer statement behind it.
Started(p) == part' = [part EXCEPT ![p] = "up"] /\ defers' = <<p>> \o defers

-----------------------------------------------------------------------------
(* Run *)

\* The environment file and the configuration are loaded.
Load ==
    /\ RunAt("load", "web") \/ RunAt("load", "returned")
    /\ UNCHANGED <<config, ctxDone, partVars, serving, webVars>>

StartPiWeb ==
    /\ RunAt("web", "pi")
    /\ supervisor' = IF "piWeb" \in config THEN "start" ELSE supervisor
    /\ UNCHANGED <<config, ctxDone, partVars, serving, webDelay, webOld>>

\* One manager for the Pi API and the Linear integration.
StartPi ==
    /\ RunAt("pi", "linear")
    /\ IF config \cap {"piAPI", "linear"} # {} THEN Started("pi") ELSE UNCHANGED partVars
    /\ UNCHANGED <<config, ctxDone, serving, webVars>>

\* Mutant: the integration is closed after the calls deferred before it.
StartLinearClosedLast ==
    /\ \/ RunAt("linear", "cursor") /\ "linear" \notin config /\ UNCHANGED partVars
       \/ /\ RunAt("linear", "cursor") /\ "linear" \in config
          /\ part' = [part EXCEPT !["linear"] = "up"] /\ defers' = Append(defers, "linear")
       \/ RunAt("linear", "deferred") /\ "linear" \in config /\ UNCHANGED partVars
    /\ UNCHANGED <<config, ctxDone, serving, webVars>>
\* linear.New opens its files, or fails and with it Run.
StartLinear ==
    /\ \/ RunAt("linear", "cursor") /\ "linear" \notin config /\ UNCHANGED partVars
       \/ RunAt("linear", "cursor") /\ "linear" \in config /\ Started("linear")
       \/ RunAt("linear", "deferred") /\ "linear" \in config /\ UNCHANGED partVars
    /\ UNCHANGED <<config, ctxDone, serving, webVars>>

StartCursor ==
    /\ RunAt("cursor", "serve")
    /\ IF "cursor" \in config THEN Started("cursor") ELSE UNCHANGED partVars
    /\ UNCHANGED <<config, ctxDone, serving, webVars>>

\* ListenAndServe.
Serve ==
    /\ RunAt("serve", "select") /\ serving' = "yes"
    /\ UNCHANGED <<config, ctxDone, partVars, webVars>>

ListenFails ==
    /\ RunAt("select", "deferred") /\ serving = "yes" /\ serving' = "closed"
    /\ UNCHANGED <<config, ctxDone, partVars, webVars>>

\* Shutdown stops accepting and waits for the handlers ...
BeginShutdown ==
    /\ ctxDone /\ RunAt("select", "drain") /\ serving' = "draining"
    /\ UNCHANGED <<config, ctxDone, partVars, webVars>>

\* ... until they are done, or defaultToolTimeout has passed with some running.
EndShutdown ==
    /\ RunAt("drain", "deferred") /\ serving' = "closed"
    /\ UNCHANGED <<config, ctxDone, partVars, webVars>>

\* The calls that Run deferred on its way here, the last one first.
Deferred ==
    /\ run = "deferred"
    /\ IF defers = <<>>
       THEN run' = "returned" /\ UNCHANGED partVars
       ELSE /\ part' = [part EXCEPT ![Head(defers)] = "stopped"]
            /\ defers' = Tail(defers)
            /\ UNCHANGED run
    /\ UNCHANGED <<config, ctxDone, serving, webVars>>

ContextDone ==
    /\ ~ctxDone /\ ctxDone' = TRUE
    /\ UNCHANGED <<config, run, partVars, serving, webVars>>

-----------------------------------------------------------------------------
(* superviseProcess *)

\* piWebMaxBackoff: doubled while it is below, so that 16 becomes 32.
Doubled(d) == IF d < 30 THEN 2 * d ELSE d

\* The head of the loop; the start may fail, which counts as an exit.
StartWeb ==
    /\ supervisor = "start"
    /\ supervisor' \in IF ctxDone THEN {"over"} ELSE {"up", "exited"}
    /\ webOld' = FALSE
    /\ UNCHANGED <<config, run, ctxDone, partVars, serving, webDelay>>

\* Mutant: an exit without an error is taken for the end.
WebExitsForGood ==
    /\ supervisor \in {"up", "exited"}
    /\ supervisor' \in IF ctxDone THEN {"over"} ELSE {"backoff", "over"}
    /\ webDelay' = IF webOld THEN 1 ELSE webDelay
    /\ UNCHANGED <<config, run, ctxDone, partVars, serving, webOld>>
WebExits ==
    /\ supervisor \in {"up", "exited"}
    /\ supervisor' = IF ctxDone THEN "over" ELSE "backoff"
    /\ webDelay' = IF webOld THEN 1 ELSE webDelay
    /\ UNCHANGED <<config, run, ctxDone, partVars, serving, webOld>>

WebRunsLong ==
    /\ supervisor = "up" /\ ~webOld /\ webOld' = TRUE
    /\ UNCHANGED <<config, run, ctxDone, partVars, serving, supervisor, webDelay>>

\* The context ends the wait, or the timer does.
WebWaits ==
    /\ supervisor = "backoff"
    /\ \/ ctxDone /\ supervisor' = "over" /\ UNCHANGED webDelay
       \/ supervisor' = "start" /\ webDelay' = Doubled(webDelay)
    /\ UNCHANGED <<config, run, ctxDone, partVars, serving, webOld>>

-----------------------------------------------------------------------------

BoxInit ==
    /\ config \in SUBSET Features
    /\ run = "load" /\ ctxDone = FALSE
    /\ part = [p \in Parts |-> "off"] /\ defers = <<>> /\ serving = "no"
    /\ supervisor = "off" /\ webDelay = 1 /\ webOld = FALSE

\* A process without an application.
BoxNeverRun ==
    /\ config = {} /\ run = "returned" /\ ctxDone = FALSE
    /\ part = [p \in Parts |-> "off"] /\ defers = <<>> /\ serving = "no"
    /\ supervisor = "off" /\ webDelay = 1 /\ webOld = FALSE

RunStep ==
    \/ Load \/ StartPiWeb \/ StartPi \/ StartLinear \/ StartCursor \/ Serve
    \/ BeginShutdown \/ EndShutdown \/ Deferred

BoxNext ==
    \/ RunStep \/ ListenFails \/ ContextDone
    \/ StartWeb \/ WebExits \/ WebRunsLong \/ WebWaits

BoxSpec == BoxInit /\ [][BoxNext]_boxVars

\* Once the context ended, SIGTERM and after piWebShutdownGrace SIGKILL end
\* pi-web; before that it may run for ever.
BoxFairness ==
    /\ WF_boxVars(RunStep) /\ WF_boxVars(StartWeb) /\ WF_boxVars(WebWaits)
    /\ WF_boxVars((ctxDone \/ supervisor = "exited") /\ WebExits)

-----------------------------------------------------------------------------
(* Properties *)

\* Run, however and wherever it ends: it returns with both managers and the
\* integration stopped, the ones it had started; none is stopped while new requests
\* are accepted; and the integration, "Deferred after manager.Stop, so it runs
\* first", is closed before the manager of its runs stops.  pi-web is not among
\* them: it is bound to the context, and a Run that fails leaves it as it is.
RunUnwinds ==
    /\ run = "returned" => \A p \in Parts : part[p] # "up"
    /\ (\E p \in Parts : part[p] = "stopped") => serving # "yes"
    /\ part["pi"] = "stopped" => part["linear"] # "up"

\* StartPiWebProcess: pi-web "restarts on failure and stops with ctx": after an
\* exit it is started again unless the context ends, and after the end of the
\* context it is gone for good.
PiWebSupervised ==
    /\ supervisor \in {"exited", "backoff"} => <>(supervisor = "start" \/ ctxDone)
    /\ ctxDone /\ supervisor # "off" => <>[](supervisor = "over")

\* What the application stops itself, and what it leaves to the context.
ProgramsHeld == [](RunUnwinds /\ PiWebSupervised)
=============================================================================
