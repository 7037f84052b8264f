---------------------------- MODULE BridgeStart -----------------------------
(***************************************************************************)
(* The start and the end of one cursor-sdk-bridge process                  *)
(* (internal/cursor/bridge.go): startBridge with its discovery handshake   *)
(* on stderr, the goroutines readStderr and wait, and stop.                *)
(*                                                                         *)
(* The bridge process is external: it may announce itself well, badly or   *)
(* not at all, write a line that no scanner takes, answer or refuse the    *)
(* calls of the Control service, ignore a SIGTERM, and exit at any time.   *)
(*                                                                         *)
(* A definition marked "Mutant" is a plausible mistake in the definition   *)
(* below it and is used by no specification.                               *)
(***************************************************************************)

CONSTANT Stoppers       \* callers of stop once the bridge is started

VARIABLES
    starter,    \* where startBridge is
    process,    \* external: "none", "up", "ended"
    told,       \* external: the ready line on stderr: "no", "good", "bad"
    stderr,     \* readStderr: "off", "scan", "drain" or "end"
    ready,      \* the channel ready: "empty", "good", "bad"
    reaped,     \* b.done is closed
    clients,    \* b.control is set
    stopOnce,   \* the body of stop: "no", "signal", "wait", "killed", "over"
    stopper     \* where each caller of stop is

bridgeVars == <<starter, process, told, stderr, ready, reaped, clients, stopOnce, stopper>>
external   == <<process, told>>
handshake  == <<stderr, ready, reaped>>
stoppers   == <<stopOnce, stopper>>

Starter(from, to) == starter = from /\ starter' = to

-----------------------------------------------------------------------------
(* startBridge *)

StartProcess ==
    /\ \/ Starter("begin", "await") /\ process' = "up" /\ stderr' = "scan"
       \/ Starter("begin", "refused") /\ UNCHANGED <<process, stderr>>
    /\ UNCHANGED <<told, ready, reaped, clients, stoppers>>

\* The select: the handshake, the end of the caller's context or of
\* bridgeStartTimeout, or the exit of the process; which one of those that are
\* ready is not determined.
TakeReady ==
    /\ ready # "empty"
    /\ Starter("await", IF ready = "good" THEN "dial" ELSE "stop")
    /\ ready' = "empty"
    /\ UNCHANGED <<external, stderr, reaped, clients, stoppers>>

StartTimesOut ==
    /\ Starter("await", "stop")
    /\ UNCHANGED <<external, handshake, clients, stoppers>>

\* The process is gone: what the handshake has yet to say is waited for a while.
SeesExit ==
    /\ reaped
    /\ \/ Starter("await", "stop") /\ UNCHANGED ready
       \/ /\ ready # "empty" /\ ready' = "empty"
          /\ Starter("await", IF ready = "good" THEN "dial" ELSE "stop")
    /\ UNCHANGED <<external, stderr, reaped, clients, stoppers>>

Dial ==
    /\ Starter("dial", "check") /\ clients' = TRUE
    /\ UNCHANGED <<external, handshake, stoppers>>

\* Ping and GetVersion under bridgeHealthTimeout.
Check ==
    /\ \/ process = "up" /\ Starter("check", "started")
       \/ Starter("check", "stop")
    /\ UNCHANGED <<external, handshake, clients, stoppers>>

-----------------------------------------------------------------------------
(* readStderr, wait *)

\* readySent: the first result is published and no other.
ScanReady ==
    /\ stderr = "scan" /\ told # "no"
    /\ stderr' = "drain" /\ ready' = told
    /\ UNCHANGED <<starter, external, reaped, clients, stoppers>>

\* The scan ends at the end of stderr, which wait may close before all of it is
\* read, or at a line that is too long; without a ready line that is the result.
ScanEnded ==
    /\ stderr \in {"scan", "drain"}
    /\ stderr' = "end" /\ ready' = IF stderr = "scan" THEN "bad" ELSE ready
    /\ UNCHANGED <<starter, external, reaped, clients, stoppers>>

Wait ==
    /\ process = "ended" /\ ~reaped /\ reaped' = TRUE
    /\ UNCHANGED <<starter, external, stderr, ready, clients, stoppers>>

-----------------------------------------------------------------------------
(* stop *)

\* stopOnce: the first caller runs the body, the others wait for it.
StopCalled ==
    /\ stopOnce' = IF stopOnce = "no" THEN "signal" ELSE stopOnce

StarterStops ==
    /\ Starter("stop", "stopping") /\ StopCalled
    /\ UNCHANGED <<external, handshake, clients, stopper>>

BridgeStopped(s) ==
    /\ starter = "started" /\ stopper[s] = "idle" /\ StopCalled
    /\ stopper' = [stopper EXCEPT ![s] = "stopping"]
    /\ UNCHANGED <<starter, external, handshake, clients>>

\* Shutdown is called, or the process signalled; it may heed neither.
SignalBridge ==
    /\ stopOnce = "signal" /\ stopOnce' = "wait"
    /\ UNCHANGED <<starter, external, handshake, clients, stopper>>

\* Mutant: the grace period never ends.
KillNever ==
    /\ stopOnce = "wait" /\ reaped /\ stopOnce' = "over"
    /\ UNCHANGED <<starter, external, handshake, clients, stopper>>
\* done, or bridgeProcessStopWait and SIGKILL.
KillBridge ==
    /\ stopOnce = "wait"
    /\ IF reaped THEN stopOnce' = "over" /\ UNCHANGED process
                 ELSE stopOnce' = "killed" /\ process' = "ended"
    /\ UNCHANGED <<starter, told, handshake, clients, stopper>>

BodyEnds ==
    /\ stopOnce = "killed" /\ reaped /\ stopOnce' = "over"
    /\ UNCHANGED <<starter, external, handshake, clients, stopper>>

\* <-b.done after the body, for everyone.
StarterReturns ==
    /\ stopOnce = "over" /\ reaped /\ Starter("stopping", "refused")
    /\ UNCHANGED <<external, handshake, clients, stoppers>>

StopReturned(s) ==
    /\ stopOnce = "over" /\ reaped
    /\ stopper[s] = "stopping" /\ stopper' = [stopper EXCEPT ![s] = "idle"]
    /\ UNCHANGED <<starter, external, handshake, clients, stopOnce>>

-----------------------------------------------------------------------------
(* The bridge process *)

Announce(line) ==
    /\ process = "up" /\ told = "no" /\ told' = line
    /\ UNCHANGED <<starter, process, handshake, clients, stoppers>>

BridgeExits ==
    /\ process = "up" /\ process' = "ended"
    /\ UNCHANGED <<starter, told, handshake, clients, stoppers>>

-----------------------------------------------------------------------------

BridgeInit ==
    /\ starter = "begin" /\ process = "none" /\ told = "no" /\ stderr = "off" /\ ready = "empty"
    /\ reaped = FALSE /\ clients = FALSE
    /\ stopOnce = "no" /\ stopper = [s \in Stoppers |-> "idle"]

StarterStep == TakeReady \/ StartTimesOut \/ SeesExit \/ Dial \/ Check \/ StarterStops \/ StarterReturns
StopBody    == SignalBridge \/ KillBridge \/ BodyEnds

BridgeNext ==
    \/ StartProcess \/ StarterStep \/ StopBody
    \/ ScanReady \/ ScanEnded \/ Wait
    \/ \E s \in Stoppers : BridgeStopped(s) \/ StopReturned(s)
    \/ \E line \in {"good", "bad"} : Announce(line)
    \/ BridgeExits

BridgeSpec == BridgeInit /\ [][BridgeNext]_bridgeVars

\* Timers fire, calls of the Control service end, and wait reaps.
BridgeFairness ==
    /\ WF_bridgeVars(StarterStep) /\ WF_bridgeVars(StopBody) /\ WF_bridgeVars(Wait)
    /\ \A s \in Stoppers : WF_bridgeVars(StopReturned(s))

-----------------------------------------------------------------------------
(* Properties *)

\* startBridge returns a bridge that announced itself and has its clients, or an
\* error and no process: every way out of the handshake stops what it started.
StartedOrNone ==
    /\ starter = "refused" => process = "none" \/ reaped
    /\ starter = "started" => told = "good" /\ clients

\* stop: "safe to call from multiple goroutines", and from startBridge when the
\* bridge says nothing at all: it returns, and the process is gone.
BridgeStopEnds ==
    /\ starter = "await" ~> starter \in {"started", "refused"}
    /\ \A s \in Stoppers : stopper[s] = "stopping" ~> stopper[s] = "idle" /\ reaped

\* Both of them: nothing is left by a start that fails, nor by a stop.
BridgeNeverLeaks == []StartedOrNone /\ BridgeStopEnds
=============================================================================
