------------------------------- MODULE PiPipe -------------------------------
(***************************************************************************)
(* One `pi --mode rpc` child of the box (internal/pi/process.go,           *)
(* protocol.go, runcommand.go): commands and their answers over the        *)
(* child's stdin and stdout, the dispatch of its events to subscriptions,  *)
(* the answers to its extensions' dialogs, and its end.                    *)
(*                                                                         *)
(* Both pipes are bounded.  One goroutine reads stdout; everybody who      *)
(* writes to stdin holds writeMu meanwhile.  A subscription has a queue of *)
(* its own, drained by a pump goroutine.                                   *)
(*                                                                         *)
(* The section "The pi process" is external: pi answers what it has read   *)
(* in any order, emits events and dialogs, and may exit at any time.  Its  *)
(* writes block while stdout is full; whether it reads its stdin meanwhile *)
(* is a parameter.                                                         *)
(*                                                                         *)
(* A definition marked "Mutant" is a plausible mistake in the definition   *)
(* below it and is used by no specification.                               *)
(***************************************************************************)
EXTENDS Naturals, SequencesExt

CONSTANTS
    Calls,          \* calls of process.call, each with a command of its own
    Subs,           \* subscriptions
    MaxEvents,      \* bound: events pi emits
    MaxDialogs,     \* bound: dialogs pi opens
    Room,           \* records a pipe holds
    MayMisbehave,   \* whether pi may emit a record longer than maxLineBytes, an
                    \* answer that does not decode, or one it was not asked for
    ReadsWhileBlocked,  \* whether pi reads stdin while its write to stdout waits
    None

ASSUME PipeAssumption ==
    /\ MaxEvents \in Nat /\ MaxDialogs \in Nat /\ Room \in Nat \ {0}
    /\ {MayMisbehave, ReadsWhileBlocked} \subseteq BOOLEAN
    /\ None \notin Calls

VARIABLES
    call,       \* where each call is
    pending,    \* p.pending: calls registered for an answer
    answer,     \* each call's channel: empty, an answer, or closed
    reader,     \* where readLoop is
    exitErr,    \* p.exitErr is set
    done,       \* p.done is closed
    stopping,   \* process.stop: "no", "term", "kill", "returned"
    subs,       \* p.subs: the subscriptions that dispatch pushes to
    sub,        \* each subscription: queue, signal, done, and its pump
    got,        \* what its consumer received
    stdin, stdout,
    dispatched, \* history: events pushed so far
    (* the pi process, external *)
    pi,         \* "up" or "gone"
    todo,       \* commands it has read and not answered
    emitted,    \* events it has emitted
    dialogs,    \* dialogs it has opened
    dialog      \* a dialog waits for its reply

callVars == <<call, pending, answer>>
readVars == <<reader, exitErr, done, dispatched>>
subVars  == <<subs, sub, got>>
piVars   == <<pi, todo, emitted, dialogs, dialog>>
vars == <<callVars, readVars, stopping, subVars, stdin, stdout, piVars>>

-----------------------------------------------------------------------------
(* Records on the pipes *)

Command(c) == [kind |-> "command", of |-> c]
Reply      == [kind |-> "reply"]
Answer(c)  == [kind |-> "answer", of |-> c]
Event(n)   == [kind |-> "event", n |-> n]
Dialog     == [kind |-> "dialog"]
Overlong   == [kind |-> "overlong"]

Empty == [is |-> "empty"]
Closed == [is |-> "closed"]
Undecodable == [is |-> "undecodable"]   \* closed by dispatch
Full(c) == [is |-> "full", of |-> c]

Goto(c, from, to) == call[c] = from /\ call' = [call EXCEPT ![c] = to]

-----------------------------------------------------------------------------
(* call *)

\* The first locked section: a process that exited answers nothing.
Register(c) ==
    /\ Goto(c, "new", IF exitErr THEN "failed" ELSE "write")
    /\ pending' = IF exitErr THEN pending ELSE pending \cup {c}
    /\ UNCHANGED <<answer, readVars, stopping, subVars, stdin, stdout, piVars>>

\* write, under writeMu: the whole record goes in when there is room for it, or
\* the write fails because nobody reads it any more.
WriteCommand(c) ==
    /\ \/ /\ pi = "up" /\ Len(stdin) < Room
          /\ stdin' = Append(stdin, Command(c))
          /\ Goto(c, "write", "wait")
          /\ UNCHANGED pending
       \/ /\ pi = "gone"
          /\ Goto(c, "write", "failed")
          /\ pending' = pending \ {c}
          /\ UNCHANGED stdin
    /\ UNCHANGED <<answer, readVars, stopping, subVars, stdout, piVars>>

\* The cases of the final select that are ready, whichever is chosen.
TakeAnswer(c) ==
    /\ answer[c] # Empty
    /\ Goto(c, "wait", IF answer[c] \in {Closed, Undecodable} THEN "failed" ELSE "answered")
    /\ UNCHANGED <<pending, answer, readVars, stopping, subVars, stdin, stdout, piVars>>

\* The context of a call need not end; that of callRunCommand never does, and
\* its caller may leave without a change to any state of the process.
ContextEnds(c) ==
    /\ Goto(c, "wait", "cancelled")
    /\ pending' = pending \ {c}
    /\ UNCHANGED <<answer, readVars, stopping, subVars, stdin, stdout, piVars>>

ProcessDone(c) ==
    /\ done
    /\ Goto(c, "wait", "failed")
    /\ UNCHANGED <<pending, answer, readVars, stopping, subVars, stdin, stdout, piVars>>

-----------------------------------------------------------------------------
(* readLoop and dispatch *)

\* Mutant: answers are taken to come in the order of the commands.
WaiterInOrder(c) == IF pending = {} THEN None ELSE CHOOSE d \in pending : TRUE
\* The call an answer belongs to: correlated by id, if it still waits.
Waiter(c) == IF c \in pending THEN c ELSE None

\* Mutant: an event that finds the signal set is dropped.
PushedSignalled(s, n) ==
    IF s.signal THEN s ELSE [s EXCEPT !.queue = Append(@, n), !.signal = TRUE]
\* subscription.push: queued first, then signalled unless a signal is buffered.
Pushed(s, n) == [s EXCEPT !.queue = Append(@, n), !.signal = TRUE]

Next1 == Head(stdout)

DispatchTo(c, what) ==
    /\ reader = "scan" /\ stdout # <<>> /\ Next1.kind = "answer"
    /\ stdout' = Tail(stdout)
    /\ pending' = pending \ {c}
    /\ answer' = IF c = None THEN answer ELSE [answer EXCEPT ![c] = what]
    /\ UNCHANGED <<call, readVars, stopping, subVars, stdin, piVars>>

\* Mutant: an answer that does not decode is skipped.
DispatchAnswerSkips ==
    \/ DispatchTo(Waiter(Next1.of), Full(Next1.of))
    \/ MayMisbehave /\ DispatchTo(Waiter(Next1.of), Empty)
DispatchAnswer ==
    \/ DispatchTo(Waiter(Next1.of), Full(Next1.of))
    \/ MayMisbehave /\ DispatchTo(Waiter(Next1.of), Undecodable)

DispatchEvent ==
    /\ reader = "scan" /\ stdout # <<>> /\ Next1.kind = "event"
    /\ stdout' = Tail(stdout)
    /\ sub' = [s \in Subs |-> IF s \in subs THEN Pushed(sub[s], Next1.n) ELSE sub[s]]
    /\ dispatched' = Next1.n
    /\ UNCHANGED <<callVars, reader, exitErr, done, stopping, subs, got, stdin, piVars>>

\* A dialog is answered by the read loop itself.
DispatchDialog ==
    /\ reader = "scan" /\ stdout # <<>> /\ Next1.kind = "dialog"
    /\ stdout' = Tail(stdout)
    /\ reader' = "reply"
    /\ UNCHANGED <<callVars, exitErr, done, dispatched, stopping, subVars, stdin, piVars>>

\* Mutant: a reply that cannot be written is tried again.
WriteReplyAgain ==
    /\ reader = "reply"
    /\ pi = "up" /\ Len(stdin) < Room /\ stdin' = Append(stdin, Reply)
    /\ reader' = "scan"
    /\ UNCHANGED <<callVars, exitErr, done, dispatched, stopping, subVars, stdout, piVars>>
WriteReply ==
    /\ reader = "reply"
    /\ \/ pi = "up" /\ Len(stdin) < Room /\ stdin' = Append(stdin, Reply)
       \/ pi = "gone" /\ UNCHANGED stdin
    /\ reader' = "scan"
    /\ UNCHANGED <<callVars, exitErr, done, dispatched, stopping, subVars, stdout, piVars>>

\* The scanner ends: pi closed its stdout, or a record is longer than
\* maxLineBytes.  cmd.Wait follows, which returns when pi is gone.
ScanEnds ==
    /\ reader = "scan"
    /\ \/ stdout = <<>> /\ pi = "gone"
       \/ stdout # <<>> /\ Next1 = Overlong
    /\ reader' = "reap"
    /\ UNCHANGED <<callVars, exitErr, done, dispatched, stopping, subVars, stdin, stdout, piVars>>

\* Mutant: the subscriptions are left open.
FailPendingKeepSubs ==
    /\ reader = "reap" /\ pi = "gone"
    /\ reader' = "close" /\ exitErr' = TRUE
    /\ pending' = {}
    /\ answer' = [c \in Calls |-> IF c \in pending THEN Closed ELSE answer[c]]
    /\ UNCHANGED <<call, done, dispatched, stopping, subVars, stdin, stdout, piVars>>
\* The locked section after Wait: pending channels and subscriptions close.
FailPending ==
    /\ reader = "reap" /\ pi = "gone"
    /\ reader' = "close" /\ exitErr' = TRUE
    /\ pending' = {}
    /\ answer' = [c \in Calls |-> IF c \in pending THEN Closed ELSE answer[c]]
    /\ subs' = {}
    /\ sub' = [s \in Subs |-> IF s \in subs THEN [sub[s] EXCEPT !.done = TRUE] ELSE sub[s]]
    /\ UNCHANGED <<call, done, dispatched, stopping, got, stdin, stdout, piVars>>

CloseDone ==
    /\ reader = "close"
    /\ reader' = "end" /\ done' = TRUE
    /\ UNCHANGED <<callVars, exitErr, dispatched, stopping, subVars, stdin, stdout, piVars>>

-----------------------------------------------------------------------------
(* Subscriptions *)

NoSub == [queue |-> <<>>, signal |-> FALSE, done |-> FALSE, pump |-> "off", ev |-> 0, from |-> 0]

Pump(s, from, new) ==
    /\ sub[s].pump = from
    /\ sub' = [sub EXCEPT ![s] = new]
    /\ UNCHANGED <<callVars, readVars, stopping, stdin, stdout, piVars>>

\* subscribe: a subscription to an exited process is closed at once.
Subscribe(s) ==
    /\ Pump(s, "off", [NoSub EXCEPT !.pump = "check", !.done = exitErr, !.from = dispatched])
    /\ subs' = IF exitErr THEN subs ELSE subs \cup {s}
    /\ UNCHANGED got

PumpLooks(s) ==
    /\ Pump(s, "check", IF sub[s].queue = <<>> THEN [sub[s] EXCEPT !.pump = "select"]
                        ELSE [sub[s] EXCEPT !.pump = "send", !.ev = Head(sub[s].queue),
                                            !.queue = Tail(@)])
    /\ UNCHANGED <<subs, got>>

PumpWakes(s) ==
    /\ sub[s].signal
    /\ Pump(s, "select", [sub[s] EXCEPT !.signal = FALSE, !.pump = "check"])
    /\ UNCHANGED <<subs, got>>

\* The consumer takes the event from the unbuffered channel.
Deliver(s) ==
    /\ Pump(s, "send", [sub[s] EXCEPT !.pump = "check", !.ev = 0])
    /\ got' = [got EXCEPT ![s] = Append(@, sub[s].ev)]
    /\ UNCHANGED subs

\* The pump sees done and closes the channel; what is queued is discarded.
PumpEnds(s) ==
    /\ sub[s].done /\ sub[s].pump \in {"select", "send"}
    /\ Pump(s, sub[s].pump, [sub[s] EXCEPT !.pump = "end", !.ev = 0, !.queue = <<>>])
    /\ UNCHANGED <<subs, got>>

\* subscription.Cancel.
Cancel(s) ==
    /\ sub[s].pump # "off" /\ ~sub[s].done
    /\ subs' = subs \ {s}
    /\ sub' = [sub EXCEPT ![s].done = TRUE]
    /\ UNCHANGED <<callVars, readVars, stopping, got, stdin, stdout, piVars>>

-----------------------------------------------------------------------------
(* stop *)

Stop ==
    /\ stopping = "no"
    /\ stopping' = IF done THEN "returned" ELSE "term"
    /\ UNCHANGED <<callVars, readVars, subVars, stdin, stdout, piVars>>

\* processStopGrace passed.
Kill ==
    /\ stopping = "term"
    /\ stopping' = "kill"
    /\ UNCHANGED <<callVars, readVars, subVars, stdin, stdout, piVars>>

StopReturns ==
    /\ stopping \in {"term", "kill"} /\ done
    /\ stopping' = "returned"
    /\ UNCHANGED <<callVars, readVars, subVars, stdin, stdout, piVars>>

-----------------------------------------------------------------------------
(* The pi process *)

\* pi is in the middle of writing the last record, which does not fit (yet).
Blocked == stdout # <<>> /\ (Len(stdout) > Room \/ Last(stdout) = Overlong)

\* It reads a command, or the reply to its dialog.
PiReads ==
    /\ pi = "up" /\ stdin # <<>>
    /\ ~Blocked \/ ReadsWhileBlocked
    /\ stdin' = Tail(stdin)
    /\ IF Head(stdin) = Reply
       THEN dialog' = FALSE /\ UNCHANGED todo
       ELSE todo' = todo \cup {Head(stdin).of} /\ UNCHANGED dialog
    /\ UNCHANGED <<callVars, readVars, stopping, subVars, stdout, pi, emitted, dialogs>>

PiWrites(record) ==
    /\ pi = "up" /\ ~Blocked
    /\ stdout' = Append(stdout, record)
    /\ UNCHANGED <<callVars, readVars, stopping, subVars, stdin, pi>>

\* No call waits for another answer to this command.  Bound: pi writes one only
\* on an empty pipe that is read.
Unawaited(c) == call[c] # "new" /\ c \notin pending /\ stdout = <<>> /\ reader = "scan"

\* A pi that misbehaves answers again, or answers what was given up.
PiAnswers(c) ==
    /\ c \in todo \/ (MayMisbehave /\ Unawaited(c))
    /\ PiWrites(Answer(c))
    /\ todo' = todo \ {c}
    /\ UNCHANGED <<emitted, dialogs, dialog>>

PiEmits ==
    /\ emitted < MaxEvents
    /\ PiWrites(Event(emitted + 1))
    /\ emitted' = emitted + 1
    /\ UNCHANGED <<todo, dialogs, dialog>>

PiAsks ==
    /\ dialogs < MaxDialogs /\ ~dialog
    /\ PiWrites(Dialog)
    /\ dialogs' = dialogs + 1 /\ dialog' = TRUE
    /\ UNCHANGED <<todo, emitted>>

PiOverflows ==
    /\ MayMisbehave
    /\ PiWrites(Overlong)
    /\ UNCHANGED <<todo, emitted, dialogs, dialog>>

\* A record it was writing is never completed.
Exit ==
    /\ pi = "up"
    /\ pi' = "gone" /\ todo' = {} /\ dialog' = FALSE /\ stdin' = <<>>
    /\ stdout' = IF Blocked THEN Front(stdout) ELSE stdout
    /\ UNCHANGED <<callVars, readVars, stopping, subVars, emitted, dialogs>>

-----------------------------------------------------------------------------
(* Specification *)

Init ==
    /\ call = [c \in Calls |-> "new"] /\ pending = {} /\ answer = [c \in Calls |-> Empty]
    /\ reader = "scan" /\ exitErr = FALSE /\ done = FALSE /\ dispatched = 0
    /\ stopping = "no"
    /\ subs = {} /\ sub = [s \in Subs |-> NoSub] /\ got = [s \in Subs |-> <<>>]
    /\ stdin = <<>> /\ stdout = <<>>
    /\ pi = "up" /\ todo = {} /\ emitted = 0 /\ dialogs = 0 /\ dialog = FALSE

CallStep(c) == WriteCommand(c) \/ TakeAnswer(c) \/ ProcessDone(c)

ReadStep ==
    \/ DispatchAnswer \/ DispatchEvent \/ DispatchDialog \/ WriteReply
    \/ ScanEnds \/ FailPending \/ CloseDone

PumpStep(s) == PumpLooks(s) \/ PumpWakes(s) \/ PumpEnds(s)

Next ==
    \/ \E c \in Calls : Register(c) \/ CallStep(c) \/ ContextEnds(c) \/ PiAnswers(c)
    \/ ReadStep
    \/ \E s \in Subs : Subscribe(s) \/ PumpStep(s) \/ Deliver(s) \/ Cancel(s)
    \/ Stop \/ Kill \/ StopReturns
    \/ PiReads \/ PiEmits \/ PiAsks \/ PiOverflows \/ Exit

Spec == Init /\ [][Next]_vars

\* Goroutines are scheduled, and writeMu is starvation-free.  Consumers go on
\* receiving.  pi reads and answers what it has read; it exits of its own accord
\* or not, but SIGKILL ends it.
Fairness ==
    /\ \A c \in Calls : /\ WF_vars(TakeAnswer(c) \/ ProcessDone(c))
                        /\ SF_vars(WriteCommand(c))
                        /\ SF_vars(c \in todo /\ PiAnswers(c))
    /\ WF_vars(ReadStep) /\ SF_vars(WriteReply)
    /\ \A s \in Subs : WF_vars(PumpStep(s)) /\ WF_vars(Deliver(s))
    /\ WF_vars(Kill) /\ WF_vars(StopReturns)
    /\ WF_vars(PiReads) /\ WF_vars(stopping = "kill" /\ Exit)

FairSpec == Spec /\ Fairness

-----------------------------------------------------------------------------
(* Properties *)

\* subscription: "the stdout read loop never blocks on a slow consumer": what a
\* consumer has received, what its pump holds and what is queued are the events
\* since it subscribed, each once and in order; all of them while it is open.
EventsInOrder ==
    \A s \in Subs :
        LET here == got[s] \o (IF sub[s].pump = "send" THEN <<sub[s].ev>> ELSE <<>>) \o sub[s].queue
        IN  /\ Len(here) <= dispatched - sub[s].from
            /\ \A i \in 1..Len(here) : here[i] = sub[s].from + i
            /\ s \in subs => Len(here) = dispatched - sub[s].from

\* call: an answer goes to the call whose command it answers, whatever other
\* calls gave up on theirs; a call that waits can still be answered; and a call
\* fails because pi is gone or its answer does not decode, nothing else.
CallsCorrelated ==
    \A c \in Calls :
        /\ answer[c] \in {Empty, Closed, Undecodable, Full(c)}
        /\ call[c] = "failed" => pi = "gone" \/ answer[c] = Undecodable
        /\ call[c] \in {"write", "wait"} => c \in pending \/ answer[c] # Empty

\* A call that began returns, and one that callRunCommand gave up on completes,
\* unless a record that no scanner takes has ended the reading of a live pi.
CallsReturn ==
    \A c \in Calls :
        call[c] \in {"write", "wait"} ~>
            \/ call[c] \in {"answered", "failed", "cancelled"}
            \/ reader = "reap" /\ pi = "up"

\* An event that was queued reaches its consumer or the subscription ends; and
\* once the process is done the channel of every subscription is closed.
EventsDelivered ==
    \A s \in Subs :
        /\ sub[s].queue # <<>> ~> sub[s].queue = <<>>
        /\ done /\ sub[s].pump # "off" ~> sub[s].pump = "end"

\* stop returns, whatever its pipes are full of and whoever waits for them.
StopEnds == stopping = "term" ~> stopping = "returned"

\* dialogMethods: "an extension dialog can never wedge a session".
DialogsAnswered == dialog ~> ~dialog
=============================================================================
