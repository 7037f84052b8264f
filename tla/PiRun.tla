------------------------------- MODULE PiRun -------------------------------
(***************************************************************************)
(* One session of the pi manager (internal/pi/manager.go): prompt calls    *)
(* compete for the session's run slot and drive an asynchronous pi process *)
(* whose answers may come after the caller gave up on them.                *)
(*                                                                         *)
(* A call is one Send or SubmitWithHostTools together with the background  *)
(* supervision (finishDetached) it may leave behind.  An abort operation   *)
(* is one increment of session.abortPending, taken by an AbortSession      *)
(* request or by abortProcess, and lives until its releaseAbort.           *)
(*                                                                         *)
(* The section "The pi process" is external: it is what manager.go relies  *)
(* on.  Pi answers commands in any order and at any time, acknowledges an  *)
(* abort only while it is idle, and does not let an abort cancel a prompt  *)
(* that is still in preflight.                                             *)
(*                                                                         *)
(* A definition marked "Mutant" is a plausible mistake in the definition   *)
(* below it.  It is used by no specification: it shows which property that *)
(* mistake would violate.                                                  *)
(***************************************************************************)
EXTENDS Naturals, FiniteSets

CONSTANTS
    Senders,       \* calls of Send: cancelled with their request
    Submitters,    \* calls of SubmitWithHostTools: detached from their request
    AbortOps,      \* bound: abort operations outstanding at the same time
    MaxRuns,       \* bound: reservations of the slot, runEpoch never exceeds it
    AbortMayFail,  \* TRUE if pi may answer an abort with success = false
    Free, Janitor, \* owners of the slot that are not calls
    None

Calls == Senders \cup Submitters

ASSUME CallsAssumption ==
    /\ Senders \cap Submitters = {}
    /\ {Free, Janitor, None} \cap Calls = {}
    /\ Free # Janitor
ASSUME BoundsAssumption ==
    /\ IsFiniteSet(AbortOps)
    /\ MaxRuns \in Nat
    /\ AbortMayFail \in BOOLEAN

VARIABLES
    (* type session, guarded by Manager.mu *)
    slot,           \* owner of runSlot's token, Free when the channel is empty
    runEpoch,
    abortRequested,
    abortPending,
    modelPending,
    turn,           \* the call whose detached run s.turn points to, or None
    mapped,         \* the session is in Manager.sessions
    recent,         \* lastUsed lies within the idle timeout
    (* the goroutines *)
    pc,             \* where each call is
    ops,            \* the abort operations
    (* type hostRelay of the session's process *)
    grant,          \* r.current: reservation, active, deadline timer armed
    connected,      \* the extension's connection is open (not r.closed)
    terminating,
    (* the pi process, external *)
    proc,           \* "up", "stopping" once stop() was called, "exited"
    prompt,         \* each call's prompt command
    setModel,       \* reservation of the unanswered set_model, 0 if there is none
    run,            \* the call whose prompt the agent is working on, or None
    settled         \* calls whose subscription holds an agent_settled event

sessionVars == <<slot, runEpoch, abortRequested, modelPending, turn>>
lifeVars    == <<mapped, proc>>
abortVars   == <<abortPending, ops>>
hostVars    == <<grant, connected, terminating>>
piVars      == <<prompt, setModel, run, settled>>
vars == <<sessionVars, abortVars, hostVars, piVars, lifeVars, recent, pc>>

-----------------------------------------------------------------------------
(* Helpers *)

\* A call holds the session pointer from attach on, the slot from acquireRun on.
HoldingPC ==
    {"host", "model", "modelWait", "cursor", "check", "write", "prompting",
     "accepted", "settling", "abortWait", "pendingPrompt", "detach", "verify",
     "replay", "abortWaitD", "supervise", "finish", "release", "drain"}
PCs == {"idle", "attached"} \cup HoldingPC

\* The calls whose subscription is open: from subscribe to sub.Cancel.
SubscribedPC ==
    {"check", "write", "prompting", "accepted", "settling", "abortWait",
     "pendingPrompt", "detach", "verify", "replay", "abortWaitD", "supervise"}
Subscribed == {c \in Calls : pc[c] \in SubscribedPC}

Goto(c, from, to) == pc[c] = from /\ pc' = [pc EXCEPT ![c] = to]

NoOp == [st |-> "free", by |-> None, epoch |-> 0]
NoGrant == [epoch |-> 0, active |-> FALSE, armed |-> FALSE]

\* Mutant: revoking the tools retires the deadline too.
RevokedForGood(g) == [g EXCEPT !.active = FALSE, !.armed = FALSE]
\* hostRelay.revoke: the tools stop, the deadline timer does not.
Revoked(g) == [g EXCEPT !.active = FALSE]
\* hostRelay.finishLocked: the deadline timer stops.
Finished(g) == [g EXCEPT !.armed = FALSE]

\* finishHostIfIdleLocked, with the values the locked section leaves behind.
FinishHostIfIdle(slotN, modelN, abortN) ==
    grant' = IF slotN = Free /\ ~modelN /\ abortN = 0 THEN Finished(grant) ELSE grant

\* The unlocked increment of abortPending and its operation record.
ReserveAbort(o, by, st) ==
    /\ ops[o] = NoOp
    /\ ops' = [ops EXCEPT ![o] = [st |-> st, by |-> by, epoch |-> runEpoch]]
    /\ abortPending' = abortPending + 1
-----------------------------------------------------------------------------
(* Reserving the slot *)

\* attach returns the mapped session; an exited process is pruned instead.
Attach(c) ==
    /\ Goto(c, "idle", "attached")
    /\ mapped /\ proc # "exited"
    /\ UNCHANGED <<sessionVars, abortVars, hostVars, piVars, lifeVars, recent>>

\* Mutants: an unfinished abort, or an unfinished set_model, is not waited for.
ReservableDespiteAbort == ~terminating /\ ~modelPending /\ slot = Free
ReservableDespiteModel == ~terminating /\ abortPending = 0 /\ slot = Free
\* The conditions of acquireRun.
Reservable == ~terminating /\ ~modelPending /\ abortPending = 0 /\ slot = Free

AcquireRun(c) ==
    /\ Goto(c, "attached", IF c \in Senders THEN "check" ELSE "host")
    /\ Reservable
    /\ runEpoch < MaxRuns
    /\ slot' = c
    /\ runEpoch' = runEpoch + 1
    /\ abortRequested' = FALSE
    /\ UNCHANGED <<modelPending, turn, abortVars, hostVars, piVars, lifeVars, recent>>

\* ErrBusy, ErrSetModel or errProcessExited: the call fails without the slot.
Busy(c) ==
    /\ Goto(c, "attached", "idle")
    /\ ~Reservable
    /\ UNCHANGED <<sessionVars, abortVars, hostVars, piVars, lifeVars, recent>>

\* releaseRun revokes the grant before it takes the lock.
RevokeGrant(c) ==
    /\ Goto(c, "release", "drain")
    /\ grant' = Revoked(grant)
    /\ UNCHANGED <<sessionVars, abortVars, connected, terminating, piVars, lifeVars, recent>>

\* The locked section of releaseRun; the call is over.
ReleaseRun(c) ==
    /\ Goto(c, "drain", "idle")
    /\ slot' = Free
    /\ FinishHostIfIdle(Free, modelPending, abortPending)
    /\ prompt' = [prompt EXCEPT ![c] = "none"]
    /\ settled' = settled \ {c}
    /\ recent' = TRUE
    /\ UNCHANGED <<runEpoch, abortRequested, modelPending, turn, abortVars,
                   connected, terminating, setModel, run, lifeVars>>

-----------------------------------------------------------------------------
(* SubmitWithHostTools before its prompt *)

\* isReady and authorize: the grant is bound to this reservation.
AuthorizeHost(c) ==
    /\ Goto(c, "host", "model")
    /\ connected
    /\ grant' = [epoch |-> runEpoch, active |-> TRUE, armed |-> TRUE]
    /\ UNCHANGED <<sessionVars, abortVars, connected, terminating, piVars, lifeVars, recent>>

\* A submission without host tools, or ErrHostUnsupported.
SkipHost(c) ==
    /\ \E to \in {"model", "release"} : Goto(c, "host", to)
    /\ UNCHANGED <<sessionVars, abortVars, hostVars, piVars, lifeVars, recent>>

RequestModel(c) ==
    /\ Goto(c, "model", "modelWait")
    /\ proc # "exited"
    /\ setModel' = runEpoch
    /\ UNCHANGED <<sessionVars, abortVars, hostVars, prompt, run, settled, lifeVars, recent>>

\* No selection, and get_state answers or fails.
SkipModel(c) ==
    /\ \E to \in {"cursor", "release"} : Goto(c, "model", to)
    /\ UNCHANGED <<sessionVars, abortVars, hostVars, piVars, lifeVars, recent>>

\* set_model was answered; it or its verification may have failed.
ModelAnswered(c) ==
    /\ \E to \in {"cursor", "release"} : Goto(c, "modelWait", to)
    /\ setModel = 0
    /\ UNCHANGED <<sessionVars, abortVars, hostVars, piVars, lifeVars, recent>>

\* quarantineModel: the command stays outstanding after the slot is released.
ModelTimesOut(c) ==
    /\ Goto(c, "modelWait", "release")
    /\ modelPending' = TRUE
    /\ UNCHANGED <<slot, runEpoch, abortRequested, turn, abortVars, hostVars, piVars,
                   lifeVars, recent>>

\* The goroutine of quarantineModel, once the command completed.
QuarantineEnds ==
    /\ modelPending /\ setModel = 0
    /\ modelPending' = FALSE
    /\ FinishHostIfIdle(slot, FALSE, abortPending)
    /\ recent' = TRUE
    /\ UNCHANGED <<slot, runEpoch, abortRequested, turn, abortVars, connected, terminating,
                   piVars, lifeVars, pc>>

\* getLeafCursor, then subscribe; an error releases the slot.
ReadCursor(c) ==
    /\ \E to \in {"check", "release"} : Goto(c, "cursor", to)
    /\ UNCHANGED <<sessionVars, abortVars, hostVars, piVars, lifeVars, recent>>

-----------------------------------------------------------------------------
(* The prompt *)

CheckAbort(c) ==
    /\ Goto(c, "check", IF abortRequested THEN "release" ELSE "write")
    /\ UNCHANGED <<sessionVars, abortVars, hostVars, piVars, lifeVars, recent>>

WritePrompt(c) ==
    /\ Goto(c, "write", "prompting")
    /\ prompt' = [prompt EXCEPT ![c] = IF proc = "exited" THEN "refused" ELSE "sent"]
    /\ UNCHANGED <<sessionVars, abortVars, hostVars, setModel, run, settled, lifeVars, recent>>

\* Rejected, handled without a run, or the process exited.
PromptRefused(c) ==
    /\ Goto(c, "prompting", "release")
    /\ prompt[c] = "refused"
    /\ UNCHANGED <<sessionVars, abortVars, hostVars, piVars, lifeVars, recent>>

PromptAccepted(c) ==
    /\ Goto(c, "prompting", IF c \in Senders THEN "accepted" ELSE "detach")
    /\ prompt[c] = "accepted"
    /\ UNCHANGED <<sessionVars, abortVars, hostVars, piVars, lifeVars, recent>>

\* pendingCommandError: startDetached keeps waiting for the acknowledgement.
PromptTimesOut(c) ==
    /\ Goto(c, "prompting", "pendingPrompt")
    /\ turn' = c
    /\ UNCHANGED <<slot, runEpoch, abortRequested, modelPending, abortVars, hostVars, piVars,
                   lifeVars, recent>>

StartDetached(c) ==
    /\ Goto(c, "detach", "verify")
    /\ turn' = c
    /\ UNCHANGED <<slot, runEpoch, abortRequested, modelPending, abortVars, hostVars, piVars,
                   lifeVars, recent>>

\* Mutant: Send does not look for an abort after the acceptance.
WaitAnyway(c) ==
    /\ Goto(c, "accepted", "settling")
    /\ UNCHANGED <<sessionVars, abortVars, hostVars, piVars, lifeVars, recent>>
\* Send waits for settlement unless an abort came before the acceptance.
WaitSettled(c) ==
    /\ Goto(c, "accepted", "settling")
    /\ ~abortRequested
    /\ UNCHANGED <<sessionVars, abortVars, hostVars, piVars, lifeVars, recent>>

\* agent_settled was consumed or the process exited: Send returns.
SendSettled(c) ==
    /\ Goto(c, "settling", "release")
    /\ c \in settled \/ proc = "exited"
    /\ UNCHANGED <<sessionVars, abortVars, hostVars, piVars, lifeVars, recent>>
-----------------------------------------------------------------------------
(* Detached supervision: finishDetached *)

\* The outstanding acknowledgement arrived. Send's own cancellation is replayed
\* (abortOnAcceptance); a submission only replays an AbortSession.
PendingResolved(c) ==
    /\ \/ prompt[c] = "refused" /\ Goto(c, "pendingPrompt", "finish")
       \/ prompt[c] = "accepted"
          /\ Goto(c, "pendingPrompt", IF c \in Senders THEN "replay" ELSE "verify")
    /\ UNCHANGED <<sessionVars, abortVars, hostVars, piVars, lifeVars, recent>>

Supervise(c) ==
    /\ Goto(c, "verify", "supervise")
    /\ ~abortRequested
    /\ UNCHANGED <<sessionVars, abortVars, hostVars, piVars, lifeVars, recent>>

RunEnded(c) ==
    /\ Goto(c, "supervise", "finish")
    /\ c \in settled \/ proc = "exited"
    /\ UNCHANGED <<sessionVars, abortVars, hostVars, piVars, lifeVars, recent>>

\* Mutant: the supervisor ends without releaseRun.
FinishUnreleased(c) ==
    /\ Goto(c, "finish", "idle")
    /\ turn' = IF turn = c THEN None ELSE turn
    /\ UNCHANGED <<slot, runEpoch, abortRequested, modelPending, abortVars, hostVars, piVars,
                   lifeVars, recent>>
\* The deferred block of finishDetached, up to its releaseRun.
FinishDetached(c) ==
    /\ Goto(c, "finish", "release")
    /\ turn' = IF turn = c THEN None ELSE turn
    /\ UNCHANGED <<slot, runEpoch, abortRequested, modelPending, abortVars, hostVars, piVars,
                   lifeVars, recent>>

-----------------------------------------------------------------------------
(* Aborts *)

\* abortProcess: by Send after acceptance, by Send when its request is
\* cancelled or onEvent fails, and by finishDetached.
AbortProcess(c, o) ==
    /\ \/ Goto(c, "accepted", "abortWait") /\ abortRequested
       \/ Goto(c, "settling", "abortWait")
       \/ Goto(c, "replay", "abortWaitD")
       \/ Goto(c, "verify", "abortWaitD") /\ abortRequested
    /\ ReserveAbort(o, c, "ready")
    /\ UNCHANGED <<sessionVars, hostVars, piVars, lifeVars, recent>>

\* The locked section of Abort.
AbortSession(o) ==
    /\ mapped
    /\ abortRequested' = (abortRequested \/ slot # Free)
    /\ ReserveAbort(o, None, "reserved")
    /\ UNCHANGED <<slot, runEpoch, modelPending, turn, hostVars, piVars, lifeVars, recent, pc>>

\* Abort revokes the host grant outside the lock, then dispatches.
RevokeForAbort(o) ==
    /\ ops[o].st = "reserved"
    /\ ops' = [ops EXCEPT ![o].st = "ready"]
    /\ grant' = Revoked(grant)
    /\ UNCHANGED <<sessionVars, abortPending, connected, terminating, piVars, lifeVars,
                   recent, pc>>

DispatchAbort(o) ==
    /\ ops[o].st = "ready"
    /\ ops' = [ops EXCEPT ![o].st = IF proc = "exited" THEN "failed" ELSE "sent"]
    /\ UNCHANGED <<sessionVars, abortPending, hostVars, piVars, lifeVars, recent, pc>>

\* abortProcess returns to its caller: the call that waits for o goes on.
AbortReturns(c, confirmed) ==
    /\ pc' = [pc EXCEPT ![c] =
                CASE pc[c] = "abortWait"  -> IF confirmed THEN "release" ELSE "detach"
                  [] pc[c] = "abortWaitD" -> IF confirmed THEN "finish" ELSE "supervise"]

\* releaseAbort, by the caller of dispatchAbort or by the goroutine it left.
ReleaseAbort(o) ==
    /\ ops[o].st \in {"acked", "failed"}
    /\ ops' = [ops EXCEPT ![o] = NoOp]
    /\ abortPending' = abortPending - 1
    /\ FinishHostIfIdle(slot, modelPending, abortPending - 1)
    /\ recent' = TRUE
    /\ IF ops[o].by = None
       THEN UNCHANGED pc
       ELSE AbortReturns(ops[o].by, ops[o].st = "acked")
    /\ UNCHANGED <<sessionVars, connected, terminating, piVars, lifeVars>>

\* The ten seconds of abortProcess: its caller goes on, the barrier stays.
AbortTimesOut(o) ==
    /\ ops[o].by # None
    /\ ops' = [ops EXCEPT ![o].by = None]
    /\ AbortReturns(ops[o].by, FALSE)
    /\ UNCHANGED <<sessionVars, abortPending, hostVars, piVars, lifeVars, recent>>

-----------------------------------------------------------------------------
(* The pi process (external) *)

AcceptPrompt(c) ==
    /\ prompt[c] = "sent" /\ run = None
    /\ prompt' = [prompt EXCEPT ![c] = "accepted"]
    /\ run' = c
    /\ UNCHANGED <<sessionVars, abortVars, hostVars, setModel, settled, lifeVars, recent, pc>>

RefusePrompt(c) ==
    /\ prompt[c] = "sent"
    /\ prompt' = [prompt EXCEPT ![c] = "refused"]
    /\ UNCHANGED <<sessionVars, abortVars, hostVars, setModel, run, settled, lifeVars, recent, pc>>

\* The run is over: agent_settled reaches every open subscription.
RunOver ==
    /\ run # None
    /\ run' = None
    /\ settled' = settled \cup Subscribed
    /\ UNCHANGED <<sessionVars, abortVars, hostVars, prompt, setModel, lifeVars, recent, pc>>

Settle == RunOver

StrikeRun(o) == ops[o].st = "sent" /\ RunOver

AckAbort(o) ==
    /\ ops[o].st = "sent" /\ run = None
    /\ ops' = [ops EXCEPT ![o].st = "acked"]
    /\ UNCHANGED <<sessionVars, abortPending, hostVars, piVars, lifeVars, recent, pc>>

RejectAbort(o) ==
    /\ AbortMayFail
    /\ ops[o].st = "sent"
    /\ ops' = [ops EXCEPT ![o].st = "failed"]
    /\ UNCHANGED <<sessionVars, abortPending, hostVars, piVars, lifeVars, recent, pc>>

AnswerSetModel ==
    /\ setModel # 0
    /\ setModel' = 0
    /\ UNCHANGED <<sessionVars, abortVars, hostVars, prompt, run, settled, lifeVars, recent, pc>>

\* A crash, or the end of stop(): readLoop fails every outstanding command.
Exit ==
    /\ proc # "exited"
    /\ proc' = "exited"
    /\ run' = None
    /\ setModel' = 0
    /\ prompt' = [c \in Calls |-> IF prompt[c] = "sent" THEN "refused" ELSE prompt[c]]
    /\ ops' = [o \in AbortOps |->
                 IF ops[o].st = "sent" THEN [ops[o] EXCEPT !.st = "failed"] ELSE ops[o]]
    /\ UNCHANGED <<sessionVars, abortPending, hostVars, settled, mapped, recent, pc>>
-----------------------------------------------------------------------------
(* The host relay's deadline and transport *)

Stopping == IF proc = "exited" THEN "exited" ELSE "stopping"

\* hostRelay.expire: the deadline of an unfinished grant stops the process.
ExpireGrant ==
    /\ connected /\ grant.armed /\ ~terminating
    /\ terminating' = TRUE
    /\ grant' = Revoked(grant)
    /\ proc' = Stopping
    /\ UNCHANGED <<sessionVars, abortVars, connected, piVars, mapped, recent, pc>>

\* hostRelay.disconnect: only an active grant stops the process.
Disconnect ==
    /\ connected
    /\ connected' = FALSE
    /\ terminating' = (terminating \/ grant.active)
    /\ proc' = IF grant.active THEN Stopping ELSE proc
    /\ grant' = Finished(Revoked(grant))
    /\ UNCHANGED <<sessionVars, abortVars, piVars, mapped, recent, pc>>

\* The goroutine of startSessionProcess that waits for the process's exit.
CloseRelay ==
    /\ connected /\ proc = "exited"
    /\ connected' = FALSE
    /\ grant' = Finished(Revoked(grant))
    /\ UNCHANGED <<sessionVars, abortVars, terminating, piVars, lifeVars, recent, pc>>

-----------------------------------------------------------------------------
(* The end of the session *)

\* Delete, or Stop of the whole manager: off the map, then process.stop.
Delete ==
    /\ mapped
    /\ mapped' = FALSE
    /\ proc' = Stopping
    /\ UNCHANGED <<sessionVars, abortVars, hostVars, piVars, recent, pc>>

\* pruneExitedSessionsLocked.
PruneExited ==
    /\ mapped /\ proc = "exited"
    /\ mapped' = FALSE
    /\ UNCHANGED <<sessionVars, abortVars, hostVars, piVars, proc, recent, pc>>

\* lastUsed falls behind the idle timeout, or touch renews it.
IdleTimeout ==
    /\ recent /\ recent' = FALSE
    /\ UNCHANGED <<sessionVars, abortVars, hostVars, piVars, lifeVars, pc>>
Touch ==
    /\ mapped /\ ~recent /\ recent' = TRUE
    /\ UNCHANGED <<sessionVars, abortVars, hostVars, piVars, lifeVars, pc>>

Collectable == ~modelPending /\ abortPending = 0 /\ ~recent /\ slot = Free

\* One idle session of a janitor tick: its token is taken and never returned,
\* so nothing can run between the unlock and process.stop.
Collect ==
    /\ mapped
    /\ Collectable
    /\ slot' = Janitor
    /\ mapped' = FALSE
    /\ proc' = Stopping
    /\ UNCHANGED <<runEpoch, abortRequested, modelPending, turn, abortVars, hostVars, piVars,
                   recent, pc>>

-----------------------------------------------------------------------------
(* Specification *)

Init ==
    /\ slot = Free /\ runEpoch = 0 /\ abortRequested = FALSE
    /\ modelPending = FALSE /\ turn = None
    /\ abortPending = 0 /\ ops = [o \in AbortOps |-> NoOp]
    /\ grant = NoGrant /\ connected = TRUE /\ terminating = FALSE
    /\ prompt = [c \in Calls |-> "none"] /\ setModel = 0
    /\ run = None /\ settled = {}
    /\ mapped = TRUE /\ proc = "up" /\ recent = TRUE
    /\ pc = [c \in Calls |-> "idle"]

\* Steps a call takes on its own once they are possible.
Advance(c) ==
    \/ AcquireRun(c) \/ Busy(c) \/ RevokeGrant(c) \/ ReleaseRun(c)
    \/ AuthorizeHost(c) \/ SkipHost(c) \/ RequestModel(c) \/ SkipModel(c)
    \/ ModelAnswered(c) \/ ReadCursor(c) \/ CheckAbort(c) \/ WritePrompt(c)
    \/ PromptRefused(c) \/ PromptAccepted(c) \/ StartDetached(c) \/ WaitSettled(c)
    \/ SendSettled(c) \/ PendingResolved(c) \/ Supervise(c) \/ RunEnded(c)
    \/ FinishDetached(c)

CallStep(c) ==
    \/ Attach(c) \/ Advance(c)
    \/ ModelTimesOut(c) \/ PromptTimesOut(c)
    \/ \E o \in AbortOps : AbortProcess(c, o)

AbortStep(o) ==
    \/ AbortSession(o) \/ RevokeForAbort(o) \/ DispatchAbort(o)
    \/ ReleaseAbort(o) \/ AbortTimesOut(o)

PiStep ==
    \/ \E c \in Calls : AcceptPrompt(c) \/ RefusePrompt(c)
    \/ Settle
    \/ \E o \in AbortOps : StrikeRun(o) \/ AckAbort(o) \/ RejectAbort(o)
    \/ AnswerSetModel \/ Exit

HostStep == ExpireGrant \/ Disconnect \/ CloseRelay

LifeStep == Delete \/ PruneExited \/ IdleTimeout \/ Touch \/ Collect

Next ==
    \/ \E c \in Calls : CallStep(c)
    \/ \E o \in AbortOps : AbortStep(o)
    \/ QuarantineEnds
    \/ PiStep \/ HostStep \/ LifeStep

Spec == Init /\ [][Next]_vars

\* What a run relies on to end: goroutines are scheduled, Pi answers every
\* command and obeys an abort, and a stopped process exits (SIGKILL).  Time
\* (timeouts, cancelled requests, deadlines) is never relied on.  AbortProcess
\* gets strong fairness because the bound AbortOps may keep it waiting.
Fairness ==
    /\ \A c \in Calls :
         /\ WF_vars(Advance(c))
         /\ SF_vars(pc[c] # "settling" /\ \E o \in AbortOps : AbortProcess(c, o))
         /\ WF_vars(AcceptPrompt(c) \/ RefusePrompt(c))
    /\ \A o \in AbortOps :
         /\ WF_vars(RevokeForAbort(o) \/ DispatchAbort(o) \/ ReleaseAbort(o))
         /\ WF_vars(StrikeRun(o))
         /\ WF_vars(AckAbort(o))
    /\ WF_vars(QuarantineEnds)
    /\ WF_vars(AnswerSetModel)
    /\ WF_vars(proc = "stopping" /\ Exit)

\* Runs need not settle by themselves: only an abort or an exit ends them.
EndlessSpec == Spec /\ Fairness

-----------------------------------------------------------------------------
(* Properties *)

TypeOK ==
    /\ slot \in Calls \cup {Free, Janitor}
    /\ runEpoch \in 0..MaxRuns
    /\ abortRequested \in BOOLEAN
    /\ abortPending \in Nat
    /\ modelPending \in BOOLEAN
    /\ turn \in Calls \cup {None}
    /\ mapped \in BOOLEAN
    /\ recent \in BOOLEAN
    /\ pc \in [Calls -> PCs]
    /\ ops \in [AbortOps -> [st : {"free", "reserved", "ready", "sent", "acked", "failed"},
                             by : Calls \cup {None}, epoch : 0..MaxRuns]]
    /\ grant \in [epoch : 0..MaxRuns, active : BOOLEAN, armed : BOOLEAN]
    /\ connected \in BOOLEAN
    /\ terminating \in BOOLEAN
    /\ proc \in {"up", "stopping", "exited"}
    /\ prompt \in [Calls -> {"none", "sent", "accepted", "refused"}]
    /\ setModel \in 0..MaxRuns
    /\ run \in Calls \cup {None}
    /\ settled \subseteq Calls

\* Session.runSlot: a run in Pi, and a prompt that Pi may still turn into one,
\* belong to the call that holds the slot, whatever timed out in between.
RunHoldsSlot == \A c \in Calls : run = c \/ prompt[c] = "sent" => slot = c

\* session.abortPending, session.modelPending: an unanswered native abort or
\* set_model belongs to the current reservation, so it never strikes a later
\* one's run nor changes the model under a prompt; and none is left to a session
\* that the janitor collected.
CommandsStayInReservation ==
    /\ \A o \in AbortOps : ops[o].st # "free" => ops[o].epoch = runEpoch /\ slot # Janitor
    /\ setModel # 0 =>
        /\ setModel = runEpoch /\ slot # Janitor
        /\ run = None
        /\ \A c \in Calls : prompt[c] # "sent"

NoRefusal == \A o \in AbortOps : ops[o].st # "failed"
CancelUnderWay ==
    \A c \in Calls :
        /\ run = c
        /\ \/ pc[c] = "supervise" /\ (c \in Senders \/ abortRequested)
           \/ pc[c] = "settling" /\ abortRequested
        => \E o \in AbortOps : ops[o].st \in {"reserved", "ready", "sent"}
\* A cancellation that came before the acceptance is replayed: a run somebody
\* cancelled is never left to settle by itself with no abort under way, if pi
\* refuses no native abort.  (A Send is supervised in the background only because
\* its request was cancelled.)
CancelNotLost == []NoRefusal => []CancelUnderWay

\* The settlement a call acts upon is the settlement of its own run.
SettledIsOwn ==
    \A c \in Subscribed : c \in settled => prompt[c] = "accepted" /\ run # c

\* authorize, revoke: host tools are usable only in the reservation they were
\* authorized for, and in a run that was asked to abort only while such an Abort
\* is still on its way to revoke them.
GrantInReservation ==
    grant.active =>
        /\ slot \in Submitters /\ grant.epoch = runEpoch
        /\ run # None /\ abortRequested => \E o \in AbortOps : ops[o].st = "reserved"

\* Nothing that belongs to one reservation reaches another one: no command, no
\* settlement, no grant.
ReservationIsolated == TypeOK /\ CommandsStayInReservation /\ SettledIsOwn /\ GrantInReservation

\* hostRelay.finish, finishHostIfIdleLocked: a deadline that can still stop the
\* process belongs to the current reservation or to a command it left
\* outstanding, never to a session that became idle; and as long as the
\* extension is connected it covers its reservation's run and commands.
DeadlineExact ==
    /\ grant.armed =>
        /\ grant.epoch = runEpoch
        /\ slot # Free \/ modelPending \/ abortPending # 0
    /\ connected /\ grant.epoch = runEpoch /\ runEpoch # 0 =>
        \/ grant.armed
        \/ run = None /\ setModel = 0 /\ \A c \in Calls : prompt[c] # "sent"

\* docs/pi-host-tools.md: revocation does not retire the deadline, which stays
\* armed until the run is over, unless the process is stopped.
DeadlineOutlivesRevocation ==
    [][grant.armed /\ ~grant'.armed => run' = None \/ proc' # "up"]_vars

\* Every path of Send, SubmitWithHostTools and finishDetached gives the slot
\* back, if Pi answers and its runs settle.
SlotReleased == WF_vars(Settle) => \A c \in Calls : slot = c ~> slot # c

\* An AbortSession accepted at any point of a reservation ends it, even if its
\* run would never settle by itself, if Pi refuses no native abort.
AbortEndsReservation ==
    []NoRefusal =>
        \A c \in Calls : (slot = c /\ abortRequested) ~> slot # c

\* No reservation outlives its run: by itself, or by an abort.
RunsEnd == SlotReleased /\ AbortEndsReservation

\* The session implements the one-run service: its reservation is the slot's
\* owner, its outstanding commands are those pi has not answered yet.
Service == INSTANCE OneRun WITH
    Closed <- Janitor,
    holder <- IF slot = Free THEN None ELSE slot,
    running <- run,
    ran <- slot \in Calls /\ prompt[slot] = "accepted",
    outstanding <- setModel # 0 \/ \E o \in AbortOps : ops[o].st = "sent"
ServiceSpec == Service!Spec
=============================================================================
