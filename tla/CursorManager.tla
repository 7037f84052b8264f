--------------------------- MODULE CursorManager ---------------------------
(***************************************************************************)
(* The Cursor manager (internal/cursor/manager.go): its table of sessions, *)
(* each served by one SDK bridge process, and the requests that share it:  *)
(* Create, Send, Abort, ListModels, the janitor and Stop.                  *)
(*                                                                         *)
(* Every request is made once and starts at most one bridge, so a bridge,  *)
(* and the session record that points to it, is named after the request    *)
(* that started it.  Stopping a bridge is a stage of the goroutine that    *)
(* called bridge.stop: the process may exit at any time and does exit      *)
(* while somebody is stopping it.                                          *)
(*                                                                         *)
(* A definition marked "Mutant" is a plausible mistake in the definition   *)
(* below it, used by no specification.                                     *)
(***************************************************************************)
EXTENDS Naturals, FiniteSets

CONSTANTS
    Agents,       \* durable Cursor agents: the session ids
    Reqs,         \* requests of Send, Create, ListModels and Abort
    MaxSessions,
    Free, Janitor, None

Bridges == Reqs

\* The goroutines that run abortAndStop: a Send's watcher, and the request itself.
Watcher(c) == <<c, "watch">>
Main(c) == <<c, "main">>
Aborts == Reqs \X {"watch", "main"}

ASSUME RequestsAssumption ==
    /\ IsFiniteSet(Agents) /\ IsFiniteSet(Reqs)
    /\ {Free, Janitor, None} \cap Reqs = {} /\ Free # Janitor
ASSUME MaxSessionsAssumption == MaxSessions \in Nat \ {0}

VARIABLES
    (* Manager, guarded by Manager.mu *)
    sessions,   \* the bridge of each mapped session, None if it is not mapped
    inflight,   \* agents whose attach is in progress
    starting,
    stopped,
    (* goroutines *)
    req,        \* each request: where it is, its kind, its agent, the
                \* session it uses, and whether it was cancelled
    abort,      \* each abortAndStop: where it is, its session, the run id it read
    reaping,    \* bridges the janitor or Stop took off the table to stop them
    (* sessions and bridge processes *)
    bridge,     \* process state, agent, runSlot's owner, runID, the live run whose
                \* stream is read, and the live runs whose stream broke off
    disk        \* agents with durable state

tableVars == <<sessions, inflight, starting, stopped>>
vars == <<tableVars, req, abort, reaping, bridge, disk>>

-----------------------------------------------------------------------------
(* Helpers *)

NoBridge == [st |-> "none", agent |-> None, slot |-> Free, runID |-> None, run |-> None,
             left |-> {}]
NoAbort == [at |-> "off", session |-> None, runID |-> None]

Live(b) == bridge[b].st = "up"

\* Mutant: bridges being started are not counted.
LoadMapped == Cardinality({a \in Agents : sessions[a] # None})
Load == Cardinality({a \in Agents : sessions[a] # None}) + starting

Goto(r, from, to) == req[r].at = from /\ req' = [req EXCEPT ![r].at = to]
NotBegun == [at |-> "idle", kind |-> None, agent |-> None, session |-> None,
             cancelled |-> FALSE]
Over == [NotBegun EXCEPT !.at = "done"]
Done(r, from) == req[r].at = from /\ req' = [req EXCEPT ![r] = Over]

\* removeSession and watchSession: only the session's own entry is deleted.
Without(b) == [a \in Agents |-> IF sessions[a] = b THEN None ELSE sessions[a]]

-----------------------------------------------------------------------------
(* Starting a bridge: startBridge and the requests that set the agent up *)

Spawn(r) ==
    /\ Goto(r, "spawn", "setup")
    /\ bridge' = [bridge EXCEPT ![r] = [NoBridge EXCEPT !.st = "up", !.agent = req[r].agent]]
    /\ UNCHANGED <<tableVars, abort, reaping, disk>>

\* The handshake, ResumeAgent, GetAgent, CreateAgent or ListModels failed or
\* timed out: bridge.stop is called.
SetupFails(r) ==
    /\ Goto(r, "setup", "unspawn")
    /\ UNCHANGED <<tableVars, abort, reaping, bridge, disk>>

\* No bridge was started, or bridge.stop has returned.
StartFailed(r) == req[r].at = "spawn" \/ (req[r].at = "unspawn" /\ ~Live(r))

\* A request that has to end its own bridge last is done when it exited.
Discarded(r) ==
    /\ Done(r, "discard")
    /\ ~Live(r)
    /\ UNCHANGED <<tableVars, abort, reaping, bridge, disk>>

-----------------------------------------------------------------------------
(* attach, by Send *)

Joins(a) == a \in inflight

\* The locked section at the head of attach's loop.
Attach(c) ==
    /\ req[c].at = "attach"
    /\ LET a == req[c].agent IN
       \/ /\ stopped
          /\ Done(c, "attach") /\ UNCHANGED <<inflight, starting>>
       \/ /\ ~stopped /\ sessions[a] # None
          /\ req' = [req EXCEPT ![c].at = "reserve", ![c].session = sessions[a]]
          /\ UNCHANGED <<inflight, starting>>
       \/ /\ ~stopped /\ sessions[a] = None /\ Joins(a)
          /\ Goto(c, "attach", "waiting") /\ UNCHANGED <<inflight, starting>>
       \/ /\ ~stopped /\ sessions[a] = None /\ ~Joins(a) /\ Load >= MaxSessions
          /\ Done(c, "attach") /\ UNCHANGED <<inflight, starting>>
       \/ /\ ~stopped /\ sessions[a] = None /\ ~Joins(a) /\ Load < MaxSessions
          /\ Goto(c, "attach", "spawn")
          /\ inflight' = inflight \cup {a}
          /\ starting' = starting + 1
    /\ UNCHANGED <<sessions, stopped, abort, reaping, bridge, disk>>

CancelWait(c) ==
    /\ req[c].cancelled
    /\ Done(c, "waiting")
    /\ UNCHANGED <<tableVars, abort, reaping, bridge, disk>>

\* The locked section after the startup, and close(wait), which sends the
\* requests that joined back to the head of their loop.
Land(c, to) ==
    /\ inflight' = inflight \ {req[c].agent}
    /\ starting' = starting - 1
    /\ req' = [q \in Reqs |->
                 IF q = c THEN to
                 ELSE IF req[q].at = "waiting" /\ req[q].agent = req[c].agent
                      THEN [req[q] EXCEPT !.at = "attach"]
                      ELSE req[q]]

AttachFailed(c) ==
    /\ req[c].kind = "send" /\ StartFailed(c)
    /\ Land(c, Over)
    /\ UNCHANGED <<sessions, stopped, abort, reaping, bridge, disk>>

\* Mutant: a manager that stopped meanwhile is not noticed.
AttachedAlways(c) ==
    /\ req[c].kind = "send" /\ req[c].at = "setup" /\ req[c].agent \in disk
    /\ Land(c, [req[c] EXCEPT !.at = "reserve", !.session = c])
    /\ sessions' = [sessions EXCEPT ![req[c].agent] = c]
    /\ UNCHANGED <<stopped, abort, reaping, bridge, disk>>
\* ResumeAgent succeeded, which it does only for an agent with durable state.
\* The bridge may have exited since.
Attached(c) ==
    /\ req[c].kind = "send" /\ req[c].at = "setup" /\ req[c].agent \in disk
    /\ IF stopped
       THEN /\ Land(c, [req[c] EXCEPT !.at = "discard"])
            /\ UNCHANGED sessions
       ELSE /\ Land(c, [req[c] EXCEPT !.at = "reserve", !.session = c])
            /\ sessions' = [sessions EXCEPT ![req[c].agent] = c]
    /\ UNCHANGED <<stopped, abort, reaping, bridge, disk>>

-----------------------------------------------------------------------------
(* Send, once it has a session *)

\* The run slot is taken or ErrBusy returned; the watcher starts.
Reserve(c) ==
    /\ req[c].at = "reserve"
    /\ LET s == req[c].session IN
       IF bridge[s].slot = Free
       THEN /\ Goto(c, "reserve", "send")
            /\ bridge' = [bridge EXCEPT ![s].slot = c]
            /\ abort' = [abort EXCEPT ![Watcher(c)].at = "armed"]
       ELSE Done(c, "reserve") /\ UNCHANGED <<bridge, abort>>
    /\ UNCHANGED <<tableVars, reaping, disk>>

\* The bridge starts the run and answers with its stream.
StreamOpens(c) ==
    /\ Goto(c, "send", "stream")
    /\ Live(req[c].session)
    /\ bridge' = [bridge EXCEPT ![req[c].session].run = c]
    /\ UNCHANGED <<tableVars, abort, reaping, disk>>

SendRefused(c) ==
    /\ ~req[c].cancelled
    /\ Goto(c, "send", "ending")
    /\ UNCHANGED <<tableVars, abort, reaping, bridge, disk>>

\* setRunID, for a message of the stream, which may outlive the run.
SetRunID(c) ==
    /\ req[c].at = "stream"
    /\ LET s == req[c].session IN
       /\ sessions[bridge[s].agent] = s
       /\ bridge' = [bridge EXCEPT ![s].runID = c]
    /\ UNCHANGED <<tableVars, req, abort, reaping, disk>>

\* The stream ended after the run did, or with the bridge.
StreamEnds(c) ==
    /\ Goto(c, "stream", "ending")
    /\ bridge[req[c].session].run # c
    /\ UNCHANGED <<tableVars, abort, reaping, bridge, disk>>

\* The stream of a run breaks off while the bridge and the run live on, an error
\* of agent.Send after the bridge took the message included: nobody aborts.
StreamFails(c) ==
    /\ ~req[c].cancelled
    /\ Goto(c, "stream", "ending")
    /\ LET s == req[c].session IN
       /\ bridge[s].run = c
       /\ bridge' = [bridge EXCEPT ![s].run = None, ![s].left = @ \cup {c}]
    /\ UNCHANGED <<tableVars, abort, reaping, disk>>

\* abortAndStop begins with the run id the session has now.
AbortStarts(x, s) ==
    abort' = [abort EXCEPT ![x] = [at |-> IF bridge[s].runID = None THEN "remove" ELSE "cancel",
                                   session |-> s, runID |-> bridge[s].runID]]

\* The cancelled request breaks its stream off: Send aborts, too.
StreamBreaks(c) ==
    /\ req[c].cancelled
    /\ \E from \in {"send", "stream"} : Goto(c, from, "ending")
    /\ AbortStarts(Main(c), req[c].session)
    /\ UNCHANGED <<tableVars, reaping, bridge, disk>>

WatchFires(c) ==
    /\ req[c].cancelled
    /\ abort[Watcher(c)].at = "armed"
    /\ AbortStarts(Watcher(c), req[c].session)
    /\ UNCHANGED <<tableVars, req, reaping, bridge, disk>>

\* Send's own abortAndStop, if it began one, and its watcher are over.
Unwatched(c) ==
    abort' = [abort EXCEPT ![Watcher(c)] = NoAbort, ![Main(c)] = NoAbort]
RunCleared(c) ==
    bridge' = [bridge EXCEPT ![req[c].session].runID = None]

\* Mutant: the watcher is waited for before it is told to stop.
EndRunWaiting(c) ==
    /\ Goto(c, "ending", "release")
    /\ abort[Main(c)].at \in {"off", "done"} /\ abort[Watcher(c)].at = "done"
    /\ Unwatched(c) /\ RunCleared(c)
    /\ UNCHANGED <<tableVars, reaping, disk>>
\* Mutant: a watcher that fired is not waited for.
EndRunAtOnce(c) ==
    /\ Goto(c, "ending", "release")
    /\ abort[Main(c)].at \in {"off", "done"}
    /\ abort' = [abort EXCEPT ![Main(c)] = NoAbort,
                             ![Watcher(c)] = IF @.at = "armed" THEN NoAbort ELSE @]
    /\ RunCleared(c)
    /\ UNCHANGED <<tableVars, reaping, disk>>
\* close(stopWatch), <-watchDone: the watcher ends, unless it chose the
\* cancelled context, when its abortAndStop is waited for; clearRun.
EndRun(c) ==
    /\ Goto(c, "ending", "release")
    /\ abort[Main(c)].at \in {"off", "done"} /\ abort[Watcher(c)].at \in {"armed", "done"}
    /\ Unwatched(c) /\ RunCleared(c)
    /\ UNCHANGED <<tableVars, reaping, disk>>

Release(c) ==
    /\ Done(c, "release")
    /\ bridge' = [bridge EXCEPT ![req[c].session].slot = Free]
    /\ UNCHANGED <<tableVars, abort, reaping, disk>>

-----------------------------------------------------------------------------
(* Abort and abortAndStop *)

\* The locked section of Abort.
Abort(r) ==
    /\ req[r].at = "abort"
    /\ LET s == sessions[req[r].agent] IN
       IF s = None THEN Done(r, "abort") /\ UNCHANGED abort
       ELSE Goto(r, "abort", "abortWait") /\ AbortStarts(Main(r), s)
    /\ UNCHANGED <<tableVars, reaping, bridge, disk>>

Aborted(r) ==
    /\ Done(r, "abortWait")
    /\ abort[Main(r)].at = "done"
    /\ abort' = [abort EXCEPT ![Main(r)] = NoAbort]
    /\ UNCHANGED <<tableVars, reaping, bridge, disk>>

\* CancelRun of the id that was read; it may fail.
CancelRun(x) ==
    /\ abort[x].at = "cancel"
    /\ abort' = [abort EXCEPT ![x].at = "remove"]
    /\ LET s == abort[x].session
           id == abort[x].runID
       IN  \/ UNCHANGED bridge
           \/ bridge[s].run = id /\ bridge' = [bridge EXCEPT ![s].run = None]
           \/ id \in bridge[s].left /\ bridge' = [bridge EXCEPT ![s].left = @ \ {id}]
    /\ UNCHANGED <<tableVars, req, reaping, disk>>

\* Mutant: whatever the id is mapped to is removed.
RemoveById(x) ==
    /\ abort[x].at = "remove"
    /\ abort' = [abort EXCEPT ![x].at = "stop"]
    /\ sessions' = [sessions EXCEPT ![bridge[abort[x].session].agent] = None]
    /\ UNCHANGED <<inflight, starting, stopped, req, reaping, bridge, disk>>
\* removeSession; bridge.stop follows.
RemoveSession(x) ==
    /\ abort[x].at = "remove"
    /\ abort' = [abort EXCEPT ![x].at = "stop"]
    /\ sessions' = Without(abort[x].session)
    /\ UNCHANGED <<inflight, starting, stopped, req, reaping, bridge, disk>>

AbortReturns(x) ==
    /\ abort[x].at = "stop"
    /\ ~Live(abort[x].session)
    /\ abort' = [abort EXCEPT ![x] = [NoAbort EXCEPT !.at = "done"]]
    /\ UNCHANGED <<tableVars, req, reaping, bridge, disk>>

-----------------------------------------------------------------------------
(* Create and ListModels *)

\* beginStart.
BeginStart(r) ==
    /\ req[r].at = "create"
    /\ IF stopped \/ Load >= MaxSessions
       THEN Done(r, "create") /\ UNCHANGED starting
       ELSE Goto(r, "create", "spawn") /\ starting' = starting + 1
    /\ UNCHANGED <<sessions, inflight, stopped, abort, reaping, bridge, disk>>

\* releaseStart.
CreateFailed(r) ==
    /\ req[r].kind = "create" /\ StartFailed(r)
    /\ req' = [req EXCEPT ![r] = Over]
    /\ starting' = starting - 1
    /\ UNCHANGED <<sessions, inflight, stopped, abort, reaping, bridge, disk>>

\* CreateAgent answered with the id of a new agent, a random one that no request
\* has named; commitSession.
CommitSession(r) ==
    /\ req[r].kind = "create" /\ req[r].at = "setup"
    /\ starting' = starting - 1
    /\ \E a \in Agents \ (disk \cup {req[q].agent : q \in Reqs}) :
         /\ disk' = disk \cup {a}
         /\ bridge' = [bridge EXCEPT ![r].agent = a]
         /\ IF stopped
            THEN Goto(r, "setup", "discard") /\ UNCHANGED sessions
            ELSE Done(r, "setup") /\ sessions' = [sessions EXCEPT ![a] = r]
    /\ UNCHANGED <<inflight, stopped, abort, reaping>>

\* ListModels looks at stopped and then starts a bridge of its own.
ListModels(r) ==
    /\ Goto(r, "list", IF stopped THEN "done" ELSE "spawn")
    /\ UNCHANGED <<tableVars, abort, reaping, bridge, disk>>

\* The models were listed: the deferred bridge.stop.
ModelsListed(r) ==
    /\ req[r].kind = "list"
    /\ Goto(r, "setup", "discard")
    /\ UNCHANGED <<tableVars, abort, reaping, bridge, disk>>

ListFailed(r) ==
    /\ req[r].kind = "list" /\ StartFailed(r)
    /\ req' = [req EXCEPT ![r] = Over]
    /\ UNCHANGED <<tableVars, abort, reaping, bridge, disk>>

-----------------------------------------------------------------------------
(* The janitor, watchSession and Stop *)

\* One idle session of a janitor tick: its slot is taken and never returned.
Collect(a) ==
    /\ ~stopped
    /\ sessions[a] # None
    /\ bridge[sessions[a]].slot = Free
    /\ bridge' = [bridge EXCEPT ![sessions[a]].slot = Janitor]
    /\ reaping' = reaping \cup {sessions[a]}
    /\ sessions' = [sessions EXCEPT ![a] = None]
    /\ UNCHANGED <<inflight, starting, stopped, req, abort, disk>>

\* watchSession: the bridge of a mapped session exited.
WatchSession(b) ==
    /\ bridge[b].st = "exited"
    /\ \E a \in Agents : sessions[a] = b
    /\ sessions' = Without(b)
    /\ UNCHANGED <<inflight, starting, stopped, req, abort, reaping, bridge,
                   disk>>

\* The locked section of Stop.
Stop ==
    /\ ~stopped
    /\ stopped' = TRUE
    /\ reaping' = reaping \cup {sessions[a] : a \in {a \in Agents : sessions[a] # None}}
    /\ sessions' = [a \in Agents |-> None]
    /\ UNCHANGED <<inflight, starting, req, abort, bridge, disk>>

\* The janitor's or Stop's bridge.stop returned.
Reaped(b) ==
    /\ b \in reaping /\ ~Live(b)
    /\ reaping' = reaping \ {b}
    /\ UNCHANGED <<tableVars, req, abort, bridge, disk>>

-----------------------------------------------------------------------------
(* Requests and bridge processes (external) *)

Begin(r) ==
    /\ req[r].at = "idle"
    /\ \/ \E a \in Agents : \E at \in {"attach", "abort"} :
            req' = [req EXCEPT ![r] = [NotBegun EXCEPT
                      !.at = at, !.agent = a, !.kind = IF at = "attach" THEN "send" ELSE "abort"]]
       \/ \E kind \in {"create", "list"} :
            req' = [req EXCEPT ![r] = [NotBegun EXCEPT !.at = kind, !.kind = kind]]
    /\ UNCHANGED <<tableVars, abort, reaping, bridge, disk>>

\* A cancellation that somebody may still see.
CancelRequest(c) ==
    /\ req[c].kind = "send" /\ ~req[c].cancelled /\ req[c].at # "release"
    /\ req' = [req EXCEPT ![c].cancelled = TRUE]
    /\ UNCHANGED <<tableVars, abort, reaping, bridge, disk>>

RunOver(b) ==
    /\ bridge[b].run # None
    /\ bridge' = [bridge EXCEPT ![b].run = None]
    /\ UNCHANGED <<tableVars, req, abort, reaping, disk>>

LeftRunOver(b) ==
    /\ \E c \in bridge[b].left : bridge' = [bridge EXCEPT ![b].left = @ \ {c}]
    /\ UNCHANGED <<tableVars, req, abort, reaping, disk>>

\* A crash, or the end of bridge.stop.
Exit(b) ==
    /\ Live(b)
    /\ bridge' = [bridge EXCEPT ![b].st = "exited", ![b].run = None, ![b].left = {}]
    /\ UNCHANGED <<tableVars, req, abort, reaping, disk>>

-----------------------------------------------------------------------------
(* Specification *)

Init ==
    /\ sessions = [a \in Agents |-> None]
    /\ inflight = {} /\ starting = 0 /\ stopped = FALSE
    /\ req = [r \in Reqs |-> NotBegun]
    /\ abort = [x \in Aborts |-> NoAbort]
    /\ reaping = {}
    /\ bridge = [b \in Bridges |-> NoBridge]
    /\ disk \in SUBSET Agents

StartStep(r) == Spawn(r) \/ SetupFails(r) \/ Discarded(r)

AttachStep(c) == Attach(c) \/ CancelWait(c) \/ AttachFailed(c) \/ Attached(c)

SendStep(c) ==
    \/ Reserve(c) \/ StreamOpens(c) \/ SendRefused(c) \/ StreamEnds(c) \/ StreamBreaks(c)
    \/ EndRun(c) \/ Release(c)

CreateStep(r) == BeginStart(r) \/ CreateFailed(r) \/ CommitSession(r)

ListStep(r) == ListModels(r) \/ ListFailed(r) \/ ModelsListed(r)

AbortStep(x) == CancelRun(x) \/ RemoveSession(x) \/ AbortReturns(x)

\* What a goroutine does on its own.
Proceed(r) ==
    \/ StartStep(r) \/ AttachStep(r) \/ SendStep(r) \/ CreateStep(r) \/ ListStep(r)
    \/ Abort(r) \/ Aborted(r)

Next ==
    \/ \E r \in Reqs : Begin(r) \/ Proceed(r)
    \/ \E c \in Reqs : SetRunID(c) \/ StreamFails(c) \/ WatchFires(c) \/ CancelRequest(c)
    \/ \E x \in Aborts : AbortStep(x)
    \/ \E a \in Agents : Collect(a)
    \/ \E b \in Bridges : WatchSession(b) \/ Reaped(b) \/ RunOver(b) \/ LeftRunOver(b) \/ Exit(b)
    \/ Stop

Spec == Init /\ [][Next]_vars

\* The bridges somebody is stopping: bridge.stop ends with SIGKILL.
BeingStopped(b) ==
    \/ req[b].at \in {"unspawn", "discard"}
    \/ b \in reaping
    \/ \E x \in Aborts : abort[x].at = "stop" /\ abort[x].session = b

\* Goroutines are scheduled, requests to a bridge have a timeout, and a bridge
\* that is stopped exits.  Runs need not end by themselves.
Fairness ==
    /\ \A r \in Reqs : WF_vars(Proceed(r)) /\ WF_vars(WatchFires(r))
    /\ \A x \in Aborts : WF_vars(AbortStep(x))
    /\ \A b \in Bridges :
         WF_vars(WatchSession(b)) /\ WF_vars(Reaped(b)) /\ WF_vars(BeingStopped(b) /\ Exit(b))

FairSpec == Spec /\ Fairness

-----------------------------------------------------------------------------
(* Properties *)

AttachStages == {"spawn", "setup", "unspawn"}
Attaching(c) == req[c].kind = "send" /\ req[c].at \in AttachStages

TypeOK ==
    /\ sessions \in [Agents -> Bridges \cup {None}]
    /\ inflight \subseteq Agents
    /\ starting \in Nat
    /\ stopped \in BOOLEAN
    /\ req \in [Reqs -> [at : {"idle", "attach", "waiting", "discard", "done", "create",
                              "abort", "abortWait", "list", "reserve", "send", "stream",
                              "ending", "release"} \cup AttachStages,
                        kind : {"send", "create", "list", "abort", None},
                        agent : Agents \cup {None}, session : Bridges \cup {None},
                        cancelled : BOOLEAN]]
    /\ abort \in [Aborts -> [at : {"off", "armed", "cancel", "remove", "stop", "done"},
                             session : Bridges \cup {None}, runID : Reqs \cup {None}]]
    /\ reaping \subseteq Bridges
    /\ bridge \in [Bridges -> [st : {"none", "up", "exited"}, agent : Agents \cup {None},
                               slot : Reqs \cup {Free, Janitor},
                               runID : Reqs \cup {None}, run : Reqs \cup {None},
                               left : SUBSET Reqs]]
    /\ disk \subseteq Agents

\* Config.MaxSessions: mapped sessions and the ones being started never exceed
\* the limit, and every end of attach and Create gives its start back once.
CapacityKept ==
    /\ starting = Cardinality({r \in Reqs : /\ req[r].kind \in {"send", "create"}
                                             /\ req[r].at \in AttachStages})
    /\ Cardinality({a \in Agents : sessions[a] # None}) + starting <= MaxSessions

\* attach: concurrent attaches of an agent share one startup, and an agent that
\* is served by a mapped bridge is not resumed in a second one.
AttachShared ==
    /\ \A a \in inflight : \E c \in Reqs : Attaching(c) /\ req[c].agent = a
    /\ \A c \in Reqs : Attaching(c) =>
         /\ req[c].agent \in inflight
         /\ sessions[req[c].agent] = None
         /\ \A d \in Reqs : Attaching(d) /\ req[d].agent = req[c].agent => d = c

\* The starts in progress are counted against the limit, and shared by agent.
StartsAccounted == TypeOK /\ CapacityKept /\ AttachShared

\* session.runSlot, session.runID: a run that a bridge works on and somebody reads,
\* and the run id that an Abort would cancel, belong to the Send that holds the
\* slot.  No Send returns while its run goes on, unless its stream broke off:
\* that run is left behind, without a slot and without an id.
RunHoldsSlot ==
    \A b \in Bridges :
        /\ bridge[b].run # None => bridge[b].slot = bridge[b].run
        /\ bridge[b].runID # None => bridge[b].slot = bridge[b].runID

\* Send's watcher: the cancellation of a Send stops a bridge only while this
\* Send holds its slot, never under the Send that comes next.
CancelSparesOthers ==
    \A c \in Reqs : \A x \in {Watcher(c), Main(c)} :
        req[c].kind # "abort" /\ abort[x].at \in {"cancel", "remove", "stop"} =>
            bridge[abort[x].session].slot = c

\* What happens in a bridge is its slot's holder's: the run and its cancellation.
SlotExclusive == RunHoldsSlot /\ CancelSparesOthers

\* removeSession, janitor, Stop: a bridge that lives is in the table, or somebody
\* is starting it or stopping it.
BridgesOwned ==
    \A b \in Bridges : Live(b) =>
        \/ \E a \in Agents : sessions[a] = b
        \/ req[b].at = "setup"
        \/ BeingStopped(b)

\* close(wait): a Send that joined another one's attach is woken by its outcome.
WaitersWake == \A c \in Reqs : req[c].at = "waiting" ~> req[c].at # "waiting"

\* Send returns once its stream is over or its request is cancelled, wherever it
\* is, even if its run would never end.
SendReturns ==
    \A c \in Reqs : (req[c].cancelled \/ req[c].at = "ending") ~> req[c].at = "done"

\* No Send waits for another one, or for its run, for ever.
SendsEnd == WaitersWake /\ SendReturns

\* Stop ends with no bridge, for good, whatever was being started meanwhile.
StopEndsBridges == stopped ~> [](\A b \in Bridges : ~Live(b))
=============================================================================
