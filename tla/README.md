# A formal model of ButterBox

ButterBox (`orvice/butter-box`, Go) is one process in a container that gives
programs and people access to coding agents. It drives the `pi` agent through
child processes, drives Cursor agents through SDK bridge processes, connects pi
sessions to Linear agent sessions, and serves a handful of MCP tools. This
directory holds TLA+ models of all its parts that keep state or answer a client,
the TLC configurations that check them, and theorems proved with TLAPS.

Paths below are relative to the repository; `pi/manager.go` stands for
`internal/pi/manager.go`, and so on. Every definition that models code is listed
in `PROJECT.json` under `map` with the lines it models.

- [The system](#the-system): its components, what each keeps, how they interact
- [Modules](#modules): what models what, and how states and actions correspond to code
- [Runs](#runs): what TLC checks, the bounds, and why they are enough
- [Fairness](#fairness)
- [Proofs](#proofs): what is proved, from which assumptions, along which argument
- [Where code and documents disagree](#where-code-and-documents-disagree)
- [What is not modelled](#what-is-not-modelled)
- [Plan](#plan)

## The system

### Pi (`internal/pi`)

| Part | State | Operations |
|---|---|---|
| Session table, `Manager` (manager.go) | `sessions`, `inflight` (attach singleflight), `creating`, `stopped`, model catalog cache | `Create`, `Get`, `List`, `Delete` (with purge), `attach`, `janitor`, `Stop` |
| Run slot, `session` (manager.go, model.go, runcommand.go) | `runSlot` (a token in a channel), `runEpoch`, `abortRequested`, `abortPending`, `modelPending`, `turn`, `lastUsed` | `Send`, `SubmitWithHostTools`, `finishDetached`, `Abort`, `abortProcess`, `quarantineModel`, `acquireRun`, `releaseRun` |
| Progress reports (manager.go) | none of their own: they sample the slot and ask pi | `Entries`, `Turn` |
| Host-tool relay (hosttools.go) | retained grants with their calls and receipts, the current grant, its deadline, the unix socket | `authorize`, `begin`, `revoke`, `finish`, `expire`, `disconnect`, `list`, `respond` |
| Host extension inside pi (hostextension/extension.ts) | the turn it may use, waiting tool calls | hello, begin, call, cancel_call, reset |
| Process I/O (process.go, protocol.go, runcommand.go) | `pending` commands by id, `subs` with their queues and pumps, two pipes, `done` | `call`, `callRunCommand`, `subscribe`, `readLoop`, `dispatch`, `stop` |
| Model catalog (manager.go) | cached catalog with its age, a gate, a transient process | `boxModels`, `fetchBoxModels`, `cachedModels`, `staleModels` |
| Session files (sessionfile.go) and listing | pi's files on disk | `List`, `listSessionFiles` |
| Service (service.go, the routes, bearer token) | none | request to manager call, error to code, answer |

A request attaches a session (starting or joining the start of its pi process),
takes the run slot, and writes a prompt. pi answers commands on one pipe in any
order and reports the end of a run as an `agent_settled` event to every
subscription. The request's context may end at any time; a submission is
detached from its request and supervised by a goroutine. Everything the manager
keeps is guarded by one mutex, which is released around every call to pi.

### Linear (`internal/linear`)

| Part | State | Operations |
|---|---|---|
| Run loop, `runner` (runner.go) | `active` by session, `closing`; per loop `pending`, `stopped`, `runDone`, cancel | `created`, `prompted`, `stop`, `enqueue`, `loop`, `run`, `Close`, restart notice |
| Store (store.go) | `sessions.json`: the pi session of each Linear session, and whether a run is under way | `SetRunning`, `Forget`, `Interrupted` |
| Progress reports (progress.go) | a worker per run with the latest text | `update`, `close` |
| Tokens, OAuth (oauth.go, client.go, store.go) | access and refresh tokens in memory and in a file, states issued | `accessToken` with its refresh, install and callback routes |
| Webhook (webhook.go) | ids of recent deliveries with their times | signature, freshness, deduplication, dispatch on a goroutine |

A Linear agent session has one pi session behind it, which the runner uses
through the pi manager like any other client. Handlers of webhook deliveries
run concurrently and in any order.

### Cursor (`internal/cursor`)

| Part | State | Operations |
|---|---|---|
| `Manager` (manager.go) | `sessions`, `inflight`, `starting`, `stopped`; per session `runSlot`, `runID`, `lastUsed` | `Create`, `Send` with its cancellation watcher, `Abort`, `ListModels`, `janitor`, `watchSession`, `Stop` |
| Bridge (bridge.go) | a child process, its endpoint, stderr reader and exit channel | `startBridge` with its handshake, `stop` with escalation |
| Service (service.go, errors.go), `consumeRun` | none | requests to the bridge, a run's stream to one answer, errors to codes |

Agents are durable on disk; a bridge serves one of them at a time. Unlike pi, a
`Send` ends when its request does, and an abort stops the whole bridge.

### Application (`internal/app`, `main.go`) and the rest

`run.go` wires the parts and shuts them down in order (HTTP first, then the
Linear runner, then the managers); `piweb.go` supervises and proxies the pi-web
child process with a restart backoff; `config.go`, `server.go`, `auth.go`,
`exec.go`, `env.go` and `prompts.go` keep no state that changes after the start.
`internal/sandbox` is one pure path check. `pkg/proto` is generated.

### What is hard here

- **Late answers.** A command that timed out may still be carried out: a prompt
  may start its run, an abort may strike, a `set_model` may change the model
  after the caller was told it failed. The slot, `abortPending` and
  `modelPending` are barriers against that.
- **Cancellation between two steps.** A cancellation before the acceptance of a
  prompt has to be replayed after it.
- **Lock, unlock, act.** Attaches, creates, deletions, the janitor and `Stop`
  decide under the lock and start or stop processes outside it.
- **Two pipes.** The relay's socket lags behind the command pipe, so messages of
  an earlier turn meet the state of a later one.
- **Events in any order.** A stop may overtake the message before it, or come
  between the end of a run and the post of its outcome.
- **Crash and restart.** Only the run mark and the tokens survive the box; a
  token whose use was not recorded must not be used again.
- **Bounded pipes.** Whoever writes to a full stdin holds the write lock; pi that
  writes to a full stdout may not read.
- **Duplicates.** Linear resends a delivery with a new time stamp, the network
  duplicates it with the old one.
- **What a client may conclude.** An error must tell a message that was not sent
  from one that may have been.
- **Limits.** `MaxSessions` is enforced in several locked sections; the relay
  keeps a bounded ledger of grants.

The `hazards` of `PROJECT.json` name each of these at the line where it bites,
with the properties that would catch it going wrong.

### What makes each component correct

| Component | It is correct if |
|---|---|
| Run slot | one run at a time, in the reservation that asked for it; no command of one reservation reaches another; no cancellation is lost; the slot is always given back |
| Progress reports | "not running" is said only of a complete transcript; a turn is reported as ended only after it ended |
| Session table | one serving process for a session, the limit kept, every process owned by somebody who will stop it, waiters woken |
| Process I/O | an answer goes to its call, an event to every subscription once and in order; calls and `stop` return whatever the pipes are full of |
| Listing | every session that had a file all the while is listed once, active if its process ran all the while |
| Model catalog | one transient process at most, none in vain, no caller left behind |
| Pi service | an answer is well formed; a resent message is delivered once; a transcript put together from cursors is exact |
| Host relay | a receipt is final, tools work only in the turn they were granted for, a poll never sleeps through news |
| Linear runner | one loop, no prompt lost, silence after a stop, cut runs reported after a restart |
| Linear tokens | a refresh token and a state are used once; the last install survives refreshes and restarts |
| Linear deliveries | an event is dispatched once, whatever is resent, duplicated and delayed |
| Cursor manager | as the session table and the slot; a cancelled Send never harms the next one |
| Cursor service | success exactly for a run that finished, with its text; the key is blamed only if the bridge blamed it |
| Bridge | started with its clients, or nothing left |
| Application | what `Run` starts it ends, in order; pi-web is kept up while it should be |

## Modules

| Module | Models | Code |
|---|---|---|
| `OneRun` | abstract: what a session promises its callers | the contract of the slot |
| `PiRun` | one session's run slot, grant, and pi process | pi/manager.go, model.go, runcommand.go, hosttools.go |
| `PiReaders` (extends `PiRun`) | `Entries` and `Turn` beside it | pi/manager.go |
| `PiSessions` | the session table and its processes | pi/manager.go |
| `PiPipe` | one pi process: commands, answers, events, dialogs, end | pi/process.go, protocol.go, runcommand.go |
| `PiListing` | `List` beside everything that changes sessions | pi/manager.go, sessionfile.go |
| `ModelCatalog` | the box's model catalog | pi/manager.go |
| `PiMessages`, `PiApi` | the messages and the handlers of the Pi API | pi/service.go, pi.pb.go, pi.connect.go, app/auth.go |
| `HostRelay` | the relay, its socket, the extension, the host | pi/hosttools.go, extension.ts |
| `LinearRunner` | one Linear agent session | linear/runner.go, store.go, progress.go |
| `LinearTokens` | the tokens of one workspace | linear/oauth.go, store.go |
| `LinearDeliveries` | the webhook route, over a clock | linear/webhook.go |
| `CursorManager` | the Cursor table, sends, aborts | cursor/manager.go, bridge.go |
| `BridgeStart` | the start and the end of one bridge | cursor/bridge.go |
| `SdkMessages`, `CursorApi` | the messages of the bridge, the Cursor handlers | cursor/service.go, errors.go, manager.go, pkg/proto/sdk |
| `Answers` (extends `PiApi`, `CursorApi`) | what clients of both APIs may rely on | |
| `BoxApp` | `app.Run` and the supervisor of pi-web | app/run.go, piweb.go |
| `PiRun_proofs` (with `PiReaders`), `PiSessions_proofs`, `PiPipe_proofs`, `HostRelay_proofs`, `CursorManager_proofs`, `LinearRunner_proofs` | theorems about these modules | |
| `Linear_proofs` | theorems about `LinearTokens` and `LinearDeliveries` | |
| `Box_proofs` | theorems about `PiListing`, `PiApi`, `CursorApi`, `ModelCatalog`, `BridgeStart`, `BoxApp` | |
| `MCBox`, `MCPrograms` | small parts side by side in one run: the first state picks the part | |
| other `MC…` | instances for TLC: symmetry and state constraints | |

The modules meet at interfaces, not by composition, because their product is out
of reach: `PiSessions` treats what a session does with its process as nothing,
`PiRun` treats the life of its table entry as `mapped`, `Delete`, `Collect`,
`PruneExited`; `LinearRunner` uses the promise of the slot (busy, draining after
an abort, free) that `PiRun` is shown to keep through `OneRun`; `HostRelay` uses
the slot as the grant's reservation, and `PiRun` the grant as a record. What
`PiRun` takes for granted of the command pipe (an answer reaches its call, every
settlement every subscription) is what `PiPipe` is checked to keep, and what
`PiApi` takes for granted of an answer, that of `PiRun` and `PiReaders`.
`CursorManager` uses a bridge by the stages that `BridgeStart` has in detail.

Conventions: a goroutine is a program counter (`pc`, `req[r].at`, `at[e]`,
`loop[l].at`); an action is one locked section, or one step between two blocking
points, so everything that can interleave in the code can in the model. A
blocking call to a process is a step that begins it and a step that ends it. A
definition marked "Mutant" is a plausible mistake in the definition after it; no
specification uses it, and `PROJECT.json` pairs it with the property that
rejects it, so that every property is known to be able to fail.

### PiRun: the run slot

A *call* is one `Send` or `SubmitWithHostTools` with the supervision it leaves
behind; `pc` walks through it:

    idle, attached            attach, then acquireRun
    host, model, modelWait    authorize, set_model (Submit only)
    cursor, check, write      getLeafCursor, the check for an early abort, the prompt
    prompting                 waiting for the acknowledgement
    accepted, settling        Send: wait for agent_settled
    pendingPrompt, replay     acknowledgement outstanding (startDetached)
    detach, verify, supervise finishDetached
    abortWait, abortWaitD     inside abortProcess
    finish, release, drain    releaseRun, in its two halves

An *abort operation* (`ops`) is one increment of `abortPending`: from the locked
section that takes it until `releaseAbort`, even after its caller timed out. The
external section, "The pi process", is what the manager relies on: answers in
any order, at any time or never before an exit; an abort acknowledged only once
the agent is idle; a prompt in preflight not cancelled by an abort. The grant of
the relay is a record (reservation, active, armed deadline), `Delete`, `Collect`
and `PruneExited` the ends of the session.

`OneRun` states what this machinery amounts to: one reservation at a time, at
most one run in it, no new reservation while a run or an unanswered command of
an earlier one is in progress. `PiRun` implements it under

    holder      <- the owner of the slot
    running     <- the call whose run pi works on
    ran         <- the holder's prompt was accepted
    outstanding <- an unanswered set_model or abort

so none of the timeouts, barriers and supervisors can be seen by a caller.

### PiReaders

`Entries` samples flags and epoch under the lock, may ask pi for its state, asks
for the entries and samples again; `Turn` loops over `turn` and pi's state.
Every question is a step, so reservations come and go in between. The session
file is a sequence of messages, each with the reservation that wrote it and whether it
asks for a tool (`stopReason` "toolUse"): `turnResult` answers nothing of a transcript
that ends in such a message (`LastAfter`).

### PiSessions

Requests (`req`) run `attach`, `Create`, `Delete` with and without purge; each
locked section is one action, and starting, setting up and stopping a process
are stages between them. Pi gives a created session a fresh id and persists its
file at some time (`minted`, `disk`). Process identities are reused once nothing
refers to them (`Reclaim`), so that the state space is finite and requests may
repeat forever.

### PiPipe

A call (`call[c]`) waits for `writeMu`, writes a record into `stdin`, waits on its
one-place channel `answer[c]`; `pending` is the map under the lock. `reader` is the
goroutine that scans `stdout`: it answers a call, queues an event on every
subscription, or writes the answer to an extension's dialog itself. A subscription
has a queue, a pump goroutine, and a consumer that may be slow for ever. Both pipes
hold `Room` records. pi (external) answers what it read, in any order, and emits
events, and exits at any time; `MayMisbehave` lets it answer again, answer a call that
was given up, write what does not decode or a record longer than the scanner's
buffer; `ReadsWhileBlocked` says whether it reads stdin while its own write waits.

### PiListing, ModelCatalog, PiApi

`List` copies the table under the lock, asks each process in turn without it, reads
the directory, and merges by id with the newest file; sessions exit, are evicted
and come back in between. `boxModels` has callers queue at a channel gate; the
holder looks at the cache, spawns one transient process, and stops it; `Stop` may
come at any point.

In `PiApi` a handler is one step: it takes any request of `PiMessages`, any outcome
its manager call can have (as the other modules say), and forms the response or
the code of `rpcError`. Beside it one client follows a transcript by
`ListEntries` cursors, through processes that lose entries, and delivers one
message, sending it again only after a code that says that it was not sent.

### HostRelay

Submits with host tools (each with its grant), plain prompts, the extension with
a queue in each direction, the host with its answers and long polls. Deadline
and retention are facts that become true at some time (`Late`, `Age`). The run
slot is its owner; pi's own events travel another way than the socket, so
`begin`, `config`, results and cancellations may be arbitrarily late.

### LinearRunner

Events (created, follow-up, stop) have a handler each, that may run in any order;
loops are goroutines with their `runState`. A post to Linear takes a step to
begin and a step to end. A stop waits for the run (`Confirm`) or for `stopTimeout`
(`StopTimesOut`), and confirms either way; the model tells the two apart by where
the handler is afterwards (`done`, `doneLate`). `rec` is the session's record in `sessions.json`; `Close`
starts the shutdown, `Crash` ends the process at any point, `Restart` keeps only
`rec`. `cut`, `answered` and `halts` are history variables of the properties.

### LinearTokens, LinearDeliveries

Tokens are numbers in the order Linear issues them. A poster that finds the access
token stale refreshes under `refreshMu`; a callback exchanges a code and stores an
install without it; both write the file before memory, and the write may fail, the
answer may be lost, the box may restart. `spent`, `consumed` and `installed` are
history variables of the properties. In `LinearDeliveries` the clock is a number; a delivery has a stamp, which a
copy by the network keeps and a copy by Linear renews; the handler checks the
stamp against the box's clock, drops old ids and looks the id up, all under the
mutex.

### CursorManager, BridgeStart, CursorApi

In `CursorManager` a bridge is named after the request that started it. `abort` is
one run of `abortAndStop`, by a Send's watcher (a goroutine that waits for the request's
context or for the end of the Send) or by `Abort` itself, with the run id it read
under the lock. The process of a bridge may exit at any time, and does exit while
somebody is stopping it. `run` is the run whose stream a Send reads; when a stream
breaks off under a run that goes on (`StreamFails`), the run moves to `left`: the
Send returns, nobody aborts it, and it ends by itself or with the bridge.

`BridgeStart` takes the start apart: `starter` goes through spawn, the select on
discovery, exit and timer, the validation, the clients; `readStderr` and `wait`
are goroutines; stoppers race it. `CursorApi` goes message by message through a
run's stream: assistant text, status, result, and an end with or without an error;
`consumeRun` and `normalizeRPCError` make one answer of it.

### BoxApp

`run` walks through `app.Run`: configuration, pi-web, Pi manager, Linear, Cursor
manager, listener. `defers` is the stack of deferred stops; every failure behind the
first of them, and the end of the context, unwinds it. The supervisor starts pi-web,
waits, doubles its backoff up to the cap, resets it after a long life, and ends with the
context; `Run` itself never stops it.

## Runs

Run one with `tlc -workers 2 -config MCPiRun.cfg MCPiRun`. The longest takes about
two minutes. Deadlock is not checked: every model may come to rest when
its requests have been made, or the system has been stopped.

| Run | Instance | Distinct states | Shows |
|---|---|---|---|
| `pi_run` | 1 Send, 1 Submit, 1 abort operation, 2 reservations, aborts may be refused | 86 000 | the barriers of the slot, its deadline, its return; refinement of `OneRun` |
| `pi_readers` | 1 Send, 1 Submit, 1 lister or poller, 2 entries | 5 830 000 | what a polling client may conclude |
| `pi_sessions` | 1 attach, 2 Creates, 1 purge, 1 id, 2 processes, limit 2 | 135 000 | the limit, one process a session, owners, waiters, Stop |
| `linear_runner` | 1 created, 1 follow-up, 1 stop, 2 loops, 1 crash, shutdown, failing store, other clients | 280 000 | no prompt lost, silence after a stop, restart notice, answers |
| `programs` | a pi that misbehaves, with 1 call, or with 1 subscription; 2 events, 1 dialog, room for 1 record (15 000); 3 catalog callers; 2 stoppers of a bridge; the application (7 000) | 22 000 | calls and stop return, events arrive; every program is ended by its owner, nobody waits for ever |
| `box_parts` | 2 posters, 2 callbacks, 2 states, 4 tokens (10 000); 2 deliveries, clock to 6 (6 000); 2 ids, 3 processes (81 000); the Pi API with 2 entries (20 000); the Cursor API with 3 messages (39 000); 2 calls, 1 subscription, 2 events (751 000) | 911 000 | the parts that share no state, one at a time |
| `cursor` | 2 requests of any kind, 1 agent, limit 1 | 140 000 | starts, slot, owners of bridges, ends |
| `host_relay` | 2 grants, 1 plain prompt, 2 calls, 2 answers, 1 poll, 1 retained | 2 972 000 | one settlement a call, polls wake |
| `pi_deadline_doc`, `pi_stop_doc`, `pi_dialog_doc`, `linear_stop_doc` | small | | a document's or a comment's claim fails (below) |

### The properties

*PiRun.* `ReservationIsolated` joins what a reservation owns: an unanswered abort
or `set_model` belongs to the current reservation and none is left when the
janitor collects the session (`CommandsStayInReservation`); a call acts on its own
run's settlement (`SettledIsOwn`); tools are usable only in the reservation they
were granted for (`GrantInReservation`). `DeadlineExact`: an armed deadline is that
of the current reservation or of a command it left outstanding, and covers all its
run while the extension is connected. `CancelNotLost`: a run somebody cancelled
always has an abort under way. `RunsEnd`: the slot is given back if runs settle,
and after an abort even if they do not. `ServiceSpec`: the refinement.

*PiReaders.* `NotRunningMeansComplete`, `TurnReportsEndedRun`: a client that
stops polling because it was told so has seen everything. Of `Turn` that means: the
run has ended, and the answer has a result, its own or a later run's, if it wrote
messages, unless the transcript ends in a request for a tool; then it has none, as
`docs/pi-host-tools.md:28` says.

*PiSessions.* `CapacityKept`; `ServedByOne`: attaches of an id share one start and
no second process serves it; `ProcessesOwned`: a process that lives is on the
table, or somebody named is setting it up or stopping it; `WaitersWake`;
`StopEndsProcesses`.

*PiPipe.* `CallsCorrelated`, `EventsInOrder`, `CallsReturn`, `EventsDelivered`,
`StopEnds`. That pi goes on after an overlong record, with nobody reading it, is
allowed; the last three then hold when pi exits or is stopped. They are checked of a pi
that reads its stdin while its own write waits (`ReadsWhileBlocked = TRUE`); with
one that does not, `pi_dialog_doc` shows that everybody may wait for ever.

*Small parts of the Pi side.* `ListComplete`; `CatalogServed` (one transient process
at most, none while the cache is fresh, every caller served, none left after
`Stop`); `AnswersWellFormed`, the type invariant of both APIs; `PromptDeliveredOnce`;
`TranscriptExact`.

*HostRelay.* `CallsSettledOnce`: a tool succeeds only with the one answer the host
got acknowledged, in its own turn, within a bounded ledger; `ListersWake`.

*LinearRunner.* `PromptAccounted`: a prompt taken is queued, run, answered or
halted, whatever stop or end of a run it races with; `RunsExclusive`: one loop, and
when a stop that saw its run end is confirmed, nothing of what it halted is on its
way to Linear; when `stopTimeout` passed first, a post of that run may be, until it has
wound down, and of no other (`linear_stop_doc` shows that post);
`CutShortReported`; `PromptServed`; `StopAnswered`.

*LinearTokens, LinearDeliveries.* `UsedOnce`, `InstallKept`, `DispatchedOnce`.

*Cursor.* `StartsAccounted`: the limit with an exact count of starts, and one start
an agent; `SlotExclusive`: a run whose stream is being read, and the id an `Abort`
would cancel, belong to the slot's holder, and the watcher of a cancelled Send stops a
bridge only while that Send holds its slot; a run whose stream broke off is none of these;
`BridgesOwned`; `SendsEnd`; `StopEndsBridges`; `BridgeNeverLeaks`;
`CursorAnswerTrue`.

*BoxApp.* `ProgramsHeld`: when `Run` has returned both managers and the Linear
integration are stopped, none of them stops while requests are accepted, Linear is
closed before the Pi manager stops; pi-web is started again or the context is done,
and is gone after the context. A `Run` that fails leaves pi-web up: it is bound to the
context only.

### Bounds

- *Reservations* (`MaxRuns = 2`): every property of the slot relates a
  reservation to the one after it; two show a command of the first in the second.
- *Abort operations* (1): `AbortSession` or the abort of the call itself; while one
  is open the other waits. The theorems hold for any number.
- *Processes and ids*: 2 processes for one id, so that a process being stopped or
  exited coexists with its successor; the two Creates and the session fill the
  limit. The theorems hold for any number of ids.
- *Requests* of `PiSessions` repeat, so one identity makes any number of them one
  after the other; those of `CursorManager` are made once, and two of every kind meet.
- *Pipes*: room for one record makes both pipes full at once; 2 events show order,
  2 calls a misdirected answer. Dialogs write to stdin from the reader, which only
  liveness can suffer from: `programs` has one, `box_parts` none. `programs` takes calls
  and subscriptions of a process one at a time: they meet in the read loop only,
  which waits for neither; `box_parts` has both.
- *Linear*: 2 loops let a new loop overlap what an old one left; 1 crash is
  enough because a restart keeps nothing but `rec`. Any stop may time out.
- *Tokens*: 4 tokens are two installs with a refresh each, or one install and
  three. *Deliveries*: the clock passes the lifetime of an id (3) and the last fresh
  copy of a delivery that is resent for 1 with a skew of 1.
- *Relay*: `Retained = 1` makes the second grant evict the first; `TwoCalls` allows
  two tool calls in all, the second after, or instead of, the first.
- *Readers*: `OneRequest` keeps one reader active, as readers share nothing they
  write except `lastUsed`, and one cursor; `recent` is fixed while the slot is
  taken, where nothing reads it.
- *APIs*: one session or agent; two words, one of which speaks of the API key; 3
  stream messages are a text, a status and a result in any order.
- Symmetry is used only with invariants (`host_relay`).

## Fairness

Fairness is stated by the code's scheduling only:

- Weak fairness of every step a goroutine takes by itself: Go schedules runnable
  goroutines, and no locked section blocks.
- Weak fairness of an exit once a process is being stopped: `process.stop` and
  `bridge.stop` escalate to SIGKILL, and the supervisor of pi-web sends SIGTERM and
  then SIGKILL when the context ends.
- In `PiRun`, that pi answers a command and obeys an abort. The runs are not
  required to settle by themselves: `SlotReleased` assumes it in the formula
  (`WF_vars(Settle) => …`), and `AbortEndsReservation` holds without it.
- Strong fairness of `AbortProcess`, because the bound `AbortOps` is not the
  code's: the counter of the code is always free.
- In `PiPipe`, strong fairness of the writes to stdin: they wait for `writeMu`, which Go
  hands to a waiter after a millisecond of starvation, and of pi's answers, which
  compete with its events for a bounded stdout. Nothing obliges pi to emit events
  or a caller to give up; a consumer receives (weak fairness of `Deliver`).
- In `ModelCatalog`, strong fairness of entering the gate, a channel, which serves its
  waiters in order.
- Time is not relied on in `PiRun`: no timeout, cancelled request, deadline or
  idle period need ever happen. In `LinearRunner`, a post ends (`postTimeout`)
  and a run ends (`RunTimeout`, then an abort); in `CursorManager`, `PiSessions`
  and `BridgeStart`, a handshake ends (its timer); in `ModelCatalog`, a fetch
  (`defaultSetupTimeout`).
- Nobody is obliged to make a request, send an event, or stop the system.

## Proofs

Eight modules hold proofs, for every value of the constants. Check one with
`tlapm PiRun_proofs.tla` (a few minutes at most; `Box_proofs` and `HostRelay_proofs`
are the longest). Every safety invariant and every action property that a run checks
is a theorem, and the safety half of each property that has one; what is left to TLC
is at the end of this section.

### PiRun_proofs: the run slot

| Theorem | States |
|---|---|
| `TypeCorrect` | `Spec => []TypeOK` |
| `ReservationsIsolated` | `Spec => []ReservationIsolated`, from the next five |
| `RunsHoldTheSlot` | `Spec => []RunHoldsSlot` |
| `SettlementsAreOwn` | `Spec => []SettledIsOwn` |
| `CommandsStay` | `Spec => []CommandsStayInReservation` |
| `GrantsStay` | `Spec => []GrantInReservation` |
| `DeadlinesExact` | `Spec => []DeadlineExact` |
| `CancellationsReplayed` | `Spec => []CancelNotLost`, if pi refuses no abort |
| `ImplementsOneRun` | `Spec => ServiceSpec`: the refinement of `OneRun` |
| `ListingsComplete` | `ReadersSpec => NotRunningMeansComplete` |
| `TurnsReported` | `ReadersSpec => TurnReportsEndedRun` |

*Assumptions.* `CallsAssumption` (Sends and Submits are different calls, and the
three names that stand for no call are none) and `BoundsAssumption` (finitely many
abort operations, so that they can be counted). `CancellationsReplayed` assumes
`~AbortMayFail`: the code, too, goes on supervising a run whose abort pi refused.

*Argument.* The properties lean on one another, so the invariant is built in
layers; a layer is preserved by every step if the layers below it hold.

1. `Base`: types; `Counted`, that `abortPending` is the number of operations not
   yet released; and `CallersWait`, that an operation returns to a call that is
   inside `abortProcess`, and no two to the same one. Even the type of `pc` needs the
   last: `ReleaseAbort` moves a call without looking where it is.
2. `Slotted`: a call is in its reservation exactly if it owns the slot; what pi
   answered its prompt goes with where it is; a run belongs to a call that has not
   begun to end; an exited process owes no answer; after an acknowledged abort
   nothing runs while its caller waits; a settlement seen is one's own. These
   six support one another: that a returning call leaves no run behind (`RunOK`)
   needs the abort's acknowledgement (`AckOK`), which stays true because no other
   call has a prompt (`SlotOK`, `PromptOK`).
3. `Barred`: what an open operation or `set_model` remembers is the current
   reservation. `acquireRun` may forget nothing because its barriers are then
   zero, and zero by `Counted` means that no operation is open.
4. `Granted`: an active grant is that of the owner of the slot, and after an abort
   some operation still has to revoke it, unless the call has not reached the
   check that ends it (`Unprompted`).
5. `Replayed`: as `CancelNotLost`, with the stages on the way from an abort given
   up to the supervision of the run.

The refinement uses layers 1 to 3: `AcquireRun` and `Collect` find the service
quiet, `AcceptPrompt` starts the one run, `ReleaseRun` finds none, and every other
step leaves reservation and run alone.

The readers add a layer, `Read`. A reader sleeps between its looks at the session, so
what it remembers is tied to the reservation it saw (`runEpoch`): as long as the epoch
is the same, a session found at rest stayed at rest (`Resting`), so that the
entries counted are all of them; and a run found detached, or past its supervision,
only goes on towards its end (`Late`, `Past`). `Onward` says this of one step of the
session, for each of its actions once; `ListersOK`, `CursorsOK` and `PollersOK`
follow. A cursor is handed out by a detached run only, so a poller whose turn is gone
has an ended run, and the report is the last message since the cursor, or nothing if
that message asks for a tool.

### PiSessions_proofs: the session table

| Theorem | States |
|---|---|
| `TypeCorrect` | `Spec => []TypeOK` |
| `OneAttachAtATime` | `Spec => []AttachCollapsed` |
| `ReservationsReturned` | `Spec => []NothingLeaked` |
| `SessionLimit` | `Spec => []CapacityKept` |
| `OneProcessServes` | `Spec => []ServedByOne` |
| `NoProcessLost` | `Spec => ProcessesOwned`: `[]AliveOwned` under `[]NoPurgeRace` |
| `StopIsComplete` | `Spec => ([]NoPurgeRace => []StopLeavesNone)` |

*Assumptions.* `SetsAssumption` (finite ids, `None` is neither an id nor a process)
and `MaxSessionsAssumption` (a positive limit: `NewManager` replaces zero by the
default). The last two theorems are about behaviours in which no purge finds another
process in the table than the one it learnt the session file from (`NoPurgeRace`): in
the others they are false, which is what `pi_stop_doc` shows, and the place where the
proof would fail is the very line of the code at fault (`Deleted`, which forgets an
entry without checking whose it is).

*Argument.* None of the properties is inductive by itself; each needs to know
more about the requests under way. The layers:

1. `Base`: types, the shape of a request (`ReqsOK`: which stages carry an id and
   a process, and that `creating` counts the Create stages exactly) and of the
   table (`TableOK`).
2. `Collapsed`: `AttachCollapsed` with `MintedApart`. That two attaches never
   share an id is not enough: a Create publishes its session without looking at
   `inflight`, so the invariant has to say that nobody else knows the id that pi
   minted for it.
3. `CapacityKept`: the sum stays within the limit because each transition moves one unit
   between its three parts; the work is in the cardinalities.
4. `Owned`: the stages before a start hold no process, and the one before an
   attach is given up holds none that lives (`BareOK`); a process that anybody
   refers to exists, so a start never takes its identity (`ReferencedExist`); a
   stopped table is empty (`StoppedEmpty`); and every live process has an owner.
   `StopLeavesNone` follows: after `Stop` the table is empty, and with nobody at
   work there is no other owner.
5. `Served`, beside `Owned` and with purges: a process between its start and its
   publication is in the hands of one request (`PrivateOK`) and serves the id that
   request will publish; a table entry serves its key (`ServingOK`). Two processes
   of one id would be two attaches of it, which `Collapsed` excludes, or an
   attach beside an entry.

### CursorManager_proofs: the Cursor table

| Theorem | States |
|---|---|
| `StartsAreAccounted` | `Spec => []StartsAccounted`: types, the limit, one startup per agent |
| `SlotsAreExclusive` | `Spec => []SlotExclusive` |
| `BridgesAreOwned` | `Spec => []BridgesOwned` |

*Assumptions.* `RequestsAssumption` (finitely many agents and requests; the names of a
free slot, of the janitor and of nothing are no requests) and `MaxSessionsAssumption`.
Bridges exit at any moment and cancellations fail: nothing is assumed of them.

*Argument.* Lemmas say what the steps over several records do to their fields;
the layers, one lemma each with one step per action, use these.

1. `Base`: types, and what a request at each point is (`Fits`: kind, agent, session).
   That `starting` is not negative is not here: it follows from its being a count.
2. `Born`: what the table or a request refers to was started, so `Spawn` takes no identity
   in use; a mapped agent is on the disk, so the new agent of `CommitSession` is not mapped.
3. `Stopping`: every `abortAndStop` belongs to a watcher whose Send is under way or to a
   request that waits for it, and a Send's two work on its own session.
4. `Slots`: from `Reserve` to `Release` the slot is the Send's; the run and its id are
   of the holder. The step to check is `EndRun`: once its own abort returned the run
   is over, or its stream has broken off and it is the Send's no longer, and it clears
   the id before it gives the slot back. With 3,
   `CancelSparesOthers`.
5. On these: `AttachShared`, `BridgesOwned` (an entry that `Attached` or `CommitSession`
   writes was empty, so no live bridge is overwritten) and `CapacityKept`, the
   cardinalities.

### LinearRunner_proofs: the run loop

| Theorem | States |
|---|---|
| `PromptsAccounted` | `Spec => []PromptAccounted` |
| `StopsExclusive` | `Spec => []RunsExclusive`: silence after a stop that waited, and of one that timed out a post of the run it waited for at most |
| `CutRunsReported` | `Spec => CutShortReported` |

*Assumptions.* `LinearAssumption` (the kinds of events are disjoint, `None` is no
loop). Any stop may time out.

*Argument.* One lemma for each action of a loop says what it leaves of batch,
queue and `runDone`; the layers use these only.

1. `Base`: types; one loop goroutine, the one `active` names (`OneAtATime`); a blank
   `runState` for no goroutine, and `runDone` open exactly inside `runOnce`.
2. `Halting`: what was halted is not queued again (a handler of a halted prompt is
   past `enqueue`); a batch that contains a halted prompt and has not begun was
   stopped, so `Begin` ends it; one that has begun is run by the loop whose
   `runDone` the stop waits for.
3. `Accounted`: `PromptAccounted` with, for each point of `runOnce`, where its batch
   went: a stopped batch is halted, one past its outcome answered, one that ends
   is either or the box shuts down; and a box that is down has taken nothing.
4. `Waited`: a stop that saw its run end is confirmed with no run awaited. With 2,
   nothing of what it halted can be posted any more; of what one that timed out halted,
   by the run it waited for only.
5. `Marking`, on layer 1 only: a mark that was written stands on disk until the end
   of the run clears it (`MarkOK`), so a Send under way has one; a shutdown that cuts a
   Send short leaves the loop only the way to its end past that point. The mark of a
   run cut short is hence on disk when the box comes up again, and `Start` posts it.

### Linear_proofs: tokens and deliveries

| Theorem | States |
|---|---|
| `NothingUsedTwice` | `TokensSpec => []UsedOnce` |
| `InstallsKept` | `TokensSpec => []InstallKept` |
| `DispatchesOnce` | `DeliveriesSpec => []DispatchedOnce` |

*Assumptions.* `TokensAssumption` and `DeliveriesAssumption`: the kinds of names are
disjoint, and `ResendFor + 2 * MaxSkew <= DeliveryTTL`. The code has ten minutes for
the lifetime of an id (`deliveryTTL`) and one for the skew (`webhookMaxSkew`): the theorem
then covers an event that Linear resends for up to eight minutes.

*Argument.* For the tokens: whoever refreshes holds `refreshMu`, whoever is between
the write of the file and of memory holds `store.mu`, and a state consumed was
issued once (`Base`); no installation in memory, in the file or in anybody's hand
has a spent refresh token, and those in callbacks' hands are their own
(`Unspent`); what was last reported done is what is stored, until a callback stores
while somebody refreshes (`Kept`). For the deliveries: two intervals on the clock. An id is
recorded no earlier than `MaxSkew` before the first stamp, and no copy's stamp is
fresh later than `ResendFor + MaxSkew` after it; the record outlives the second.

### PiPipe_proofs: one pi process

| Theorem | States |
|---|---|
| `CallsAnswered` | `Spec => []CallsCorrelated` |
| `EventsOrdered` | `Spec => []EventsInOrder` |
| `OutcomesFinal` | `Spec => [][OutcomesStay]_vars`: a call's outcome never changes, one that returned is not registered again |

*Assumptions.* `PipeAssumption`: a pipe holds at least one record; `None` is no call.
Pi may misbehave, reorder, exit at any moment.

*Argument.* Five layers.

1. `Types`, with every record on the two pipes.
2. `Ending`: the process is marked as exited, and the subscriptions failed, only after pi is gone.
3. `Correlated`: a registered call has no answer yet; one that waits has an answer or
   is registered, and none is registered once the process is marked. So an answer
   is taken by its own call or by nobody, and a call that gives up races
   the dispatcher for the entry of the map, not for the answer.
4. `Written`: the events on stdout are those after the last one dispatched, without a
   gap, in order, between answers and dialogs.
5. `Streamed`: what a subscriber has got, the pump holds and the queue holds is
   one interval that begins at the subscription and ends at the last event
   dispatched (`Here`, `InOrder`), for as long as the subscription is registered; after
   that it is the beginning of such an interval.

### HostRelay_proofs: the host-tool relay

| Theorem | States |
|---|---|
| `SettledOnce` | `Spec => []CallsSettledOnce` |
| `PollsWake` | `Spec => []ListersWake` |
| `AnswersFinal` | `Spec => [][AnswersStay]_vars`: no recorded answer is replaced, and none that a tool got |

*Assumptions.* `RelayAssumption`: grants and plain prompts are different runs, the
answers are no states of a call, and at least one grant is retained.

*Argument.* Seven layers; the ones that carry the weight:

1. `Types`, `Started`: the messages on the socket, which name runs that have begun.
2. `Reserved`: the active grant is the current one and belongs to the run that holds
   the slot; only it has a pending call, and only one. Revocation settles the
   pending call in the same section, so nothing pending is left behind.
3. `Listening`: a poll sleeps only on an active turn without a pending call; whoever
   changes that has notified it.
4. `Isolated`: the turn that the extension works for, and a config on its way to it, are
   of the run that asks. The begin of an earlier run is answered for that run.
5. `Settled`: an answer in the ledger, on the socket and in the tool are the same, and
   the ledger's is the only one accepted.
6. `Ledger`: the ledger keeps at most `Retained` grants and every active one. `Kept`
   drops the oldest retired ones, so this is where the eviction is looked at.

### Box_proofs: the small parts

| Theorem | States |
|---|---|
| `ListsComplete` | `ListingSpec => []ListComplete` |
| `DeliveredOnce` | `ApiSpec => []PromptDeliveredOnce` |
| `TranscriptsExact` | `ApiSpec => []TranscriptExact` |
| `AnswersTrue` | `CursorApiSpec => []CursorAnswerTrue` |
| `AnswersTyped` | `ApiSpec /\ CursorApiSpec => []AnswersWellFormed`, from `PiAnswersTyped` and `CursorAnswersTyped`, one for each API |
| `SingleSpawn` | `CatalogSpec => []OneSpawn`, the safety half of `CatalogServed` |
| `StartsOrNothing` | `BridgeSpec => []StartedOrNone`, that of `BridgeNeverLeaks` |
| `RunsUnwind` | `BoxSpec => []RunUnwinds`, that of `ProgramsHeld` |

*Assumptions.* `ListingAssumption` (the bounds are numbers), `ApiAssumption` (`Gone` is
no sequence of entries, there is a text), `CursorApiAssumption` (the key is a word, `NotSet`
is no word and no result). None of them limits sessions, callers or messages.

*Argument.* The parts share no state; each has an invariant of its own.

- `Listing`: a list under way has reported each session at most once, and each
  session that ran throughout is still to be asked or is reported. The end adds one
  record for each file's id that is left, sorted: a permutation keeps who is listed.
- `Once`: while the client may still send its message it was not delivered, and a prompt whose
  acknowledgement is awaited was not taken. A lemma for each answer: those that are not
  definite refusals close the attempt.
- `Coherent`: of all sequences of entries there are (files, processes, transcripts) any two
  agree up to an entry that they share. Every entry has its own id and is appended to one
  sequence; a process that lost entries is a prefix. From it, what follows a
  cursor that is known extends the transcript exactly, and an unknown one is refused.
- `Known`, on `Coherent`: which sessions there are, and that runs are in processes, so that
  what an answer says of sessions and turns is in range; then `AnswerOK`, rpc by rpc.
- `Told`: `consumeRun`'s variables are functions of the messages heard (the last result, the
  last status, the assistant's texts from the first to the last); an answer is the result's text
  if it has one, the assembled one otherwise. `StreamOK` and `ReplyOK` are the types.
- `Gated`, `Startup`, `Unwinding`: what is up or held at each point of the procedure. For
  the catalog, who is inside the gate is alone, and looked at the cache after it entered;
  for the bridge, whoever is refused had no process or saw it reaped; for `Run`, the
  stack of deferred stops holds exactly the parts that are up, the integration above
  the manager of its runs.

### What TLC alone checks

Everything under fairness, and with it all liveness: the prover handles neither
fairness nor `ENABLED`. That is `RunsEnd`; `WaitersWake` and `StopEndsProcesses`;
`PromptServed` and `StopAnswered`; `CallsReturn`, `EventsDelivered` and `StopEnds`;
`SendsEnd` and `StopEndsBridges`; and the halves of `CatalogServed`,
`BridgeNeverLeaks` and `ProgramsHeld` that speak of what happens eventually. The modules
meet at interfaces and are not composed, so no theorem is about a composition. TLC also
checked the properties above before they were proved.

## Where code and documents disagree

Four runs end in a violation and show it:

- `pi_deadline_doc`: `docs/pi-host-tools.md:27` promises that a revoked grant's
  deadline stays armed until the run and all its commands are over or the
  process exits. When the extension's connection is lost, `disconnect` stops the
  process only if the grant is still active, and finishes (disarms) it in any
  case: after an abort that revoked the grant and before its run is over, a lost
  connection leaves the run without a deadline.
- `pi_stop_doc`: `Stop` "terminates every session process" (pi/manager.go:198). A purge
  attaches the session without taking the slot and later deletes the table entry
  of that id. If its process exited meanwhile and another request re-attached the
  session, the entry deleted is the new one: its process is stopped by nobody.
- `pi_dialog_doc`: pi/protocol.go:118 says of dialogs that they are "answered with
  a cancellation so an extension dialog can never wedge a session". The goroutine that
  reads pi's stdout writes that answer: if callers' commands have filled stdin and
  pi, blocked on a full stdout, does not read, neither side moves again.
- `linear_stop_doc`: linear/runner.go:263 says that `stop` "confirms to Linear once the
  stopped run can post nothing more". It waits for `stopTimeout`, 10 s, at most, and a
  post may take `postTimeout`, 15 s: the confirmation may be posted while a post of the
  run it halted is still on its way.

Seen while modelling, and not given a run of their own:

- `Turn` answers a run with a later run's message, or with nothing if a later run's last
  message asks for a tool: the search is bounded by the cursor on one side only
  (`TurnReportsEndedRun` is stated accordingly).
- A process the janitor, a deletion or an abort is still stopping no longer counts against
  `MaxSessions`, for pi and Cursor; nor does the bridge of `ListModels`, which also
  outlives `Stop` until it is done.
- Linear, `README.md:314`: a stop "aborts the run and drops the queue". A stop
  handled while the acknowledgement of the created event is still being posted
  finds no loop and halts nothing; the prompt then runs.
- Linear, `README.md:315`: a restart between the dequeue of a prompt and the write of
  its mark, or after the mark is cleared and before the outcome is posted, is not
  told.
- Linear: the abort of a stop may reach the run of a message queued right after
  it; a follow-up that starts a fresh pi session carries no earlier context.
- Cursor: a stream that breaks off while its bridge and run live makes `Send` return,
  clear the run id and give the slot back without an abort (cursor/manager.go:292-298);
  the run goes on, no `Abort` can name it, and the next Send may meet a busy agent.
- Cursor: `Abort` returns without effect while the session is being attached, and the
  Send then goes ahead; `ErrBusy` is also returned while the janitor holds the
  slot; an agent may be resumed in a second bridge while the first one, aborted,
  is still stopping.
- Host relay: a `begin` of an aborted earlier run that is still on the socket uses
  up the single begin of the next grant, whose run then has no host tools. It
  fails closed, and `TurnIsolated` holds.
- Pipe: an overlong record ends the reading while pi lives on; an answer that does
  not decode closes the call's channel, and the call reports that the process exited.
- Catalog: while fetches fail, every queued caller spawns a process of its own,
  one after the other.
- Pi API: an attach that fails for any reason, timeouts included, is answered by
  `not_found`; a `set_model` that timed out by `deadline_exceeded` without the
  reason that other quarantined sessions carry.
- Cursor API: `normalizeRPCError` maps `FailedPrecondition` and `ResourceExhausted` of a
  run under way to "busy" and "limit", although the prompt was sent; an error that ends
  the stream is reported even after a terminal result; `ResumeAgent` sends no
  working directory.
- Application: the backoff of pi-web reaches 32 s, above its cap of 30 s;
  `main.go` passes `context.Background()`, so the unwinding in `Run` happens on
  failures only, and pi-web, which ends with the context, is left to the end of
  the process.
- Tokens: an install stored while a refresh of the earlier one is under way may be
  overwritten by it. `InstallKept` excludes that (as `raced`): it is about the file and
  the memory, failures and restarts; `UsedOnce` holds of whichever record remains.

## What is not modelled

- *Linear texts, sandbox, configuration, environment, MCP tools, the reverse proxy*:
  no state that changes, pure I/O or formatting.
- *Generated code*: of `pkg/proto`, the messages that the box sends and reads are
  `PiMessages` and `SdkMessages`, field by field; marshalling, descriptors, clients,
  and the SDK's services and messages that the box never uses are not modelled.
- *Directories*: `ListDirectories`' answers are part of `PiApi`, the reading of
  directories and the header of a session file are not modelled.
- In what is modelled: contents of prompts, entries and tool payloads (model
  values), base64 of images, payload and call-count limits of the relay, the rate
  limit of progress posts, working directories. Time is a number in
  `LinearDeliveries` only: elsewhere what may take time may take any time.

## Plan

Done: the modules, the runs and the proofs above. What is left, the most important first:

1. An abstract pipe (answers by call, events by subscription) that `PiPipe`
   implements, the step proved as `ImplementsOneRun` is, and `PiRun` over it.
2. An abstract table (each session has at most one process that serves it) that
   `PiSessions` and `CursorManager` both implement.
3. Liveness of `HostRelay`: an acknowledged answer reaches a tool that still waits.
