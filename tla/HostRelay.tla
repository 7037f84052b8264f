----------------------------- MODULE HostRelay -----------------------------
(***************************************************************************)
(* The host-tools relay of one pi process (internal/pi/hosttools.go), the  *)
(* extension inside pi at the other end of its socket                      *)
(* (hostextension/extension.ts), and what the manager and the host do to   *)
(* them: grants, host calls, receipts and long polls.                      *)
(*                                                                         *)
(* Each Submit with host tools, and each other prompt, is made once; a     *)
(* grant (its turn id) is named after its Submit.  The socket is a queue   *)
(* in each direction; pi's events reach the manager on another way, so the *)
(* queues may lag behind the run slot.  Deadlines and ages are facts that  *)
(* become true at some time.                                               *)
(*                                                                         *)
(* A definition marked "Mutant" is a plausible mistake in the definition   *)
(* below it, used by no specification.                                     *)
(***************************************************************************)
EXTENDS Naturals, Sequences, FiniteSets, SequencesExt

CONSTANTS
    Grants,    \* submits with host tools, and their turn ids
    Plain,     \* prompts without host tools
    CallIds,   \* ids of tool calls, unique in a turn
    Answers,   \* receipts the host may give, by their fingerprint
    Listers,   \* long polls of ListHostCalls
    Retained,  \* hostRetainedTurns
    None

Runs == Grants \cup Plain

ASSUME RelayAssumption ==
    /\ Grants \cap Plain = {} /\ None \notin Runs \cup Answers
    /\ Answers \cap {"none", "pending", "cancelled", "waiting", "failed"} = {}
    /\ Retained \in Nat \ {0}

VARIABLES
    (* hostRelay, guarded by hostRelay.mu *)
    ready,     \* the hello arrived
    closed,
    grants,    \* retained grants, oldest first
    current,
    grant,     \* active, begun; whether expires and the retention time passed
    calls,     \* each call's record: its state, or the answer it got
    lister,    \* where each long poll is, and its turn
    (* the socket *)
    toBox, toPi,
    (* the extension *)
    turn,      \* the turn it may call tools in
    asking,    \* the run whose begin awaits its config
    tool,      \* each tool call in pi: waiting, failed, or the result it got
    (* the manager and pi *)
    slot,      \* the run that holds the run slot
    run,       \* the run pi works on
    prompted,  \* runs that have started
    accepted   \* history: the answers RespondHostCall accepted for each call

relayVars == <<ready, closed, grants, current, grant, calls, lister>>
extVars   == <<turn, asking, tool>>
runVars   == <<slot, run, prompted>>
vars == <<relayVars, toBox, toPi, extVars, runVars, accepted>>

NewGrant == [active |-> FALSE, begun |-> FALSE, late |-> FALSE, aged |-> FALSE]
Idle == [at |-> "idle", turn |-> None]

Begin(r)         == [type |-> "begin", run |-> r]
Call(g, c)       == [type |-> "call", turn |-> g, call |-> c]
CancelCall(g, c) == [type |-> "cancel_call", turn |-> g, call |-> c]
Config(r, g)     == [type |-> "config", run |-> r, turn |-> g]
Result(g, c, a)  == [type |-> "result", turn |-> g, call |-> c, answer |-> a]

-----------------------------------------------------------------------------
(* Helpers of the relay; hostRelay.mu is held *)

Pending(g) == {c \in CallIds : calls[g][c] = "pending"}
InTime(g) == grant[g].active /\ ~grant[g].late

\* notify: the channel the long polls of a turn captured is closed.
Notified(g) == [l \in Listers |-> IF lister[l] = [at |-> "waiting", turn |-> g]
                                  THEN [lister[l] EXCEPT !.at = "look"] ELSE lister[l]]

\* collectLocked: the grants that are active or not aged, in their order.
Kept == {i \in DOMAIN grants : grant[grants[i]].active \/ ~grant[grants[i]].aged}
Nth(S, n) == CHOOSE i \in S : Cardinality({j \in S : j <= i}) = n
Collected == [n \in 1..Cardinality(Kept) |-> grants[Nth(Kept, n)]]

\* Mutant: long polls are not notified.
RevokeSilently ==
    IF current # None /\ grant[current].active
    THEN /\ grant' = [grant EXCEPT ![current].active = FALSE]
         /\ calls' = [calls EXCEPT ![current] =
                        [c \in CallIds |-> IF @[c] = "pending" THEN "cancelled" ELSE @[c]]]
         /\ toPi' = toPi \o SetToSeq({Result(current, c, None) : c \in Pending(current)})
         /\ UNCHANGED lister
    ELSE UNCHANGED <<grant, calls, toPi, lister>>
\* revokeLocked of the current grant.
Revoke ==
    IF current # None /\ grant[current].active
    THEN /\ grant' = [grant EXCEPT ![current].active = FALSE]
         /\ calls' = [calls EXCEPT ![current] =
                        [c \in CallIds |-> IF @[c] = "pending" THEN "cancelled" ELSE @[c]]]
         /\ toPi' = toPi \o SetToSeq({Result(current, c, None) : c \in Pending(current)})
         /\ lister' = Notified(current)
    ELSE UNCHANGED <<grant, calls, toPi, lister>>

\* closeLocked.
CloseRelay == ~closed /\ closed' = TRUE /\ Revoke

-----------------------------------------------------------------------------
(* The relay's goroutine: serve and receiveLocked *)

Hello ==
    /\ ~ready /\ ~closed
    /\ ready' = TRUE
    /\ UNCHANGED <<closed, grants, current, grant, calls, lister, toBox, toPi, extVars, runVars,
                   accepted>>

Receives(type) == ~closed /\ toBox # <<>> /\ Head(toBox).type = type /\ toBox' = Tail(toBox)

ReceiveBegin ==
    /\ Receives("begin")
    /\ IF current # None /\ InTime(current) /\ ~grant[current].begun
       THEN /\ grant' = [grant EXCEPT ![current].begun = TRUE]
            /\ toPi' = Append(toPi, Config(Head(toBox).run, current))
       ELSE /\ toPi' = Append(toPi, Config(Head(toBox).run, None))
            /\ UNCHANGED grant
    /\ UNCHANGED <<ready, closed, grants, current, calls, lister, extVars, runVars, accepted>>

\* The call is of the active turn, and none is pending.
Admits(g, c) ==
    /\ g = current /\ InTime(g) /\ grant[g].begun
    /\ calls[g][c] = "none"
    /\ Pending(g) = {}

ReceiveCall ==
    /\ Receives("call")
    /\ LET g == Head(toBox).turn  c == Head(toBox).call IN
       IF Admits(g, c)
       THEN /\ calls' = [calls EXCEPT ![g][c] = "pending"]
            /\ lister' = Notified(g)
            /\ UNCHANGED toPi
       ELSE /\ toPi' = Append(toPi, Result(g, c, None))
            /\ UNCHANGED <<calls, lister>>
    /\ UNCHANGED <<ready, closed, grants, current, grant, extVars, runVars, accepted>>

ReceiveCancel ==
    /\ Receives("cancel_call")
    /\ LET g == Head(toBox).turn  c == Head(toBox).call IN
       IF g = current /\ calls[g][c] \in {"pending", "cancelled"}
       THEN /\ calls' = [calls EXCEPT ![g][c] = "cancelled"]
            /\ lister' = Notified(g)
       ELSE UNCHANGED <<calls, lister>>
    /\ UNCHANGED <<ready, closed, grants, current, grant, toPi, extVars, runVars, accepted>>

\* disconnect: the extension left, or the socket broke.  An active grant takes
\* the process with it.
Disconnect ==
    /\ CloseRelay
    /\ UNCHANGED <<ready, grants, current, toBox, extVars, runVars, accepted>>

-----------------------------------------------------------------------------
(* The manager *)

\* The loop of authorize that reserves room: completed grants go, oldest first.
Room(gs) ==
    LET stops == {i \in 0..Len(gs) : Len(gs) - i < Retained \/ grant[gs[i + 1]].active}
    IN SubSeq(gs, 1 + Min(stops), Len(gs))

\* authorize, by a Submit that holds the run slot.
Authorize(g) ==
    /\ ready /\ ~closed
    /\ slot = None /\ g \notin prompted /\ grant[g] = NewGrant
    /\ slot' = g
    /\ current' = g
    /\ grants' = Append(Room(Collected), g)
    /\ grant' = [grant EXCEPT ![g].active = TRUE]
    /\ UNCHANGED <<ready, closed, calls, lister, toBox, toPi, extVars, run, prompted, accepted>>

\* A prompt without host tools takes the run slot.
Send(r) ==
    /\ slot = None /\ r \notin prompted
    /\ slot' = r
    /\ UNCHANGED <<relayVars, toBox, toPi, extVars, run, prompted, accepted>>

\* AbortSession revokes at any time.
Abort ==
    /\ slot # None
    /\ Revoke
    /\ UNCHANGED <<ready, closed, grants, current, toBox, extVars, runVars, accepted>>

\* The run settled or its prompt was refused: revoked before the slot is free.
Release ==
    /\ slot # None /\ run = None
    /\ Revoke
    /\ slot' = None
    /\ prompted' = prompted \cup {slot}
    /\ UNCHANGED <<ready, closed, grants, current, toBox, extVars, run, accepted>>

\* expire: the deadline timer of a reservation that is not over.
Expire(g) ==
    /\ slot = g /\ grant[g].late /\ ~closed
    /\ Revoke
    /\ UNCHANGED <<ready, closed, grants, current, toBox, extVars, runVars, accepted>>

-----------------------------------------------------------------------------
(* The host: ListHostCalls and RespondHostCall *)

\* findLocked finds a turn after it collected.
Known(g) == ~closed /\ \E i \in DOMAIN Collected : Collected[i] = g

List(l, g) ==
    /\ lister[l] = Idle
    /\ lister' = [lister EXCEPT ![l] = [at |-> "look", turn |-> g]]
    /\ UNCHANGED <<ready, closed, grants, current, grant, calls, toBox, toPi, extVars, runVars,
                   accepted>>

\* One round of list: an answer, or a wait for the channel it saw.
Look(l) ==
    /\ lister[l].at = "look"
    /\ grants' = Collected
    /\ LET g == lister[l].turn IN
       lister' = [lister EXCEPT ![l] =
                    IF Known(g) /\ grant[g].active /\ Pending(g) = {}
                    THEN [at |-> "waiting", turn |-> g] ELSE Idle]
    /\ UNCHANGED <<ready, closed, current, grant, calls, toBox, toPi, extVars, runVars, accepted>>

\* The wait is over, or the request was cancelled.
ListTimesOut(l) ==
    /\ lister[l].at = "waiting"
    /\ lister' = [lister EXCEPT ![l] = Idle]
    /\ UNCHANGED <<ready, closed, grants, current, grant, calls, toBox, toPi, extVars, runVars,
                   accepted>>

\* Mutant: a receipt is delivered whenever its turn is active.
RespondAgain(g, c, a) ==
    /\ Known(g) /\ calls[g][c] \notin {"none", "cancelled"} /\ InTime(g)
    /\ calls' = [calls EXCEPT ![g][c] = a]
    /\ accepted' = [accepted EXCEPT ![g][c] = @ \cup {a}]
    /\ toPi' = Append(toPi, Result(g, c, a))
    /\ lister' = Notified(g)
    /\ grants' = Collected
    /\ UNCHANGED <<ready, closed, current, grant, toBox, extVars, runVars>>
\* Delivered once; the same receipt again is accepted, another one is a conflict.
Respond(g, c, a) ==
    /\ Known(g)
    /\ grants' = Collected
    /\ \/ /\ calls[g][c] = "pending" /\ InTime(g)
          /\ calls' = [calls EXCEPT ![g][c] = a]
          /\ toPi' = Append(toPi, Result(g, c, a))
          /\ lister' = Notified(g)
       \/ /\ calls[g][c] = a
          /\ UNCHANGED <<calls, toPi, lister>>
    /\ accepted' = [accepted EXCEPT ![g][c] = @ \cup {a}]
    /\ UNCHANGED <<ready, closed, current, grant, toBox, extVars, runVars>>

-----------------------------------------------------------------------------
(* The extension (external to src's Go code, but kept beside it) *)

\* reset: every waiting request is rejected.
Reset ==
    /\ turn' = None
    /\ asking' = None
    /\ tool' = [g \in Grants |-> [c \in CallIds |->
                  IF tool[g][c] = "waiting" THEN "failed" ELSE tool[g][c]]]

\* before_agent_start.
RunStarts ==
    /\ run = None /\ slot # None /\ slot \notin prompted
    /\ run' = slot
    /\ prompted' = prompted \cup {slot}
    /\ turn' = None
    /\ tool' = [g \in Grants |-> [c \in CallIds |->
                  IF tool[g][c] = "waiting" THEN "failed" ELSE tool[g][c]]]
    /\ IF ready /\ ~closed
       THEN asking' = slot /\ toBox' = Append(toBox, Begin(slot))
       ELSE asking' = None /\ UNCHANGED toBox
    /\ UNCHANGED <<relayVars, toPi, slot, accepted>>

Hears(type) == toPi # <<>> /\ Head(toPi).type = type /\ toPi' = Tail(toPi)

Asked(r) == asking = r

HearConfig ==
    /\ Hears("config")
    /\ LET g == Head(toPi).turn IN
       IF Asked(Head(toPi).run)
       THEN /\ asking' = None
            /\ turn' = IF g # None /\ ~grant[g].late THEN g ELSE None
       ELSE UNCHANGED <<asking, turn>>
    /\ UNCHANGED <<relayVars, toBox, tool, runVars, accepted>>

AskTimesOut ==
    /\ asking # None
    /\ asking' = None
    /\ UNCHANGED <<relayVars, toBox, toPi, turn, tool, runVars, accepted>>

Execute(c) ==
    /\ turn # None /\ ~grant[turn].late /\ ~closed
    /\ tool[turn][c] = "none"
    /\ tool' = [tool EXCEPT ![turn][c] = "waiting"]
    /\ toBox' = Append(toBox, Call(turn, c))
    /\ UNCHANGED <<relayVars, toPi, turn, asking, runVars, accepted>>

\* The tool's signal or its deadline.
AbortTool(g, c) ==
    /\ tool[g][c] = "waiting"
    /\ tool' = [tool EXCEPT ![g][c] = "failed"]
    /\ toBox' = IF closed THEN toBox ELSE Append(toBox, CancelCall(g, c))
    /\ UNCHANGED <<relayVars, toPi, turn, asking, runVars, accepted>>

HearResult ==
    /\ Hears("result")
    /\ LET m == Head(toPi) IN
       tool' = IF tool[m.turn][m.call] = "waiting"
               THEN [tool EXCEPT ![m.turn][m.call] = IF m.answer = None THEN "failed" ELSE m.answer]
               ELSE tool
    /\ UNCHANGED <<relayVars, toBox, turn, asking, runVars, accepted>>

\* agent_settled.
Settle ==
    /\ run # None
    /\ run' = None
    /\ Reset
    /\ UNCHANGED <<relayVars, toBox, toPi, slot, prompted, accepted>>

\* The grant's deadline, or the loss of the socket.
ExtensionResets ==
    /\ closed \/ (turn # None /\ grant[turn].late)
    /\ Reset
    /\ UNCHANGED <<relayVars, toBox, toPi, runVars, accepted>>

-----------------------------------------------------------------------------
(* Time *)

\* expires passes.
Late(g) ==
    /\ grant[g].active /\ ~grant[g].late
    /\ grant' = [grant EXCEPT ![g].late = TRUE]
    /\ UNCHANGED <<ready, closed, grants, current, calls, lister, toBox, toPi, extVars, runVars,
                   accepted>>

\* hostReceiptTTL passes after the end of the grant.
Age(g) ==
    /\ Contains(grants, g) /\ ~grant[g].active /\ ~grant[g].aged
    /\ grant' = [grant EXCEPT ![g].aged = TRUE]
    /\ UNCHANGED <<ready, closed, grants, current, calls, lister, toBox, toPi, extVars, runVars,
                   accepted>>

-----------------------------------------------------------------------------
(* Specification *)

Init ==
    /\ ready = FALSE /\ closed = FALSE
    /\ grants = <<>> /\ current = None
    /\ grant = [g \in Grants |-> NewGrant]
    /\ calls = [g \in Grants |-> [c \in CallIds |-> "none"]]
    /\ lister = [l \in Listers |-> Idle]
    /\ toBox = <<>> /\ toPi = <<>>
    /\ turn = None /\ asking = None
    /\ tool = [g \in Grants |-> [c \in CallIds |-> "none"]]
    /\ slot = None /\ run = None /\ prompted = {}
    /\ accepted = [g \in Grants |-> [c \in CallIds |-> {}]]

RelayStep == Hello \/ ReceiveBegin \/ ReceiveCall \/ ReceiveCancel \/ Disconnect
ManagerStep ==
    \/ \E g \in Grants : Authorize(g) \/ Expire(g)
    \/ \E r \in Plain : Send(r)
    \/ Abort \/ Release
HostStep ==
    \/ \E l \in Listers : (\E g \in Grants : List(l, g)) \/ Look(l) \/ ListTimesOut(l)
    \/ \E g \in Grants, c \in CallIds, a \in Answers : Respond(g, c, a)
ExtensionStep ==
    \/ RunStarts \/ HearConfig \/ AskTimesOut \/ HearResult \/ Settle \/ ExtensionResets
    \/ \E c \in CallIds : Execute(c) \/ \E g \in Grants : AbortTool(g, c)

Next ==
    \/ RelayStep \/ ManagerStep \/ HostStep \/ ExtensionStep
    \/ \E g \in Grants : Late(g) \/ Age(g)

Spec == Init /\ [][Next]_vars

-----------------------------------------------------------------------------
(* Properties *)

Records == {"none", "pending", "cancelled"} \cup Answers

\* Types, and the bounds of the ledger: at most one call is pending, it is the
\* current grant's, and at most Retained grants are kept, an active one always.
TypeOK ==
    /\ ready \in BOOLEAN /\ closed \in BOOLEAN
    /\ Len(grants) <= Retained /\ \A i \in DOMAIN grants : grants[i] \in Grants
    /\ current \in Grants \cup {None}
    /\ grant \in [Grants -> [active : BOOLEAN, begun : BOOLEAN, late : BOOLEAN, aged : BOOLEAN]]
    /\ calls \in [Grants -> [CallIds -> Records]]
    /\ lister \in [Listers -> [at : {"idle", "look", "waiting"}, turn : Grants \cup {None}]]
    /\ turn \in Grants \cup {None} /\ asking \in Runs \cup {None}
    /\ tool \in [Grants -> [CallIds -> {"none", "waiting", "failed"} \cup Answers]]
    /\ slot \in Runs \cup {None} /\ run \in Runs \cup {None} /\ prompted \subseteq Runs
    /\ accepted \in [Grants -> [CallIds -> SUBSET Answers]]
    /\ \A g \in Grants : Cardinality(Pending(g)) <= (IF g = current THEN 1 ELSE 0)
    /\ \A g \in Grants : grant[g].active => Contains(grants, g)

\* docs/pi-host-tools.md: "Box never fabricates card success": a tool succeeds
\* only with the answer the host got acknowledged, and no other answer to the
\* same call is ever acknowledged.
ReceiptsFinal ==
    \A g \in Grants, c \in CallIds :
        /\ Cardinality(accepted[g][c]) <= 1
        /\ tool[g][c] \in Answers => accepted[g][c] = {tool[g][c]}

\* begin, revoke: the tools of a turn are used, and its calls are pending, only
\* in the run and the reservation that were authorized, whatever messages of
\* earlier runs are still on the socket.
TurnIsolated ==
    /\ turn # None => run = turn
    /\ \A g \in Grants : Pending(g) # {} => slot = g

\* A call is settled once, by its own turn, in a ledger that keeps its bounds.
CallsSettledOnce == TypeOK /\ ReceiptsFinal /\ TurnIsolated

\* list: a long poll sleeps only while its turn is active and has no pending call.
ListersWake ==
    \A l \in Listers : lister[l].at = "waiting" =>
        LET g == lister[l].turn IN grant[g].active /\ Pending(g) = {}
=============================================================================
