------------------------------- MODULE PiApi --------------------------------
(***************************************************************************)
(* The Pi API as a client of the box sees it (internal/pi/service.go, the  *)
(* routes of piv1connect, WithBearerAuth): which answer each request gets  *)
(* from each path of the manager, and what a client may conclude from it.  *)
(*                                                                         *)
(* A handler is one step here; what its steps do when requests interleave   *)
(* is the subject of PiRun, PiSessions, PiReaders and HostRelay.  Of an     *)
(* error the sentinels matter that errors.Is finds in it.  One client       *)
(* follows a transcript by ListEntries and delivers one message; others,    *)
(* and pi, are there as well.                                              *)
(*                                                                         *)
(* A definition marked "Mutant" is a plausible mistake in the definition   *)
(* below it and is used by no specification.                               *)
(***************************************************************************)
EXTENDS PiMessages, FiniteSetsExt

CONSTANTS
    Gone,           \* no file, no process
    MaxEntries      \* bound: entries that pi writes

ASSUME ApiAssumption == MaxEntries \in Nat /\ Gone \notin Seq(Nat) /\ Text # {}

VARIABLES
    stored,     \* pi's session files: the entry ids of each, or Gone
    live,       \* Manager.sessions: the entry ids its process holds, or Gone
    runs,       \* sessions with a run
    minted,     \* entries that pi has written
    created,    \* ids that pi has minted
    outcome,    \* the last answer
    transcript, \* client: the entry ids it has of each session
    attempt,    \* client: its message is "open" to be sent, or "closed"
    prompt,     \* client: what became of the message: "unsent", "waiting", "taken"
    delivered   \* history: how often pi took the message

sessionVars == <<stored, live, runs, minted, created>>
clientVars  == <<transcript, attempt, prompt, delivered>>
apiVars     == <<sessionVars, outcome, clientVars>>

-----------------------------------------------------------------------------
(* Answers *)

Outcome(rpc, code, reason, body, sent) ==
    [rpc |-> rpc, code |-> code, reason |-> reason, body |-> body, sent |-> sent]
NewResponse(rpc, body) == Outcome(rpc, "ok", "", body, FALSE)

\* The cases of rpcError, in order.
ErrorCases == <<
    [is |-> {"ErrHostConfig"}, code |-> "invalid_argument", reason |-> ""],
    [is |-> {"ErrHostUnsupported", "ErrHostGone"}, code |-> "failed_precondition", reason |-> ""],
    [is |-> {"ErrHostUnknown"}, code |-> "not_found", reason |-> ""],
    [is |-> {"ErrHostConflict"}, code |-> "already_exists", reason |-> ""],
    [is |-> {"ErrNotFound"}, code |-> "not_found", reason |-> ""],
    [is |-> {"ErrBusy"}, code |-> "failed_precondition", reason |-> ""],
    [is |-> {"ErrTooManySessions"}, code |-> "resource_exhausted", reason |-> ""],
    [is |-> {"ErrBadCursor", "ErrInvalidCwd", "ErrInvalidPath"}, code |-> "invalid_argument", reason |-> ""],
    [is |-> {"Canceled"}, code |-> "canceled", reason |-> ""],
    [is |-> {"DeadlineExceeded"}, code |-> "deadline_exceeded", reason |-> ""],
    [is |-> {"ErrInvalidModel"}, code |-> "invalid_argument", reason |-> "PI_MODEL_INVALID"],
    [is |-> {"ErrModelAuth"}, code |-> "unauthenticated", reason |-> "PI_MODEL_AUTH_UNAVAILABLE"],
    [is |-> {"ErrSetModel"}, code |-> "failed_precondition", reason |-> "PI_MODEL_SET_FAILED"],
    [is |-> {"connect.Error"}, code |-> "unknown", reason |-> ""] >>

rpcError(error) ==
    LET hits == {i \in DOMAIN ErrorCases : ErrorCases[i].is \cap error # {}}
    IN  IF hits = {} THEN [is |-> {}, code |-> "internal", reason |-> ""] ELSE ErrorCases[Min(hits)]

Refusal(rpc, error, sent) == Outcome(rpc, rpcError(error).code, rpcError(error).reason, Unset, sent)
Fail(rpc, error) == Refusal(rpc, error, FALSE)

\* An error with no sentinel: the process exited, pi refused, or did not decode.
Plain == {}
CallErrors == {Plain, {"Canceled"}, {"DeadlineExceeded"}}

\* WithBearerAuth, the routes, the read limits and the codec come before the
\* handlers.
DoorCodes(rpc) ==
    {"unauthenticated", "invalid_argument"}
        \cup (IF rpc = "other" THEN {"unimplemented"} ELSE {})
        \cup (IF rpc \in {"RespondHostCall", "ListHostCalls"} THEN {"resource_exhausted"} ELSE {})

-----------------------------------------------------------------------------
(* Manager.attach *)

AttachErrors(id) ==
    IF id = Unset THEN {{"ErrNotFound"}}
    ELSE {Plain} \cup (IF live[id] # Gone THEN {}
                       ELSE {{"ErrTooManySessions"}, {"ErrNotFound"}, {"Canceled"}, {"DeadlineExceeded"}})

\* What an attached session's process holds.
Held(id)     == IF live[id] # Gone THEN live[id] ELSE stored[id]
Attaches(id) == id # Unset /\ Held(id) # Gone /\ live' = [live EXCEPT ![id] = Held(id)]

AttachFails(rpc, id) ==
    /\ \E error \in AttachErrors(id) : outcome' = Fail(rpc, error)
    /\ UNCHANGED live

\* A handler that asks the session's process and changes nothing: an answer of
\* Bodies, or a failed call.
Asks(rpc, id, Bodies) ==
    /\ \/ AttachFails(rpc, id)
       \/ /\ Attaches(id)
          /\ \/ \E body \in Bodies : outcome' = NewResponse(rpc, body)
             \/ \E error \in CallErrors : outcome' = Fail(rpc, error)
    /\ UNCHANGED <<stored, runs, minted, created, clientVars>>

-----------------------------------------------------------------------------
(* Conversions *)

\* Mutant: an unknown modification time is converted like a known one.
sessionProtoUnguarded(id, active, held) ==
    [id |-> id, name |-> Unset, session_file |-> Unset, model |-> Unset,
     streaming |-> active /\ id \in runs,
     message_count |-> Len(held), cwd |-> Unset, active |-> active,
     updated_at_unix |-> IF stored[id] = Gone THEN -1 ELSE 1]
\* updated_at_unix is 0 while there is no file.
sessionProto(id, active, held) ==
    [id |-> id, name |-> Unset, session_file |-> Unset, model |-> Unset,
     streaming |-> active /\ id \in runs,
     message_count |-> Len(held), cwd |-> Unset, active |-> active,
     updated_at_unix |-> IF stored[id] = Gone THEN 0 ELSE 1]

statsProto ==
    [input_tokens |-> 0, output_tokens |-> 0, cache_read_tokens |-> 0, cache_write_tokens |-> 0,
     cost |-> 0, context_percent |-> 0]

TheText == CHOOSE t \in Text : TRUE
EntryProto(n) == [id |-> n, type |-> TheText, payload_json |-> TheText]
ModelProto ==
    [id |-> TheText, provider |-> TheText, name |-> TheText, api |-> TheText, reasoning |-> FALSE,
     input |-> <<TheText>>, context_window |-> 1, max_tokens |-> 1,
     cost |-> [input |-> 0, output |-> 0, cache_read |-> 0, cache_write |-> 0]]

-----------------------------------------------------------------------------
(* The handlers that only report *)

GetCapabilities ==
    \E req \in GetCapabilitiesRequest :
        LET Body(ready) == [submit_message_model_selection |-> TRUE, host_tools_protocol_version |-> 1,
                            host_tools_contract_sha256 |-> "own", host_tools_extension_ready |-> ready,
                            host_tools_max_payload_bytes |-> hostMaxPayload,
                            host_tools_max_calls_per_turn |-> hostMaxCalls,
                            host_tools_max_run_seconds |-> hostMaxRunSeconds]
        IN  IF req.session_id = Unset
            THEN outcome' = NewResponse("GetCapabilities", Body(FALSE)) /\ UNCHANGED <<sessionVars, clientVars>>
            ELSE Asks("GetCapabilities", req.session_id, {Body(r) : r \in BOOLEAN})

GetSession ==
    \E req \in GetSessionRequest :
        Asks("GetSession", req.session_id,
             {[session |-> sessionProto(req.session_id, TRUE, Held(req.session_id)), stats |-> statsProto]})

\* Newest first, in either order where the times are the same.
Orders(S) == {s \in [1..Cardinality(S) -> S] : S = {s[i] : i \in DOMAIN s}}
Listed(id) == sessionProto(id, live[id] # Gone, IF live[id] # Gone THEN live[id] ELSE <<>>)
ListSessions ==
    /\ \E s \in Orders({id \in SessionIds : live[id] # Gone \/ stored[id] # Gone}) :
         outcome' = NewResponse("ListSessions",
                       [sessions |-> [i \in DOMAIN s |-> Listed(s[i])]])
    /\ UNCHANGED <<sessionVars, clientVars>>

GetAvailableModels ==
    \E req \in GetAvailableModelsRequest :
        LET bodies == {[models |-> <<>>], [models |-> <<ModelProto>>]}
        IN  IF req.session_id # Unset
            THEN Asks("GetAvailableModels", req.session_id, bodies)
            ELSE /\ \/ \E body \in bodies : outcome' = NewResponse("GetAvailableModels", body)
                    \/ \E error \in CallErrors : outcome' = Fail("GetAvailableModels", error)
                 /\ UNCHANGED <<sessionVars, clientVars>>

ListDirectories ==
    /\ \E req \in ListDirectoriesRequest :
         \/ outcome' = Fail("ListDirectories", {"ErrInvalidPath"})
         \/ outcome' = Fail("ListDirectories", Plain)
         \/ \E cut \in BOOLEAN :
              outcome' = NewResponse("ListDirectories",
                            [path |-> TheText, directories |-> <<[name |-> TheText, path |-> TheText]>>,
                             truncated |-> cut])
    /\ UNCHANGED <<sessionVars, clientVars>>

\* No session is attached for these two.
ListHostCalls ==
    /\ \E req \in ListHostCallsRequest :
         \/ outcome' = Fail("ListHostCalls", {"ErrHostUnknown"})
         \/ req.session_id # Unset /\ live[req.session_id] # Gone /\
            \/ outcome' = Fail("ListHostCalls", {"Canceled"})
            \/ \E running \in BOOLEAN : \E calls \in {<<>>, <<[session_id |-> req.session_id,
                    turn_id |-> req.turn_id, call_id |-> TheText, tool |-> TheText, arguments_json |-> TheText]>>} :
                 outcome' = NewResponse("ListHostCalls", [calls |-> calls, running |-> running])
    /\ UNCHANGED <<sessionVars, clientVars>>

RespondHostCall ==
    /\ \E req \in RespondHostCallRequest :
         \/ outcome' = Fail("RespondHostCall", {"ErrHostUnknown"})
         \/ req.session_id # Unset /\ live[req.session_id] # Gone /\
            IF (req.result_json = Unset) = (req.error = Unset)
            THEN outcome' = Fail("RespondHostCall", {"ErrHostConfig"})
            ELSE \/ outcome' = NewResponse("RespondHostCall", Unset)
                 \/ \E error \in {{"ErrHostConfig"}, {"ErrHostGone"}, {"ErrHostConflict"}, Plain} :
                      outcome' = Fail("RespondHostCall", error)
    /\ UNCHANGED <<sessionVars, clientVars>>

-----------------------------------------------------------------------------
(* GetTurn; ListEntries, and the client that follows a transcript *)

LastOf(s) == IF s = <<>> THEN 0 ELSE s[Len(s)]

\* Where the entries hold a cursor: 0 if it is empty, or unknown.
Place(held, cursor) ==
    IF \E i \in DOMAIN held : held[i] = cursor THEN CHOOSE i \in DOMAIN held : held[i] = cursor ELSE 0

\* Mutant: a cursor that pi does not know is taken for the empty one.
EntriesAfterUnknown(id, cursor) ==
    LET held == Held(id)
    IN  [found |-> TRUE, entries |-> SubSeq(held, Place(held, cursor) + 1, Len(held))]
\* getEntries: pi reports an unknown cursor, which becomes ErrBadCursor.
EntriesAfter(id, cursor) ==
    LET held == Held(id)
    IN  [found   |-> cursor = 0 \/ Place(held, cursor) # 0,
         entries |-> SubSeq(held, Place(held, cursor) + 1, Len(held))]

\* A running turn is told before its cursor is looked at; a turn that is over has
\* a result if an assistant message follows the cursor.
GetTurn ==
    \E req \in GetTurnRequest(0..MaxEntries) :
        LET id == req.session_id
            over(result) == [running |-> FALSE, result |-> result]
            done == [text |-> TheText, stop_reason |-> TheText, stats |-> statsProto]
            after == EntriesAfter(id, req.turn_cursor)
        IN  \/ Asks("GetTurn", id, IF id \in runs THEN {[running |-> TRUE, result |-> Unset]}
                                  ELSE {over(result) : result \in IF after.entries = <<>> THEN {Unset}
                                                                  ELSE {Unset, done}})
               /\ (outcome'.code = "ok" => id \in runs \/ after.found)
            \/ /\ Attaches(id) /\ id \notin runs /\ ~after.found
               /\ outcome' = Fail("GetTurn", {"ErrBadCursor"})
               /\ UNCHANGED <<stored, runs, minted, created, clientVars>>

\* The client appends what it is given; at a cursor that is no more it starts anew.
ListEntries ==
    \E id \in SessionIds : \E req \in ListEntriesRequest({LastOf(transcript[id])}) :
        /\ req.session_id = id
        /\ \/ AttachFails("ListEntries", id) /\ UNCHANGED transcript
           \/ /\ Attaches(id)
              /\ LET got == EntriesAfter(id, req.after_cursor) IN
                 IF got.found
                 THEN /\ outcome' = NewResponse("ListEntries",
                            [entries |-> [i \in DOMAIN got.entries |-> EntryProto(got.entries[i])],
                             leaf_id |-> LastOf(Held(id)), running |-> id \in runs])
                      /\ transcript' = [transcript EXCEPT ![id] = @ \o got.entries]
                 ELSE /\ outcome' = Fail("ListEntries", {"ErrBadCursor"})
                      /\ transcript' = [transcript EXCEPT ![id] = <<>>]
           \/ /\ Attaches(id) /\ UNCHANGED transcript
              /\ \E error \in CallErrors : outcome' = Fail("ListEntries", error)
        /\ UNCHANGED <<stored, runs, minted, created, attempt, prompt, delivered>>

-----------------------------------------------------------------------------
(* The handlers that start runs *)

\* acquireRun: the slot is taken, or a set_model or an abort is outstanding.
AcquireErrors(id) == IF id \in runs THEN {Plain, {"ErrBusy"}} ELSE {Plain, {"ErrSetModel"}, {"ErrBusy"}}

\* modelForSubmit
ModelErrors(selection) ==
    {Plain, {"DeadlineExceeded"}} \cup
    (IF selection = Unset THEN {}
     ELSE {{"ErrInvalidModel"}, {"ErrModelAuth"}, {"ErrSetModel"}, {"ErrSetModel", "DeadlineExceeded"}})

\* The relay is not ready, or closed; the model; the cursor; an abort.
SetupErrors(req) ==
    (IF req.host_tools = Unset THEN {} ELSE {{"ErrHostUnsupported"}})
        \cup ModelErrors(req.model_selection) \cup {Plain, {"DeadlineExceeded"}, {"Canceled"}}

\* HostTools.validate
Valid(host) == host.contract_sha256 = "own" /\ host.allowed_tools # <<>>

\* While the client has its message to send, the requests below are the client's.
Mine == attempt = "open"

\* Mutant: an acknowledgement that is late is reported as the busy session.
PendingErrorsBusy == {{"ErrBusy", "DeadlineExceeded"}}
\* What a prompt that pi has not acknowledged is reported as.
PendingErrors == {{"Canceled"}, {"DeadlineExceeded"}}

\* No prompt was sent.
Unsent(rpc, id, Errors) ==
    /\ \E error \in Errors : outcome' = Fail(rpc, error)
    /\ UNCHANGED <<runs, prompt, delivered>>

\* Pi took the prompt; it holds entries of it once it has written them.
Takes == IF Mine THEN prompt' = "taken" /\ delivered' = delivered + 1 ELSE UNCHANGED <<prompt, delivered>>

\* Pi refused the prompt, or exited before or after it took it.
PromptFails(rpc) ==
    /\ outcome' = Refusal(rpc, Plain, TRUE) /\ UNCHANGED runs
    /\ Takes \/ UNCHANGED <<prompt, delivered>>

\* The slot is kept until the acknowledgement (startDetached).
PromptPending(rpc, id) ==
    /\ \E error \in PendingErrors : outcome' = Refusal(rpc, error, TRUE)
    /\ runs' = runs \cup {id}
    /\ IF Mine THEN prompt' = "waiting" ELSE UNCHANGED prompt
    /\ UNCHANGED delivered

\* The client sends its message again after an answer that says it was not sent.
DefiniteRefusals ==
    {"invalid_argument", "not_found", "already_exists", "failed_precondition", "unauthenticated",
     "resource_exhausted", "unimplemented"}
Concludes == attempt' = IF Mine /\ outcome'.code \in DefiniteRefusals THEN "open" ELSE "closed"

\* Manager.Send: after the prompt the run ends, the caller goes away or its
\* stream fails; a run that is not known to be over keeps the slot.
Send(rpc, id, Bodies) ==
    \/ Unsent(rpc, id, AcquireErrors(id))
    \/ /\ id \notin runs
       /\ \/ Unsent(rpc, id, {{"Canceled"}})
          \/ PromptFails(rpc)
          \/ PromptPending(rpc, id)
          \/ Takes /\ UNCHANGED runs /\ \E body \in Bodies : outcome' = NewResponse(rpc, body)
          \/ /\ Takes
             /\ \E error \in CallErrors \cup {{"connect.Error"}} : outcome' = Refusal(rpc, error, TRUE)
             /\ runs' \in {runs, runs \cup {id}}

SendsTo(rpc, id, Do) ==
    /\ \/ AttachFails(rpc, id) /\ UNCHANGED <<runs, prompt, delivered>>
       \/ Attaches(id) /\ Do
    /\ Concludes /\ UNCHANGED <<stored, minted, created, transcript>>

\* Input that pi handles itself has an empty answer.
SendMessage ==
    \E req \in SendMessageRequest :
        SendsTo("SendMessage", req.session_id,
                Send("SendMessage", req.session_id,
                     {[text |-> t, stop_reason |-> t, stats |-> statsProto] : t \in {TheText, Unset}}))

\* The answer is the stream's last message, if pi started a run.
StreamMessage ==
    \E req \in StreamMessageRequest :
        SendsTo("StreamMessage", req.session_id,
                Send("StreamMessage", req.session_id,
                     {Unset, [type |-> "agent_settled", payload_json |-> TheText]}))

\* A run outlives the call; input that pi handles itself starts none.
Submit(req) ==
    LET id == req.session_id
        body == [turn_cursor |-> LastOf(Held(id)),
                 applied_model |-> IF req.model_selection = Unset THEN Unset
                                   ELSE [provider |-> TheText, model_id |-> TheText],
                 turn_id |-> IF req.host_tools = Unset THEN Unset ELSE TheText]
    IN  \/ Unsent("SubmitMessage", id, AcquireErrors(id))
        \/ /\ id \notin runs
           /\ \/ Unsent("SubmitMessage", id, SetupErrors(req))
              \/ PromptFails("SubmitMessage")
              \/ PromptPending("SubmitMessage", id)
              \/ /\ Takes /\ runs' \in {runs, runs \cup {id}}
                 /\ outcome' = NewResponse("SubmitMessage", body)

\* A malformed contract is refused before the session is looked for.
SubmitMessage ==
    \E req \in SubmitMessageRequest :
        IF req.host_tools # Unset /\ ~Valid(req.host_tools)
        THEN /\ Unsent("SubmitMessage", req.session_id, {{"ErrHostConfig"}}) /\ Concludes
             /\ UNCHANGED <<stored, live, minted, created, transcript>>
        ELSE SendsTo("SubmitMessage", req.session_id, Submit(req))

-----------------------------------------------------------------------------
(* The handlers that change sessions *)

\* Pi mints an id that it never minted before, and writes no file yet.
CreateSession ==
    /\ \E req \in CreateSessionRequest :
         \/ /\ req.cwd # Unset /\ outcome' = Fail("CreateSession", {"ErrInvalidCwd"})
            /\ UNCHANGED <<live, created>>
         \/ /\ \E error \in CallErrors \cup {{"ErrTooManySessions"}} : outcome' = Fail("CreateSession", error)
            /\ UNCHANGED <<live, created>>
         \/ \E id \in SessionIds \ created :
              /\ live' = [live EXCEPT ![id] = <<>>] /\ created' = created \cup {id}
              /\ outcome' = NewResponse("CreateSession", [session |-> sessionProto(id, TRUE, <<>>)])
    /\ UNCHANGED <<stored, runs, minted, clientVars>>

\* An abort of an inactive session does nothing; one that pi confirms ends the
\* run, at once or once its supervision has seen it.
AbortSession ==
    /\ \E req \in AbortSessionRequest :
         IF req.session_id = Unset \/ live[req.session_id] = Gone
         THEN outcome' = NewResponse("AbortSession", Unset) /\ UNCHANGED runs
         ELSE \/ /\ outcome' = NewResponse("AbortSession", Unset)
                 /\ runs' \in {runs, IF prompt = "waiting" THEN runs ELSE runs \ {req.session_id}}
              \/ (\E error \in CallErrors : outcome' = Fail("AbortSession", error)) /\ UNCHANGED runs
    /\ UNCHANGED <<stored, live, minted, created, clientVars>>

\* The process goes and, with purge, the file that it named; a session that is
\* inactive is attached for its name.
DeleteSession ==
    /\ \E req \in DeleteSessionRequest :
         LET id == req.session_id IN
         IF id # Unset /\ live[id] # Gone
         THEN /\ live' = [live EXCEPT ![id] = Gone] /\ runs' = runs \ {id}
              /\ \/ /\ outcome' = NewResponse("DeleteSession", Unset)
                    /\ stored' = IF req.purge THEN [stored EXCEPT ![id] = Gone] ELSE stored
                 \/ /\ req.purge /\ outcome' = Fail("DeleteSession", Plain) /\ UNCHANGED stored
         ELSE /\ UNCHANGED <<live, runs>>
              /\ IF ~req.purge THEN outcome' = NewResponse("DeleteSession", Unset) /\ UNCHANGED stored
                 ELSE \/ /\ \E error \in AttachErrors(id) : outcome' = Fail("DeleteSession", error)
                         /\ UNCHANGED stored
                      \/ /\ id # Unset /\ stored[id] # Gone
                         /\ outcome' = NewResponse("DeleteSession", Unset)
                         /\ stored' = [stored EXCEPT ![id] = Gone]
    /\ UNCHANGED <<minted, created, clientVars>>

-----------------------------------------------------------------------------
(* Requests that no handler sees; pi; other clients *)

Rpcs == {"CreateSession", "SubmitMessage", "ListHostCalls", "RespondHostCall", "ListEntries", "other"}

RefusedAtDoor ==
    /\ \E rpc \in Rpcs : \E code \in DoorCodes(rpc) : outcome' = Outcome(rpc, code, "", Unset, FALSE)
    /\ UNCHANGED <<sessionVars, clientVars>>

\* Pi appends an entry; its file has them all, or is not there yet.
PiAppends ==
    \E id \in runs :
        /\ minted < MaxEntries /\ live[id] # Gone
        /\ minted' = minted + 1
        /\ live' = [live EXCEPT ![id] = Append(@, minted + 1)]
        /\ UNCHANGED <<stored, runs, created, outcome, clientVars>>

PiPersists ==
    \E id \in SessionIds :
        /\ live[id] \notin {Gone, <<>>} /\ stored[id] # live[id]
        /\ stored' = [stored EXCEPT ![id] = live[id]]
        /\ UNCHANGED <<live, runs, minted, created, outcome, clientVars>>

\* A run starts for another client, or ends.
RunChanges ==
    /\ \E id \in SessionIds : live[id] # Gone /\ runs' = IF id \in runs THEN runs \ {id} ELSE runs \cup {id}
    /\ prompt # "waiting"
    /\ UNCHANGED <<stored, live, minted, created, outcome, clientVars>>

\* The acknowledgement comes late, or the process went before or after it took it.
PiAcknowledges ==
    /\ prompt = "waiting"
    /\ \/ prompt' = "taken" /\ delivered' = delivered + 1
       \/ prompt' = "unsent" /\ UNCHANGED delivered
    /\ UNCHANGED <<sessionVars, outcome, transcript, attempt>>

\* The process exits, or the janitor stops it: what was not written is lost.
ProcessEnds ==
    \E id \in SessionIds :
        /\ live[id] # Gone
        /\ live' = [live EXCEPT ![id] = Gone] /\ runs' = runs \ {id}
        /\ UNCHANGED <<stored, minted, created, outcome, clientVars>>

-----------------------------------------------------------------------------
ApiInit ==
    /\ stored = [id \in SessionIds |-> Gone] /\ live = [id \in SessionIds |-> Gone]
    /\ runs = {} /\ minted = 0 /\ created = {}
    /\ outcome = NewResponse("none", Unset)
    /\ transcript = [id \in SessionIds |-> <<>>]
    /\ attempt = "open" /\ prompt = "unsent" /\ delivered = 0

ApiNext ==
    \/ GetCapabilities \/ GetSession \/ ListSessions \/ GetAvailableModels \/ ListDirectories
    \/ ListHostCalls \/ RespondHostCall \/ GetTurn \/ ListEntries
    \/ SendMessage \/ StreamMessage \/ SubmitMessage
    \/ CreateSession \/ AbortSession \/ DeleteSession
    \/ RefusedAtDoor \/ PiAppends \/ PiPersists \/ RunChanges \/ PiAcknowledges \/ ProcessEnds

\* Type correctness: a successful answer is a response message of its rpc, and an
\* error has none (service.go, sessionProto).
Responses ==
    [none |-> {Unset}, GetCapabilities |-> GetCapabilitiesResponse, CreateSession |-> CreateSessionResponse,
     ListSessions |-> ListSessionsResponse, GetSession |-> GetSessionResponse,
     SendMessage |-> SendMessageResponse, StreamMessage |-> Optional(StreamMessageResponse),
     SubmitMessage |-> SubmitMessageResponse, GetTurn |-> GetTurnResponse,
     ListHostCalls |-> ListHostCallsResponse, RespondHostCall |-> RespondHostCallResponse,
     ListEntries |-> ListEntriesResponse, GetAvailableModels |-> GetAvailableModelsResponse,
     ListDirectories |-> ListDirectoriesResponse, AbortSession |-> AbortSessionResponse,
     DeleteSession |-> DeleteSessionResponse]

ApiTypeOK ==
    /\ outcome.body \in IF outcome.code = "ok" THEN Responses[outcome.rpc] ELSE {Unset}
    /\ runs \subseteq {id \in created : live[id] # Gone} /\ created \subseteq SessionIds
    /\ stored \in [SessionIds -> Seq(1..MaxEntries) \cup {Gone}]
    /\ live \in [SessionIds -> Seq(1..MaxEntries) \cup {Gone}]
    /\ transcript \in [SessionIds -> Seq(1..MaxEntries)]
    /\ minted \in 0..MaxEntries /\ delivered \in Nat
    /\ attempt \in {"open", "closed"} /\ prompt \in {"unsent", "waiting", "taken"}

\* A client that sends a message again only after an answer whose code says that
\* it was not sent has it delivered at most once, whatever fails, and however
\* late pi takes it (README.md 187-195: a rejected setup sends no prompt, a
\* deadline is not proof of rejection).
PromptDeliveredOnce == delivered <= 1

\* What a client has put together of a transcript, cursor by cursor, is what the
\* session holds up to the last of it, also after a process lost entries that it
\* had told (getEntries, Manager.Entries).
TranscriptExact ==
    \A id \in SessionIds :
        LET t == transcript[id] IN
        Held(id) # Gone /\ t # <<>> =>
            \A k \in DOMAIN Held(id) : Held(id)[k] = LastOf(t) => t = SubSeq(Held(id), 1, k)

ApiSpec == ApiInit /\ [][ApiNext]_apiVars
=============================================================================
