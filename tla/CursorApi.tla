----------------------------- MODULE CursorApi ------------------------------
(***************************************************************************)
(* The Cursor API (internal/cursor/service.go, errors.go, consumeRun): what *)
(* the bridge says, call by call and message by message of a run's stream,  *)
(* and which answer the client gets for it.  Slots, capacity and bridges    *)
(* are the subject of CursorManager; a call that needs no stream is one     *)
(* step here.                                                              *)
(*                                                                         *)
(* A definition marked "Mutant" is a plausible mistake in the definition   *)
(* below it and is used by no specification.                               *)
(***************************************************************************)
EXTENDS SdkMessages, FiniteSetsExt

CONSTANT MaxMessages    \* bound: messages of a run's stream

ASSUME CursorApiAssumption ==
    KeyWord \in Words /\ NotSet \notin Words \cup RunStreamResult /\ MaxMessages \in Nat

VARIABLES
    phase,          \* the run of the client: "idle", "streaming", "over"
    asked,          \* the last request to the bridge, until a stream answers it
    heard,          \* history: the messages of the stream
    ended,          \* history: how it ended: "open", "clean", "broken"
    left,           \* the caller has gone
    terminal,       \* consumeRun's variables
    assistantText,
    statusMessage,
    reply           \* the last answer

runVars   == <<heard, ended, left, terminal, assistantText, statusMessage>>
cursorApiVars == <<phase, asked, runVars, reply>>

-----------------------------------------------------------------------------
(* Errors *)

KeyReason == "CURSOR_API_KEY_MISSING_OR_INVALID"
looksLikeAPIKeyFailure(word) == word = KeyWord

\* An error is a sentinel, or a connect error with its code and detail reason.
Sentinel(name)   == [is |-> name, code |-> "", reason |-> ""]
ConnectError(code, reason) == [is |-> "connect.Error", code |-> code, reason |-> reason]
apiKeyError      == ConnectError("unauthenticated", KeyReason)
Other            == Sentinel("other")
ContextErrors    == {Sentinel("Canceled"), Sentinel("DeadlineExceeded")}

\* What a call of the bridge fails with.
BridgeErrors ==
    [code : {"not_found", "resource_exhausted", "failed_precondition", "unauthenticated", "internal"},
     detail : Maybe(SdkErrorDetails), reason : {"", KeyReason}, message : Words]

FirstOf(cases) == cases[Min({i \in DOMAIN cases : cases[i].holds})].error
Case(holds, error) == [holds |-> holds, error |-> error]

normalizeRPCError(e) ==
    LET sdk(codes) == e.detail # NotSet /\ e.detail.sdk_error_code \in codes
    IN  FirstOf(<<
            Case(sdk({"API_KEY_NOT_FOUND", "UNAUTHORIZED"}), apiKeyError),
            Case(sdk({"AGENT_NOT_FOUND", "RUN_NOT_FOUND"}), Sentinel("ErrNotFound")),
            Case(sdk({"AGENT_BUSY"}), Sentinel("ErrBusy")),
            Case(e.reason = KeyReason, apiKeyError),
            Case(e.code = "not_found", Sentinel("ErrNotFound")),
            Case(e.code = "resource_exhausted", Sentinel("ErrTooManySessions")),
            Case(e.code = "failed_precondition", Sentinel("ErrBusy")),
            Case(e.code = "unauthenticated" /\ looksLikeAPIKeyFailure(e.message), apiKeyError),
            Case(TRUE, ConnectError(e.code, e.reason)) >>)

BridgeRefusals == {normalizeRPCError(e) : e \in BridgeErrors} \cup ContextErrors

runFailure(status, errorCode) ==
    IF looksLikeAPIKeyFailure(errorCode) \/ looksLikeAPIKeyFailure(statusMessage) THEN apiKeyError
    ELSE IF status = "CANCELLED" THEN Sentinel("ErrCancelled") ELSE Other

\* rpcError
SentinelCode ==
    [ErrNotFound |-> "not_found", ErrBusy |-> "failed_precondition", ErrTooManySessions |-> "resource_exhausted",
     ErrInvalidCwd |-> "invalid_argument", ErrInvalidMode |-> "invalid_argument", ErrCancelled |-> "canceled",
     Canceled |-> "canceled", DeadlineExceeded |-> "deadline_exceeded", errBridgeExited |-> "unavailable",
     other |-> "internal"]
Code(error) == IF error.is = "connect.Error" THEN error.code ELSE SentinelCode[error.is]

ReplyOf(rpc, code, reason, body) == [rpc |-> rpc, code |-> code, reason |-> reason, body |-> body]
Ok(rpc, body)      == reply' = ReplyOf(rpc, "ok", "", body)
Failed(rpc, error) == reply' = ReplyOf(rpc, Code(error), error.reason, NotSet)
FailsWith(rpc, Errors) == \E error \in Errors : Failed(rpc, error)

\* Bound: calls one after another up to the first run.  The next one would find
\* nothing of it: consumeRun's variables are its own.
NewCall == phase = "idle" /\ UNCHANGED runVars

-----------------------------------------------------------------------------
(* Calls that need no stream *)

\* startBridge: the program is missing, exits, does not answer in time.
StartErrors == ContextErrors \cup {Other, Sentinel("errBridgeExited")}

\* parseMode
ModeOf(mode) == IF mode = "plan" THEN "PLAN" ELSE "AGENT"

Options(req) ==
    [api_key |-> "key", name |-> req.name, mode |-> ModeOf(req.mode),
     local |-> [cwd |-> <<IF req.cwd = NotSet THEN KeyWord ELSE req.cwd>>],
     model |-> IF req.model = NotSet THEN NotSet ELSE [id |-> req.model]]

CursorCreateSession ==
    /\ \E req \in CursorCreateSessionRequest :
         \/ FailsWith("CreateSession", {Sentinel("ErrInvalidCwd")}) /\ UNCHANGED asked
         \/ /\ req.mode = "other" /\ FailsWith("CreateSession", {Sentinel("ErrInvalidMode")})
            /\ UNCHANGED asked
         \/ /\ req.mode # "other"
            /\ \/ FailsWith("CreateSession", StartErrors \cup {Sentinel("ErrTooManySessions")}) /\ UNCHANGED asked
               \/ /\ asked' = [options |-> Options(req)]
                  /\ \/ FailsWith("CreateSession", BridgeRefusals \cup {Other})
                     \/ \E response \in CreateAgentResponse :
                          IF response.agent_id = NotSet THEN Failed("CreateSession", Other)
                          ELSE Ok("CreateSession", [session_id |-> response.agent_id])
    /\ NewCall /\ UNCHANGED phase

\* A transient bridge.
CursorListModels ==
    /\ \/ FailsWith("ListModels", StartErrors) /\ UNCHANGED asked
       \/ /\ asked' = [options |-> [api_key |-> "key"]]
          /\ \/ FailsWith("ListModels", BridgeRefusals)
             \/ \E items \in Single(SdkModel) :
                  Ok("ListModels", [models |-> [i \in DOMAIN items |->
                                        [id |-> items[i].id, name |-> items[i].display_name]]])
    /\ NewCall /\ UNCHANGED phase

\* The run that the abort cuts is over when its stream is; a bridge that has gone,
\* or knows no such run, has nothing to cancel.
CursorAbort ==
    /\ \E req \in CursorAbortSessionRequest :
         \/ FailsWith("AbortSession", {Sentinel("ErrNotFound")})
         \/ req.session_id # NotSet /\
            \/ Ok("AbortSession", NotSet)
            \/ FailsWith("AbortSession", {e \in BridgeRefusals : e.is # "ErrNotFound"})
    /\ NewCall /\ UNCHANGED <<phase, asked>>

-----------------------------------------------------------------------------
(* SendMessage *)

\* attach: the agent is resumed, and asked for its directory.
Resumes(id) ==
    asked' \in {[agent_id |-> id, options |-> [api_key |-> "key", name |-> NotSet, mode |-> "UNSPECIFIED",
                                               local |-> NotSet, model |-> NotSet]],
                [agent_id |-> id, options |-> [api_key |-> "key"]]}

sdkImages(images) ==
    [i \in DOMAIN images |-> [data |-> [data |-> images[i].data, mime_type |-> images[i].mime_type]]]

CursorSend ==
    /\ NewCall
    /\ \E req \in CursorSendMessageRequest :
         \/ /\ IF req.session_id = NotSet THEN Failed("SendMessage", Sentinel("ErrNotFound"))
               ELSE FailsWith("SendMessage", StartErrors \cup {Sentinel("ErrTooManySessions"), Sentinel("ErrBusy")})
            /\ UNCHANGED <<phase, asked>>
         \/ /\ req.session_id # NotSet
            /\ Resumes(req.session_id) /\ FailsWith("SendMessage", BridgeRefusals)
            /\ UNCHANGED phase
         \/ /\ req.session_id # NotSet
            /\ asked' = [agent_id |-> req.session_id,
                         message |-> [text |-> req.message, images |-> sdkImages(req.images)]]
            /\ \/ FailsWith("SendMessage", BridgeRefusals) /\ UNCHANGED phase
               \/ phase' = "streaming" /\ reply' = ReplyOf("SendMessage", "pending", "", NotSet)

\* The messages that consumeRun tells apart.
Results ==
    {[status |-> "FINISHED", error_code |-> NotSet, result |-> r] :
        r \in {NotSet, [result |-> NotSet], [result |-> KeyWord]}}
    \cup {[status |-> s, error_code |-> c, result |-> NotSet] :
             s \in {"ERROR", "CANCELLED"}, c \in {NotSet, KeyWord}}
StreamMessages ==
    {[envelope |-> "sdk_message", sdk_message |-> m] :
        m \in [type : {"assistant", "status"}, message : Words] \cup {[type |-> "status", message |-> NotSet]}}
    \cup {[envelope |-> "result", result |-> r] : r \in Results}
    \cup {[envelope |-> "done", done |-> [run_id |-> NotSet]]}

\* The loop of consumeRun.
Receives(m) ==
    LET said(type) == m.envelope = "sdk_message" /\ m.sdk_message.type = type /\ m.sdk_message.message # NotSet
    IN  /\ assistantText' = IF said("assistant") THEN Append(assistantText, m.sdk_message.message) ELSE assistantText
        /\ statusMessage' = IF said("status") THEN m.sdk_message.message ELSE statusMessage
        /\ terminal' = IF m.envelope = "result" THEN m.result ELSE terminal

Receive ==
    /\ phase = "streaming" /\ Len(heard) < MaxMessages
    /\ \E m \in StreamMessages : heard' = Append(heard, m) /\ Receives(m)
    /\ asked' = NotSet /\ UNCHANGED <<phase, ended, left, reply>>

\* The caller goes, which aborts the run.
CallerLeaves ==
    /\ phase = "streaming" /\ ~left /\ left' = TRUE
    /\ UNCHANGED <<phase, asked, heard, ended, terminal, assistantText, statusMessage, reply>>

\* A caller that has gone gets its context's error for whatever failed.
SendFails(Errors) == FailsWith("SendMessage", IF left THEN ContextErrors ELSE Errors)

\* The stream breaks: the bridge's exit is what is told, if it has gone.
StreamBroke ==
    /\ phase = "streaming" /\ phase' = "over" /\ ended' = "broken"
    /\ SendFails(BridgeRefusals \cup {Sentinel("errBridgeExited")})
    /\ asked' = NotSet /\ UNCHANGED <<heard, left, terminal, assistantText, statusMessage>>

\* Mutant: any result is taken for the end of a finished run.
StreamEndsUnchecked ==
    /\ phase = "streaming" /\ phase' = "over" /\ ended' = "clean"
    /\ IF terminal = NotSet THEN SendFails({Other})
       ELSE Ok("SendMessage", [text |-> IF terminal.result # NotSet /\ terminal.result.result # NotSet
                                        THEN <<terminal.result.result>> ELSE assistantText])
    /\ asked' = NotSet /\ UNCHANGED <<heard, left, terminal, assistantText, statusMessage>>
\* ErrRunIncomplete is an error of no code of its own.
StreamEnds ==
    /\ phase = "streaming" /\ phase' = "over" /\ ended' = "clean"
    /\ IF terminal = NotSet THEN SendFails({Other})
       ELSE IF terminal.status # "FINISHED" THEN SendFails({runFailure(terminal.status, terminal.error_code)})
       ELSE Ok("SendMessage", [text |-> IF terminal.result # NotSet /\ terminal.result.result # NotSet
                                        THEN <<terminal.result.result>> ELSE assistantText])
    /\ asked' = NotSet /\ UNCHANGED <<heard, left, terminal, assistantText, statusMessage>>

-----------------------------------------------------------------------------
CursorApiInit ==
    /\ phase = "idle" /\ asked = NotSet /\ reply = ReplyOf("none", "ok", "", NotSet)
    /\ heard = <<>> /\ ended = "open" /\ left = FALSE
    /\ terminal = NotSet /\ assistantText = <<>> /\ statusMessage = NotSet

CursorApiNext ==
    \/ CursorCreateSession \/ CursorListModels \/ CursorAbort
    \/ CursorSend \/ Receive \/ CallerLeaves \/ StreamBroke \/ StreamEnds

CursorApiSpec == CursorApiInit /\ [][CursorApiNext]_cursorApiVars

-----------------------------------------------------------------------------
\* The requests are the bridge's, the messages heard are the stream's, and a
\* successful answer is a response message of its rpc.
SdkRequests ==
    CreateAgentRequest \cup ResumeAgentRequest \cup GetAgentRequest \cup SendRequest \cup SdkListModelsRequest
CursorResponses ==
    [none |-> {NotSet}, CreateSession |-> CursorCreateSessionResponse, SendMessage |-> CursorSendMessageResponse,
     AbortSession |-> CursorAbortSessionResponse, ListModels |-> CursorListModelsResponse]
CursorTypeOK ==
    /\ asked \in Maybe(SdkRequests)
    /\ heard \in Seq(RunStreamMessage)
    /\ terminal \in Maybe(RunStreamResult) /\ assistantText \in Seq(Words) /\ statusMessage \in Maybe(Words)
    /\ phase \in {"idle", "streaming", "over"} /\ ended \in {"open", "clean", "broken"} /\ left \in BOOLEAN
    /\ reply.body \in IF reply.code = "ok" THEN CursorResponses[reply.rpc] ELSE {NotSet}

\* What the stream said, as a whole: where it has a text of a type, or a result.
SaidAt(type) ==
    {i \in DOMAIN heard : /\ heard[i].envelope = "sdk_message" /\ heard[i].sdk_message.type = type
                          /\ heard[i].sdk_message.message # NotSet}
ResultsAt  == {i \in DOMAIN heard : heard[i].envelope = "result"}
LastResult == heard[Max(ResultsAt)].result
LastStatus == heard[Max(SaidAt("status"))].sdk_message.message
Finished   == ended = "clean" /\ ResultsAt # {} /\ LastResult.status = "FINISHED"

\* All that the assistant said, in order.
Transcribes(text) ==
    /\ Len(text) = Cardinality(SaidAt("assistant"))
    /\ \A i \in SaidAt("assistant") :
          text[Cardinality({j \in SaidAt("assistant") : j <= i})] = heard[i].sdk_message.message
FinalText(text) ==
    IF LastResult.result # NotSet /\ LastResult.result.result # NotSet
    THEN text = <<LastResult.result.result>>
    ELSE Transcribes(text)

\* An answered SendMessage says what its stream said: it succeeds if and only if
\* the stream ended in order and its last result is a finished run, with that
\* run's text, or else with all that the assistant said, in order; and the
\* reason that sends an operator to the API key is given only where the
\* bridge spoke of the key: in the last status, or the last result's error
\* code (consumeRun, runFailure; README: the ErrorInfo reason of the key).
CursorAnswerTrue ==
    phase = "over" =>
        /\ reply.code = "ok" => Finished /\ FinalText(reply.body.text)
        /\ ended = "clean" /\ reply.code # "ok" => ~Finished
        /\ ended = "clean" /\ reply.reason = KeyReason =>
              \/ looksLikeAPIKeyFailure(LastResult.error_code)
              \/ SaidAt("status") # {} /\ looksLikeAPIKeyFailure(LastStatus)
=============================================================================
