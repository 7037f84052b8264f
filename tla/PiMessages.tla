----------------------------- MODULE PiMessages -----------------------------
(***************************************************************************)
(* The messages of the Pi API (pkg/proto/butterbox/pi/v1/pi.pb.go), as the *)
(* handlers of internal/pi/service.go see them through the getters: a       *)
(* scalar that is absent is its zero value, a message that is absent Unset.  *)
(*                                                                         *)
(* Strings that nothing is told apart by are members of Text.  A cursor is *)
(* an entry id, which is a positive number here, or 0 for the empty string. *)
(***************************************************************************)
EXTENDS Integers, Sequences

CONSTANTS
    SessionIds,     \* session ids
    Text,           \* other strings
    Unset          \* a message, or a string, that is not set

\* Repeated fields of a request: bound, at most one element.
AtMostOne(S) == {<<>>} \cup {<<x>> : x \in S}
Optional(S)  == S \cup {Unset}
SessionId    == Optional(SessionIds)
Cursor       == Nat
WaitSeconds  == {0, 1}

-----------------------------------------------------------------------------
(* Parts of messages *)

ImageContent   == [mime_type : Text, data : Text]
ModelSelection == [provider : Optional(Text), model_id : Optional(Text)]
\* A contract is the box's own, or any other one.
HostToolsConfig ==
    [protocol_version : {1}, contract_sha256 : {"own", "other"},
     allowed_tools : AtMostOne({"render_ui"}), max_run_seconds : {0}]

Session ==
    [id : SessionIds, name : Optional(Text), session_file : Optional(Text), model : Optional(Text),
     streaming : BOOLEAN, message_count : Nat, cwd : Optional(Text), active : BOOLEAN,
     updated_at_unix : Nat]
SessionStats ==
    [input_tokens : Nat, output_tokens : Nat, cache_read_tokens : Nat, cache_write_tokens : Nat,
     cost : Nat, context_percent : Nat]
Entry      == [id : Nat \ {0}, type : Text, payload_json : Text]
TurnResult == [text : Text, stop_reason : Text, stats : SessionStats]
HostCall   == [session_id : SessionIds, turn_id : Text, call_id : Text, tool : Text, arguments_json : Text]
ModelCost  == [input : Nat, output : Nat, cache_read : Nat, cache_write : Nat]
Model ==
    [id : Text, provider : Text, name : Text, api : Text, reasoning : BOOLEAN, input : Seq(Text),
     context_window : Nat, max_tokens : Nat, cost : ModelCost]
Directory  == [name : Text, path : Text]

-----------------------------------------------------------------------------
(* Requests *)

GetCapabilitiesRequest    == [session_id : SessionId]
CreateSessionRequest ==
    [name : Optional(Text), provider : {Unset}, model : {Unset}, thinking_level : Optional(Text),
     cwd : Optional(Text)]
ListSessionsRequest       == {Unset}
GetSessionRequest         == [session_id : SessionId]
SendMessageRequest        == [session_id : SessionId, message : Text, images : AtMostOne(ImageContent)]
StreamMessageRequest      == [session_id : SessionId, message : Text, images : AtMostOne(ImageContent)]
SubmitMessageRequest ==
    [session_id : SessionId, message : Text, images : AtMostOne(ImageContent),
     model_selection : Optional(ModelSelection), host_tools : Optional(HostToolsConfig)]
ListHostCallsRequest      == [session_id : SessionId, turn_id : Text, wait_seconds : WaitSeconds]
\* The outcome is one of two fields.
RespondHostCallRequest ==
    [session_id : SessionId, turn_id : Text, call_id : Text,
     result_json : Optional(Text), error : Optional(Text)]
GetTurnRequest(cursors)     == [session_id : SessionId, turn_cursor : cursors, wait_seconds : WaitSeconds]
ListEntriesRequest(cursors) == [session_id : SessionId, after_cursor : cursors]
GetAvailableModelsRequest == [session_id : SessionId]
ListDirectoriesRequest    == [path : Optional(Text), include_hidden : BOOLEAN]
AbortSessionRequest       == [session_id : SessionId]
DeleteSessionRequest      == [session_id : SessionId, purge : BOOLEAN]

-----------------------------------------------------------------------------
(* Responses *)

\* The limits of the host's tools that hosttools.go declares.
hostMaxPayload    == 256 * 1024
hostMaxCalls      == 64
hostMaxRunSeconds == 86400

GetCapabilitiesResponse ==
    [submit_message_model_selection : {TRUE}, host_tools_protocol_version : {1},
     host_tools_contract_sha256 : {"own"}, host_tools_extension_ready : BOOLEAN,
     host_tools_max_payload_bytes : {hostMaxPayload},
     host_tools_max_calls_per_turn : {hostMaxCalls}, host_tools_max_run_seconds : {hostMaxRunSeconds}]
CreateSessionResponse      == [session : Session]
ListSessionsResponse       == [sessions : Seq(Session)]
GetSessionResponse         == [session : Session, stats : SessionStats]
SendMessageResponse        == [text : Optional(Text), stop_reason : Optional(Text), stats : SessionStats]
\* One message of the stream.
StreamMessageResponse      == [type : {"event", "agent_settled"}, payload_json : Text]
SubmitMessageResponse ==
    [turn_cursor : Cursor, applied_model : Optional([provider : Text, model_id : Text]),
     turn_id : Optional(Text)]
ListHostCallsResponse      == [calls : Seq(HostCall), running : BOOLEAN]
RespondHostCallResponse    == {Unset}
GetTurnResponse            == [running : BOOLEAN, result : Optional(TurnResult)]
ListEntriesResponse        == [entries : Seq(Entry), leaf_id : Cursor, running : BOOLEAN]
GetAvailableModelsResponse == [models : Seq(Model)]
ListDirectoriesResponse    == [path : Text, directories : Seq(Directory), truncated : BOOLEAN]
AbortSessionResponse       == {Unset}
DeleteSessionResponse      == {Unset}
=============================================================================
