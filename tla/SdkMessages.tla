---------------------------- MODULE SdkMessages -----------------------------
(***************************************************************************)
(* The messages that the box exchanges with a cursor SDK bridge             *)
(* (pkg/proto/sdk/v1) and with the clients of its Cursor API                *)
(* (pkg/proto/butterbox/cursor/v1): the fields that internal/cursor sets or *)
(* reads.  A string is a word or NotSet; KeyWord is one that speaks of the  *)
(* API key (looksLikeAPIKeyFailure).  A oneof is a union of records.        *)
(***************************************************************************)
EXTENDS Integers, Sequences

CONSTANTS
    Agents,     \* agent ids, which are session ids as well
    Words,      \* texts
    KeyWord,    \* one of them
    NotSet      \* a field that is not set

Maybe(S)  == S \cup {NotSet}
Single(S) == {<<>>} \cup {<<x>> : x \in S}

-----------------------------------------------------------------------------
(* sdk.v1: enums, options, results *)

SdkErrorCode ==
    {"UNSPECIFIED", "UNAUTHORIZED", "API_KEY_NOT_FOUND", "PLAN_REQUIRED", "ROLE_FORBIDDEN",
     "FEATURE_UNAVAILABLE", "AGENT_NOT_FOUND", "RUN_NOT_FOUND", "VALIDATION_ERROR", "INVALID_MODEL",
     "INVALID_BRANCH_NAME", "REPOSITORY_REQUIRED", "REPOSITORY_ACCESS", "PR_RESOLUTION_FAILED",
     "USAGE_LIMIT_EXCEEDED", "AGENT_BUSY", "AGENT_ARCHIVED", "RUN_NOT_CANCELLABLE",
     "RATE_LIMIT_EXCEEDED", "UPSTREAM_ERROR", "INTERNAL_ERROR", "CLIENT_CANCELLED"}
SdkErrorDetails    == [sdk_error_code : SdkErrorCode]
RunLifecycleStatus == {"UNSPECIFIED", "CREATING", "RUNNING", "FINISHED", "ERROR", "CANCELLED", "EXPIRED"}
AgentModeOption    == {"UNSPECIFIED", "AGENT", "PLAN"}

SdkModelSelection == [id : Words]
SdkModel          == [id : Words, display_name : Words]
LocalAgentOptions == [cwd : Seq(Words)]
AgentOptions ==
    [api_key : {"key"}, name : Maybe(Words), mode : AgentModeOption, local : Maybe(LocalAgentOptions),
     model : Maybe(SdkModelSelection)]
AgentOperationOptions == [api_key : {"key"}]
CursorRequestOptions  == [api_key : {"key"}]
SdkImageData      == [data : Words, mime_type : Words]
SdkImage          == [data : SdkImageData]
UserMessage       == [text : Words, images : Seq(SdkImage)]
LocalAgentInfo    == [cwd : Maybe(Words)]
SdkAgentInfo      == [local : Maybe(LocalAgentInfo)]

RunResult       == [result : Maybe(Words)]
RunStreamResult == [status : RunLifecycleStatus, error_code : Maybe(Words), result : Maybe(RunResult)]
RunStreamDone   == [run_id : Maybe(Words)]
\* The payload is what assistantMessageText or statusMessageText finds in it.
SdkMessage      == [type : {"assistant", "status", "other"}, message : Maybe(Words)]
RunStreamMessage ==
    [envelope : {"sdk_message"}, sdk_message : SdkMessage]
        \cup [envelope : {"result"}, result : RunStreamResult]
        \cup [envelope : {"done"}, done : RunStreamDone]

-----------------------------------------------------------------------------
(* sdk.v1: requests and responses *)

CreateAgentRequest   == [options : AgentOptions]
CreateAgentResponse  == [agent_id : Maybe(Agents)]
ResumeAgentRequest   == [agent_id : Agents, options : AgentOptions]
ResumeAgentResponse  == [agent_id : Maybe(Agents)]
GetAgentRequest      == [agent_id : Agents, options : AgentOperationOptions]
GetAgentResponse     == [agent : SdkAgentInfo]
SendRequest          == [agent_id : Agents, message : UserMessage]
SdkListModelsRequest == [options : CursorRequestOptions]
SdkListModelsResponse == [items : Seq(SdkModel)]

-----------------------------------------------------------------------------
(* butterbox.cursor.v1 *)

CursorImageContent  == [mime_type : Words, data : Words]
CursorModel         == [id : Words, name : Words]
CursorCreateSessionRequest ==
    [name : Maybe(Words), model : Maybe(Words), mode : {NotSet, "agent", "plan", "other"}, cwd : Maybe(Words)]
CursorCreateSessionResponse == [session_id : Agents]
CursorSendMessageRequest ==
    [session_id : Maybe(Agents), message : Words, images : Single(CursorImageContent)]
\* Text that is put together of several messages is the sequence of them.
CursorSendMessageResponse  == [text : Seq(Words)]
CursorAbortSessionRequest  == [session_id : Maybe(Agents)]
CursorAbortSessionResponse == {NotSet}
CursorListModelsRequest    == {NotSet}
CursorListModelsResponse   == [models : Seq(CursorModel)]
=============================================================================
