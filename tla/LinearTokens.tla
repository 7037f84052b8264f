---------------------------- MODULE LinearTokens ----------------------------
(***************************************************************************)
(* The OAuth tokens of one Linear workspace (internal/linear/oauth.go,     *)
(* store.go): tokens.accessToken refreshes them for whoever posts to       *)
(* Linear, handleCallback replaces them by those of a new install, and     *)
(* fileStore keeps them in a file that a restart reads back.               *)
(*                                                                         *)
(* Tokens are numbers in the order Linear issues them.  Every install is a *)
(* grant of its own; a refresh spends its refresh token and returns        *)
(* another one.  Linear's token endpoint is external.                      *)
(*                                                                         *)
(* A definition marked "Mutant" is a plausible mistake in the definition   *)
(* below it and is used by no specification.                               *)
(***************************************************************************)
EXTENDS Naturals

CONSTANTS
    Posters,        \* callers of accessToken
    Callbacks,      \* requests to the OAuth callback route
    States,         \* OAuth states that may be issued
    MaxTokens,      \* bound: answers with tokens that Linear gives
    NoOne

ASSUME TokensAssumption ==
    /\ MaxTokens \in Nat
    /\ NoOne \notin Posters \cup Callbacks \cup States /\ Posters \cap Callbacks = {}

VARIABLES
    records,    \* store.records: the installation, or NotInstalled
    file,       \* what a restart would read back
    committing, \* who holds store.mu between the rename and the publication
    refreshMu,  \* who holds it
    poster,     \* each caller of accessToken: at, its installation, the refreshed one
    callback,   \* each callback: at, its state, the installation it builds
    issued,     \* oauthStates.states
    tokenCount, \* external: tokens Linear has issued
    accepted,   \* external: refresh tokens Linear accepts
    expiring,   \* access tokens within refreshSkew of their expiry
    spent,      \* history: refresh tokens whose successor was stored
    consumed,   \* history: states that callbacks consumed
    installed,  \* history: the grant of the last install that was reported done
    raced       \* history: an install was stored while a refresh was under way

storeVars  == <<records, file, committing>>
linearVars == <<tokenCount, accepted, expiring>>
tokenVars  == <<storeVars, refreshMu, poster, callback, issued, linearVars,
                spent, consumed, installed, raced>>

\* installation: its grant and tokens are what matters of it.
Installation(g, a, r) == [grant |-> g, access |-> a, refresh |-> r]
NotInstalled == Installation(0, 0, 0)
Idle   == [at |-> "idle", inst |-> NotInstalled, next |-> NotInstalled]
Absent == [at |-> "idle", state |-> NoOne, inst |-> NotInstalled]

-----------------------------------------------------------------------------
(* fileStore.put *)

\* Mutant: the record is published before the file is replaced.
WriteFilePublished(w, inst) ==
    /\ committing = NoOne /\ committing' = w
    /\ records' = inst /\ UNCHANGED file
\* writePrivateJSON replaces the file by a rename ...
WriteFile(w, inst) ==
    /\ committing = NoOne /\ committing' = w
    /\ file' = inst /\ UNCHANGED records

\* ... and only then the record is published, which ends the locked section.
Publish(w, inst) ==
    /\ committing = w /\ committing' = NoOne
    /\ records' = inst /\ file' = inst

-----------------------------------------------------------------------------
(* accessToken *)

EndPost(p) == poster' = [poster EXCEPT ![p] = Idle] /\ refreshMu' = NoOne

NeedsRefresh(inst) == inst # NotInstalled /\ inst.access \in expiring

\* Mutant: refreshes are not serialized.
AccessTokenUnlocked(p) ==
    /\ poster[p].at = "idle" /\ committing = NoOne /\ NeedsRefresh(records)
    /\ poster' = [poster EXCEPT ![p] = [Idle EXCEPT !.at = "exchange", !.inst = records]]
    /\ UNCHANGED <<storeVars, refreshMu, callback, issued, linearVars, spent, consumed, installed, raced>>
\* A caller that finds a usable token, or no installation, leaves no trace.
AccessToken(p) ==
    /\ poster[p].at = "idle" /\ refreshMu = NoOne /\ committing = NoOne
    /\ NeedsRefresh(records)
    /\ poster' = [poster EXCEPT ![p] = [Idle EXCEPT !.at = "exchange", !.inst = records]]
    /\ refreshMu' = p
    /\ UNCHANGED <<storeVars, callback, issued, linearVars, spent, consumed, installed, raced>>

\* Linear takes a refresh token and issues the next tokens; a refresh token that
\* does not rotate stays the one to use.
LinearRefreshes(inst, next) ==
    /\ inst.refresh \in accepted /\ tokenCount < MaxTokens
    /\ tokenCount' = tokenCount + 1
    /\ \/ /\ next = Installation(inst.grant, tokenCount + 1, tokenCount + 1)
          /\ accepted' = (accepted \ {inst.refresh}) \cup {tokenCount + 1}
       \/ /\ next = Installation(inst.grant, tokenCount + 1, inst.refresh)
          /\ UNCHANGED accepted
    /\ UNCHANGED expiring

NextInstallations(inst) ==
    {Installation(inst.grant, tokenCount + 1, r) : r \in {tokenCount + 1, inst.refresh}}

Refresh(p) ==
    /\ poster[p].at = "exchange"
    /\ \E next \in NextInstallations(poster[p].inst) :
         /\ LinearRefreshes(poster[p].inst, next)
         /\ poster' = [poster EXCEPT ![p].at = "put", ![p].next = next]
    /\ UNCHANGED <<storeVars, refreshMu, callback, issued, spent, consumed, installed, raced>>

\* The request fails or is refused, or its answer is lost on the way back.
RefreshFails(p) ==
    /\ poster[p].at = "exchange"
    /\ \/ UNCHANGED linearVars
       \/ \E next \in NextInstallations(poster[p].inst) : LinearRefreshes(poster[p].inst, next)
    /\ EndPost(p)
    /\ UNCHANGED <<storeVars, callback, issued, spent, consumed, installed, raced>>

PutRefreshed(p) ==
    /\ poster[p].at = "put" /\ WriteFile(p, poster[p].next)
    /\ UNCHANGED <<refreshMu, poster, callback, issued, linearVars, spent, consumed, installed, raced>>

RefreshStored(p) ==
    /\ Publish(p, poster[p].next) /\ poster[p].at = "put"
    /\ EndPost(p)
    /\ spent' = spent \cup ({poster[p].inst.refresh} \ {poster[p].next.refresh})
    /\ UNCHANGED <<callback, issued, linearVars, consumed, installed, raced>>

\* The file could not be written.
PutFails(p) ==
    /\ poster[p].at = "put" /\ committing # p
    /\ EndPost(p)
    /\ UNCHANGED <<storeVars, callback, issued, linearVars, spent, consumed, installed, raced>>

-----------------------------------------------------------------------------
(* handleInstall, handleCallback *)

IssueState(s) ==
    /\ s \notin issued \cup consumed
    /\ issued' = issued \cup {s}
    /\ UNCHANGED <<storeVars, refreshMu, poster, callback, linearVars, spent, consumed, installed, raced>>

\* pruneLocked, of a state older than stateTTL.
ExpireState(s) ==
    /\ s \in issued
    /\ issued' = issued \ {s}
    /\ UNCHANGED <<storeVars, refreshMu, poster, callback, linearVars, spent, consumed, installed, raced>>

\* consume reports whether the state is live, and burns it.
Consume(s) == s \in issued /\ issued' = issued \ {s}

CallbackArrives(b) ==
    /\ callback[b].at = "idle"
    /\ \E s \in States :
         /\ Consume(s)
         /\ callback' = [callback EXCEPT ![b] = [Absent EXCEPT !.at = "exchange", !.state = s]]
         /\ consumed' = consumed \cup {s}
    /\ UNCHANGED <<storeVars, refreshMu, poster, linearVars, spent, installed, raced>>

\* The code is traded for the tokens of a new grant, which the viewer query uses.
ExchangeCode(b) ==
    /\ callback[b].at = "exchange" /\ tokenCount < MaxTokens
    /\ LET t == tokenCount + 1 IN
       /\ tokenCount' = t /\ accepted' = accepted \cup {t}
       /\ callback' = [callback EXCEPT ![b].at = "put", ![b].inst = Installation(t, t, t)]
    /\ UNCHANGED <<storeVars, refreshMu, poster, issued, expiring, spent, consumed, installed, raced>>

\* The exchange, the viewer query or the write of the file fails.
CallbackFails(b) ==
    /\ callback[b].at \in {"exchange", "put"} /\ committing # b
    /\ callback' = [callback EXCEPT ![b] = Absent]
    /\ UNCHANGED <<storeVars, refreshMu, poster, issued, linearVars, spent, consumed, installed, raced>>

PutInstalled(b) ==
    /\ callback[b].at = "put" /\ WriteFile(b, callback[b].inst)
    /\ UNCHANGED <<refreshMu, poster, callback, issued, linearVars, spent, consumed, installed, raced>>

InstallStored(b) ==
    /\ callback[b].at = "put" /\ Publish(b, callback[b].inst)
    /\ callback' = [callback EXCEPT ![b] = Absent]
    /\ installed' = callback[b].inst.grant
    /\ raced' = (refreshMu # NoOne)
    /\ UNCHANGED <<refreshMu, poster, issued, linearVars, spent, consumed>>

-----------------------------------------------------------------------------
(* Time and restarts *)

AccessExpires ==
    /\ records # NotInstalled /\ records.access \notin expiring
    /\ expiring' = expiring \cup {records.access}
    /\ UNCHANGED <<storeVars, refreshMu, poster, callback, issued, tokenCount, accepted,
                   spent, consumed, installed, raced>>

\* openFileStore; the states of install flows in progress are lost.
Restart ==
    /\ records' = file /\ committing' = NoOne /\ UNCHANGED file
    /\ refreshMu' = NoOne
    /\ poster' = [p \in Posters |-> Idle] /\ callback' = [b \in Callbacks |-> Absent]
    /\ issued' = {}
    /\ installed' = IF committing \in Callbacks THEN callback[committing].inst.grant ELSE installed
    /\ raced' = IF committing \in Callbacks THEN FALSE ELSE raced
    /\ UNCHANGED <<linearVars, spent, consumed>>

-----------------------------------------------------------------------------

TokensInit ==
    /\ records = NotInstalled /\ file = NotInstalled /\ committing = NoOne /\ refreshMu = NoOne
    /\ poster = [p \in Posters |-> Idle] /\ callback = [b \in Callbacks |-> Absent]
    /\ issued = {} /\ tokenCount = 0 /\ accepted = {} /\ expiring = {}
    /\ spent = {} /\ consumed = {} /\ installed = 0 /\ raced = FALSE

TokensNext ==
    \/ \E p \in Posters : \/ AccessToken(p) \/ Refresh(p) \/ RefreshFails(p)
                          \/ PutRefreshed(p) \/ RefreshStored(p) \/ PutFails(p)
    \/ \E s \in States : IssueState(s) \/ ExpireState(s)
    \/ \E b \in Callbacks : \/ CallbackArrives(b) \/ ExchangeCode(b) \/ CallbackFails(b)
                            \/ PutInstalled(b) \/ InstallStored(b)
    \/ AccessExpires \/ Restart

TokensSpec == TokensInit /\ [][TokensNext]_tokenVars

-----------------------------------------------------------------------------
(* Properties *)

\* refreshMu "serializes refreshes: refresh tokens rotate": a refresh token
\* whose successor was stored is not sent to Linear again, by whoever refreshes
\* and whatever happened between; and only one refresh is under way.
RefreshNotReplayed ==
    /\ \A p \in Posters : poster[p].at = "exchange" => poster[p].inst.refresh \notin spent
    /\ \A p, q \in Posters : poster[p].at # "idle" /\ poster[q].at # "idle" => p = q

\* commitLocked: "memory never runs ahead of what a restart would read back":
\* the install that was last reported done is the one in the store and in the
\* file, through refreshes, failed installs and restarts, unless it was stored
\* while a refresh of an earlier one was under way, which then overwrites it.
InstallKept ==
    ~raced => \A inst \in {records, file} :
                \/ inst.grant = installed
                \/ committing \in Callbacks /\ inst = callback[committing].inst

\* consume burns the state: no two callbacks exchange codes for the same one,
\* and none for a state that is still to be used.
StateBurned ==
    \A b \in Callbacks : callback[b].at # "idle" =>
        /\ callback[b].state \in consumed \ issued
        /\ \A c \in Callbacks \ {b} : callback[c].state # callback[b].state

\* What may be used once, a rotating refresh token or a state, is used once.
UsedOnce == RefreshNotReplayed /\ StateBurned
=============================================================================
