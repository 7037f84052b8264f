---------------------------- MODULE Linear_proofs -----------------------------
(***************************************************************************)
(* The Linear integration's routes: rotating refresh tokens and states are *)
(* used once, and an install is kept (LinearTokens); a delivery is         *)
(* dispatched once (LinearDeliveries): for any number of callers,          *)
(* callbacks, states, tokens and deliveries, and any clock and durations   *)
(* that satisfy DeliveriesAssumption.                                      *)
(*                                                                         *)
(* The invariant of the tokens has four layers: types; who may be where    *)
(* (Exclusive); where a refresh token may be while it is not spent          *)
(* (Unspent); and whose grant the store, the file and a refresh under way   *)
(* have (Kept).  That of the deliveries, Delivering, says that an id that   *)
(* was forgotten can no longer arrive.                                     *)
(***************************************************************************)
EXTENDS LinearTokens, LinearDeliveries, TLAPS

-----------------------------------------------------------------------------
(* Types *)

\* An installation with tokens that Linear issued.
Granted(n) == [grant : 1..n, access : 1..n, refresh : 1..n]
Stored(n)  == {NotInstalled} \cup Granted(n)

TokensTypeOK ==
    /\ tokenCount \in Nat
    /\ records \in Stored(tokenCount) /\ file \in Stored(tokenCount)
    /\ committing \in Posters \cup Callbacks \cup {NoOne}
    /\ refreshMu \in Posters \cup {NoOne}
    /\ poster \in [Posters -> [at : {"idle", "exchange", "put"}, inst : Stored(tokenCount),
                               next : Stored(tokenCount)]]
    /\ callback \in [Callbacks -> [at : {"idle", "exchange", "put"}, state : States \cup {NoOne},
                                   inst : Stored(tokenCount)]]
    /\ issued \subseteq States /\ consumed \subseteq States
    /\ spent \subseteq 1..tokenCount
    /\ installed \in 0..tokenCount /\ raced \in BOOLEAN

\* More tokens make no installation less of one.
LEMMA StoredGrows ==
  ASSUME NEW n \in Nat
  PROVE  Stored(n) \subseteq Stored(n + 1)
  BY DEF Stored, Granted

-----------------------------------------------------------------------------
(* Who may be where *)

\* A refresh holds refreshMu, and a writer of the file is past its exchange.
Exclusive ==
    /\ \A p \in Posters : poster[p].at # "idle" => refreshMu = p
    /\ \A p \in Posters : poster[p].at # "idle" => poster[p].inst \in Granted(tokenCount)
    /\ \A p \in Posters : poster[p].at = "put" => poster[p].next \in Granted(tokenCount)
    /\ \A p \in Posters : poster[p].at = "put" => poster[p].next.grant = poster[p].inst.grant
    /\ \A b \in Callbacks : callback[b].at = "put" => callback[b].inst \in Granted(tokenCount)
    /\ committing \in Posters => poster[committing].at = "put" /\ file = poster[committing].next
    /\ committing \in Callbacks => callback[committing].at = "put" /\ file = callback[committing].inst

\* A state is issued or consumed, and a consumed one has at most one callback.
Burned ==
    /\ issued \cap consumed = {}
    /\ \A b \in Callbacks : callback[b].at = "idle" => callback[b].state = NoOne
    /\ \A b \in Callbacks : callback[b].at # "idle" => callback[b].state \in consumed
    /\ \A b, c \in Callbacks :
          callback[b].at # "idle" /\ b # c => callback[c].state # callback[b].state

Base == TokensTypeOK /\ Exclusive /\ Burned

LEMMA AccessTokenBase ==
  ASSUME Base, NEW p \in Posters, AccessToken(p)
  PROVE  Base'
<1> USE TokensAssumption
<1>1. TokensTypeOK'
  BY StoredGrows DEF Base, TokensTypeOK, Exclusive, AccessToken, NeedsRefresh, Idle, storeVars, linearVars, Stored, Granted, NotInstalled, Installation
<1>2. Exclusive'
  BY DEF Base, TokensTypeOK, Exclusive, AccessToken, NeedsRefresh, Idle, storeVars, linearVars, Stored, Granted
<1>3. Burned'
  BY DEF Base, TokensTypeOK, Exclusive, Burned, AccessToken, NeedsRefresh, Idle, storeVars, linearVars
<1> QED
  BY <1>1, <1>2, <1>3 DEF Base

LEMMA RefreshBase ==
  ASSUME Base, NEW p \in Posters, Refresh(p)
  PROVE  Base'
<1> USE TokensAssumption
<1>1. TokensTypeOK'
  BY StoredGrows DEF Base, TokensTypeOK, Exclusive, Refresh, LinearRefreshes, NextInstallations, Installation, storeVars, linearVars, Stored, Granted, NotInstalled, Installation
<1>2. Exclusive'
  BY DEF Base, TokensTypeOK, Exclusive, Refresh, LinearRefreshes, NextInstallations, Installation, storeVars, linearVars, Stored, Granted
<1>3. Burned'
  BY DEF Base, TokensTypeOK, Exclusive, Burned, Refresh, LinearRefreshes, NextInstallations, Installation, storeVars, linearVars
<1> QED
  BY <1>1, <1>2, <1>3 DEF Base

LEMMA RefreshFailsBase ==
  ASSUME Base, NEW p \in Posters, RefreshFails(p)
  PROVE  Base'
<1> USE TokensAssumption
<1>1. TokensTypeOK'
  BY StoredGrows DEF Base, TokensTypeOK, Exclusive, RefreshFails, LinearRefreshes, NextInstallations, Installation, EndPost, Idle, linearVars, storeVars, linearVars, Stored, Granted, NotInstalled, Installation
<1>2. Exclusive'
  BY DEF Base, TokensTypeOK, Exclusive, RefreshFails, LinearRefreshes, NextInstallations, Installation, EndPost, Idle, linearVars, storeVars, linearVars, Stored, Granted
<1>3. Burned'
  BY DEF Base, TokensTypeOK, Exclusive, Burned, RefreshFails, LinearRefreshes, NextInstallations, Installation, EndPost, Idle, linearVars, storeVars, linearVars
<1> QED
  BY <1>1, <1>2, <1>3 DEF Base

LEMMA PutRefreshedBase ==
  ASSUME Base, NEW p \in Posters, PutRefreshed(p)
  PROVE  Base'
<1> USE TokensAssumption
<1>1. TokensTypeOK'
  BY StoredGrows DEF Base, TokensTypeOK, Exclusive, PutRefreshed, WriteFile, storeVars, linearVars, Stored, Granted, NotInstalled, Installation
<1>2. Exclusive'
  BY DEF Base, TokensTypeOK, Exclusive, PutRefreshed, WriteFile, storeVars, linearVars, Stored, Granted
<1>3. Burned'
  BY DEF Base, TokensTypeOK, Exclusive, Burned, PutRefreshed, WriteFile, storeVars, linearVars
<1> QED
  BY <1>1, <1>2, <1>3 DEF Base

LEMMA RefreshStoredBase ==
  ASSUME Base, NEW p \in Posters, RefreshStored(p)
  PROVE  Base'
<1> USE TokensAssumption
<1>1. TokensTypeOK'
  <2>1. /\ poster[p].at = "put"
        /\ poster[p].inst \in Granted(tokenCount) /\ poster[p].next \in Granted(tokenCount)
    BY DEF Base, Exclusive, RefreshStored
  <2>2. poster[p].inst.refresh \in 1..tokenCount
    BY <2>1 DEF Granted
  <2>3. spent' \subseteq 1..tokenCount
    BY <2>2 DEF Base, TokensTypeOK, RefreshStored
  <2>4. records' \in Stored(tokenCount) /\ file' \in Stored(tokenCount)
    BY <2>1 DEF RefreshStored, Publish, Stored
  <2>5. poster' \in [Posters -> [at : {"idle", "exchange", "put"}, inst : Stored(tokenCount),
                                 next : Stored(tokenCount)]]
    BY DEF Base, TokensTypeOK, RefreshStored, EndPost, Idle, Stored
  <2> QED
    BY <2>3, <2>4, <2>5 DEF Base, TokensTypeOK, RefreshStored, Publish, EndPost, linearVars
<1>2. Exclusive'
  BY DEF Base, TokensTypeOK, Exclusive, RefreshStored, Publish, EndPost, Idle, storeVars, linearVars, Stored, Granted
<1>3. Burned'
  BY DEF Base, TokensTypeOK, Exclusive, Burned, RefreshStored, Publish, EndPost, Idle, storeVars, linearVars
<1> QED
  BY <1>1, <1>2, <1>3 DEF Base

LEMMA PutFailsBase ==
  ASSUME Base, NEW p \in Posters, PutFails(p)
  PROVE  Base'
<1> USE TokensAssumption
<1>1. TokensTypeOK'
  BY StoredGrows DEF Base, TokensTypeOK, Exclusive, PutFails, EndPost, Idle, storeVars, linearVars, Stored, Granted, NotInstalled, Installation
<1>2. Exclusive'
  BY DEF Base, TokensTypeOK, Exclusive, PutFails, EndPost, Idle, storeVars, linearVars, Stored, Granted
<1>3. Burned'
  BY DEF Base, TokensTypeOK, Exclusive, Burned, PutFails, EndPost, Idle, storeVars, linearVars
<1> QED
  BY <1>1, <1>2, <1>3 DEF Base

LEMMA IssueStateBase ==
  ASSUME Base, NEW s \in States, IssueState(s)
  PROVE  Base'
<1> USE TokensAssumption
<1>1. TokensTypeOK'
  BY StoredGrows DEF Base, TokensTypeOK, Exclusive, IssueState, storeVars, linearVars, Stored, Granted, NotInstalled, Installation
<1>2. Exclusive'
  BY DEF Base, TokensTypeOK, Exclusive, IssueState, storeVars, linearVars, Stored, Granted
<1>3. Burned'
  BY DEF Base, TokensTypeOK, Exclusive, Burned, IssueState, storeVars, linearVars
<1> QED
  BY <1>1, <1>2, <1>3 DEF Base

LEMMA ExpireStateBase ==
  ASSUME Base, NEW s \in States, ExpireState(s)
  PROVE  Base'
<1> USE TokensAssumption
<1>1. TokensTypeOK'
  BY StoredGrows DEF Base, TokensTypeOK, Exclusive, ExpireState, storeVars, linearVars, Stored, Granted, NotInstalled, Installation
<1>2. Exclusive'
  BY DEF Base, TokensTypeOK, Exclusive, ExpireState, storeVars, linearVars, Stored, Granted
<1>3. Burned'
  BY DEF Base, TokensTypeOK, Exclusive, Burned, ExpireState, storeVars, linearVars
<1> QED
  BY <1>1, <1>2, <1>3 DEF Base

LEMMA CallbackArrivesBase ==
  ASSUME Base, NEW b \in Callbacks, CallbackArrives(b)
  PROVE  Base'
<1> USE TokensAssumption
<1>1. TokensTypeOK'
  <2>1. PICK s \in States :
           /\ s \in issued /\ issued' = issued \ {s} /\ consumed' = consumed \cup {s}
           /\ callback' = [callback EXCEPT ![b] = [at |-> "exchange", state |-> s, inst |-> NotInstalled]]
    BY DEF CallbackArrives, Consume, Absent
  <2>2. callback' \in [Callbacks -> [at : {"idle", "exchange", "put"}, state : States \cup {NoOne},
                                     inst : Stored(tokenCount)]]
    BY <2>1 DEF Base, TokensTypeOK, Stored
  <2> QED
    BY <2>1, <2>2 DEF Base, TokensTypeOK, CallbackArrives, storeVars, linearVars
<1>2. Exclusive'
  BY DEF Base, TokensTypeOK, Exclusive, CallbackArrives, Consume, Absent, storeVars, linearVars, Stored, Granted
<1>3. Burned'
  BY DEF Base, TokensTypeOK, Exclusive, Burned, CallbackArrives, Consume, Absent, storeVars, linearVars
<1> QED
  BY <1>1, <1>2, <1>3 DEF Base

LEMMA ExchangeCodeBase ==
  ASSUME Base, NEW b \in Callbacks, ExchangeCode(b)
  PROVE  Base'
<1> USE TokensAssumption
<1>1. TokensTypeOK'
  BY StoredGrows DEF Base, TokensTypeOK, Exclusive, ExchangeCode, Installation, storeVars, linearVars, Stored, Granted, NotInstalled, Installation
<1>2. Exclusive'
  BY DEF Base, TokensTypeOK, Exclusive, ExchangeCode, Installation, storeVars, linearVars, Stored, Granted
<1>3. Burned'
  BY DEF Base, TokensTypeOK, Exclusive, Burned, ExchangeCode, Installation, storeVars, linearVars
<1> QED
  BY <1>1, <1>2, <1>3 DEF Base

LEMMA CallbackFailsBase ==
  ASSUME Base, NEW b \in Callbacks, CallbackFails(b)
  PROVE  Base'
<1> USE TokensAssumption
<1>1. TokensTypeOK'
  BY StoredGrows DEF Base, TokensTypeOK, Exclusive, CallbackFails, Absent, storeVars, linearVars, Stored, Granted, NotInstalled, Installation
<1>2. Exclusive'
  BY DEF Base, TokensTypeOK, Exclusive, CallbackFails, Absent, storeVars, linearVars, Stored, Granted
<1>3. Burned'
  BY DEF Base, TokensTypeOK, Exclusive, Burned, CallbackFails, Absent, storeVars, linearVars
<1> QED
  BY <1>1, <1>2, <1>3 DEF Base

LEMMA PutInstalledBase ==
  ASSUME Base, NEW b \in Callbacks, PutInstalled(b)
  PROVE  Base'
<1> USE TokensAssumption
<1>1. TokensTypeOK'
  BY StoredGrows DEF Base, TokensTypeOK, Exclusive, PutInstalled, WriteFile, storeVars, linearVars, Stored, Granted, NotInstalled, Installation
<1>2. Exclusive'
  BY DEF Base, TokensTypeOK, Exclusive, PutInstalled, WriteFile, storeVars, linearVars, Stored, Granted
<1>3. Burned'
  BY DEF Base, TokensTypeOK, Exclusive, Burned, PutInstalled, WriteFile, storeVars, linearVars
<1> QED
  BY <1>1, <1>2, <1>3 DEF Base

LEMMA InstallStoredBase ==
  ASSUME Base, NEW b \in Callbacks, InstallStored(b)
  PROVE  Base'
<1> USE TokensAssumption
<1>1. TokensTypeOK'
  BY StoredGrows DEF Base, TokensTypeOK, Exclusive, InstallStored, Publish, Absent, storeVars, linearVars, Stored, Granted, NotInstalled, Installation
<1>2. Exclusive'
  BY DEF Base, TokensTypeOK, Exclusive, InstallStored, Publish, Absent, storeVars, linearVars, Stored, Granted
<1>3. Burned'
  BY DEF Base, TokensTypeOK, Exclusive, Burned, InstallStored, Publish, Absent, storeVars, linearVars
<1> QED
  BY <1>1, <1>2, <1>3 DEF Base

LEMMA AccessExpiresBase ==
  ASSUME Base, AccessExpires
  PROVE  Base'
<1> USE TokensAssumption
<1>1. TokensTypeOK'
  BY StoredGrows DEF Base, TokensTypeOK, Exclusive, AccessExpires, storeVars, linearVars, Stored, Granted, NotInstalled, Installation
<1>2. Exclusive'
  BY DEF Base, TokensTypeOK, Exclusive, AccessExpires, storeVars, linearVars, Stored, Granted
<1>3. Burned'
  BY DEF Base, TokensTypeOK, Exclusive, Burned, AccessExpires, storeVars, linearVars
<1> QED
  BY <1>1, <1>2, <1>3 DEF Base

LEMMA RestartBase ==
  ASSUME Base, Restart
  PROVE  Base'
<1> USE TokensAssumption
<1>1. TokensTypeOK'
  <2>1. committing \in Callbacks => callback[committing].inst.grant \in 1..tokenCount
    BY DEF Base, Exclusive, Granted
  <2>2. installed' \in 0..tokenCount /\ raced' \in BOOLEAN
    <3>1. installed' \in 0..tokenCount
      BY <2>1 DEF Base, TokensTypeOK, Restart
    <3>2. raced' \in BOOLEAN
      BY Zenon DEF Base, TokensTypeOK, Restart
    <3> QED
      BY <3>1, <3>2
  <2>3. poster' \in [Posters -> [at : {"idle", "exchange", "put"}, inst : Stored(tokenCount),
                                 next : Stored(tokenCount)]]
    BY DEF Restart, Idle, Stored
  <2>4. callback' \in [Callbacks -> [at : {"idle", "exchange", "put"}, state : States \cup {NoOne},
                                     inst : Stored(tokenCount)]]
    BY DEF Restart, Absent, Stored
  <2>5. /\ tokenCount' = tokenCount /\ spent' = spent /\ consumed' = consumed
        /\ records' = file /\ file' = file /\ committing' = NoOne /\ refreshMu' = NoOne
        /\ issued' = {}
    BY DEF Restart, linearVars
  <2> QED
    BY <2>2, <2>3, <2>4, <2>5 DEF Base, TokensTypeOK
<1>2. Exclusive'
  BY DEF Base, TokensTypeOK, Exclusive, Restart, Idle, Absent, storeVars, linearVars, Stored, Granted
<1>3. Burned'
  BY DEF Base, TokensTypeOK, Exclusive, Burned, Restart, Idle, Absent, storeVars, linearVars
<1> QED
  BY <1>1, <1>2, <1>3 DEF Base

LEMMA NextBase == Base /\ [TokensNext]_tokenVars => Base'
<1> SUFFICES ASSUME Base, [TokensNext]_tokenVars PROVE Base'
  OBVIOUS
<1>1. CASE UNCHANGED tokenVars
  BY <1>1 DEF Base, TokensTypeOK, Exclusive, Burned, tokenVars, storeVars, linearVars
<1>2. CASE TokensNext
  BY <1>2, AccessTokenBase, RefreshBase, RefreshFailsBase, PutRefreshedBase, RefreshStoredBase,
     PutFailsBase, IssueStateBase, ExpireStateBase, CallbackArrivesBase, ExchangeCodeBase,
     CallbackFailsBase, PutInstalledBase, InstallStoredBase, AccessExpiresBase, RestartBase
     DEF TokensNext
<1> QED
  BY <1>1, <1>2

LEMMA InitBase == TokensInit => Base
<1> USE TokensAssumption
<1>1. TokensInit => TokensTypeOK
  <2> SUFFICES ASSUME TokensInit PROVE TokensTypeOK
    OBVIOUS
  <2>1. raced \in BOOLEAN
    BY Zenon DEF TokensInit
  <2>2. poster \in [Posters -> [at : {"idle", "exchange", "put"}, inst : Stored(tokenCount),
                                next : Stored(tokenCount)]]
    BY DEF TokensInit, Idle, Stored
  <2>3. callback \in [Callbacks -> [at : {"idle", "exchange", "put"}, state : States \cup {NoOne},
                                    inst : Stored(tokenCount)]]
    BY DEF TokensInit, Absent, Stored
  <2>4. /\ records \in Stored(tokenCount) /\ file \in Stored(tokenCount)
        /\ tokenCount \in Nat /\ installed \in 0..tokenCount
    BY DEF TokensInit, Stored
  <2>5. /\ committing \in Posters \cup Callbacks \cup {NoOne} /\ refreshMu \in Posters \cup {NoOne}
        /\ issued \subseteq States /\ consumed \subseteq States /\ spent \subseteq 1..tokenCount
    BY DEF TokensInit
  <2> QED
    BY <2>1, <2>2, <2>3, <2>4, <2>5 DEF TokensTypeOK
<1>2. TokensInit => Exclusive
  BY DEF TokensInit, Exclusive, Idle, Absent
<1>3. TokensInit => Burned
  BY DEF TokensInit, Burned, Absent
<1> QED
  BY <1>1, <1>2, <1>3 DEF Base

-----------------------------------------------------------------------------
(* Refresh tokens are used once *)

\* No token that somebody may refresh with is spent, and the token of an install
\* that is not stored yet is nobody else's.
Unspent ==
    /\ records.refresh \notin spent /\ file.refresh \notin spent
    /\ \A p \in Posters : poster[p].at # "idle" => poster[p].inst.refresh \notin spent
    /\ \A p \in Posters : poster[p].at = "put" => poster[p].next.refresh \notin spent
    /\ \A b \in Callbacks : callback[b].at = "put" =>
          LET r == callback[b].inst.refresh IN
          /\ r \notin spent /\ r # records.refresh
          /\ committing # b => r # file.refresh
          /\ \A p \in Posters : poster[p].at # "idle" => poster[p].inst.refresh # r
          /\ \A p \in Posters : poster[p].at = "put" => poster[p].next.refresh # r
          /\ \A c \in Callbacks \ {b} : callback[c].at = "put" => callback[c].inst.refresh # r

LEMMA NextUnspent == Base /\ Unspent /\ [TokensNext]_tokenVars => Unspent'
<1> USE TokensAssumption
<1> SUFFICES ASSUME Base, Unspent, [TokensNext]_tokenVars PROVE Unspent'
  OBVIOUS
<1>1. ASSUME NEW p \in Posters, AccessToken(p) PROVE Unspent'
  BY <1>1 DEF Base, TokensTypeOK, Exclusive, Unspent, Stored, Granted, NotInstalled, AccessToken, NeedsRefresh, Idle, storeVars, linearVars
<1>2. ASSUME NEW p \in Posters, Refresh(p) PROVE Unspent'
  BY <1>2 DEF Base, TokensTypeOK, Exclusive, Unspent, Stored, Granted, NotInstalled, Refresh, LinearRefreshes, NextInstallations, Installation, storeVars, linearVars
<1>3. ASSUME NEW p \in Posters, RefreshFails(p) PROVE Unspent'
  BY <1>3 DEF Base, TokensTypeOK, Exclusive, Unspent, Stored, Granted, NotInstalled, RefreshFails, EndPost, Idle, storeVars, linearVars
<1>4. ASSUME NEW p \in Posters, PutRefreshed(p) PROVE Unspent'
  BY <1>4 DEF Base, TokensTypeOK, Exclusive, Unspent, Stored, Granted, NotInstalled, PutRefreshed, WriteFile, storeVars, linearVars
<1>5. ASSUME NEW p \in Posters, RefreshStored(p) PROVE Unspent'
  BY <1>5 DEF Base, TokensTypeOK, Exclusive, Unspent, Stored, Granted, NotInstalled, RefreshStored, Publish, EndPost, Idle, storeVars, linearVars
<1>6. ASSUME NEW p \in Posters, PutFails(p) PROVE Unspent'
  BY <1>6 DEF Base, TokensTypeOK, Exclusive, Unspent, Stored, Granted, NotInstalled, PutFails, EndPost, Idle, storeVars, linearVars
<1>7. ASSUME NEW s \in States, IssueState(s) PROVE Unspent'
  BY <1>7 DEF Base, TokensTypeOK, Exclusive, Unspent, Stored, Granted, NotInstalled, IssueState, storeVars, linearVars
<1>8. ASSUME NEW s \in States, ExpireState(s) PROVE Unspent'
  BY <1>8 DEF Base, TokensTypeOK, Exclusive, Unspent, Stored, Granted, NotInstalled, ExpireState, storeVars, linearVars
<1>9. ASSUME NEW b \in Callbacks, CallbackArrives(b) PROVE Unspent'
  BY <1>9 DEF Base, TokensTypeOK, Exclusive, Unspent, Stored, Granted, NotInstalled, CallbackArrives, Absent, storeVars, linearVars
<1>10. ASSUME NEW b \in Callbacks, ExchangeCode(b) PROVE Unspent'
  BY <1>10 DEF Base, TokensTypeOK, Exclusive, Unspent, Stored, Granted, NotInstalled, ExchangeCode, Installation, storeVars, linearVars
<1>11. ASSUME NEW b \in Callbacks, CallbackFails(b) PROVE Unspent'
  BY <1>11 DEF Base, TokensTypeOK, Exclusive, Unspent, Stored, Granted, NotInstalled, CallbackFails, Absent, storeVars, linearVars
<1>12. ASSUME NEW b \in Callbacks, PutInstalled(b) PROVE Unspent'
  BY <1>12 DEF Base, TokensTypeOK, Exclusive, Unspent, Stored, Granted, NotInstalled, PutInstalled, WriteFile, storeVars, linearVars
<1>13. ASSUME NEW b \in Callbacks, InstallStored(b) PROVE Unspent'
  BY <1>13 DEF Base, TokensTypeOK, Exclusive, Unspent, Stored, Granted, NotInstalled, InstallStored, Publish, Absent, storeVars, linearVars
<1>14. ASSUME AccessExpires PROVE Unspent'
  BY <1>14 DEF Base, TokensTypeOK, Exclusive, Unspent, Stored, Granted, NotInstalled, AccessExpires, storeVars, linearVars
<1>15. ASSUME Restart PROVE Unspent'
  BY <1>15 DEF Base, TokensTypeOK, Exclusive, Unspent, Stored, Granted, NotInstalled, Restart, Idle, Absent, storeVars, linearVars
<1>16. CASE UNCHANGED tokenVars
  BY <1>16 DEF Unspent, tokenVars, storeVars, linearVars
<1> QED
  BY <1>1, <1>2, <1>3, <1>4, <1>5, <1>6, <1>7, <1>8, <1>9, <1>10, <1>11, <1>12, <1>13, <1>14, <1>15, <1>16 DEF TokensNext

\* What may be used once, a rotating refresh token or a state, is used once.
THEOREM NothingUsedTwice == TokensSpec => []UsedOnce
<1>1. TokensInit => Unspent
  BY TokensAssumption DEF TokensInit, Unspent, Idle, Absent
<1>2. Base /\ Unspent => UsedOnce
  BY DEF Base, Exclusive, Burned, Unspent, UsedOnce, RefreshNotReplayed, StateBurned
<1> QED
  BY <1>1, <1>2, InitBase, NextBase, NextUnspent, PTL DEF TokensSpec

-----------------------------------------------------------------------------
(* An install is kept *)

\* Unless an install was stored while a refresh was under way, the store, the
\* file and the refresh have the grant of the last install.
Kept ==
    ~raced =>
        /\ records.grant = installed
        /\ committing \notin Callbacks => file.grant = installed
        /\ \A p \in Posters : poster[p].at # "idle" => poster[p].inst.grant = installed

LEMMA NextKept == Base /\ Kept /\ [TokensNext]_tokenVars => Kept'
<1> USE TokensAssumption
<1> SUFFICES ASSUME Base, Kept, [TokensNext]_tokenVars PROVE Kept'
  OBVIOUS
<1>1. ASSUME NEW p \in Posters, AccessToken(p) PROVE Kept'
  BY <1>1 DEF Base, TokensTypeOK, Exclusive, Kept, Stored, Granted, NotInstalled, AccessToken, NeedsRefresh, Idle, storeVars, linearVars
<1>2. ASSUME NEW p \in Posters, Refresh(p) PROVE Kept'
  BY <1>2 DEF Base, TokensTypeOK, Exclusive, Kept, Stored, Granted, NotInstalled, Refresh, LinearRefreshes, NextInstallations, Installation, storeVars, linearVars
<1>3. ASSUME NEW p \in Posters, RefreshFails(p) PROVE Kept'
  BY <1>3 DEF Base, TokensTypeOK, Exclusive, Kept, Stored, Granted, NotInstalled, RefreshFails, EndPost, Idle, storeVars, linearVars
<1>4. ASSUME NEW p \in Posters, PutRefreshed(p) PROVE Kept'
  BY <1>4 DEF Base, TokensTypeOK, Exclusive, Kept, Stored, Granted, NotInstalled, PutRefreshed, WriteFile, storeVars, linearVars
<1>5. ASSUME NEW p \in Posters, RefreshStored(p) PROVE Kept'
  BY <1>5 DEF Base, TokensTypeOK, Exclusive, Kept, Stored, Granted, NotInstalled, RefreshStored, Publish, EndPost, Idle, storeVars, linearVars
<1>6. ASSUME NEW p \in Posters, PutFails(p) PROVE Kept'
  BY <1>6 DEF Base, TokensTypeOK, Exclusive, Kept, Stored, Granted, NotInstalled, PutFails, EndPost, Idle, storeVars, linearVars
<1>7. ASSUME NEW s \in States, IssueState(s) PROVE Kept'
  BY <1>7 DEF Base, TokensTypeOK, Exclusive, Kept, Stored, Granted, NotInstalled, IssueState, storeVars, linearVars
<1>8. ASSUME NEW s \in States, ExpireState(s) PROVE Kept'
  BY <1>8 DEF Base, TokensTypeOK, Exclusive, Kept, Stored, Granted, NotInstalled, ExpireState, storeVars, linearVars
<1>9. ASSUME NEW b \in Callbacks, CallbackArrives(b) PROVE Kept'
  BY <1>9 DEF Base, TokensTypeOK, Exclusive, Kept, Stored, Granted, NotInstalled, CallbackArrives, Absent, storeVars, linearVars
<1>10. ASSUME NEW b \in Callbacks, ExchangeCode(b) PROVE Kept'
  BY <1>10 DEF Base, TokensTypeOK, Exclusive, Kept, Stored, Granted, NotInstalled, ExchangeCode, Installation, storeVars, linearVars
<1>11. ASSUME NEW b \in Callbacks, CallbackFails(b) PROVE Kept'
  BY <1>11 DEF Base, TokensTypeOK, Exclusive, Kept, Stored, Granted, NotInstalled, CallbackFails, Absent, storeVars, linearVars
<1>12. ASSUME NEW b \in Callbacks, PutInstalled(b) PROVE Kept'
  BY <1>12 DEF Base, TokensTypeOK, Exclusive, Kept, Stored, Granted, NotInstalled, PutInstalled, WriteFile, storeVars, linearVars
<1>13. ASSUME NEW b \in Callbacks, InstallStored(b) PROVE Kept'
  BY <1>13 DEF Base, TokensTypeOK, Exclusive, Kept, Stored, Granted, NotInstalled, InstallStored, Publish, Absent, storeVars, linearVars
<1>14. ASSUME AccessExpires PROVE Kept'
  BY <1>14 DEF Base, TokensTypeOK, Exclusive, Kept, Stored, Granted, NotInstalled, AccessExpires, storeVars, linearVars
<1>15. ASSUME Restart PROVE Kept'
  BY <1>15 DEF Base, TokensTypeOK, Exclusive, Kept, Stored, Granted, NotInstalled, Restart, Idle, Absent, storeVars, linearVars
<1>16. CASE UNCHANGED tokenVars
  BY <1>16 DEF Kept, tokenVars, storeVars, linearVars
<1> QED
  BY <1>1, <1>2, <1>3, <1>4, <1>5, <1>6, <1>7, <1>8, <1>9, <1>10, <1>11, <1>12, <1>13, <1>14, <1>15, <1>16 DEF TokensNext

\* The install last reported done is the one in the store and in the file,
\* through refreshes, failures and restarts.
THEOREM InstallsKept == TokensSpec => []InstallKept
<1>1. TokensInit => Kept
  BY TokensAssumption DEF TokensInit, Kept, Idle, NotInstalled, Installation
<1>2. Base /\ Kept => InstallKept
  BY DEF Base, Exclusive, Kept, InstallKept
<1> QED
  BY <1>1, <1>2, InitBase, NextBase, NextKept, PTL DEF TokensSpec

-----------------------------------------------------------------------------
(* Deliveries.  The memory of an id and the freshness of a stamp are two      *)
(* intervals on the box's clock.  An id is recorded no earlier than MaxSkew   *)
(* before the first stamp, and no stamp is fresh later than MaxSkew after the *)
(* last.                                                                      *)

DeliveryTypeOK ==
    /\ now \in Nat
    /\ seen \in [Deliveries -> Nat \cup {NotYet}]
    /\ sent \subseteq Deliveries \X Nat
    /\ firstStamp \in [Deliveries -> Nat \cup {NotYet}]
    /\ handled \in [Deliveries -> 0..2]

\* Every copy is stamped within ResendFor after the first stamp of its event.
Stamped ==
    \A d \in Deliveries, stamp \in Nat :
        <<d, stamp>> \in sent =>
            firstStamp[d] # NotYet /\ stamp \in firstStamp[d]..(firstStamp[d] + ResendFor)

\* No copy of d is fresh any more, nor will one be.
Expired(d) == now > firstStamp[d] + ResendFor + MaxSkew

\* The id of an event that was handed over is remembered, from a time at which a
\* copy of it was fresh, until no copy is.
Remembered ==
    \A d \in Deliveries \ Anonymous :
        /\ handled[d] <= 1
        /\ handled[d] = 1 =>
             /\ firstStamp[d] # NotYet
             /\ (seen[d] # NotYet /\ seen[d] >= firstStamp[d] - MaxSkew) \/ Expired(d)

Delivering == DeliveryTypeOK /\ Stamped /\ Remembered

LEMMA InitDelivering == DeliveriesInit => Delivering
  BY DEF DeliveriesInit, Delivering, DeliveryTypeOK, Stamped, Remembered, NotYet

\* Linear stamps a copy: the first stamp of an event never changes.
LEMMA SendKeeps ==
  ASSUME Delivering, NEW e \in Deliveries, SendDelivery(e)
  PROVE  Delivering'
<1> USE DeliveriesAssumption
<1>1. PICK stamp \in (now - MaxSkew)..(now + MaxSkew) :
         /\ stamp > 0 /\ <<e, stamp>> \notin sent
         /\ firstStamp[e] = NotYet \/ stamp \in firstStamp[e]..(firstStamp[e] + ResendFor)
         /\ sent' = sent \cup {<<e, stamp>>}
         /\ firstStamp' = [firstStamp EXCEPT ![e] = IF @ = NotYet THEN stamp ELSE @]
  BY DEF SendDelivery
<1>2. stamp \in Nat /\ stamp # NotYet
  BY <1>1 DEF Delivering, DeliveryTypeOK, NotYet
<1>3. /\ firstStamp' \in [Deliveries -> Nat \cup {NotYet}]
      /\ \A d \in Deliveries : firstStamp[d] # NotYet => firstStamp'[d] = firstStamp[d]
      /\ firstStamp'[e] # NotYet
      /\ stamp \in firstStamp'[e]..(firstStamp'[e] + ResendFor)
  BY <1>1, <1>2 DEF Delivering, DeliveryTypeOK, NotYet
<1>4. DeliveryTypeOK'
  BY <1>1, <1>2, <1>3 DEF Delivering, DeliveryTypeOK, SendDelivery
<1>5. Stamped'
  BY <1>1, <1>3 DEF Delivering, Stamped
<1>6. Remembered'
  BY <1>3 DEF Delivering, Remembered, Expired, SendDelivery
<1> QED
  BY <1>4, <1>5, <1>6 DEF Delivering

\* Forgetting an id harms nothing: no copy that is fresh has it.
LEMMA PrunedKeeps ==
  ASSUME Delivering
  PROVE  /\ Pruned \in [Deliveries -> Nat \cup {NotYet}]
         /\ \A d \in Deliveries \ Anonymous : handled[d] = 1 =>
               (Pruned[d] # NotYet /\ Pruned[d] >= firstStamp[d] - MaxSkew) \/ Expired(d)
<1> USE DeliveriesAssumption
<1>1. Pruned \in [Deliveries -> Nat \cup {NotYet}]
  BY DEF Delivering, DeliveryTypeOK, Pruned
<1>2. ASSUME NEW d \in Deliveries \ Anonymous, handled[d] = 1, ~Expired(d)
      PROVE  Pruned[d] # NotYet /\ Pruned[d] >= firstStamp[d] - MaxSkew
  <2>1. /\ now \in Nat /\ firstStamp[d] \in Nat /\ seen[d] \in Nat
        /\ seen[d] # NotYet /\ seen[d] >= firstStamp[d] - MaxSkew
    BY <1>2 DEF Delivering, DeliveryTypeOK, Remembered
  <2>2. ~(now - seen[d] > DeliveryTTL)
    BY <1>2, <2>1 DEF Expired
  <2>3. Pruned[d] = seen[d]
    BY <2>2 DEF Pruned
  <2> QED
    BY <2>1, <2>3
<1> QED
  BY <1>1, <1>2

\* A delivery arrives: if it was handed over before, its id is still known.
LEMMA WebhookKeeps ==
  ASSUME Delivering, NEW e \in Deliveries, HandleWebhook(e)
  PROVE  Delivering'
<1> USE DeliveriesAssumption
<1>1. PICK stamp : <<e, stamp>> \in sent /\ freshTimestamp(stamp)
  <2>1. PICK stamp \in {m[2] : m \in {n \in sent : n[1] = e}} : freshTimestamp(stamp)
    BY DEF HandleWebhook
  <2>2. PICK m \in sent : m[1] = e /\ m[2] = stamp
    BY <2>1
  <2>3. m = <<e, stamp>>
    BY <2>2 DEF Delivering, DeliveryTypeOK
  <2> QED
    BY <2>1, <2>2, <2>3
<1>2. /\ stamp \in Nat /\ now \in Nat /\ firstStamp[e] \in Nat /\ firstStamp[e] # NotYet
      /\ stamp >= firstStamp[e] /\ stamp <= firstStamp[e] + ResendFor
      /\ now - stamp >= -MaxSkew /\ now - stamp <= MaxSkew
  BY <1>1 DEF Delivering, DeliveryTypeOK, Stamped, freshTimestamp, NotYet
<1>3. now >= firstStamp[e] - MaxSkew /\ ~Expired(e)
  BY <1>2 DEF Expired
<1>4. /\ Pruned \in [Deliveries -> Nat \cup {NotYet}]
      /\ \A d \in Deliveries \ Anonymous : handled[d] = 1 =>
            (Pruned[d] # NotYet /\ Pruned[d] >= firstStamp[d] - MaxSkew) \/ Expired(d)
  BY PrunedKeeps
<1>5. DeliveryTypeOK'
  <2>1. seen' \in [Deliveries -> Nat \cup {NotYet}]
    BY <1>4 DEF HandleWebhook, Delivering, DeliveryTypeOK
  <2>2. handled' \in [Deliveries -> 0..2]
    BY DEF HandleWebhook, Delivering, DeliveryTypeOK
  <2> QED
    BY <2>1, <2>2 DEF HandleWebhook, Delivering, DeliveryTypeOK
<1>6. Stamped'
  BY DEF Delivering, Stamped, HandleWebhook
<1>7. Remembered'
  <2> SUFFICES ASSUME NEW d \in Deliveries \ Anonymous
               PROVE  /\ handled'[d] <= 1
                      /\ handled'[d] = 1 =>
                           /\ firstStamp[d] # NotYet
                           /\ (seen'[d] # NotYet /\ seen'[d] >= firstStamp[d] - MaxSkew) \/ Expired(d)
    BY DEF Remembered, Expired, HandleWebhook
  <2>0. /\ handled \in [Deliveries -> 0..2] /\ handled[d] \in 0..1
        /\ seen \in [Deliveries -> Nat \cup {NotYet}]
        /\ handled[d] = 1 => firstStamp[d] # NotYet
        /\ handled[d] = 1 => (seen[d] # NotYet /\ seen[d] >= firstStamp[d] - MaxSkew) \/ Expired(d)
    BY DEF Delivering, DeliveryTypeOK, Remembered
  <2>1. CASE d # e
    <3>1. handled'[d] = handled[d]
      BY <2>0, <2>1 DEF HandleWebhook
    <3>2. seen'[d] = seen[d] \/ seen'[d] = Pruned[d]
      BY <1>4, <2>1 DEF HandleWebhook
    <3> QED
      BY <1>4, <2>0, <3>1, <3>2
  <2>2. CASE d = e /\ First(e)
    <3>1. handled[e] = 0
      BY <1>3, <1>4, <2>0, <2>2 DEF First
    <3>2. handled'[e] = 1 /\ seen'[e] = now
      BY <1>4, <2>0, <2>2, <3>1 DEF HandleWebhook
    <3> QED
      BY <1>2, <1>3, <2>2, <3>2 DEF NotYet
  <2>3. CASE d = e /\ ~First(e)
    <3>1. handled'[e] = handled[e] /\ seen'[e] = Pruned[e]
      BY <2>3 DEF HandleWebhook
    <3> QED
      BY <1>4, <2>0, <2>3, <3>1
  <2> QED
    BY <2>1, <2>2, <2>3
<1> QED
  BY <1>5, <1>6, <1>7 DEF Delivering

LEMMA NextDelivering == Delivering /\ [DeliveriesNext]_deliveryVars => Delivering'
<1> USE DeliveriesAssumption
<1> SUFFICES ASSUME Delivering, [DeliveriesNext]_deliveryVars PROVE Delivering'
  OBVIOUS
<1>1. CASE \E d \in Deliveries : SendDelivery(d)
  BY <1>1, SendKeeps
<1>2. CASE \E d \in Deliveries : HandleWebhook(d)
  BY <1>2, WebhookKeeps
<1>3. CASE TimePasses
  <2>1. DeliveryTypeOK' /\ Stamped'
    BY <1>3 DEF Delivering, DeliveryTypeOK, Stamped, TimePasses
  <2>2. \A d \in Deliveries : firstStamp[d] # NotYet /\ Expired(d) => Expired(d)'
    BY <1>3 DEF Delivering, DeliveryTypeOK, Expired, TimePasses
  <2>3. Remembered'
    BY <1>3, <2>2 DEF Delivering, Remembered, TimePasses
  <2> QED
    BY <2>1, <2>3 DEF Delivering
<1>4. CASE RestartBox
  BY <1>4 DEF Delivering, DeliveryTypeOK, Stamped, Remembered, RestartBox, NotYet
<1>5. CASE UNCHANGED deliveryVars
  BY <1>5 DEF Delivering, DeliveryTypeOK, Stamped, Remembered, Expired, deliveryVars
<1> QED
  BY <1>1, <1>2, <1>3, <1>4, <1>5 DEF DeliveriesNext

\* Between two starts of the box an event with an id reaches the runner at most
\* once, however often and however late it is delivered.
THEOREM DispatchesOnce == DeliveriesSpec => []DispatchedOnce
<1>1. Delivering => DispatchedOnce
  BY DEF Delivering, Remembered, DispatchedOnce
<1> QED
  BY <1>1, InitDelivering, NextDelivering, PTL DEF DeliveriesSpec
=============================================================================
