---------------------------- MODULE PiRun_proofs ----------------------------
(***************************************************************************)
(* Proofs about PiRun for any number of calls, abort operations and        *)
(* reservations.  The invariant is built in layers, each from the ones     *)
(* before it: Base (types, the abort counter, who waits for an abort),     *)
(* Slotted (the slot's owner, its prompt and its run), Barred (commands    *)
(* and reservations), Granted (the host grant), Replayed (cancellations).  *)
(* The last section adds the readers of PiReaders (Read) to Barred.        *)
(***************************************************************************)
EXTENDS PiReaders, FiniteSetTheorems, WellFoundedInduction, TLAPS

-----------------------------------------------------------------------------
(* Types, the abort counter, and the calls that wait for an abort. *)

Open == {o \in AbortOps : ops[o].st # "free"}

\* session.abortPending counts the operations that were not released.
Counted == abortPending = Cardinality(Open)

\* The caller an operation returns to is inside abortProcess, in one operation.
CallersWait ==
    /\ \A o \in AbortOps : ops[o].by # None =>
         /\ pc[ops[o].by] \in {"abortWait", "abortWaitD"}
         /\ ops[o].st \in {"ready", "sent", "acked", "failed"}
    /\ \A o, p \in AbortOps : ops[o].by # None /\ ops[o].by = ops[p].by => o = p

Base == TypeOK /\ Counted /\ CallersWait

LEMMA InitBase == Init => Base
<1> SUFFICES ASSUME Init PROVE Base
  OBVIOUS
<1> USE CallsAssumption, BoundsAssumption
<1>1. Open = {}
  BY DEF Init, Open, NoOp
<1>2. Counted
  BY <1>1, FS_EmptySet DEF Init, Counted
<1>3. /\ pc \in [Calls -> PCs]
      /\ ops \in [AbortOps -> [st : {"free", "reserved", "ready", "sent", "acked", "failed"},
                               by : Calls \cup {None}, epoch : 0..MaxRuns]]
      /\ grant \in [epoch : 0..MaxRuns, active : BOOLEAN, armed : BOOLEAN]
      /\ prompt \in [Calls -> {"none", "sent", "accepted", "refused"}]
      /\ runEpoch \in 0..MaxRuns /\ setModel \in 0..MaxRuns /\ abortPending \in Nat
  BY DEF Init, NoOp, NoGrant, PCs
<1>4. /\ slot \in Calls \cup {Free, Janitor} /\ turn \in Calls \cup {None}
      /\ {abortRequested, modelPending, mapped, recent, connected, terminating} \subseteq BOOLEAN
      /\ proc \in {"up", "stopping", "exited"}
      /\ run \in Calls \cup {None} /\ settled \subseteq Calls
  BY Zenon DEF Init
<1>5. CallersWait
  BY DEF Init, CallersWait, NoOp
<1>6. TypeOK
  BY <1>3, <1>4 DEF TypeOK
<1> QED
  BY <1>2, <1>5, <1>6 DEF Base

\* A step that opens and closes no operation keeps the counter.
LEMMA SameOpen ==
    ASSUME Base, abortPending' = abortPending,
           \A o \in AbortOps : ops'[o].st = "free" <=> ops[o].st = "free"
    PROVE  Counted'
<1>1. Open' = Open
  BY DEF Open
<1> QED
  BY <1>1 DEF Base, Counted

LEMMA OpenFinite ==
    ASSUME Base
    PROVE  IsFiniteSet(Open) /\ Cardinality(Open) \in Nat
<1>1. Open \subseteq AbortOps
  BY DEF Open
<1> QED
  BY <1>1, BoundsAssumption, FS_Subset, FS_CardinalityType

LEMMA ReserveCounted ==
    ASSUME Base, NEW o \in AbortOps, NEW by \in Calls \cup {None}, NEW st \in {"reserved", "ready"},
           ReserveAbort(o, by, st)
    PROVE  Counted' /\ abortPending' \in Nat
<1>1. Open' = Open \cup {o} /\ o \notin Open
  BY DEF ReserveAbort, NoOp, Open, Base, TypeOK
<1>2. Cardinality(Open \cup {o}) = Cardinality(Open) + 1
  BY <1>1, OpenFinite, FS_AddElement
<1> QED
  BY <1>1, <1>2, OpenFinite DEF ReserveAbort, Base, Counted

LEMMA ReleaseCounted ==
    ASSUME Base, NEW o \in AbortOps, ReleaseAbort(o)
    PROVE  Counted' /\ abortPending' \in Nat
<1>1. Open' = Open \ {o} /\ o \in Open
  BY DEF ReleaseAbort, NoOp, Open, Base, TypeOK
<1>2. IsFiniteSet(Open \ {o}) /\ Cardinality(Open \ {o}) = Cardinality(Open) - 1
  BY <1>1, OpenFinite, FS_RemoveElement
<1>3. Cardinality(Open') \in Nat
  BY <1>1, <1>2, FS_CardinalityType
<1> QED
  BY <1>1, <1>2, <1>3, OpenFinite DEF ReleaseAbort, Base, Counted

\* The steps of a call that leave everything but its place in the code alone.
Walk(c) ==
    \/ Attach(c) \/ Busy(c) \/ SkipHost(c) \/ SkipModel(c) \/ ModelAnswered(c)
    \/ ReadCursor(c) \/ CheckAbort(c) \/ PromptRefused(c) \/ PromptAccepted(c)
    \/ WaitSettled(c) \/ SendSettled(c) \/ PendingResolved(c) \/ Supervise(c) \/ RunEnded(c)

\* What is seen of a call from outside: no step but its return from
\* abortProcess starts inside it.
LEMMA WalkMoves ==
    ASSUME Base, NEW c \in Calls, Walk(c)
    PROVE  /\ pc' \in [Calls -> PCs] /\ pc[c] \notin {"abortWait", "abortWaitD"}
           /\ \A d \in Calls : d # c => pc'[d] = pc[d]
           /\ UNCHANGED <<sessionVars, abortVars, hostVars, piVars, lifeVars, recent>>
<1>1. pc \in [Calls -> PCs]
  BY DEF Base, TypeOK
<1>2. CASE Attach(c) \/ Busy(c) \/ SkipHost(c) \/ SkipModel(c) \/ ModelAnswered(c) \/ ReadCursor(c)
  BY <1>1, <1>2 DEF Attach, Busy, SkipHost, SkipModel, ModelAnswered, ReadCursor, Goto, PCs,
                    HoldingPC
<1>3. CASE CheckAbort(c) \/ PromptRefused(c) \/ PromptAccepted(c) \/ WaitSettled(c)
  BY <1>1, <1>3 DEF CheckAbort, PromptRefused, PromptAccepted, WaitSettled, Goto, PCs, HoldingPC
<1>4. CASE SendSettled(c) \/ PendingResolved(c) \/ Supervise(c) \/ RunEnded(c)
  BY <1>1, <1>4 DEF SendSettled, PendingResolved, Supervise, RunEnded, Goto, PCs, HoldingPC
<1> QED
  BY <1>2, <1>3, <1>4 DEF Walk

LEMMA WalkBase ==
    ASSUME Base, NEW c \in Calls, Walk(c)
    PROVE  Base'
<1> USE WalkMoves DEF sessionVars, abortVars, hostVars, piVars, lifeVars
<1>1. TypeOK'
  BY DEF Base, TypeOK
<1>2. Counted'
  BY SameOpen
<1>3. CallersWait'
  BY DEF Base, TypeOK, CallersWait
<1> QED
  BY <1>1, <1>2, <1>3 DEF Base

\* The steps that reserve and release the slot, or change what pi and the
\* relay see of the call.
LEMMA CallBase ==
    ASSUME Base, NEW c \in Calls, CallStep(c)
    PROVE  Base'
<1> USE CallsAssumption, BoundsAssumption
        DEF sessionVars, abortVars, hostVars, piVars, lifeVars, Goto, PCs, HoldingPC
<1>1. CASE Walk(c)
  BY <1>1, WalkBase
<1>2. CASE AcquireRun(c)
  <2>3. abortRequested' \in BOOLEAN
    BY <1>2, Zenon DEF AcquireRun
  <2>1. TypeOK'
    BY <1>2, <2>3 DEF AcquireRun, Base, TypeOK
  <2>2. CallersWait' /\ Counted'
    BY <1>2, SameOpen DEF AcquireRun, Base, TypeOK, CallersWait
  <2> QED
    BY <2>1, <2>2 DEF Base
<1>3. CASE RevokeGrant(c) \/ AuthorizeHost(c)
  <2>3. grant' \in [epoch : 0..MaxRuns, active : BOOLEAN, armed : BOOLEAN]
    <3>1. CASE RevokeGrant(c)
      BY <3>1 DEF RevokeGrant, Revoked, Base, TypeOK
    <3>2. CASE AuthorizeHost(c)
      BY <3>2 DEF AuthorizeHost, Base, TypeOK
    <3> QED
      BY <1>3, <3>1, <3>2
  <2>1. TypeOK'
    BY <1>3, <2>3 DEF RevokeGrant, AuthorizeHost, Base, TypeOK
  <2>2. CallersWait' /\ Counted'
    BY <1>3, SameOpen DEF RevokeGrant, AuthorizeHost, Base, TypeOK, CallersWait
  <2> QED
    BY <2>1, <2>2 DEF Base
<1>4. CASE ReleaseRun(c)
  <2>1. TypeOK'
    BY <1>4 DEF ReleaseRun, FinishHostIfIdle, Finished, Base, TypeOK
  <2>2. CallersWait' /\ Counted'
    BY <1>4, SameOpen DEF ReleaseRun, Base, TypeOK, CallersWait
  <2> QED
    BY <2>1, <2>2 DEF Base
<1>5. CASE RequestModel(c) \/ WritePrompt(c)
  <2>1. TypeOK'
    BY <1>5 DEF RequestModel, WritePrompt, Base, TypeOK
  <2>2. CallersWait' /\ Counted'
    BY <1>5, SameOpen DEF RequestModel, WritePrompt, Base, TypeOK, CallersWait
  <2> QED
    BY <2>1, <2>2 DEF Base
<1>6. CASE StartDetached(c) \/ FinishDetached(c) \/ ModelTimesOut(c) \/ PromptTimesOut(c)
  <2>3. modelPending' \in BOOLEAN
    BY <1>6, Zenon DEF StartDetached, FinishDetached, ModelTimesOut, PromptTimesOut, Base, TypeOK
  <2>1. TypeOK'
    BY <1>6, <2>3 DEF StartDetached, FinishDetached, ModelTimesOut, PromptTimesOut, Base, TypeOK
  <2>2. CallersWait' /\ Counted'
    BY <1>6, SameOpen DEF StartDetached, FinishDetached, ModelTimesOut, PromptTimesOut,
                          Base, TypeOK, CallersWait
  <2> QED
    BY <2>1, <2>2 DEF Base
<1>7. ASSUME NEW o \in AbortOps, AbortProcess(c, o)
      PROVE  Base'
  <2>1. Counted' /\ abortPending' \in Nat
    BY <1>7, ReserveCounted DEF AbortProcess
  <2>2. TypeOK'
    BY <1>7, <2>1 DEF AbortProcess, ReserveAbort, Base, TypeOK
  <2>3. CallersWait'
    BY <1>7 DEF AbortProcess, ReserveAbort, NoOp, Base, TypeOK, CallersWait
  <2> QED
    BY <2>1, <2>2, <2>3 DEF Base
<1> QED
  BY <1>1, <1>2, <1>3, <1>4, <1>5, <1>6, <1>7 DEF CallStep, Advance, Walk

\* The call an operation returns to goes on, as the only one that moves.
LEMMA ReturnMoves ==
    ASSUME Base, NEW o \in AbortOps, ops[o].by # None, NEW confirmed \in BOOLEAN,
           AbortReturns(ops[o].by, confirmed)
    PROVE  /\ ops[o].by \in Calls
           /\ pc[ops[o].by] \in {"abortWait", "abortWaitD"}
           /\ pc' = [pc EXCEPT ![ops[o].by] =
                       IF pc[ops[o].by] = "abortWait"
                       THEN IF confirmed THEN "release" ELSE "detach"
                       ELSE IF confirmed THEN "finish" ELSE "supervise"]
<1>1. ops[o].by \in Calls /\ pc[ops[o].by] \in {"abortWait", "abortWaitD"}
  BY DEF Base, TypeOK, CallersWait
<1> QED
  BY <1>1 DEF AbortReturns

LEMMA AbortBase ==
    ASSUME Base, NEW o \in AbortOps, AbortStep(o)
    PROVE  Base'
<1> USE CallsAssumption, BoundsAssumption
        DEF sessionVars, abortVars, hostVars, piVars, lifeVars, PCs, HoldingPC
<1>1. CASE AbortSession(o)
  <2>1. Counted' /\ abortPending' \in Nat
    BY <1>1, ReserveCounted DEF AbortSession
  <2>2. abortRequested' \in BOOLEAN
    BY <1>1, Zenon DEF AbortSession
  <2>3. TypeOK'
    BY <1>1, <2>1, <2>2 DEF AbortSession, ReserveAbort, Base, TypeOK
  <2>4. CallersWait'
    BY <1>1 DEF AbortSession, ReserveAbort, NoOp, Base, TypeOK, CallersWait
  <2> QED
    BY <2>1, <2>3, <2>4 DEF Base
<1>2. CASE RevokeForAbort(o) \/ DispatchAbort(o)
  <2>1. TypeOK'
    <3>1. CASE RevokeForAbort(o)
      <4>1. grant' \in [epoch : 0..MaxRuns, active : BOOLEAN, armed : BOOLEAN]
        BY <3>1 DEF RevokeForAbort, Revoked, Base, TypeOK
      <4> QED
        BY <3>1, <4>1 DEF RevokeForAbort, Base, TypeOK
    <3>2. CASE DispatchAbort(o)
      BY <3>2 DEF DispatchAbort, Base, TypeOK
    <3> QED
      BY <1>2, <3>1, <3>2
  <2>2. Counted'
    BY <1>2, SameOpen DEF RevokeForAbort, DispatchAbort, Base, TypeOK
  <2>3. CallersWait'
    BY <1>2 DEF RevokeForAbort, DispatchAbort, Base, TypeOK, CallersWait
  <2> QED
    BY <2>1, <2>2, <2>3 DEF Base
<1>3. CASE ReleaseAbort(o)
  <2>1. Counted' /\ abortPending' \in Nat
    BY <1>3, ReleaseCounted
  <2>2. \/ pc' = pc /\ ops[o].by = None
        \/ /\ ops[o].by # None /\ ops[o].by \in Calls
           /\ \E at \in {"release", "detach", "finish", "supervise"} :
                pc' = [pc EXCEPT ![ops[o].by] = at]
    BY <1>3, ReturnMoves DEF ReleaseAbort
  <2>3. pc' \in [Calls -> PCs]
    BY <2>2 DEF Base, TypeOK
  <2>6. ops' \in [AbortOps -> [st : {"free", "reserved", "ready", "sent", "acked", "failed"},
                               by : Calls \cup {None}, epoch : 0..MaxRuns]]
    BY <1>3 DEF ReleaseAbort, NoOp, Base, TypeOK
  <2>7. grant' \in [epoch : 0..MaxRuns, active : BOOLEAN, armed : BOOLEAN]
    BY <1>3 DEF ReleaseAbort, FinishHostIfIdle, Finished, Base, TypeOK
  <2>4. TypeOK'
    BY <1>3, <2>1, <2>3, <2>6, <2>7 DEF ReleaseAbort, Base, TypeOK
  <2>5. CallersWait'
    BY <1>3, <2>2 DEF ReleaseAbort, NoOp, Base, TypeOK, CallersWait
  <2> QED
    BY <2>1, <2>4, <2>5 DEF Base
<1>4. CASE AbortTimesOut(o)
  <2>1. Counted'
    BY <1>4, SameOpen DEF AbortTimesOut, Base, TypeOK
  <2>2. /\ ops[o].by # None /\ ops[o].by \in Calls
        /\ \E at \in {"release", "detach", "finish", "supervise"} :
             pc' = [pc EXCEPT ![ops[o].by] = at]
    BY <1>4, ReturnMoves DEF AbortTimesOut
  <2>3. TypeOK'
    BY <1>4, <2>2 DEF AbortTimesOut, Base, TypeOK
  <2>4. CallersWait'
    BY <1>4, <2>2 DEF AbortTimesOut, Base, TypeOK, CallersWait
  <2> QED
    BY <2>1, <2>3, <2>4 DEF Base
<1> QED
  BY <1>1, <1>2, <1>3, <1>4 DEF AbortStep

LEMMA PiBase ==
    ASSUME Base, PiStep
    PROVE  Base'
<1> USE CallsAssumption, BoundsAssumption
        DEF sessionVars, abortVars, hostVars, piVars, lifeVars
<1>1. ASSUME NEW c \in Calls, AcceptPrompt(c) \/ RefusePrompt(c)
      PROVE  Base'
  <2>1. TypeOK'
    BY <1>1 DEF AcceptPrompt, RefusePrompt, Base, TypeOK
  <2>2. CallersWait' /\ Counted'
    BY <1>1, SameOpen DEF AcceptPrompt, RefusePrompt, Base, TypeOK, CallersWait
  <2> QED
    BY <2>1, <2>2 DEF Base
<1>2. CASE RunOver \/ AnswerSetModel
  <2>1. TypeOK'
    BY <1>2 DEF RunOver, AnswerSetModel, Subscribed, Base, TypeOK
  <2>2. CallersWait' /\ Counted'
    BY <1>2, SameOpen DEF RunOver, AnswerSetModel, Base, TypeOK, CallersWait
  <2> QED
    BY <2>1, <2>2 DEF Base
<1>3. ASSUME NEW o \in AbortOps, AckAbort(o) \/ RejectAbort(o)
      PROVE  Base'
  <2>1. TypeOK'
    BY <1>3 DEF AckAbort, RejectAbort, Base, TypeOK
  <2>2. Counted'
    BY <1>3, SameOpen DEF AckAbort, RejectAbort, Base, TypeOK
  <2>3. CallersWait'
    BY <1>3 DEF AckAbort, RejectAbort, Base, TypeOK, CallersWait
  <2> QED
    BY <2>1, <2>2, <2>3 DEF Base
<1>4. CASE Exit
  <2>1. TypeOK'
    BY <1>4 DEF Exit, Base, TypeOK
  <2>2. CallersWait' /\ Counted'
    BY <1>4, SameOpen DEF Exit, Base, TypeOK, CallersWait
  <2> QED
    BY <2>1, <2>2 DEF Base
<1> QED
  BY <1>1, <1>2, <1>3, <1>4 DEF PiStep, Settle, StrikeRun

LEMMA HostBase ==
    ASSUME Base, HostStep \/ LifeStep \/ QuarantineEnds
    PROVE  Base'
<1> USE CallsAssumption, BoundsAssumption
        DEF sessionVars, abortVars, hostVars, piVars, lifeVars
<1>1. CASE HostStep
  <2>1. TypeOK'
    BY <1>1 DEF HostStep, ExpireGrant, Disconnect, CloseRelay, Revoked, Finished, Stopping,
                Base, TypeOK
  <2>2. CallersWait' /\ Counted'
    BY <1>1, SameOpen DEF HostStep, ExpireGrant, Disconnect, CloseRelay, Base, TypeOK, CallersWait
  <2> QED
    BY <2>1, <2>2 DEF Base
<1>2. CASE LifeStep
  <2>1. TypeOK'
    BY <1>2 DEF LifeStep, Delete, PruneExited, IdleTimeout, Touch, Collect, Stopping, Base, TypeOK
  <2>2. CallersWait' /\ Counted'
    BY <1>2, SameOpen DEF LifeStep, Delete, PruneExited, IdleTimeout, Touch, Collect,
                          Base, TypeOK, CallersWait
  <2> QED
    BY <2>1, <2>2 DEF Base
<1>3. CASE QuarantineEnds
  <2>1. TypeOK'
    BY <1>3 DEF QuarantineEnds, FinishHostIfIdle, Finished, Base, TypeOK
  <2>2. CallersWait' /\ Counted'
    BY <1>3, SameOpen DEF QuarantineEnds, Base, TypeOK, CallersWait
  <2> QED
    BY <2>1, <2>2 DEF Base
<1> QED
  BY <1>1, <1>2, <1>3

LEMMA NextBase == Base /\ [Next]_vars => Base'
<1> SUFFICES ASSUME Base, [Next]_vars PROVE Base'
  OBVIOUS
<1>1. CASE UNCHANGED vars
  <2>1. TypeOK' /\ CallersWait'
    BY <1>1 DEF vars, sessionVars, abortVars, hostVars, piVars, lifeVars, Base, TypeOK, CallersWait
  <2>2. Counted'
    BY <1>1, SameOpen DEF vars, abortVars
  <2> QED
    BY <2>1, <2>2 DEF Base
<1> QED
  BY <1>1, CallBase, AbortBase, PiBase, HostBase DEF Next

\* The types of the session, its calls and operations, and its process.
THEOREM TypeCorrect == Spec => []TypeOK
<1>1. Base => TypeOK
  BY DEF Base
<1> QED
  BY <1>1, InitBase, NextBase, PTL DEF Spec

-----------------------------------------------------------------------------
(* The owner of the slot, its prompt and its run. *)

HostStages == {"host", "model", "modelWait", "cursor"}
Prompting == {"prompting", "pendingPrompt"}
Accepted == {"accepted", "settling", "abortWait", "detach", "verify", "replay", "abortWaitD",
             "supervise"}
Ending == {"finish", "release", "drain"}

SlotOK == \A c \in Calls : slot = c <=> pc[c] \in HoldingPC

\* What pi answered a call's prompt goes with where the call is.
PromptOK ==
    \A c \in Calls :
        /\ prompt[c] = "sent" => pc[c] \in Prompting
        /\ pc[c] \in {"idle", "attached", "check", "write"} \cup HostStages => prompt[c] = "none"
        /\ pc[c] \in Accepted => prompt[c] = "accepted"
        /\ pc[c] \in HostStages => c \in Submitters

RunOK ==
    \A c \in Calls : run = c => prompt[c] = "accepted" /\ pc[c] \in Prompting \cup Accepted

\* readLoop's end leaves nothing unanswered.
ExitOK ==
    proc = "exited" =>
        /\ run = None /\ setModel = 0
        /\ \A c \in Calls : prompt[c] # "sent"
        /\ \A o \in AbortOps : ops[o].st # "sent"

\* While its caller waits, nothing can start after an abort was acknowledged.
AckOK == \A o \in AbortOps : ops[o].by # None /\ ops[o].st = "acked" => run = None

SettledOK ==
    \A c \in settled :
        /\ pc[c] \in Prompting \cup Accepted \cup Ending
        /\ pc[c] \in Prompting \cup Accepted => prompt[c] = "accepted" /\ run # c

Slotted == SlotOK /\ PromptOK /\ RunOK /\ ExitOK /\ AckOK /\ SettledOK

LEMMA InitSlotted == Init => Slotted
<1> USE CallsAssumption
<1>1. Init => SlotOK /\ PromptOK
  BY DEF Init, SlotOK, PromptOK, HoldingPC, Prompting, Accepted, HostStages
<1>2. Init => RunOK /\ ExitOK /\ AckOK /\ SettledOK
  BY DEF Init, RunOK, ExitOK, AckOK, SettledOK, NoOp
<1> QED
  BY <1>1, <1>2 DEF Slotted

LEMMA WalkSlotted ==
    ASSUME Base, Slotted, NEW c \in Calls, Walk(c)
    PROVE  Slotted'
<1> USE CallsAssumption, WalkMoves
        DEF sessionVars, abortVars, hostVars, piVars, lifeVars, Base, TypeOK, Slotted,
            Prompting, Accepted, Ending, HostStages
<1>0. /\ pc \in [Calls -> PCs] /\ pc' \in [Calls -> PCs]
      /\ \A d \in Calls : d # c => pc'[d] = pc[d]
      /\ UNCHANGED <<slot, prompt, run, proc, setModel, ops, settled>>
  OBVIOUS
<1>1. pc'[c] \in HoldingPC <=> pc[c] \in HoldingPC
  BY DEF Walk, Attach, Busy, SkipHost, SkipModel, ModelAnswered, ReadCursor, CheckAbort,
         PromptRefused, PromptAccepted, WaitSettled, SendSettled, PendingResolved, Supervise,
         RunEnded, Goto, HoldingPC
<1>2. SlotOK'
  BY <1>0, <1>1 DEF SlotOK
<1>3. /\ prompt[c] = "sent" => pc'[c] \in Prompting
      /\ pc'[c] \in {"idle", "attached", "check", "write"} \cup HostStages => prompt[c] = "none"
      /\ pc'[c] \in Accepted => prompt[c] = "accepted"
      /\ pc'[c] \in HostStages => c \in Submitters
  BY DEF Walk, Attach, Busy, SkipHost, SkipModel, ModelAnswered, ReadCursor, CheckAbort,
         PromptRefused, PromptAccepted, WaitSettled, SendSettled, PendingResolved, Supervise,
         RunEnded, Goto, PromptOK
<1>4. PromptOK'
  BY <1>0, <1>3 DEF PromptOK
<1>5. run = c => pc'[c] \in Prompting \cup Accepted
  BY DEF Walk, Attach, Busy, SkipHost, SkipModel, ModelAnswered, ReadCursor, CheckAbort,
         PromptRefused, PromptAccepted, WaitSettled, SendSettled, PendingResolved, Supervise,
         RunEnded, Goto, RunOK, SettledOK, ExitOK
<1>6. RunOK' /\ ExitOK' /\ AckOK'
  BY <1>0, <1>5 DEF RunOK, ExitOK, AckOK
<1>7. c \in settled => /\ pc'[c] \in Prompting \cup Accepted \cup Ending
                       /\ pc'[c] \in Prompting \cup Accepted => pc[c] \in Prompting \cup Accepted
  BY DEF Walk, Attach, Busy, SkipHost, SkipModel, ModelAnswered, ReadCursor, CheckAbort,
         PromptRefused, PromptAccepted, WaitSettled, SendSettled, PendingResolved, Supervise,
         RunEnded, Goto, SettledOK, PromptOK
<1>8. SettledOK'
  BY <1>0, <1>7 DEF SettledOK
<1> QED
  BY <1>2, <1>4, <1>6, <1>8


LEMMA CallSlotted ==
    ASSUME Base, Slotted, NEW c \in Calls, CallStep(c)
    PROVE  Slotted'
<1> USE CallsAssumption
        DEF sessionVars, abortVars, hostVars, piVars, lifeVars, Base, TypeOK, Slotted,
            Prompting, Accepted, Ending, HostStages, HoldingPC, Goto
<1>1. CASE Walk(c)
  BY <1>1, WalkSlotted
<1>2. CASE AcquireRun(c)
  <2>1. SlotOK' /\ PromptOK'
    BY <1>2 DEF AcquireRun, Reservable, SlotOK, PromptOK, Calls
  <2>2. RunOK' /\ ExitOK' /\ AckOK' /\ SettledOK'
    BY <1>2 DEF AcquireRun, RunOK, ExitOK, AckOK, SettledOK
  <2> QED
    BY <2>1, <2>2
<1>3. CASE RevokeGrant(c) \/ AuthorizeHost(c)
  <2>1. SlotOK' /\ PromptOK'
    BY <1>3 DEF RevokeGrant, AuthorizeHost, SlotOK, PromptOK
  <2>2. RunOK' /\ ExitOK' /\ AckOK' /\ SettledOK'
    BY <1>3 DEF RevokeGrant, AuthorizeHost, RunOK, ExitOK, AckOK, SettledOK
  <2> QED
    BY <2>1, <2>2
<1>4. CASE ReleaseRun(c)
  <2>1. SlotOK' /\ PromptOK'
    BY <1>4 DEF ReleaseRun, SlotOK, PromptOK
  <2>2. RunOK' /\ ExitOK' /\ AckOK' /\ SettledOK'
    BY <1>4 DEF ReleaseRun, RunOK, ExitOK, AckOK, SettledOK
  <2> QED
    BY <2>1, <2>2
<1>5. CASE RequestModel(c)
  <2>1. SlotOK' /\ PromptOK'
    BY <1>5 DEF RequestModel, SlotOK, PromptOK
  <2>2. RunOK' /\ ExitOK' /\ AckOK' /\ SettledOK'
    BY <1>5 DEF RequestModel, RunOK, ExitOK, AckOK, SettledOK
  <2> QED
    BY <2>1, <2>2
<1>6. CASE WritePrompt(c)
  <2>1. SlotOK' /\ PromptOK'
    BY <1>6 DEF WritePrompt, SlotOK, PromptOK
  <2>2. RunOK' /\ ExitOK' /\ AckOK' /\ SettledOK'
    BY <1>6 DEF WritePrompt, RunOK, ExitOK, AckOK, SettledOK, PromptOK
  <2> QED
    BY <2>1, <2>2
<1>7. CASE StartDetached(c) \/ FinishDetached(c) \/ ModelTimesOut(c) \/ PromptTimesOut(c)
  <2>1. SlotOK' /\ PromptOK'
    BY <1>7 DEF StartDetached, FinishDetached, ModelTimesOut, PromptTimesOut, SlotOK, PromptOK
  <2>2. RunOK' /\ ExitOK' /\ AckOK' /\ SettledOK'
    BY <1>7 DEF StartDetached, FinishDetached, ModelTimesOut, PromptTimesOut,
                RunOK, ExitOK, AckOK, SettledOK
  <2> QED
    BY <2>1, <2>2
<1>8. ASSUME NEW o \in AbortOps, AbortProcess(c, o)
      PROVE  Slotted'
  <2>1. SlotOK' /\ PromptOK'
    BY <1>8 DEF AbortProcess, ReserveAbort, SlotOK, PromptOK
  <2>2. RunOK' /\ SettledOK'
    BY <1>8 DEF AbortProcess, ReserveAbort, RunOK, SettledOK
  <2>3. ExitOK' /\ AckOK'
    BY <1>8 DEF AbortProcess, ReserveAbort, ExitOK, AckOK
  <2> QED
    BY <2>1, <2>2, <2>3
<1> QED
  BY <1>1, <1>2, <1>3, <1>4, <1>5, <1>6, <1>7, <1>8 DEF CallStep, Advance, Walk

LEMMA AbortSlotted ==
    ASSUME Base, Slotted, NEW o \in AbortOps, AbortStep(o)
    PROVE  Slotted'
<1> USE CallsAssumption
        DEF sessionVars, abortVars, hostVars, piVars, lifeVars, Base, TypeOK, Slotted,
            Prompting, Accepted, Ending, HostStages, HoldingPC
<1>1. CASE AbortSession(o) \/ RevokeForAbort(o) \/ DispatchAbort(o)
  <2>1. SlotOK' /\ PromptOK' /\ RunOK' /\ SettledOK'
    BY <1>1 DEF AbortSession, RevokeForAbort, DispatchAbort, SlotOK, PromptOK, RunOK, SettledOK
  <2>2. ExitOK' /\ AckOK'
    BY <1>1 DEF AbortSession, RevokeForAbort, DispatchAbort, ReserveAbort, ExitOK, AckOK
  <2> QED
    BY <2>1, <2>2
<1>2. CASE ReleaseAbort(o) /\ ops[o].by = None
  <2>1. SlotOK' /\ PromptOK' /\ RunOK' /\ SettledOK'
    BY <1>2 DEF ReleaseAbort, SlotOK, PromptOK, RunOK, SettledOK
  <2>2. ExitOK' /\ AckOK'
    BY <1>2 DEF ReleaseAbort, NoOp, ExitOK, AckOK
  <2> QED
    BY <2>1, <2>2
<1>3. CASE (ReleaseAbort(o) \/ AbortTimesOut(o)) /\ ops[o].by # None
  <2> DEFINE c == ops[o].by
  <2>1. PICK confirmed \in BOOLEAN :
           AbortReturns(c, confirmed) /\ (confirmed => ops[o].st = "acked")
    BY <1>3 DEF ReleaseAbort, AbortTimesOut
  <2>2. /\ c \in Calls /\ pc[c] \in {"abortWait", "abortWaitD"}
        /\ pc' = [pc EXCEPT ![c] = IF pc[c] = "abortWait"
                                   THEN IF confirmed THEN "release" ELSE "detach"
                                   ELSE IF confirmed THEN "finish" ELSE "supervise"]
    BY <1>3, <2>1, ReturnMoves
  <2>3. UNCHANGED <<slot, prompt, run, proc, setModel, settled>>
    BY <1>3 DEF ReleaseAbort, AbortTimesOut
  <2>4. SlotOK' /\ PromptOK'
    BY <2>2, <2>3 DEF SlotOK, PromptOK
  <2>5. confirmed => run = None
    BY <1>3, <2>1 DEF AckOK
  <2>6. RunOK' /\ SettledOK'
    BY <2>2, <2>3, <2>5 DEF RunOK, SettledOK
  <2>7. ExitOK' /\ AckOK'
    <3>1. CASE ReleaseAbort(o)
      BY <3>1, <2>3 DEF ReleaseAbort, NoOp, ExitOK, AckOK
    <3>2. CASE AbortTimesOut(o)
      BY <3>2, <2>3 DEF AbortTimesOut, ExitOK, AckOK
    <3> QED
      BY <1>3, <3>1, <3>2
  <2> QED
    BY <2>4, <2>6, <2>7
<1> QED
  BY <1>1, <1>2, <1>3 DEF AbortStep, AbortTimesOut

LEMMA PiSlotted ==
    ASSUME Base, Slotted, PiStep
    PROVE  Slotted'
<1> USE CallsAssumption
        DEF sessionVars, abortVars, hostVars, piVars, lifeVars, Base, TypeOK, Slotted,
            Prompting, Accepted, Ending, HostStages, HoldingPC
<1>1. ASSUME NEW c \in Calls, AcceptPrompt(c)
      PROVE  Slotted'
  <2>1. SlotOK' /\ PromptOK' /\ RunOK' /\ ExitOK'
    BY <1>1 DEF AcceptPrompt, SlotOK, PromptOK, RunOK, ExitOK
  <2>2. AckOK'
    BY <1>1 DEF AcceptPrompt, AckOK, SlotOK, PromptOK, CallersWait
  <2>3. SettledOK'
    BY <1>1 DEF AcceptPrompt, SettledOK, PromptOK
  <2> QED
    BY <2>1, <2>2, <2>3
<1>2. ASSUME NEW c \in Calls, RefusePrompt(c)
      PROVE  Slotted'
  <2>1. SlotOK' /\ PromptOK' /\ RunOK' /\ ExitOK' /\ AckOK'
    BY <1>2 DEF RefusePrompt, SlotOK, PromptOK, RunOK, ExitOK, AckOK
  <2>2. SettledOK'
    BY <1>2 DEF RefusePrompt, SettledOK, PromptOK
  <2> QED
    BY <2>1, <2>2
<1>3. CASE RunOver
  <2>1. SlotOK' /\ PromptOK' /\ RunOK' /\ ExitOK' /\ AckOK'
    BY <1>3 DEF RunOver, SlotOK, PromptOK, RunOK, ExitOK, AckOK
  <2>2. \A c \in Subscribed : c = run
    BY <1>3 DEF RunOver, Subscribed, SubscribedPC, SlotOK, RunOK
  <2>3. SettledOK'
    BY <1>3, <2>2 DEF RunOver, SettledOK, RunOK
  <2> QED
    BY <2>1, <2>3
<1>4. CASE AnswerSetModel
  <2>1. SlotOK' /\ PromptOK' /\ RunOK' /\ ExitOK' /\ AckOK' /\ SettledOK'
    BY <1>4 DEF AnswerSetModel, SlotOK, PromptOK, RunOK, ExitOK, AckOK, SettledOK
  <2> QED
    BY <2>1
<1>5. ASSUME NEW o \in AbortOps, AckAbort(o) \/ RejectAbort(o)
      PROVE  Slotted'
  <2>1. SlotOK' /\ PromptOK' /\ RunOK' /\ SettledOK'
    BY <1>5 DEF AckAbort, RejectAbort, SlotOK, PromptOK, RunOK, SettledOK
  <2>2. ExitOK' /\ AckOK'
    BY <1>5 DEF AckAbort, RejectAbort, ExitOK, AckOK
  <2> QED
    BY <2>1, <2>2
<1>6. CASE Exit
  <2>1. SlotOK' /\ PromptOK' /\ RunOK' /\ SettledOK'
    BY <1>6 DEF Exit, SlotOK, PromptOK, RunOK, SettledOK
  <2>2. ExitOK' /\ AckOK'
    BY <1>6 DEF Exit, ExitOK, AckOK
  <2> QED
    BY <2>1, <2>2
<1> QED
  BY <1>1, <1>2, <1>3, <1>4, <1>5, <1>6 DEF PiStep, Settle, StrikeRun

LEMMA HostSlotted ==
    ASSUME Base, Slotted, HostStep \/ LifeStep \/ QuarantineEnds
    PROVE  Slotted'
<1> USE CallsAssumption
        DEF sessionVars, abortVars, hostVars, piVars, lifeVars, Base, TypeOK, Slotted,
            Prompting, Accepted, Ending, HostStages, HoldingPC
<1>1. SlotOK'
  BY DEF HostStep, ExpireGrant, Disconnect, CloseRelay, LifeStep, Delete, PruneExited,
         IdleTimeout, Touch, Collect, Collectable, QuarantineEnds, SlotOK
<1>2. PromptOK' /\ RunOK' /\ AckOK' /\ SettledOK'
  BY DEF HostStep, ExpireGrant, Disconnect, CloseRelay, LifeStep, Delete, PruneExited,
         IdleTimeout, Touch, Collect, QuarantineEnds, PromptOK, RunOK, AckOK, SettledOK
<1>3. ExitOK'
  BY DEF HostStep, ExpireGrant, Disconnect, CloseRelay, LifeStep, Delete, PruneExited,
         IdleTimeout, Touch, Collect, QuarantineEnds, Stopping, ExitOK
<1> QED
  BY <1>1, <1>2, <1>3

LEMMA NextSlotted == Base /\ Slotted /\ [Next]_vars => Slotted'
<1> SUFFICES ASSUME Base, Slotted, [Next]_vars PROVE Slotted'
  OBVIOUS
<1>1. CASE UNCHANGED vars
  BY <1>1 DEF vars, sessionVars, abortVars, hostVars, piVars, lifeVars, Slotted, SlotOK,
              PromptOK, RunOK, ExitOK, AckOK, SettledOK
<1> QED
  BY <1>1, CallSlotted, AbortSlotted, PiSlotted, HostSlotted DEF Next

LEMMA SlottedInvariant == Spec => [](Base /\ Slotted)
<1> QED
  BY InitBase, InitSlotted, NextBase, NextSlotted, PTL DEF Spec

\* Whatever timed out in between, a run in pi, and a prompt that may still
\* become one, belong to the call that holds the slot.
THEOREM RunsHoldTheSlot == Spec => []RunHoldsSlot
<1>1. Slotted => RunHoldsSlot
  BY DEF Slotted, SlotOK, PromptOK, RunOK, Prompting, Accepted, HoldingPC, RunHoldsSlot
<1> QED
  BY <1>1, SlottedInvariant, PTL

\* A call acts upon the settlement of its own run only.
THEOREM SettlementsAreOwn == Spec => []SettledIsOwn
<1>1. Slotted => SettledIsOwn
  BY DEF Slotted, SettledOK, PromptOK, RunOK, Prompting, Accepted, Ending, Subscribed,
         SubscribedPC, SettledIsOwn
<1> QED
  BY <1>1, SlottedInvariant, PTL


-----------------------------------------------------------------------------
(* Commands stay in their reservation. *)

JanitorOK == slot = Janitor => ~mapped

EpochOK == \A o \in AbortOps : ops[o].st # "free" => ops[o].epoch = runEpoch /\ slot # Janitor

\* A quarantined set_model outlives only the end of its call.
QuarantineOK ==
    modelPending =>
        /\ slot # Janitor
        /\ \A c \in Calls : pc[c] \in HoldingPC => pc[c] \in {"release", "drain"}

\* Somebody waits for an unanswered set_model: its call or the quarantine.
SetModelOK ==
    setModel # 0 =>
        /\ setModel = runEpoch
        /\ modelPending \/ \E c \in Calls : pc[c] = "modelWait"

Barred == JanitorOK /\ EpochOK /\ QuarantineOK /\ SetModelOK

LEMMA InitBarred == Init => Barred
<1> USE CallsAssumption
<1> QED
  BY DEF Init, Barred, JanitorOK, EpochOK, QuarantineOK, SetModelOK, NoOp, HoldingPC

\* Nothing is open when the slot is taken while abortPending is zero.
LEMMA NoneOpen ==
    ASSUME Base, abortPending = 0
    PROVE  \A o \in AbortOps : ops[o].st = "free"
<1>1. Open = {}
  BY OpenFinite, FS_EmptySet DEF Base, Counted
<1> QED
  BY <1>1 DEF Open

LEMMA CallBarred ==
    ASSUME Base, Slotted, Barred, NEW c \in Calls, CallStep(c)
    PROVE  Barred'
<1> USE CallsAssumption
        DEF sessionVars, abortVars, hostVars, piVars, lifeVars, Base, TypeOK, Slotted, SlotOK,
            Barred, HoldingPC, Goto
<1>1. CASE Walk(c)
  <2>1. /\ pc \in [Calls -> PCs] /\ pc' \in [Calls -> PCs]
        /\ \A d \in Calls : d # c => pc'[d] = pc[d]
        /\ UNCHANGED <<sessionVars, abortVars, hostVars, piVars, lifeVars, recent>>
    BY <1>1, WalkMoves
  <2>2. JanitorOK' /\ EpochOK'
    BY <2>1 DEF JanitorOK, EpochOK
  <2>3. /\ modelPending /\ pc'[c] \in HoldingPC => pc'[c] \in {"release", "drain"}
        /\ pc[c] = "modelWait" => setModel = 0
    BY <1>1 DEF Walk, Attach, Busy, SkipHost, SkipModel, ModelAnswered, ReadCursor, CheckAbort,
         PromptRefused, PromptAccepted, WaitSettled, SendSettled, PendingResolved, Supervise,
         RunEnded, QuarantineOK
  <2>4. QuarantineOK' /\ SetModelOK'
    BY <2>1, <2>3 DEF QuarantineOK, SetModelOK
  <2> QED
    BY <2>2, <2>4
<1>2. CASE AcquireRun(c)
  <2>1. /\ \A o \in AbortOps : ops[o].st = "free"
        /\ setModel = 0
    BY <1>2, NoneOpen DEF AcquireRun, Reservable, SetModelOK
  <2>2. JanitorOK' /\ EpochOK' /\ SetModelOK'
    BY <1>2, <2>1 DEF AcquireRun, JanitorOK, EpochOK, SetModelOK
  <2>3. QuarantineOK'
    BY <1>2 DEF AcquireRun, Reservable, QuarantineOK
  <2> QED
    BY <2>2, <2>3
<1>3. CASE RevokeGrant(c) \/ AuthorizeHost(c) \/ WritePrompt(c)
  <2>1. JanitorOK' /\ EpochOK'
    BY <1>3 DEF RevokeGrant, AuthorizeHost, WritePrompt, JanitorOK, EpochOK
  <2>2. QuarantineOK' /\ SetModelOK'
    BY <1>3 DEF RevokeGrant, AuthorizeHost, WritePrompt, QuarantineOK, SetModelOK
  <2> QED
    BY <2>1, <2>2
<1>4. CASE ReleaseRun(c)
  <2>1. JanitorOK' /\ EpochOK'
    BY <1>4 DEF ReleaseRun, JanitorOK, EpochOK
  <2>2. QuarantineOK' /\ SetModelOK'
    BY <1>4 DEF ReleaseRun, QuarantineOK, SetModelOK
  <2> QED
    BY <2>1, <2>2
<1>5. CASE RequestModel(c)
  <2>1. JanitorOK' /\ EpochOK'
    BY <1>5 DEF RequestModel, JanitorOK, EpochOK
  <2>2. QuarantineOK' /\ SetModelOK'
    BY <1>5 DEF RequestModel, QuarantineOK, SetModelOK
  <2> QED
    BY <2>1, <2>2
<1>6. CASE StartDetached(c) \/ FinishDetached(c) \/ PromptTimesOut(c)
  <2>1. JanitorOK' /\ EpochOK'
    BY <1>6 DEF StartDetached, FinishDetached, PromptTimesOut, JanitorOK, EpochOK
  <2>2. QuarantineOK' /\ SetModelOK'
    BY <1>6 DEF StartDetached, FinishDetached, PromptTimesOut, QuarantineOK, SetModelOK
  <2> QED
    BY <2>1, <2>2
<1>7. CASE ModelTimesOut(c)
  <2>1. JanitorOK' /\ EpochOK' /\ SetModelOK'
    BY <1>7 DEF ModelTimesOut, JanitorOK, EpochOK, SetModelOK
  <2>2. QuarantineOK'
    BY <1>7 DEF ModelTimesOut, QuarantineOK
  <2> QED
    BY <2>1, <2>2
<1>8. ASSUME NEW o \in AbortOps, AbortProcess(c, o)
      PROVE  Barred'
  <2>1. JanitorOK' /\ EpochOK'
    BY <1>8 DEF AbortProcess, ReserveAbort, JanitorOK, EpochOK
  <2>2. QuarantineOK' /\ SetModelOK'
    BY <1>8 DEF AbortProcess, QuarantineOK, SetModelOK
  <2> QED
    BY <2>1, <2>2
<1> QED
  BY <1>1, <1>2, <1>3, <1>4, <1>5, <1>6, <1>7, <1>8 DEF CallStep, Advance, Walk

LEMMA AbortBarred ==
    ASSUME Base, Slotted, Barred, NEW o \in AbortOps, AbortStep(o)
    PROVE  Barred'
<1> USE CallsAssumption
        DEF sessionVars, abortVars, hostVars, piVars, lifeVars, Base, TypeOK, Slotted, SlotOK,
            Barred, HoldingPC
<1>1. CASE AbortSession(o) \/ RevokeForAbort(o) \/ DispatchAbort(o)
  <2>1. JanitorOK' /\ EpochOK'
    BY <1>1 DEF AbortSession, RevokeForAbort, DispatchAbort, ReserveAbort, JanitorOK, EpochOK
  <2>2. QuarantineOK' /\ SetModelOK'
    BY <1>1 DEF AbortSession, RevokeForAbort, DispatchAbort, QuarantineOK, SetModelOK
  <2> QED
    BY <2>1, <2>2
<1>2. CASE ReleaseAbort(o) \/ AbortTimesOut(o)
  <2>1. UNCHANGED <<slot, runEpoch, modelPending, mapped, setModel>>
    BY <1>2 DEF ReleaseAbort, AbortTimesOut
  <2>2. EpochOK'
    <3>1. CASE ReleaseAbort(o)
      BY <3>1 DEF ReleaseAbort, NoOp, EpochOK
    <3>2. CASE AbortTimesOut(o)
      BY <3>2 DEF AbortTimesOut, EpochOK
    <3> QED
      BY <1>2, <3>1, <3>2
  <2>3. \/ pc' = pc
        \/ /\ ops[o].by \in Calls /\ pc[ops[o].by] \in {"abortWait", "abortWaitD"}
           /\ \E at \in {"release", "detach", "finish", "supervise"} :
                pc' = [pc EXCEPT ![ops[o].by] = at]
    BY <1>2, ReturnMoves DEF ReleaseAbort, AbortTimesOut
  <2>4. QuarantineOK' /\ SetModelOK'
    BY <2>1, <2>3 DEF QuarantineOK, SetModelOK
  <2> QED
    BY <2>1, <2>2, <2>4 DEF JanitorOK
<1> QED
  BY <1>1, <1>2 DEF AbortStep

LEMMA PiBarred ==
    ASSUME Base, Slotted, Barred, PiStep
    PROVE  Barred'
<1> USE CallsAssumption
        DEF sessionVars, abortVars, hostVars, piVars, lifeVars, Base, TypeOK, Barred
<1>1. UNCHANGED <<slot, runEpoch, modelPending, mapped, pc>>
  BY DEF PiStep, AcceptPrompt, RefusePrompt, RunOver, Settle, StrikeRun, AckAbort, RejectAbort,
         AnswerSetModel, Exit
<1>2. setModel' \in {0, setModel}
  BY DEF PiStep, AcceptPrompt, RefusePrompt, RunOver, Settle, StrikeRun, AckAbort, RejectAbort,
         AnswerSetModel, Exit
<1>3. \A o \in AbortOps : /\ ops'[o].st # "free" => ops[o].st # "free"
                          /\ ops'[o].epoch = ops[o].epoch
  BY DEF PiStep, AcceptPrompt, RefusePrompt, RunOver, Settle, StrikeRun, AckAbort, RejectAbort,
         AnswerSetModel, Exit
<1> QED
  BY <1>1, <1>2, <1>3 DEF JanitorOK, EpochOK, QuarantineOK, SetModelOK

LEMMA HostBarred ==
    ASSUME Base, Slotted, Barred, HostStep \/ LifeStep \/ QuarantineEnds
    PROVE  Barred'
<1> USE CallsAssumption
        DEF sessionVars, abortVars, hostVars, piVars, lifeVars, Base, TypeOK, Slotted, SlotOK,
            Barred
<1>1. CASE Collect
  <2>1. \A o \in AbortOps : ops[o].st = "free"
    BY <1>1, NoneOpen DEF Collect, Collectable
  <2> QED
    BY <1>1, <2>1 DEF Collect, Collectable, JanitorOK, EpochOK, QuarantineOK, SetModelOK
<1>2. CASE QuarantineEnds
  BY <1>2 DEF QuarantineEnds, JanitorOK, EpochOK, QuarantineOK, SetModelOK
<1>3. CASE HostStep \/ Delete \/ PruneExited \/ IdleTimeout \/ Touch
  BY <1>3 DEF HostStep, ExpireGrant, Disconnect, CloseRelay, Delete, PruneExited, IdleTimeout,
              Touch, JanitorOK, EpochOK, QuarantineOK, SetModelOK
<1> QED
  BY <1>1, <1>2, <1>3 DEF LifeStep

LEMMA NextBarred == Base /\ Slotted /\ Barred /\ [Next]_vars => Barred'
<1> SUFFICES ASSUME Base, Slotted, Barred, [Next]_vars PROVE Barred'
  OBVIOUS
<1>1. CASE UNCHANGED vars
  BY <1>1 DEF vars, sessionVars, abortVars, hostVars, piVars, lifeVars, Barred, JanitorOK,
              EpochOK, QuarantineOK, SetModelOK
<1> QED
  BY <1>1, CallBarred, AbortBarred, PiBarred, HostBarred DEF Next

LEMMA BarredInvariant == Spec => [](Base /\ Slotted /\ Barred)
<1> QED
  BY InitBase, InitSlotted, InitBarred, NextBase, NextSlotted, NextBarred, PTL DEF Spec

LEMMA BarredSuffices == Base /\ Slotted /\ Barred => CommandsStayInReservation
<1> SUFFICES ASSUME Base, Slotted, Barred PROVE CommandsStayInReservation
  OBVIOUS
<1>1. ASSUME setModel # 0, NEW c \in Calls, run = c \/ prompt[c] = "sent"
      PROVE  FALSE
  BY <1>1 DEF Slotted, SlotOK, PromptOK, RunOK, Prompting, Accepted, HoldingPC, Barred,
              QuarantineOK, SetModelOK
<1>2. setModel # 0 => slot # Janitor
  BY CallsAssumption DEF Slotted, SlotOK, HoldingPC, Barred, QuarantineOK, SetModelOK
<1>3. setModel # 0 => run = None
  BY <1>1 DEF Base, TypeOK
<1> QED
  BY <1>1, <1>2, <1>3 DEF Barred, EpochOK, SetModelOK, CommandsStayInReservation

\* An unanswered abort or set_model never meets a later reservation's prompt or
\* run, nor a session the janitor collected.
THEOREM CommandsStay == Spec => []CommandsStayInReservation
<1> QED
  BY BarredInvariant, BarredSuffices, PTL


-----------------------------------------------------------------------------
(* The host grant and its deadline. *)

\* Between the grant and the check for an early abort, an abort that was
\* dispatched before the grant leaves it active; the check ends the call.
Unprompted == {"model", "modelWait", "cursor", "check", "release"}

ActiveOK ==
    grant.active =>
        /\ slot \in Submitters /\ grant.epoch = runEpoch
        /\ pc[slot] \notin {"host", "drain"}
        /\ abortRequested /\ pc[slot] \notin Unprompted =>
             \E o \in AbortOps : ops[o].st = "reserved"

ArmedOK ==
    /\ grant.epoch <= runEpoch
    /\ grant.armed =>
         /\ grant.epoch = runEpoch
         /\ slot # Free \/ modelPending \/ abortPending # 0
    /\ connected /\ grant.epoch = runEpoch /\ runEpoch # 0 /\ ~grant.armed =>
         slot \in {Free, Janitor} /\ ~modelPending

Granted == ActiveOK /\ ArmedOK

LEMMA InitGranted == Init => Granted
<1> QED
  BY DEF Init, Granted, ActiveOK, ArmedOK, NoGrant

LEMMA CallGranted ==
    ASSUME Base, Slotted, Barred, Granted, NEW c \in Calls, CallStep(c)
    PROVE  Granted'
<1> USE CallsAssumption, BoundsAssumption
        DEF sessionVars, abortVars, hostVars, piVars, lifeVars, Base, TypeOK, Slotted, SlotOK,
            Granted, HoldingPC, Goto
<1>0. c \notin {Free, Janitor}
  OBVIOUS
<1>1. CASE Walk(c)
  <2>1. /\ pc \in [Calls -> PCs] /\ pc' \in [Calls -> PCs]
        /\ \A d \in Calls : d # c => pc'[d] = pc[d]
        /\ UNCHANGED <<sessionVars, abortVars, hostVars, piVars, lifeVars, recent>>
    BY <1>1, WalkMoves
  <2>2. slot = c =>
          /\ pc'[c] \notin {"host", "drain"}
          /\ abortRequested /\ pc[c] \in Unprompted => pc'[c] \in Unprompted
    BY <1>1 DEF Walk, Attach, Busy, SkipHost, SkipModel, ModelAnswered, ReadCursor, CheckAbort,
         PromptRefused, PromptAccepted, WaitSettled, SendSettled, PendingResolved, Supervise,
         RunEnded, Unprompted
  <2>3. ActiveOK'
    BY <2>1, <2>2 DEF ActiveOK, Calls
  <2>4. ArmedOK'
    BY <2>1 DEF ArmedOK
  <2> QED
    BY <2>3, <2>4
<1>2. CASE AcquireRun(c)
  <2>1. ActiveOK'
    BY <1>2 DEF AcquireRun, Reservable, ActiveOK, Calls
  <2>2. ArmedOK'
    BY <1>2 DEF AcquireRun, Reservable, ArmedOK
  <2> QED
    BY <2>1, <2>2
<1>3. CASE RevokeGrant(c)
  <2>1. ~grant'.active /\ UNCHANGED <<grant.epoch, grant.armed, slot, runEpoch, modelPending,
                                      abortPending, connected>>
    BY <1>3 DEF RevokeGrant, Revoked
  <2> QED
    BY <2>1 DEF ActiveOK, ArmedOK
<1>4. CASE AuthorizeHost(c)
  <2>1. slot = c /\ c \in Submitters /\ pc' = [pc EXCEPT ![c] = "model"]
    BY <1>4 DEF AuthorizeHost, PromptOK, HostStages
  <2>2. grant' = [epoch |-> runEpoch, active |-> TRUE, armed |-> TRUE] /\ UNCHANGED sessionVars
    BY <1>4 DEF AuthorizeHost
  <2>5. slot' = c /\ pc'[c] = "model" /\ grant'.epoch = runEpoch'
    BY <2>1, <2>2
  <2>3. ActiveOK'
    BY <2>1, <2>5 DEF ActiveOK, Unprompted
  <2>4. ArmedOK'
    BY <1>0, <2>1, <2>2 DEF ArmedOK
  <2> QED
    BY <2>3, <2>4
<1>5. CASE ReleaseRun(c)
  <2>1. slot = c /\ slot' = Free /\ ~grant.active
    BY <1>5 DEF ReleaseRun, ActiveOK
  <2>2. /\ ~grant'.active
        /\ grant'.epoch = grant.epoch
        /\ grant'.armed <=> grant.armed /\ (modelPending \/ abortPending # 0)
    BY <1>5, <2>1 DEF ReleaseRun, FinishHostIfIdle, Finished
  <2>3. UNCHANGED <<runEpoch, modelPending, abortPending, connected>>
    BY <1>5 DEF ReleaseRun
  <2>4. ArmedOK'
    BY <1>0, <2>1, <2>2, <2>3 DEF ArmedOK
  <2> QED
    BY <2>2, <2>4 DEF ActiveOK
<1>6. CASE \/ RequestModel(c) \/ WritePrompt(c) \/ StartDetached(c) \/ FinishDetached(c)
           \/ ModelTimesOut(c) \/ PromptTimesOut(c)
  <2>1. slot = c /\ UNCHANGED <<slot, runEpoch, abortRequested, abortVars, hostVars>>
    BY <1>6 DEF RequestModel, WritePrompt, StartDetached, FinishDetached, ModelTimesOut,
                PromptTimesOut
  <2>2. /\ pc'[c] \notin {"host", "drain"}
        /\ pc[c] \in Unprompted => pc'[c] \in Unprompted
    BY <1>6 DEF RequestModel, WritePrompt, StartDetached, FinishDetached, ModelTimesOut,
                PromptTimesOut, Unprompted
  <2>3. ActiveOK'
    BY <2>1, <2>2 DEF ActiveOK
  <2>4. ArmedOK'
    BY <1>0, <2>1 DEF ArmedOK
  <2> QED
    BY <2>3, <2>4
<1>7. ASSUME NEW o \in AbortOps, AbortProcess(c, o)
      PROVE  Granted'
  <2>1. /\ slot = c /\ pc[c] \notin Unprompted /\ pc'[c] \notin {"host", "drain"}
        /\ UNCHANGED <<sessionVars, hostVars>>
    BY <1>7 DEF AbortProcess, Unprompted
  <2>2. \A p \in AbortOps : ops[p].st = "reserved" => ops'[p].st = "reserved"
    BY <1>7 DEF AbortProcess, ReserveAbort, NoOp
  <2>3. ActiveOK'
    BY <2>1, <2>2 DEF ActiveOK
  <2>4. ArmedOK'
    BY <1>0, <2>1 DEF ArmedOK
  <2> QED
    BY <2>3, <2>4
<1> QED
  BY <1>1, <1>2, <1>3, <1>4, <1>5, <1>6, <1>7 DEF CallStep, Advance, Walk

LEMMA AbortGranted ==
    ASSUME Base, Slotted, Barred, Granted, NEW o \in AbortOps, AbortStep(o)
    PROVE  Granted'
<1> USE CallsAssumption, BoundsAssumption
        DEF sessionVars, abortVars, hostVars, piVars, lifeVars, Base, TypeOK, Slotted, SlotOK,
            Granted, HoldingPC
<1>1. CASE AbortSession(o)
  <2>1. ops'[o].st = "reserved" /\ UNCHANGED <<slot, runEpoch, modelPending, hostVars, pc>>
    BY <1>1 DEF AbortSession, ReserveAbort
  <2>2. abortPending' # 0
    BY <1>1 DEF AbortSession, ReserveAbort
  <2> QED
    BY <2>1, <2>2 DEF ActiveOK, ArmedOK
<1>2. CASE RevokeForAbort(o)
  <2>1. ~grant'.active /\ UNCHANGED <<grant.epoch, grant.armed, slot, runEpoch, modelPending,
                                      abortPending, connected>>
    BY <1>2 DEF RevokeForAbort, Revoked
  <2> QED
    BY <2>1 DEF ActiveOK, ArmedOK
<1>3. CASE DispatchAbort(o)
  <2>1. \A p \in AbortOps : ops[p].st = "reserved" => ops'[p].st = "reserved"
    BY <1>3 DEF DispatchAbort
  <2>2. UNCHANGED <<sessionVars, abortPending, hostVars, pc>>
    BY <1>3 DEF DispatchAbort
  <2> QED
    BY <2>1, <2>2 DEF ActiveOK, ArmedOK
<1>4. CASE ReleaseAbort(o) \/ AbortTimesOut(o)
  <2>1. \A p \in AbortOps : ops[p].st = "reserved" => ops'[p].st = "reserved"
    <3>1. CASE ReleaseAbort(o)
      BY <3>1 DEF ReleaseAbort, NoOp
    <3>2. CASE AbortTimesOut(o)
      BY <3>2 DEF AbortTimesOut
    <3> QED
      BY <1>4, <3>1, <3>2
  <2>2. \/ pc' = pc
        \/ /\ ops[o].by \in Calls /\ pc[ops[o].by] \in {"abortWait", "abortWaitD"}
           /\ \E at \in {"release", "detach", "finish", "supervise"} :
                pc' = [pc EXCEPT ![ops[o].by] = at]
    BY <1>4, ReturnMoves DEF ReleaseAbort, AbortTimesOut
  <2>3. /\ grant'.active <=> grant.active
        /\ grant'.epoch = grant.epoch
    BY <1>4 DEF ReleaseAbort, AbortTimesOut, FinishHostIfIdle, Finished
  <2>4. UNCHANGED <<sessionVars, connected>>
    BY <1>4 DEF ReleaseAbort, AbortTimesOut
  <2>5. ActiveOK'
    BY <2>1, <2>2, <2>3, <2>4 DEF ActiveOK, Unprompted, Calls
  <2>6. \/ abortPending' = abortPending /\ grant' = grant
        \/ grant'.armed <=> grant.armed /\ (slot # Free \/ modelPending \/ abortPending' # 0)
    BY <1>4 DEF ReleaseAbort, AbortTimesOut, FinishHostIfIdle, Finished
  <2>7. ArmedOK'
    BY <2>3, <2>4, <2>6 DEF ArmedOK
  <2> QED
    BY <2>5, <2>7
<1> QED
  BY <1>1, <1>2, <1>3, <1>4 DEF AbortStep

LEMMA PiGranted ==
    ASSUME Base, Slotted, Barred, Granted, PiStep
    PROVE  Granted'
<1>1. UNCHANGED <<sessionVars, abortPending, hostVars, pc>>
  BY DEF PiStep, AcceptPrompt, RefusePrompt, RunOver, Settle, StrikeRun, AckAbort, RejectAbort,
         AnswerSetModel, Exit, abortVars
<1>2. \A o \in AbortOps : ops[o].st = "reserved" => ops'[o].st = "reserved"
  BY DEF PiStep, AcceptPrompt, RefusePrompt, RunOver, Settle, StrikeRun, AckAbort, RejectAbort,
         AnswerSetModel, Exit, abortVars, Base, TypeOK
<1> QED
  BY <1>1, <1>2 DEF sessionVars, hostVars, Granted, ActiveOK, ArmedOK

LEMMA HostGranted ==
    ASSUME Base, Slotted, Barred, Granted, HostStep \/ LifeStep \/ QuarantineEnds
    PROVE  Granted'
<1> USE CallsAssumption, BoundsAssumption
        DEF sessionVars, abortVars, hostVars, piVars, lifeVars, Base, TypeOK, Granted
<1>1. CASE HostStep
  <2>1. ~grant'.active /\ grant'.epoch = grant.epoch
    BY <1>1 DEF HostStep, ExpireGrant, Disconnect, CloseRelay, Revoked, Finished
  <2>2. \/ (grant'.armed <=> grant.armed) /\ (connected' <=> connected)
        \/ ~grant'.armed /\ ~connected'
    BY <1>1 DEF HostStep, ExpireGrant, Disconnect, CloseRelay, Revoked, Finished
  <2>3. UNCHANGED <<sessionVars, abortVars>>
    BY <1>1 DEF HostStep, ExpireGrant, Disconnect, CloseRelay
  <2> QED
    BY <2>1, <2>2, <2>3 DEF ActiveOK, ArmedOK
<1>2. CASE Delete \/ PruneExited \/ IdleTimeout \/ Touch
  <2>1. UNCHANGED <<sessionVars, abortVars, hostVars, pc>>
    BY <1>2 DEF Delete, PruneExited, IdleTimeout, Touch
  <2> QED
    BY <2>1 DEF ActiveOK, ArmedOK
<1>3. CASE Collect
  <2>1. /\ slot = Free /\ slot' = Janitor /\ ~modelPending /\ abortPending = 0
        /\ UNCHANGED <<runEpoch, modelPending, abortVars, hostVars>>
    BY <1>3 DEF Collect, Collectable
  <2>2. ~grant.active
    BY <2>1 DEF ActiveOK, Calls
  <2> QED
    BY <2>1, <2>2 DEF ActiveOK, ArmedOK
<1>4. CASE QuarantineEnds
  <2>1. /\ grant'.active <=> grant.active
        /\ grant'.epoch = grant.epoch
        /\ grant'.armed <=> grant.armed /\ (slot # Free \/ abortPending # 0)
    BY <1>4 DEF QuarantineEnds, FinishHostIfIdle, Finished
  <2>2. /\ modelPending /\ ~modelPending'
        /\ UNCHANGED <<slot, runEpoch, abortRequested, abortVars, connected, pc>>
    BY <1>4 DEF QuarantineEnds
  <2>3. ActiveOK'
    BY <2>1, <2>2 DEF ActiveOK
  <2>4. ArmedOK'
    BY <2>1, <2>2 DEF ArmedOK
  <2> QED
    BY <2>3, <2>4
<1> QED
  BY <1>1, <1>2, <1>3, <1>4 DEF LifeStep

LEMMA NextGranted == Base /\ Slotted /\ Barred /\ Granted /\ [Next]_vars => Granted'
<1> SUFFICES ASSUME Base, Slotted, Barred, Granted, [Next]_vars PROVE Granted'
  OBVIOUS
<1>1. CASE UNCHANGED vars
  BY <1>1 DEF vars, sessionVars, abortVars, hostVars, Granted, ActiveOK, ArmedOK
<1> QED
  BY <1>1, CallGranted, AbortGranted, PiGranted, HostGranted DEF Next

LEMMA GrantedInvariant == Spec => [](Base /\ Slotted /\ Barred /\ Granted)
<1> QED
  BY InitBase, InitSlotted, InitBarred, InitGranted, NextBase, NextSlotted, NextBarred,
     NextGranted, PTL DEF Spec

\* Host tools are usable only in the reservation they were authorized for, and
\* after an abort only until it gets to revoke them.
THEOREM GrantsStay == Spec => []GrantInReservation
<1>1. Base /\ Slotted /\ Granted => GrantInReservation
  BY DEF Base, TypeOK, Slotted, SlotOK, RunOK, Prompting, Accepted, HoldingPC, Calls, Granted,
         ActiveOK, Unprompted, GrantInReservation
<1> QED
  BY <1>1, GrantedInvariant, PTL

\* No command, no settlement and no grant of one reservation reaches another.
THEOREM ReservationsIsolated == Spec => []ReservationIsolated
<1>1. TypeOK /\ CommandsStayInReservation /\ SettledIsOwn /\ GrantInReservation
        => ReservationIsolated
  BY DEF ReservationIsolated
<1> QED
  BY <1>1, TypeCorrect, CommandsStay, SettlementsAreOwn, GrantsStay, PTL

\* A deadline never stops a later reservation or an idle session, and covers
\* its own as long as the extension is connected.
THEOREM DeadlinesExact == Spec => []DeadlineExact
<1>1. ASSUME Base, Slotted, Barred, Granted
      PROVE  DeadlineExact
  <2>1. ASSUME connected, grant.epoch = runEpoch, runEpoch # 0, ~grant.armed
        PROVE  run = None /\ setModel = 0 /\ \A c \in Calls : prompt[c] # "sent"
    <3>1. \A c \in Calls : pc[c] \notin HoldingPC
      BY <1>1, <2>1, CallsAssumption DEF Slotted, SlotOK, Granted, ArmedOK
    <3> QED
      BY <1>1, <2>1, <3>1 DEF Base, TypeOK, Slotted, PromptOK, RunOK, Prompting, Accepted,
         HoldingPC, Barred, SetModelOK, Granted, ArmedOK
  <2> QED
    BY <1>1, <2>1 DEF Granted, ArmedOK, DeadlineExact
<1> QED
  BY <1>1, GrantedInvariant, PTL


-----------------------------------------------------------------------------
(* Cancellations. *)

\* As CancelNotLost, with the way from an abort that its call gave up on to the
\* supervision of the run it has not ended.
Cancelled(c) ==
    \/ pc[c] \in {"detach", "verify", "supervise"} /\ c \in Senders
    \/ pc[c] \in {"settling", "supervise"} /\ abortRequested

AbortUnderWay == \E o \in AbortOps : ops[o].st \in {"reserved", "ready", "sent"}

Replayed ==
    /\ \A o \in AbortOps : ops[o].st = "failed" => proc = "exited"
    /\ \A c \in Calls : run = c /\ Cancelled(c) => AbortUnderWay

LEMMA CallReplayed ==
    ASSUME Base, Slotted, Replayed, NEW c \in Calls, CallStep(c)
    PROVE  Replayed'
<1> USE CallsAssumption
        DEF sessionVars, abortVars, hostVars, piVars, lifeVars, Base, TypeOK, Slotted, SlotOK,
            HoldingPC, Goto, Replayed, Cancelled, AbortUnderWay
<1>1. CASE Walk(c)
  <2>1. /\ pc \in [Calls -> PCs] /\ pc' \in [Calls -> PCs]
        /\ \A d \in Calls : d # c => pc'[d] = pc[d]
        /\ UNCHANGED <<sessionVars, abortVars, hostVars, piVars, lifeVars, recent>>
    BY <1>1, WalkMoves
  <2>2. run = c /\ Cancelled(c)' => Cancelled(c)
    BY <1>1, <2>1 DEF Walk, Attach, Busy, SkipHost, SkipModel, ModelAnswered, ReadCursor,
         CheckAbort,
         PromptRefused, PromptAccepted, WaitSettled, SendSettled, PendingResolved, Supervise,
         RunEnded, RunOK, Prompting, Accepted, Calls
  <2> QED
    BY <2>1, <2>2
<1>2. CASE AcquireRun(c)
  BY <1>2 DEF AcquireRun, Reservable
<1>3. CASE RevokeGrant(c) \/ AuthorizeHost(c) \/ RequestModel(c) \/ WritePrompt(c) \/ ReleaseRun(c)
  BY <1>3 DEF RevokeGrant, AuthorizeHost, RequestModel, WritePrompt, ReleaseRun
<1>4. CASE StartDetached(c)
  BY <1>4 DEF StartDetached
<1>5. CASE FinishDetached(c) \/ ModelTimesOut(c) \/ PromptTimesOut(c)
  BY <1>5 DEF FinishDetached, ModelTimesOut, PromptTimesOut
<1>6. ASSUME NEW o \in AbortOps, AbortProcess(c, o)
      PROVE  Replayed'
  <2>1. /\ ops'[o].st = "ready"
        /\ \A p \in AbortOps : ops'[p].st = "failed" => ops[p].st = "failed"
        /\ proc' = proc
    BY <1>6 DEF AbortProcess, ReserveAbort
  <2> QED
    BY <2>1
<1> QED
  BY <1>1, <1>2, <1>3, <1>4, <1>5, <1>6 DEF CallStep, Advance, Walk



LEMMA AbortReplayed ==
    ASSUME Base, Slotted, Replayed, NEW o \in AbortOps, AbortStep(o)
    PROVE  Replayed'
<1> USE CallsAssumption
        DEF sessionVars, abortVars, hostVars, piVars, lifeVars, Base, TypeOK, Replayed
<1>1. CASE AbortSession(o)
  <2>1. /\ ops'[o].st = "reserved"
        /\ \A p \in AbortOps : ops'[p].st = "failed" => ops[p].st = "failed"
        /\ proc' = proc
    BY <1>1 DEF AbortSession, ReserveAbort
  <2> QED
    BY <2>1 DEF AbortUnderWay
<1>2. CASE RevokeForAbort(o)
  <2>1. /\ ops'[o].st = "ready"
        /\ \A p \in AbortOps : ops'[p].st = "failed" => ops[p].st = "failed"
        /\ proc' = proc
    BY <1>2 DEF RevokeForAbort
  <2> QED
    BY <2>1 DEF AbortUnderWay
<1>3. CASE DispatchAbort(o)
  <2>1. /\ proc # "exited" => ops'[o].st = "sent"
        /\ \A p \in AbortOps : ops'[p].st = "failed" => ops[p].st = "failed" \/ proc = "exited"
        /\ UNCHANGED <<proc, run>>
    BY <1>3 DEF DispatchAbort
  <2> QED
    BY <2>1 DEF AbortUnderWay, Slotted, ExitOK
<1>4. CASE ReleaseAbort(o) \/ AbortTimesOut(o)
  <2>1. /\ \A p \in AbortOps : ops[p].st \in {"reserved", "ready", "sent"} => ops'[p].st = ops[p].st
        /\ \A p \in AbortOps : ops'[p].st = "failed" => ops[p].st = "failed"
        /\ UNCHANGED <<proc, run, abortRequested>>
    <3>1. CASE ReleaseAbort(o)
      BY <3>1 DEF ReleaseAbort, NoOp
    <3>2. CASE AbortTimesOut(o)
      BY <3>2 DEF AbortTimesOut
    <3> QED
      BY <1>4, <3>1, <3>2
  <2>2. AbortUnderWay => AbortUnderWay'
    BY <2>1 DEF AbortUnderWay
  <2>3. CASE pc' = pc
    BY <2>1, <2>2, <2>3 DEF Cancelled
  <2>4. CASE ops[o].by # None
    <3>1. run # None => ops[o].st \in {"ready", "sent"}
      BY <2>4 DEF CallersWait, Slotted, AckOK, ExitOK
    <3>2. run \in Calls => AbortUnderWay
      BY <3>1 DEF AbortUnderWay
    <3> QED
      BY <2>1, <2>2, <3>2
  <2> QED
    BY <1>4, <2>3, <2>4 DEF ReleaseAbort, AbortTimesOut
<1> QED
  BY <1>1, <1>2, <1>3, <1>4 DEF AbortStep

LEMMA PiReplayed ==
    ASSUME Base, Slotted, Replayed, PiStep, NoRefusal'
    PROVE  Replayed'
<1> USE CallsAssumption
        DEF sessionVars, abortVars, hostVars, piVars, lifeVars, Base, TypeOK, Replayed
<1>1. ASSUME NEW c \in Calls, AcceptPrompt(c) \/ RefusePrompt(c)
      PROVE  Replayed'
  BY <1>1 DEF AcceptPrompt, RefusePrompt, Slotted, PromptOK, Prompting, Cancelled, AbortUnderWay
<1>2. CASE RunOver \/ AnswerSetModel
  BY <1>2 DEF RunOver, AnswerSetModel, Cancelled, AbortUnderWay
<1>3. ASSUME NEW o \in AbortOps, AckAbort(o)
      PROVE  Replayed'
  BY <1>3 DEF AckAbort
<1>4. CASE Exit
  BY <1>4 DEF Exit
<1>5. ASSUME NEW o \in AbortOps, RejectAbort(o)
      PROVE  FALSE
  BY <1>5 DEF RejectAbort, NoRefusal
<1> QED
  BY <1>1, <1>2, <1>3, <1>4, <1>5 DEF PiStep, Settle, StrikeRun

LEMMA NextReplayed == Base /\ Slotted /\ Replayed /\ [Next]_vars /\ NoRefusal' => Replayed'
<1> SUFFICES ASSUME Base, Slotted, Replayed, [Next]_vars, NoRefusal' PROVE Replayed'
  OBVIOUS
<1>1. CASE HostStep \/ LifeStep \/ QuarantineEnds \/ UNCHANGED vars
  <2>1. UNCHANGED <<abortRequested, ops, run, pc>> /\ (proc = "exited" => proc' = "exited")
    BY <1>1 DEF HostStep, ExpireGrant, Disconnect, CloseRelay, LifeStep, Delete, PruneExited,
         IdleTimeout, Touch, Collect, QuarantineEnds, Stopping, vars, sessionVars, abortVars,
         hostVars, piVars, lifeVars
  <2> QED
    BY <2>1 DEF Replayed, Cancelled, AbortUnderWay
<1> QED
  BY <1>1, CallReplayed, AbortReplayed, PiReplayed DEF Next

\* If pi refuses no abort, a run that somebody cancelled always has an abort
\* under way, wherever its call was when the cancellation came.
THEOREM CancellationsReplayed == Spec => CancelNotLost
<1>1. Init => Replayed
  BY CallsAssumption DEF Init, Replayed, NoOp
<1>2. Base /\ Slotted /\ Replayed /\ [Next]_vars /\ NoRefusal' => (Base /\ Slotted /\ Replayed)'
  BY NextBase, NextSlotted, NextReplayed
<1>3. Replayed => CancelUnderWay
  BY DEF Replayed, Cancelled, AbortUnderWay, CancelUnderWay
<1> QED
  BY <1>1, <1>2, <1>3, InitBase, InitSlotted, PTL DEF Spec, CancelNotLost

-----------------------------------------------------------------------------
(* The session implements OneRun. *)

Holder == IF slot = Free THEN None ELSE slot
Ran == slot \in Calls /\ prompt[slot] = "accepted"
Outstanding == setModel # 0 \/ \E o \in AbortOps : ops[o].st = "sent"

\* A step that leaves reservation and run alone only asks pi or answers.
LEMMA SameRun == UNCHANGED <<Holder, run, Ran>> => Service!Next
<1> SUFFICES ASSUME UNCHANGED <<Holder, run, Ran>> PROVE Service!Next
  OBVIOUS
<1>1. CASE Outstanding'
  BY <1>1 DEF Service!Next, Service!Ask, Holder, Ran, Outstanding
<1>2. CASE ~Outstanding'
  BY <1>2 DEF Service!Next, Service!Answer, Holder, Ran, Outstanding
<1> QED
  BY <1>1, <1>2

LEMMA CallServes ==
    ASSUME Base, Slotted, Barred, NEW c \in Calls, CallStep(c)
    PROVE  [Service!Next]_Service!vars
<1> USE CallsAssumption
        DEF sessionVars, abortVars, hostVars, piVars, lifeVars, Base, TypeOK, Goto
<1>1. CASE Walk(c)
  <2>1. UNCHANGED <<slot, prompt, run>>
    BY <1>1, WalkMoves
  <2> QED
    BY <2>1, SameRun DEF Holder, Ran
<1>2. CASE AcquireRun(c)
  <2>1. \A o \in AbortOps : ops[o].st = "free"
    BY <1>2, NoneOpen DEF AcquireRun, Reservable
  <2>2. slot = Free /\ slot' = c /\ UNCHANGED <<prompt, run, setModel, ops>>
    BY <1>2 DEF AcquireRun, Reservable
  <2>3. run = None /\ prompt[c] = "none" /\ setModel = 0
    BY <1>2, <2>2 DEF AcquireRun, Reservable, Slotted, SlotOK, PromptOK, RunOK, Prompting,
                      Accepted, HoldingPC, Barred, SetModelOK
  <2>4. /\ Holder = None /\ Holder' = c
        /\ ~Ran /\ ~Ran' /\ ~Outstanding /\ ~Outstanding'
    BY <2>1, <2>2, <2>3 DEF Holder, Ran, Outstanding
  <2>5. Service!Reserve(c)
    BY <2>2, <2>3, <2>4 DEF Service!Reserve, Service!Quiet, Holder, Ran, Outstanding
  <2> QED
    BY <2>5 DEF Service!Next
<1>3. CASE \/ RevokeGrant(c) \/ AuthorizeHost(c) \/ RequestModel(c) \/ StartDetached(c)
           \/ FinishDetached(c) \/ ModelTimesOut(c) \/ PromptTimesOut(c)
           \/ \E o \in AbortOps : AbortProcess(c, o)
  <2>1. UNCHANGED <<slot, prompt, run>>
    BY <1>3 DEF RevokeGrant, AuthorizeHost, RequestModel, StartDetached, FinishDetached,
                ModelTimesOut, PromptTimesOut, AbortProcess
  <2> QED
    BY <2>1, SameRun DEF Holder, Ran
<1>4. CASE ReleaseRun(c)
  <2>1. slot = c /\ slot' = Free /\ UNCHANGED <<run, setModel, ops>>
    BY <1>4 DEF ReleaseRun, Slotted, SlotOK, HoldingPC
  <2>2. run = None
    BY <1>4, <2>1 DEF ReleaseRun, Slotted, SlotOK, RunOK, Prompting, Accepted, HoldingPC
  <2>3. /\ Holder = c /\ Holder' = None /\ ~Ran'
        /\ Outstanding' = Outstanding
    BY <2>1 DEF Holder, Ran, Outstanding
  <2>4. Service!Release
    BY <2>1, <2>2, <2>3 DEF Service!Release, Holder, Ran, Outstanding
  <2> QED
    BY <2>4 DEF Service!Next
<1>5. CASE WritePrompt(c)
  <2>1. UNCHANGED <<slot, run>>
    BY <1>5 DEF WritePrompt
  <2>2. /\ prompt[c] # "accepted" /\ prompt'[c] # "accepted"
        /\ \A d \in Calls : d # c => prompt'[d] = prompt[d]
    BY <1>5 DEF WritePrompt, Slotted, PromptOK
  <2> QED
    BY <2>1, <2>2, SameRun DEF Holder, Ran
<1> QED
  BY <1>1, <1>2, <1>3, <1>4, <1>5 DEF CallStep, Advance, Walk

LEMMA AbortServes ==
    ASSUME NEW o \in AbortOps, AbortStep(o)
    PROVE  Service!Next
<1>1. UNCHANGED <<slot, prompt, run>>
  BY DEF AbortStep, AbortSession, RevokeForAbort, DispatchAbort, ReleaseAbort, AbortTimesOut,
         sessionVars, piVars
<1> QED
  BY <1>1, SameRun DEF Holder, Ran

LEMMA PiServes ==
    ASSUME Base, Slotted, PiStep
    PROVE  Service!Next
<1> USE CallsAssumption
        DEF sessionVars, abortVars, hostVars, piVars, lifeVars, Base, TypeOK
<1>1. ASSUME NEW c \in Calls, AcceptPrompt(c)
      PROVE  Service!Start
  <2>1. /\ slot = c /\ run = None /\ run' = c /\ prompt[c] = "sent" /\ prompt'[c] = "accepted"
        /\ UNCHANGED <<slot, setModel, ops>>
    BY <1>1 DEF AcceptPrompt, Slotted, SlotOK, PromptOK, Prompting, HoldingPC
  <2>2. /\ Holder = c /\ Holder' = c /\ ~Ran /\ Ran'
        /\ Outstanding' = Outstanding
    BY <2>1 DEF Holder, Ran, Outstanding
  <2> QED
    BY <2>1, <2>2 DEF Service!Start, Holder, Ran, Outstanding
<1>2. ASSUME NEW c \in Calls, RefusePrompt(c)
      PROVE  Service!Next
  <2>1. UNCHANGED <<Holder, run, Ran>>
    BY <1>2 DEF RefusePrompt, Holder, Ran
  <2> QED
    BY <2>1, SameRun
<1>3. CASE RunOver
  <2>1. run # None /\ run' = None /\ UNCHANGED <<slot, prompt, setModel, ops>>
    BY <1>3 DEF RunOver
  <2> QED
    BY <2>1 DEF Service!Next, Service!End
<1>4. CASE AnswerSetModel \/ \E o \in AbortOps : AckAbort(o) \/ RejectAbort(o)
  <2>1. UNCHANGED <<slot, prompt, run>>
    BY <1>4 DEF AnswerSetModel, AckAbort, RejectAbort
  <2> QED
    BY <2>1, SameRun DEF Holder, Ran
<1>5. CASE Exit
  <2>1. /\ run' = None /\ slot' = slot /\ setModel' = 0
        /\ \A c \in Calls : prompt'[c] = "accepted" <=> prompt[c] = "accepted"
        /\ \A o \in AbortOps : ops'[o].st # "sent"
    BY <1>5 DEF Exit
  <2>2. UNCHANGED <<Holder, Ran>> /\ ~Outstanding'
    BY <2>1 DEF Holder, Ran, Outstanding
  <2> QED
    BY <2>1, <2>2 DEF Service!Next, Service!Crash, Holder, Ran, Outstanding
<1> QED
  BY <1>1, <1>2, <1>3, <1>4, <1>5 DEF PiStep, Settle, StrikeRun, Service!Next

LEMMA HostServes ==
    ASSUME Base, Slotted, Barred, HostStep \/ LifeStep \/ QuarantineEnds
    PROVE  Service!Next
<1> USE CallsAssumption
        DEF sessionVars, abortVars, hostVars, piVars, lifeVars, Base, TypeOK
<1>1. CASE Collect
  <2>1. \A o \in AbortOps : ops[o].st = "free"
    BY <1>1, NoneOpen DEF Collect, Collectable
  <2>2. slot = Free /\ slot' = Janitor /\ UNCHANGED <<prompt, run, setModel, ops>>
    BY <1>1 DEF Collect, Collectable
  <2>3. run = None /\ setModel = 0
    BY <1>1, <2>2 DEF Collect, Collectable, Slotted, SlotOK, RunOK, Prompting, Accepted,
                      HoldingPC, Barred, SetModelOK
  <2>4. /\ Holder = None /\ Holder' = Janitor
        /\ ~Ran /\ ~Ran' /\ ~Outstanding /\ ~Outstanding'
    BY <2>1, <2>2, <2>3 DEF Holder, Ran, Outstanding
  <2>5. Service!Close
    BY <2>2, <2>3, <2>4 DEF Service!Close, Service!Quiet, Holder, Ran, Outstanding
  <2> QED
    BY <2>5 DEF Service!Next
<1>2. CASE HostStep \/ Delete \/ PruneExited \/ IdleTimeout \/ Touch \/ QuarantineEnds
  <2>1. UNCHANGED <<slot, prompt, run>>
    BY <1>2 DEF HostStep, ExpireGrant, Disconnect, CloseRelay, Delete, PruneExited, IdleTimeout,
                Touch, QuarantineEnds
  <2> QED
    BY <2>1, SameRun DEF Holder, Ran
<1> QED
  BY <1>1, <1>2 DEF LifeStep

\* None of the timeouts, barriers and supervisors can be seen by a caller: a
\* session behaves like the service that does one run at a time.
THEOREM ImplementsOneRun == Spec => ServiceSpec
<1>1. Init => Service!Init
  BY CallsAssumption DEF Init, Service!Init, NoOp
<1>2. Base /\ Slotted /\ Barred /\ [Next]_vars => [Service!Next]_Service!vars
  <2> SUFFICES ASSUME Base, Slotted, Barred, [Next]_vars
               PROVE  [Service!Next]_Service!vars
    OBVIOUS
  <2>1. CASE UNCHANGED vars
    BY <2>1 DEF vars, sessionVars, abortVars, piVars, Service!vars
  <2> QED
    BY <2>1, CallServes, AbortServes, PiServes, HostServes DEF Next
<1> QED
  BY <1>1, <1>2, BarredInvariant, PTL DEF Spec, ServiceSpec, Service!Spec

-----------------------------------------------------------------------------
(* The readers of PiReaders: what Entries and Turn conclude from what they  *)
(* sampled, while reservations come and go.                                 *)

\* The stages in which s.turn points to the call; those left once it is gone.
Detached == {"pendingPrompt", "verify", "replay", "abortWaitD", "supervise", "finish"}
Past == {"release", "drain"}
Late == {"verify", "abortWaitD", "supervise", "finish"} \cup Past

TurnOK == \A c \in Calls : turn = c <=> pc[c] \in Detached

\* Nothing of the current reservation can still write an entry.
Resting == slot \notin Calls /\ setModel = 0

Entry == [of : Nat, asks : BOOLEAN]

ReadTypes ==
    /\ entries \in Seq(Entry)
    /\ cursors \subseteq Nat
    /\ lister \in [Listers -> [at : {"idle", "state", "fetch", "verdict", "answered"},
                               epoch : Nat, running : BOOLEAN, seen : Nat]]
    /\ poller \in [Pollers -> [at : {"idle", "turn", "state", "wait", "result", "answered"},
                               epoch : Nat, waitFor : Nat, result : Nat]]

\* A listing that found no flag, and whose epoch still is the current one, has
\* seen a session at rest ever since.
ListersOK ==
    \A l \in Listers :
        /\ lister[l].epoch <= runEpoch
        /\ lister[l].at = "state" => ~lister[l].running
        /\ lister[l].at \in {"state", "fetch", "verdict"} /\ ~lister[l].running
             /\ lister[l].epoch = runEpoch =>
           Resting /\ (lister[l].at = "verdict" => lister[l].seen = Len(entries))

\* A cursor is handed out once its run is detached.
CursorsOK ==
    \A e \in cursors :
        /\ e <= runEpoch
        /\ e = runEpoch /\ slot \in Calls => pc[slot] \in Late

\* A poller that found no detached turn finds none of its reservation later.
PollersOK ==
    \A p \in Pollers :
        /\ poller[p].at # "idle" => poller[p].epoch \in cursors
        /\ poller[p].at \in {"state", "result"} /\ poller[p].epoch = runEpoch
             /\ slot \in Calls => pc[slot] \in Past

\* pi's session has the messages in the order of their reservations, of which
\* there is none before the first.
Chronicle ==
    /\ slot \in Calls => runEpoch # 0
    /\ 0 \notin cursors
    /\ \A i \in DOMAIN entries :
          entries[i].of <= runEpoch /\ (entries[i].asks => entries[i].of # 0)
    /\ \A i, j \in DOMAIN entries :
          i < j /\ entries[j].of # 0 => entries[i].of <= entries[j].of

\* A step of the session takes the slot only in a new reservation; within one,
\* a session at rest stays so, and a detached run goes on to its end.
Onward ==
    /\ runEpoch' \in {runEpoch, runEpoch + 1}
    /\ runEpoch' = runEpoch =>
        /\ slot' \in Calls => slot' = slot
        /\ Resting => Resting'
        /\ slot \in Calls /\ slot' \in Calls /\ pc[slot] \in Late => pc'[slot] \in Late
        /\ slot \in Calls /\ slot' \in Calls /\ pc[slot] \in Past => pc'[slot] \in Past

LEMMA WalkOnward ==
    ASSUME Base, Slotted, TurnOK, NEW c \in Calls, Walk(c)
    PROVE  Onward /\ TurnOK'
<1> USE CallsAssumption, WalkMoves
        DEF sessionVars, abortVars, hostVars, piVars, lifeVars, Base, TypeOK
<1>0. /\ pc \in [Calls -> PCs] /\ pc' \in [Calls -> PCs]
      /\ \A d \in Calls : d # c => pc'[d] = pc[d]
      /\ UNCHANGED <<slot, runEpoch, setModel, turn>>
  OBVIOUS
<1>1. /\ pc'[c] \in Detached <=> pc[c] \in Detached
      /\ pc[c] \in Late => pc'[c] \in Late
      /\ pc[c] \in Past => pc'[c] \in Past
  BY DEF Walk, Attach, Busy, SkipHost, SkipModel, ModelAnswered, ReadCursor, CheckAbort,
         PromptRefused, PromptAccepted, WaitSettled, SendSettled, PendingResolved, Supervise,
         RunEnded, Goto, Detached, Late, Past
<1>2. TurnOK'
  BY <1>0, <1>1 DEF TurnOK
<1>3. Onward
  BY <1>0, <1>1 DEF Onward, Resting
<1> QED
  BY <1>2, <1>3

LEMMA CallOnward ==
    ASSUME Base, Slotted, TurnOK, NEW c \in Calls, CallStep(c)
    PROVE  Onward /\ TurnOK'
<1> USE CallsAssumption
        DEF sessionVars, abortVars, hostVars, piVars, lifeVars, Base, TypeOK, Slotted, SlotOK,
            TurnOK, Goto, HoldingPC
<1>1. CASE Walk(c)
  BY <1>1, WalkOnward
<1>2. CASE AcquireRun(c)
  <2>1. runEpoch' = runEpoch + 1 /\ runEpoch \in Nat
    BY <1>2, BoundsAssumption DEF AcquireRun
  <2>2. TurnOK'
    BY <1>2 DEF AcquireRun, Detached
  <2> QED
    BY <2>1, <2>2 DEF Onward
<1>3. CASE RevokeGrant(c) \/ AuthorizeHost(c) \/ RequestModel(c) \/ ModelTimesOut(c) \/ WritePrompt(c)
  <2>1. /\ slot = c /\ pc[c] \notin Detached /\ pc'[c] \notin Detached /\ pc[c] \notin Late \ Past
        /\ pc[c] \in Past => pc'[c] \in Past
        /\ \A d \in Calls : d # c => pc'[d] = pc[d]
        /\ UNCHANGED <<slot, runEpoch, turn>>
    BY <1>3 DEF RevokeGrant, AuthorizeHost, RequestModel, ModelTimesOut, WritePrompt, Detached,
                Late, Past
  <2>2. TurnOK'
    BY <2>1
  <2> QED
    BY <2>1, <2>2 DEF Onward, Resting, Late
<1>4. CASE ReleaseRun(c)
  <2>1. TurnOK'
    BY <1>4 DEF ReleaseRun, Detached
  <2> QED
    BY <1>4, <2>1 DEF ReleaseRun, Onward, Resting
<1>5. CASE StartDetached(c) \/ PromptTimesOut(c)
  <2>1. /\ slot = c /\ turn' = c /\ pc[c] \notin Late /\ pc'[c] \in Detached
        /\ \A d \in Calls : d # c => pc'[d] = pc[d] /\ pc[d] \notin HoldingPC
        /\ UNCHANGED <<slot, runEpoch>>
    BY <1>5 DEF StartDetached, PromptTimesOut, Detached, Late, Past
  <2>2. TurnOK'
    BY <2>1 DEF Detached
  <2> QED
    BY <2>1, <2>2 DEF Onward, Resting, Late, Past
<1>6. CASE FinishDetached(c)
  <2>1. /\ slot = c /\ turn = c /\ turn' = None /\ pc'[c] \in Past /\ pc'[c] \notin Detached
        /\ \A d \in Calls : d # c => pc'[d] = pc[d] /\ pc[d] \notin HoldingPC
        /\ pc[c] \notin Past
        /\ UNCHANGED <<slot, runEpoch>>
    BY <1>6 DEF FinishDetached, Detached, Past
  <2>2. TurnOK'
    BY <2>1 DEF Detached
  <2> QED
    BY <2>1, <2>2 DEF Onward, Resting, Late
<1>7. ASSUME NEW o \in AbortOps, AbortProcess(c, o)
      PROVE  Onward /\ TurnOK'
  <2>1. /\ pc'[c] \in Detached <=> pc[c] \in Detached
        /\ pc[c] \in Late => pc'[c] \in Late
        /\ pc[c] \notin Past
        /\ \A d \in Calls : d # c => pc'[d] = pc[d]
        /\ UNCHANGED <<slot, runEpoch, turn>>
    BY <1>7 DEF AbortProcess, Detached, Late, Past
  <2>2. TurnOK'
    BY <2>1
  <2>3. slot = c
    BY <1>7 DEF AbortProcess
  <2> QED
    BY <2>1, <2>2, <2>3 DEF Onward, Resting
<1> QED
  BY <1>1, <1>2, <1>3, <1>4, <1>5, <1>6, <1>7 DEF CallStep, Advance, Walk

LEMMA AbortOnward ==
    ASSUME Base, Slotted, TurnOK, NEW o \in AbortOps, AbortStep(o)
    PROVE  Onward /\ TurnOK'
<1> USE CallsAssumption
        DEF sessionVars, abortVars, hostVars, piVars, lifeVars, Base, TypeOK, TurnOK
<1>1. CASE AbortSession(o) \/ RevokeForAbort(o) \/ DispatchAbort(o)
  BY <1>1 DEF AbortSession, RevokeForAbort, DispatchAbort, Onward, Resting
<1>2. CASE ReleaseAbort(o) \/ AbortTimesOut(o)
  <2>1. UNCHANGED <<slot, runEpoch, turn, setModel>>
    BY <1>2 DEF ReleaseAbort, AbortTimesOut
  <2>2. CASE UNCHANGED pc
    BY <2>1, <2>2 DEF Onward, Resting
  <2>3. CASE ops[o].by # None
    <3>1. PICK confirmed \in BOOLEAN : AbortReturns(ops[o].by, confirmed)
      BY <1>2, <2>3 DEF ReleaseAbort, AbortTimesOut
    <3> DEFINE c == ops[o].by
    <3>2. /\ c \in Calls /\ pc[c] \in {"abortWait", "abortWaitD"}
          /\ pc' = [pc EXCEPT ![c] =
                       IF pc[c] = "abortWait"
                       THEN IF confirmed THEN "release" ELSE "detach"
                       ELSE IF confirmed THEN "finish" ELSE "supervise"]
      BY <2>3, <3>1, ReturnMoves
    <3> HIDE DEF c
    <3>3. /\ pc'[c] \in Detached <=> pc[c] \in Detached
          /\ pc[c] \in Late => pc'[c] \in Late
          /\ pc[c] \notin Past
          /\ \A d \in Calls : d # c => pc'[d] = pc[d]
      BY <3>2 DEF Detached, Late, Past
    <3> QED
      BY <2>1, <3>2, <3>3 DEF Onward, Resting
  <2> QED
    BY <1>2, <2>2, <2>3 DEF ReleaseAbort, AbortTimesOut
<1> QED
  BY <1>1, <1>2 DEF AbortStep

LEMMA OthersOnward ==
    ASSUME Base, Slotted, TurnOK, PiStep \/ HostStep \/ LifeStep \/ QuarantineEnds
    PROVE  Onward /\ TurnOK'
<1> USE CallsAssumption
        DEF sessionVars, abortVars, hostVars, piVars, lifeVars, Base, TypeOK, TurnOK
<1>1. /\ UNCHANGED <<runEpoch, turn, pc>>
      /\ slot' = slot \/ slot' = Janitor
      /\ setModel' = setModel \/ setModel' = 0
  BY DEF PiStep, AcceptPrompt, RefusePrompt, Settle, StrikeRun, RunOver, AckAbort, RejectAbort,
         AnswerSetModel, Exit, HostStep, ExpireGrant, Disconnect, CloseRelay, LifeStep, Delete,
         PruneExited, IdleTimeout, Touch, Collect, QuarantineEnds
<1> QED
  BY <1>1 DEF Onward, Resting

LEMMA NextOnward ==
    ASSUME Base, Slotted, TurnOK, [Next]_vars
    PROVE  Onward /\ TurnOK'
<1>1. CASE UNCHANGED vars
  BY <1>1 DEF vars, sessionVars, abortVars, hostVars, piVars, lifeVars, TurnOK, Onward, Resting
<1> QED
  BY <1>1, CallOnward, AbortOnward, OthersOnward DEF Next

\* The layers stand beside the ones above; readers only renew lastUsed.
Read == ReadTypes /\ ListersOK /\ CursorsOK /\ PollersOK

LEMMA TouchSession ==
    ASSUME Base, Slotted, Barred, TurnOK,
           UNCHANGED <<sessionVars, abortVars, hostVars, piVars, lifeVars, pc>>,
           recent' \in BOOLEAN
    PROVE  Base' /\ Slotted' /\ Barred' /\ TurnOK'
<1> USE DEF sessionVars, abortVars, hostVars, piVars, lifeVars
<1>1. Base'
  <2>1. TypeOK'
    BY DEF Base, TypeOK
  <2>2. Counted' /\ CallersWait'
    BY DEF Base, Counted, Open, CallersWait
  <2> QED
    BY <2>1, <2>2 DEF Base
<1>2. Slotted'
  BY DEF Slotted, SlotOK, PromptOK, RunOK, ExitOK, AckOK, SettledOK
<1>3. Barred' /\ TurnOK'
  BY DEF Barred, JanitorOK, EpochOK, QuarantineOK, SetModelOK, TurnOK
<1> QED
  BY <1>1, <1>2, <1>3

\* Nothing is at work while the session is at rest.
LEMMA RestingQuiet ==
    ASSUME Base, Slotted, Resting
    PROVE  run = None /\ \A c \in Calls : prompt[c] # "sent"
<1> QED
  BY DEF Resting, Slotted, SlotOK, PromptOK, RunOK, Prompting, Accepted, HoldingPC, Base, TypeOK

\* A session without flags is at rest.
LEMMA UnflaggedResting ==
    ASSUME Base, Slotted, Barred, ~Flagged
    PROVE  Resting
<1> QED
  BY CallsAssumption DEF Flagged, Resting, Slotted, SlotOK, HoldingPC, Barred, SetModelOK

\* The steps of the session, seen from a reader.
LEMMA SessionRead ==
    ASSUME Base, Read, Onward, UNCHANGED readerVars
    PROVE  Read'
<1>0. runEpoch \in Nat /\ runEpoch' \in Nat /\ runEpoch <= runEpoch'
  BY BoundsAssumption DEF Base, TypeOK, Onward
<1>1. ReadTypes'
  BY DEF readerVars, Read, ReadTypes
<1>2. \A l \in Listers : lister[l].epoch \in Nat /\ lister[l].epoch <= runEpoch
  BY DEF Read, ReadTypes, ListersOK
<1>3. \A l \in Listers : lister[l].epoch = runEpoch' => runEpoch' = runEpoch
  BY <1>0, <1>2
<1>4. ListersOK'
  BY <1>0, <1>2, <1>3 DEF readerVars, Read, ListersOK, Onward
<1>5. \A e \in cursors : e \in Nat /\ e <= runEpoch
  BY DEF Read, ReadTypes, CursorsOK
<1>6. CursorsOK'
  BY <1>0, <1>5 DEF readerVars, Read, CursorsOK, Onward
<1>7. \A p \in Pollers : poller[p].at # "idle" => poller[p].epoch \in cursors
  BY DEF Read, PollersOK
<1>8. PollersOK'
  <2> SUFFICES ASSUME NEW p \in Pollers, poller[p].at \in {"state", "result"},
                      poller[p].epoch = runEpoch', slot' \in Calls
               PROVE  pc'[slot'] \in Past
    BY <1>7 DEF readerVars, PollersOK
  <2>1. runEpoch' = runEpoch
    BY <1>0, <1>5, <1>7
  <2> QED
    BY <2>1 DEF Read, PollersOK, Onward
<1> QED
  BY <1>1, <1>4, <1>6, <1>8 DEF Read

\* One request moves to a state that agrees with the layers; the session rests.
LEMMA ListerMoves ==
    ASSUME Read, NEW l \in Listers, NEW to,
           lister' = [lister EXCEPT ![l] = to],
           UNCHANGED <<entries, cursors, poller, slot, runEpoch, setModel, pc>>,
           to \in [at : {"idle", "state", "fetch", "verdict", "answered"},
                   epoch : Nat, running : BOOLEAN, seen : Nat],
           to.epoch <= runEpoch, to.at = "state" => ~to.running,
           to.at \in {"state", "fetch", "verdict"} /\ ~to.running /\ to.epoch = runEpoch =>
               Resting /\ (to.at = "verdict" => to.seen = Len(entries))
    PROVE  Read'
<1>1. lister' \in [Listers -> [at : {"idle", "state", "fetch", "verdict", "answered"},
                               epoch : Nat, running : BOOLEAN, seen : Nat]]
      /\ lister'[l] = to /\ \A k \in Listers : k # l => lister'[k] = lister[k]
  BY DEF Read, ReadTypes
<1>2. ReadTypes'
  BY <1>1 DEF Read, ReadTypes
<1>3. ListersOK'
  BY <1>1 DEF Read, ListersOK, Resting
<1>4. CursorsOK' /\ PollersOK'
  BY DEF Read, CursorsOK, PollersOK
<1> QED
  BY <1>2, <1>3, <1>4 DEF Read

LEMMA PollerMoves ==
    ASSUME Read, NEW p \in Pollers, NEW to,
           poller' = [poller EXCEPT ![p] = to],
           UNCHANGED <<entries, cursors, lister, slot, runEpoch, setModel, pc>>,
           to \in [at : {"idle", "turn", "state", "wait", "result", "answered"},
                   epoch : Nat, waitFor : Nat, result : Nat],
           to.at # "idle" => to.epoch \in cursors,
           to.at \in {"state", "result"} /\ to.epoch = runEpoch /\ slot \in Calls
               => pc[slot] \in Past
    PROVE  Read'
<1>1. poller' \in [Pollers -> [at : {"idle", "turn", "state", "wait", "result", "answered"},
                               epoch : Nat, waitFor : Nat, result : Nat]]
      /\ poller'[p] = to /\ \A k \in Pollers : k # p => poller'[k] = poller[k]
  BY DEF Read, ReadTypes
<1>2. ReadTypes'
  BY <1>1 DEF Read, ReadTypes
<1>3. PollersOK'
  BY <1>1 DEF Read, PollersOK
<1>4. CursorsOK' /\ ListersOK'
  BY DEF Read, CursorsOK, ListersOK, Resting
<1> QED
  BY <1>2, <1>3, <1>4 DEF Read

\* A set of numbers up to n that is not empty has a greatest element: the one
\* whose distance to n contains no other's.
LEMMA Greatest ==
    ASSUME NEW n \in Nat, NEW S \in SUBSET (1..n), S # {}
    PROVE  \E i \in S : \A j \in S : j <= i
<1> DEFINE R == StrictSubsetOrdering(1..n)
           T == {i..n : i \in S}
<1>1. IsFiniteSet(1..n)
  BY FS_Interval
<1>2. IsWellFoundedOn(R, SUBSET (1..n))
  BY <1>1, FS_StrictSubsetOrderingWellFounded, FS_FiniteSubsetsOfFinite
<1>3. T \subseteq SUBSET (1..n)
  <2>1. ASSUME NEW i \in S
        PROVE  i..n \subseteq 1..n
    OBVIOUS
  <2> QED
    BY <2>1
<1>4. T # {}
  BY Zenon
<1>5. PICK x \in T : \A y \in T : <<y, x>> \notin R
  <2> HIDE DEF R, T
  <2> QED
    BY <1>2, <1>3, <1>4, WFMin
<1>6. PICK i \in S : x = i..n
  BY <1>5
<1>7. ASSUME NEW j \in S, j > i
      PROVE  FALSE
  <2>1. j..n \subseteq i..n /\ i \in i..n /\ i \notin j..n
    BY <1>7
  <2>2. <<j..n, i..n>> \in (SUBSET (1..n)) \X (SUBSET (1..n)) /\ j..n # i..n
    BY <2>1
  <2>3. <<j..n, i..n>> \in R
    BY <2>1, <2>2 DEF StrictSubsetOrdering
  <2> QED
    BY <2>3, <1>5, <1>6
<1> QED
  BY <1>7

\* turnResult finds the last message after the cursor.
LEMMA LastAfterFinds ==
    ASSUME entries \in Seq(Entry), NEW e \in Nat
    PROVE  /\ LastAfter(e) \in Nat
           /\ \/ /\ LastAfter(e) = 0
                 /\ \A i \in DOMAIN entries : entries[i].of < e
              \/ \E k \in DOMAIN entries :
                    /\ entries[k].of >= e
                    /\ \A i \in DOMAIN entries : i > k => entries[i].of < e
                    /\ LastAfter(e) = IF entries[k].asks THEN 0 ELSE entries[k].of
<1> DEFINE after == {i \in DOMAIN entries : entries[i].of >= e}
           last == CHOOSE i \in after : \A j \in after : j <= i
<1>0. /\ DOMAIN entries = 1..Len(entries) /\ Len(entries) \in Nat
      /\ \A i \in DOMAIN entries : entries[i] \in Entry
  OBVIOUS
<1>1. after \in SUBSET (1..Len(entries))
  BY <1>0
<1>2. LastAfter(e) = IF after = {} \/ entries[last].asks THEN 0 ELSE entries[last].of
  BY Zenon DEF LastAfter
<1>3. CASE after = {}
  BY <1>0, <1>2, <1>3 DEF Entry
<1>4. CASE after # {}
  <2>1. last \in after /\ \A j \in after : j <= last
    <3> HIDE DEF after
    <3>1. \E i \in after : \A j \in after : j <= i
      BY <1>0, <1>1, <1>4, Greatest
    <3> QED
      BY <3>1, Zenon
  <2>2. PICK k \in after : k = last
    BY <2>1
  <2>3. \A j \in after : j <= k
    BY <2>1, <2>2
  <2>4. LastAfter(e) = IF entries[k].asks THEN 0 ELSE entries[k].of
    BY <1>2, <1>4, <2>2
  <2> HIDE DEF last
  <2>5. k \in DOMAIN entries /\ entries[k].of >= e
    OBVIOUS
  <2>6. \A i \in DOMAIN entries : i > k => entries[i].of < e
    BY <1>0, <2>3, <2>5 DEF Entry
  <2>7. LastAfter(e) \in Nat
    BY <1>0, <2>4, <2>5 DEF Entry
  <2> QED
    BY <2>4, <2>5, <2>6, <2>7
<1> QED
  BY <1>3, <1>4

LEMMA ListerRead ==
    ASSUME Base, Slotted, Barred, Read, NEW l \in Listers,
           \/ SampleFlags(l) \/ ListState(l) \/ FetchEntries(l) \/ ReportEntries(l)
           \/ EndListing(l)
    PROVE  Read'
<1> USE DEF vars, sessionVars, abortVars, hostVars, piVars, lifeVars
<1>0. /\ lister[l] \in [at : {"idle", "state", "fetch", "verdict", "answered"},
                        epoch : Nat, running : BOOLEAN, seen : Nat]
      /\ lister[l].epoch <= runEpoch
      /\ lister[l].at \in {"state", "fetch", "verdict"} /\ ~lister[l].running
           /\ lister[l].epoch = runEpoch => Resting
      /\ runEpoch \in Nat /\ Len(entries) \in Nat
  BY BoundsAssumption DEF Read, ReadTypes, ListersOK, Base, TypeOK
<1>1. CASE SampleFlags(l)
  <2> DEFINE to == [at |-> IF Flagged THEN "fetch" ELSE "state", epoch |-> runEpoch,
                    running |-> Flagged, seen |-> 0]
  <2>1. lister' = [lister EXCEPT ![l] = to]
        /\ UNCHANGED <<entries, cursors, poller, slot, runEpoch, setModel, pc>>
    BY <1>1 DEF SampleFlags, Listing
  <2>2. Flagged \in BOOLEAN
    BY DEF Flagged
  <2>3. /\ to \in [at : {"idle", "state", "fetch", "verdict", "answered"},
                   epoch : Nat, running : BOOLEAN, seen : Nat]
        /\ to.epoch = runEpoch /\ to.at # "verdict"
        /\ ~to.running <=> ~Flagged
        /\ to.at = "state" => ~Flagged
    <3> HIDE DEF Flagged
    <3> QED
      BY <1>0, <2>2
  <2>4. ~to.running => Resting
    BY <2>3, UnflaggedResting
  <2>5. to.epoch <= runEpoch
    BY <1>0, <2>3
  <2> HIDE DEF to
  <2> QED
    BY <2>1, <2>3, <2>4, <2>5, ListerMoves
<1>2. CASE ListState(l)
  <2> DEFINE to == [lister[l] EXCEPT !.at = "fetch", !.running = run # None]
  <2>1. lister' = [lister EXCEPT ![l] = to] /\ lister[l].at = "state"
        /\ UNCHANGED <<entries, cursors, poller, slot, runEpoch, setModel, pc>>
    BY <1>2 DEF ListState, Listing
  <2>2. (run # None) \in BOOLEAN
    OBVIOUS
  <2>3. /\ to \in [at : {"idle", "state", "fetch", "verdict", "answered"},
                   epoch : Nat, running : BOOLEAN, seen : Nat]
        /\ to.epoch = lister[l].epoch /\ to.at = "fetch"
    BY <1>0, <2>2
  <2>4. ~lister[l].running
    BY <2>1 DEF Read, ListersOK
  <2> HIDE DEF to
  <2> QED
    BY <1>0, <2>1, <2>3, <2>4, ListerMoves
<1>3. CASE FetchEntries(l)
  <2> DEFINE to == [lister[l] EXCEPT !.at = "verdict", !.seen = Len(entries)]
  <2>1. lister' = [lister EXCEPT ![l] = to] /\ lister[l].at = "fetch"
        /\ UNCHANGED <<entries, cursors, poller, slot, runEpoch, setModel, pc>>
    BY <1>3 DEF FetchEntries, Listing
  <2>2. /\ to \in [at : {"idle", "state", "fetch", "verdict", "answered"},
                   epoch : Nat, running : BOOLEAN, seen : Nat]
        /\ to.epoch = lister[l].epoch /\ to.running = lister[l].running
        /\ to.seen = Len(entries) /\ to.at = "verdict"
    BY <1>0
  <2> HIDE DEF to
  <2> QED
    BY <1>0, <2>1, <2>2, ListerMoves
<1>4. CASE ReportEntries(l)
  <2> DEFINE to == [lister[l] EXCEPT !.at = "answered",
                                     !.running = @ \/ Flagged \/ runEpoch # lister[l].epoch]
  <2>1. lister' = [lister EXCEPT ![l] = to]
        /\ UNCHANGED <<entries, cursors, poller, slot, runEpoch, setModel, pc>>
    BY <1>4 DEF ReportEntries, Listing
  <2>2. (lister[l].running \/ Flagged \/ runEpoch # lister[l].epoch) \in BOOLEAN
    OBVIOUS
  <2>3. /\ to \in [at : {"idle", "state", "fetch", "verdict", "answered"},
                   epoch : Nat, running : BOOLEAN, seen : Nat]
        /\ to.epoch = lister[l].epoch /\ to.at = "answered"
    BY <1>0, <2>2
  <2> HIDE DEF to
  <2> QED
    BY <1>0, <2>1, <2>3, ListerMoves
<1>5. CASE EndListing(l)
  <2>1. lister' = [lister EXCEPT ![l] = IdleLister]
        /\ UNCHANGED <<entries, cursors, poller, slot, runEpoch, setModel, pc>>
    BY <1>5 DEF EndListing
  <2>2. /\ IdleLister \in [at : {"idle", "state", "fetch", "verdict", "answered"},
                           epoch : Nat, running : BOOLEAN, seen : Nat]
        /\ IdleLister.epoch <= runEpoch /\ IdleLister.at = "idle"
    BY <1>0 DEF IdleLister
  <2> QED
    BY <2>1, <2>2, ListerMoves
<1> QED
  BY <1>1, <1>2, <1>3, <1>4, <1>5

LEMMA PollerRead ==
    ASSUME Base, Slotted, Barred, TurnOK, Read, NEW p \in Pollers,
           \/ Poll(p) \/ SampleTurn(p) \/ PollState(p) \/ PollAgain(p) \/ PollRunning(p)
           \/ ReportTurn(p) \/ EndPoll(p)
    PROVE  Read'
<1> USE DEF vars, sessionVars, abortVars, hostVars, piVars, lifeVars
<1> DEFINE Requests == [at : {"idle", "turn", "state", "wait", "result", "answered"},
                        epoch : Nat, waitFor : Nat, result : Nat]
<1>0. /\ poller[p] \in Requests
      /\ poller[p].at # "idle" => poller[p].epoch \in cursors
      /\ runEpoch \in Nat
  BY BoundsAssumption DEF Read, ReadTypes, PollersOK, Base, TypeOK
<1>1. IdlePoller \in Requests /\ IdlePoller.at = "idle"
  BY DEF IdlePoller
<1>2. CASE Poll(p)
  <2>1. PICK e \in cursors : Polling(p, "idle", [IdlePoller EXCEPT !.at = "turn", !.epoch = e])
    BY <1>2 DEF Poll
  <2> DEFINE to == [IdlePoller EXCEPT !.at = "turn", !.epoch = e]
  <2>2. poller' = [poller EXCEPT ![p] = to]
        /\ UNCHANGED <<entries, cursors, lister, slot, runEpoch, setModel, pc>>
    BY <2>1 DEF Polling
  <2>3. to \in Requests /\ to.at = "turn" /\ to.epoch = e
    BY <1>1 DEF Read, ReadTypes
  <2> HIDE DEF to
  <2> QED
    BY <2>2, <2>3, PollerMoves
<1>3. CASE SampleTurn(p)
  <2> DEFINE to == [poller[p] EXCEPT !.at = IF turn = None THEN "state" ELSE "wait",
                                     !.waitFor = IF turn = None THEN 0 ELSE runEpoch]
  <2>1. poller' = [poller EXCEPT ![p] = to] /\ poller[p].at = "turn"
        /\ UNCHANGED <<entries, cursors, lister, slot, runEpoch, setModel, pc>>
    BY <1>3 DEF SampleTurn, Polling
  <2>2. /\ to \in Requests /\ to.epoch = poller[p].epoch
        /\ to.at = IF turn = None THEN "state" ELSE "wait"
    BY <1>0
  <2>3. ASSUME turn = None, poller[p].epoch = runEpoch, slot \in Calls
        PROVE  pc[slot] \in Past
    <3>1. pc[slot] \in Late
      BY <1>0, <2>1, <2>3 DEF Read, CursorsOK
    <3>2. pc[slot] \notin Detached
      BY <2>3, CallsAssumption DEF TurnOK
    <3> QED
      BY <3>1, <3>2 DEF Late, Detached, Past
  <2> HIDE DEF to
  <2> QED
    BY <1>0, <2>1, <2>2, <2>3, PollerMoves
<1>4. CASE PollState(p)
  <2> DEFINE to == [poller[p] EXCEPT !.at = IF run = None THEN "result" ELSE "wait"]
  <2>1. poller' = [poller EXCEPT ![p] = to] /\ poller[p].at = "state"
        /\ UNCHANGED <<entries, cursors, lister, slot, runEpoch, setModel, pc>>
    BY <1>4 DEF PollState, Polling
  <2>2. to \in Requests /\ to.epoch = poller[p].epoch
    BY <1>0
  <2>3. poller[p].epoch = runEpoch /\ slot \in Calls => pc[slot] \in Past
    BY <2>1 DEF Read, PollersOK
  <2> HIDE DEF to
  <2> QED
    BY <1>0, <2>1, <2>2, <2>3, PollerMoves
<1>5. CASE PollAgain(p)
  <2> DEFINE to == [poller[p] EXCEPT !.at = "turn"]
  <2>1. poller' = [poller EXCEPT ![p] = to] /\ poller[p].at = "wait"
        /\ UNCHANGED <<entries, cursors, lister, slot, runEpoch, setModel, pc>>
    BY <1>5 DEF PollAgain, Polling
  <2>2. to \in Requests /\ to.epoch = poller[p].epoch /\ to.at = "turn"
    BY <1>0
  <2> HIDE DEF to
  <2> QED
    BY <1>0, <2>1, <2>2, PollerMoves
<1>6. CASE ReportTurn(p)
  <2> DEFINE last == LastAfter(poller[p].epoch)
             to == [poller[p] EXCEPT !.at = "answered", !.result = last]
  <2>1. last \in Nat
    BY <1>0, LastAfterFinds DEF Read, ReadTypes
  <2> HIDE DEF last
  <2>2. poller' = [poller EXCEPT ![p] = to] /\ poller[p].at = "result"
        /\ UNCHANGED <<entries, cursors, lister, slot, runEpoch, setModel, pc>>
    BY <1>0, <1>6 DEF ReportTurn, Read, ReadTypes, last
  <2>3. to \in Requests /\ to.epoch = poller[p].epoch /\ to.at = "answered"
    BY <1>0, <2>1
  <2> HIDE DEF to
  <2> QED
    BY <1>0, <2>2, <2>3, PollerMoves
<1>7. CASE PollRunning(p) \/ EndPoll(p)
  <2>1. poller' = [poller EXCEPT ![p] = IdlePoller]
        /\ UNCHANGED <<entries, cursors, lister, slot, runEpoch, setModel, pc>>
    BY <1>7 DEF PollRunning, EndPoll
  <2> QED
    BY <1>1, <2>1, PollerMoves
<1> QED
  BY <1>2, <1>3, <1>4, <1>5, <1>6, <1>7

\* External: pi writes entries only for a run or a set_model; cursors are
\* handed out by a detached submission.
LEMMA WorldRead ==
    ASSUME Base, Slotted, Barred, TurnOK, Read, Record \/ ReturnCursor
    PROVE  Read'
<1> USE BoundsAssumption DEF vars, sessionVars, abortVars, hostVars, piVars, lifeVars
<1>0. runEpoch \in Nat
  BY DEF Base, TypeOK
<1>1. CASE Record
  <2>1. UNCHANGED <<cursors, lister, poller, slot, runEpoch, setModel, pc>>
    BY <1>1 DEF Record
  <2>2. entries' \in Seq(Entry)
    <3>1. PICK e \in Entry : entries' = Append(entries, e)
      BY <1>0, <1>1 DEF Record, Entry
    <3>2. entries \in Seq(Entry)
      BY DEF Read, ReadTypes
    <3> QED
      BY <3>1, <3>2
  <2>3. ~Resting
    BY <1>1, RestingQuiet DEF Record, Resting
  <2>4. ListersOK'
    BY <2>1, <2>3 DEF Read, ListersOK
  <2>5. ReadTypes' /\ CursorsOK' /\ PollersOK'
    BY <2>1, <2>2 DEF Read, ReadTypes, CursorsOK, PollersOK
  <2> QED
    BY <2>4, <2>5 DEF Read
<1>2. CASE ReturnCursor
  <2>1. /\ cursors' = cursors \cup {runEpoch} /\ pc[slot] \in Late
        /\ UNCHANGED <<entries, lister, poller, slot, runEpoch, setModel, pc>>
    BY <1>2 DEF ReturnCursor, Late
  <2>2. ReadTypes' /\ PollersOK'
    BY <1>0, <2>1 DEF Read, ReadTypes, PollersOK
  <2>3. ListersOK' /\ CursorsOK'
    BY <1>0, <2>1 DEF Read, ListersOK, CursorsOK, Resting
  <2> QED
    BY <2>2, <2>3 DEF Read
<1> QED
  BY <1>1, <1>2

\* The order of pi's entries, while the session moves on ...
LEMMA SessionChronicle ==
    ASSUME Base, Read, Chronicle, Onward, UNCHANGED readerVars
    PROVE  Chronicle'
<1>1. runEpoch \in Nat /\ runEpoch' \in {runEpoch, runEpoch + 1}
  BY BoundsAssumption DEF Base, TypeOK, Onward
<1>2. \A i \in DOMAIN entries : entries[i].of \in Nat
  <2>1. \A i \in DOMAIN entries : entries[i] \in Entry
    BY DEF Read, ReadTypes
  <2> QED
    BY <2>1 DEF Entry
<1>3. slot' \in Calls => runEpoch' # 0
  BY <1>1 DEF Chronicle, Onward
<1> QED
  BY <1>1, <1>2, <1>3 DEF Chronicle, readerVars

\* ... and while pi writes one more and a client gets its cursor.
LEMMA WorldChronicle ==
    ASSUME Base, Slotted, Read, Chronicle, Record \/ ReturnCursor
    PROVE  Chronicle'
<1>0. runEpoch \in Nat /\ (run # None => slot \in Calls)
  BY BoundsAssumption DEF Base, TypeOK, Slotted, SlotOK, RunOK, Prompting, Accepted, HoldingPC
<1>1. CASE Record
  <2>1. PICK e \in Entry : /\ entries' = Append(entries, e)
                           /\ e.of = runEpoch \/ e.of = 0
                           /\ e.asks => e.of = runEpoch /\ run # None
    <3>1. CASE run # None /\ \E asks \in BOOLEAN :
                                entries' = Append(entries, [of |-> runEpoch, asks |-> asks])
      <4>1. PICK asks \in BOOLEAN : entries' = Append(entries, [of |-> runEpoch, asks |-> asks])
        BY <3>1
      <4>2. [of |-> runEpoch, asks |-> asks] \in Entry
        BY <1>0 DEF Entry
      <4> QED
        BY <3>1, <4>1, <4>2
    <3>2. CASE entries' = Append(entries, [of |-> 0, asks |-> FALSE])
      <4>1. [of |-> 0, asks |-> FALSE] \in Entry
        BY DEF Entry
      <4> QED
        BY <3>2, <4>1
    <3> QED
      BY <1>1, <3>1, <3>2 DEF Record
  <2>2. UNCHANGED <<cursors, slot, runEpoch>>
    BY <1>1 DEF Record, vars, sessionVars
  <2>3. entries \in Seq(Entry)
    BY DEF Read, ReadTypes
  <2> DEFINE n == Len(entries)
  <2>4. /\ n \in Nat /\ DOMAIN entries = 1..n /\ DOMAIN entries' = 1..(n + 1)
        /\ \A i \in 1..n : entries'[i] = entries[i] /\ entries[i].of \in Nat
        /\ entries'[n + 1] = e
    <3>1. \A i \in DOMAIN entries : entries[i] \in Entry
      BY <2>3
    <3>2. \A i \in DOMAIN entries : entries[i].of \in Nat
      BY <3>1 DEF Entry
    <3> QED
      BY <2>1, <2>3, <3>2
  <2> HIDE DEF n
  <2>5. e.of <= runEpoch /\ (e.asks => e.of # 0)
    BY <1>0, <2>1 DEF Chronicle
  <2>6. \A i \in DOMAIN entries' :
           entries'[i].of <= runEpoch /\ (entries'[i].asks => entries'[i].of # 0)
    BY <2>4, <2>5 DEF Chronicle
  <2>7. ASSUME NEW i \in DOMAIN entries', NEW j \in DOMAIN entries', i < j, entries'[j].of # 0
        PROVE  entries'[i].of <= entries'[j].of
    <3>1. i \in 1..n /\ (j \in 1..n \/ j = n + 1)
      BY <2>4, <2>7
    <3>2. CASE j = n + 1
      BY <2>1, <2>4, <2>7, <3>1, <3>2 DEF Chronicle
    <3> QED
      BY <2>4, <2>7, <3>1, <3>2 DEF Chronicle
  <2> QED
    BY <2>2, <2>6, <2>7 DEF Chronicle
<1>2. CASE ReturnCursor
  <2>1. slot \in Calls /\ cursors' = cursors \cup {runEpoch}
        /\ UNCHANGED <<entries, slot, runEpoch>>
    BY <1>2, CallsAssumption DEF ReturnCursor, Calls, vars, sessionVars
  <2> QED
    BY <2>1 DEF Chronicle
<1> QED
  BY <1>1, <1>2

ReadersInv == Base /\ Slotted /\ Barred /\ TurnOK /\ Read /\ Chronicle

LEMMA InitReaders == ReadersInit => ReadersInv
<1> SUFFICES ASSUME ReadersInit PROVE ReadersInv
  OBVIOUS
<1>1. Base /\ Slotted /\ Barred
  BY InitBase, InitSlotted, InitBarred DEF ReadersInit
<1>2. TurnOK
  BY CallsAssumption DEF ReadersInit, Init, TurnOK, Detached
<1>3. /\ IdleLister \in [at : {"idle", "state", "fetch", "verdict", "answered"},
                         epoch : Nat, running : BOOLEAN, seen : Nat]
      /\ IdlePoller \in [at : {"idle", "turn", "state", "wait", "result", "answered"},
                         epoch : Nat, waitFor : Nat, result : Nat]
      /\ IdleLister.at = "idle" /\ IdleLister.epoch = 0 /\ IdlePoller.at = "idle"
  BY DEF IdleLister, IdlePoller
<1>4. ReadTypes
  BY <1>3 DEF ReadersInit, ReadTypes
<1>5. ListersOK /\ CursorsOK /\ PollersOK
  BY <1>3 DEF ReadersInit, Init, ListersOK, CursorsOK, PollersOK
<1>6. Chronicle
  <2>1. DOMAIN entries = {}
    BY DEF ReadersInit
  <2> QED
    BY <2>1, CallsAssumption DEF ReadersInit, Init, Chronicle
<1> QED
  BY <1>1, <1>2, <1>4, <1>5, <1>6 DEF ReadersInv, Read

\* A step of a reader, pi's or a submission's leaves the session alone but for
\* lastUsed.
LEMMA ReadersTouch ==
    ASSUME TypeOK,
           \/ Record \/ ReturnCursor
           \/ \E l \in Listers :
                SampleFlags(l) \/ ListState(l) \/ FetchEntries(l) \/ ReportEntries(l)
                \/ EndListing(l)
           \/ \E p \in Pollers :
                Poll(p) \/ SampleTurn(p) \/ PollState(p) \/ PollAgain(p) \/ PollRunning(p)
                \/ ReportTurn(p) \/ EndPoll(p)
    PROVE  /\ UNCHANGED <<sessionVars, abortVars, hostVars, piVars, lifeVars, pc>>
           /\ recent' \in BOOLEAN
<1>1. UNCHANGED <<sessionVars, abortVars, hostVars, piVars, lifeVars, pc>>
      /\ (recent' = recent \/ recent' = TRUE)
  <2>1. CASE Record \/ ReturnCursor
    BY <2>1 DEF Record, ReturnCursor, vars
  <2>2. ASSUME NEW l \in Listers,
               \/ SampleFlags(l) \/ ListState(l) \/ FetchEntries(l) \/ ReportEntries(l)
               \/ EndListing(l)
        PROVE  UNCHANGED <<sessionVars, abortVars, hostVars, piVars, lifeVars, pc>>
               /\ (recent' = recent \/ recent' = TRUE)
    BY <2>2 DEF SampleFlags, ListState, FetchEntries, ReportEntries, EndListing, vars
  <2>3. ASSUME NEW p \in Pollers,
               \/ Poll(p) \/ SampleTurn(p) \/ PollState(p) \/ PollAgain(p) \/ PollRunning(p)
               \/ ReportTurn(p) \/ EndPoll(p)
        PROVE  UNCHANGED <<sessionVars, abortVars, hostVars, piVars, lifeVars, pc>>
               /\ (recent' = recent \/ recent' = TRUE)
    BY <2>3 DEF Poll, SampleTurn, PollState, PollAgain, PollRunning, ReportTurn, EndPoll,
                Polling, vars
  <2> QED
    BY <2>1, <2>2, <2>3
<1> QED
  BY <1>1 DEF TypeOK

LEMMA NextReaders == ReadersInv /\ [ReadersNext]_allVars => ReadersInv'
<1> SUFFICES ASSUME ReadersInv, [ReadersNext]_allVars PROVE ReadersInv'
  OBVIOUS
<1>0. Base /\ Slotted /\ Barred /\ TurnOK /\ Read /\ Chronicle
  BY DEF ReadersInv
<1>1. CASE [Next]_vars /\ UNCHANGED readerVars
  <2>1. Base' /\ Slotted' /\ Barred'
    BY <1>0, <1>1, NextBase, NextSlotted, NextBarred
  <2>2. Onward /\ TurnOK'
    BY <1>0, <1>1, NextOnward
  <2> QED
    BY <1>0, <1>1, <2>1, <2>2, SessionRead, SessionChronicle DEF ReadersInv
<1>2. ASSUME \/ Record \/ ReturnCursor
             \/ \E l \in Listers :
                  SampleFlags(l) \/ ListState(l) \/ FetchEntries(l) \/ ReportEntries(l)
                  \/ EndListing(l)
             \/ \E p \in Pollers :
                  Poll(p) \/ SampleTurn(p) \/ PollState(p) \/ PollAgain(p) \/ PollRunning(p)
                  \/ ReportTurn(p) \/ EndPoll(p)
      PROVE  ReadersInv'
  <2>1. Base' /\ Slotted' /\ Barred' /\ TurnOK'
    BY <1>0, <1>2, ReadersTouch, TouchSession DEF Base
  <2>2. Read'
    BY <1>0, <1>2, WorldRead, ListerRead, PollerRead
  <2>3. Chronicle'
    <3>1. CASE Record \/ ReturnCursor
      BY <1>0, <3>1, WorldChronicle
    <3>2. CASE UNCHANGED <<entries, cursors>>
      <4>1. UNCHANGED sessionVars
        BY <1>0, <1>2, ReadersTouch DEF Base
      <4> QED
        BY <1>0, <3>2, <4>1 DEF Chronicle, sessionVars
    <3> QED
      BY <1>2, <3>1, <3>2 DEF SampleFlags, ListState, FetchEntries, ReportEntries, EndListing,
         Listing, Poll, SampleTurn, PollState, PollAgain, PollRunning, ReportTurn, EndPoll,
         Polling
  <2> QED
    BY <2>1, <2>2, <2>3 DEF ReadersInv
<1>3. UNCHANGED allVars => UNCHANGED vars /\ UNCHANGED readerVars
  BY DEF allVars
<1> QED
  BY <1>1, <1>2, <1>3 DEF ReadersNext

\* EntriesResult.Running: a listing that answers "not running" has seen every
\* entry, and nothing is at work that could add one, whatever reservations came
\* and went between its questions to pi.
THEOREM ListingsComplete == ReadersSpec => NotRunningMeansComplete
<1> DEFINE Complete ==
        \A l \in Listers :
            lister[l].at = "verdict" /\ lister'[l].at = "answered" /\ ~lister'[l].running =>
                /\ lister[l].seen = Len(entries)
                /\ run = None /\ setModel = 0
                /\ \A c \in Calls : prompt[c] # "sent"
<1>1. ReadersInv /\ [ReadersNext]_allVars => [Complete]_allVars
  <2> SUFFICES ASSUME ReadersInv, ReadersNext, NEW l \in Listers,
                      lister[l].at = "verdict", lister'[l].at = "answered", ~lister'[l].running
               PROVE  /\ lister[l].seen = Len(entries)
                      /\ run = None /\ setModel = 0
                      /\ \A c \in Calls : prompt[c] # "sent"
    BY Zenon
  <2>1. Base /\ Slotted /\ Barred /\ Read
    BY DEF ReadersInv
  <2>2. lister \in [Listers -> [at : {"idle", "state", "fetch", "verdict", "answered"},
                                epoch : Nat, running : BOOLEAN, seen : Nat]]
    BY <2>1 DEF Read, ReadTypes
  <2>3. lister' # lister
    OBVIOUS
  <2>4. PICK k \in Listers : \/ SampleFlags(k) \/ ListState(k) \/ FetchEntries(k)
                             \/ ReportEntries(k) \/ EndListing(k)
    BY <2>3 DEF ReadersNext, readerVars, Record, ReturnCursor, Poll, Polling, SampleTurn,
                PollState, PollAgain, PollRunning, ReportTurn, EndPoll
  <2>5. k = l /\ ReportEntries(k)
    BY <2>2, <2>4 DEF SampleFlags, ListState, FetchEntries, ReportEntries, EndListing, Listing,
                      IdleLister
  <2>6. ~lister[l].running /\ lister[l].epoch = runEpoch
    BY <2>2, <2>5 DEF ReportEntries, Listing
  <2>7. Resting /\ lister[l].seen = Len(entries)
    BY <2>1, <2>6 DEF Read, ListersOK
  <2> QED
    BY <2>1, <2>7, RestingQuiet DEF Resting
<1>2. ReadersSpec => []ReadersInv
  BY InitReaders, NextReaders, PTL DEF ReadersSpec
<1> QED
  BY <1>1, <1>2, PTL DEF ReadersSpec, NotRunningMeansComplete

\* Turn: a run reported as ended is no longer worked on.  If it wrote messages,
\* the answer is the last one of its reservation or of a later one; there is none
\* when the transcript ends in a request for a tool.
THEOREM TurnsReported == ReadersSpec => TurnReportsEndedRun
<1> DEFINE Ended ==
        \A p \in Pollers :
            poller[p].at = "result" /\ poller'[p].at = "answered" =>
                /\ ~(run # None /\ runEpoch = poller[p].epoch)
                /\ IF Interrupted THEN poller'[p].result = 0
                   ELSE \A i \in DOMAIN entries :
                          entries[i].of = poller[p].epoch =>
                              poller'[p].result >= poller[p].epoch
<1>1. ReadersInv /\ [ReadersNext]_allVars => [Ended]_allVars
  <2> SUFFICES ASSUME ReadersInv, ReadersNext, NEW p \in Pollers,
                      poller[p].at = "result", poller'[p].at = "answered"
               PROVE  /\ ~(run # None /\ runEpoch = poller[p].epoch)
                      /\ IF Interrupted THEN poller'[p].result = 0
                         ELSE \A i \in DOMAIN entries :
                                entries[i].of = poller[p].epoch =>
                                    poller'[p].result >= poller[p].epoch
    BY Zenon
  <2>1. Base /\ Slotted /\ Barred /\ Read
    BY DEF ReadersInv
  <2>2. /\ poller \in [Pollers -> [at : {"idle", "turn", "state", "wait", "result", "answered"},
                                   epoch : Nat, waitFor : Nat, result : Nat]]
        /\ entries \in Seq(Entry) /\ poller[p].epoch \in Nat
    BY <2>1 DEF Read, ReadTypes
  <2>3. poller' # poller
    OBVIOUS
  <2>4. PICK q \in Pollers : \/ Poll(q) \/ SampleTurn(q) \/ PollState(q) \/ PollAgain(q)
                             \/ PollRunning(q) \/ ReportTurn(q) \/ EndPoll(q)
    BY <2>3 DEF ReadersNext, readerVars, Record, ReturnCursor, SampleFlags, ListState,
                FetchEntries, ReportEntries, EndListing, Listing
  <2>5. p = q /\ ReportTurn(p)
    <3>1. poller[q].at # "result" \/ poller'[q].at # "answered" \/ ReportTurn(q)
      <4>1. Poll(q) => poller'[q].at = "turn"
        BY <2>2 DEF Poll, Polling, IdlePoller
      <4>2. SampleTurn(q) \/ PollState(q) \/ PollAgain(q) => poller[q].at # "result"
        BY DEF SampleTurn, PollState, PollAgain, Polling
      <4>3. PollRunning(q) \/ EndPoll(q) => poller'[q].at = "idle"
        BY <2>2 DEF PollRunning, EndPoll, IdlePoller
      <4> QED
        BY <2>4, <4>1, <4>2, <4>3
    <3>2. \A r \in Pollers : r # q => poller'[r] = poller[r]
      BY <2>2, <2>4 DEF Poll, Polling, SampleTurn, PollState, PollAgain, PollRunning, ReportTurn,
                        EndPoll
    <3> QED
      BY <3>1, <3>2
  <2>6. poller'[p].result = LastAfter(poller[p].epoch)
    BY <2>2, <2>5 DEF ReportTurn
  <2>7. ASSUME run # None, runEpoch = poller[p].epoch
        PROVE  FALSE
    <3>1. run \in Calls /\ slot = run /\ pc[run] \notin Past
      BY <2>1, <2>7 DEF Base, TypeOK, Slotted, SlotOK, RunOK, Prompting, Accepted, HoldingPC,
                        Past
    <3> QED
      BY <2>1, <2>7, <3>1 DEF Read, PollersOK
  <2> DEFINE e == poller[p].epoch
             answer == poller'[p].result
  <2>8. e \in Nat /\ e # 0
    BY <2>1, <2>2 DEF Read, PollersOK, ReadersInv, Chronicle
  <2>9. /\ \A i \in DOMAIN entries : /\ i \in Nat /\ entries[i].of \in Nat
                                     /\ entries[i].asks => entries[i].of # 0
        /\ \A i, j \in DOMAIN entries :
              i < j /\ entries[j].of # 0 => entries[i].of <= entries[j].of
    <3>1. \A i \in DOMAIN entries : i \in Nat /\ entries[i] \in Entry
      BY <2>2
    <3>2. \A i \in DOMAIN entries : entries[i].of \in Nat
      BY <3>1 DEF Entry
    <3> QED
      BY <3>1, <3>2 DEF ReadersInv, Chronicle
  <2> HIDE DEF e
  <2>10. answer = LastAfter(e)
    BY <2>6 DEF e
  <2>11. ASSUME answer = 0, \A i \in DOMAIN entries : entries[i].of < e
         PROVE  IF Interrupted THEN answer = 0
                ELSE \A i \in DOMAIN entries : entries[i].of = e => answer >= e
    BY <2>8, <2>9, <2>11
  <2>12. ASSUME NEW k \in DOMAIN entries, entries[k].of >= e,
                \A i \in DOMAIN entries : i > k => entries[i].of < e,
                answer = IF entries[k].asks THEN 0 ELSE entries[k].of
         PROVE  IF Interrupted THEN answer = 0 ELSE answer >= e
    <3>1. \A i \in DOMAIN entries : i > k => entries[i].of = 0
      BY <2>8, <2>9, <2>12
    <3>2. CASE entries[k].asks
      BY <2>12, <3>1, <3>2 DEF Interrupted
    <3>3. CASE ~entries[k].asks
      <4>1. ASSUME NEW i \in DOMAIN entries, entries[i].asks,
                   \A j \in DOMAIN entries : j > i => entries[j].of = 0
            PROVE  FALSE
        <5>1. entries[k].of # 0 /\ entries[i].of # 0
          BY <2>8, <2>9, <2>12, <4>1
        <5>2. ~(k > i) /\ ~(i > k) /\ i # k
          BY <3>1, <3>3, <4>1, <5>1
        <5> QED
          BY <2>9, <5>2
      <4> QED
        BY <2>12, <3>3, <4>1 DEF Interrupted
    <3> QED
      BY <3>2, <3>3
  <2> HIDE DEF answer
  <2>13. IF Interrupted THEN answer = 0
         ELSE \A i \in DOMAIN entries : entries[i].of = e => answer >= e
    BY <2>2, <2>8, <2>10, <2>11, <2>12, LastAfterFinds
  <2> QED
    BY <2>7, <2>13 DEF e, answer
<1>2. ReadersSpec => []ReadersInv
  BY InitReaders, NextReaders, PTL DEF ReadersSpec
<1> QED
  BY <1>1, <1>2, PTL DEF ReadersSpec, TurnReportsEndedRun

=============================================================================
