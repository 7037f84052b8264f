-------------------------- MODULE PiSessions_proofs --------------------------
(***************************************************************************)
(* Proofs about PiSessions for any number of sessions, processes and       *)
(* requests.                                                               *)
(***************************************************************************)
EXTENDS PiSessions, FiniteSetTheorems, TLAPS

Stages ==
    {"idle", "attach", "waiting", "purge", "stopOwn", "stopping", "create",
     "delete", "deleteStop", "deleteWait"} \cup AttachStages \cup CreateStages

\* Where a request has the id of a session.
NamedStages ==
    {"attach", "waiting", "purge", "delete", "deleteStop", "deleteWait",
     "createPublish"} \cup AttachStages

Request == [at : Stages, id : Ids \cup {None}, proc : Procs \cup {None}]

WellFormed(r, q) ==
    /\ q \in Request
    /\ q.at \in NamedStages => q.id \in Ids
    /\ q.at \in CreateStages \cup {"create"} => r \in Creators

\* The requests that hold one of the reservations counted in creating.
Creating == {r \in Reqs : req[r].at \in CreateStages}
Holds(q) == IF q.at \in CreateStages THEN 1 ELSE 0

ReqsOK ==
    /\ req \in [Reqs -> Request]
    /\ \A r \in Reqs : WellFormed(r, req[r])
    /\ IsFiniteSet(Creating)
    /\ creating = Cardinality(Creating)

TableOK ==
    /\ sessions \in [Ids -> Procs \cup {None}]
    /\ inflight \subseteq Ids
    /\ stopped \in BOOLEAN
    /\ reaping \subseteq Procs
    /\ proc \in [Procs -> [st : {"none", "up", "stopping", "gone"}, id : Ids \cup {None}]]
    /\ minted \subseteq Ids
    /\ disk \subseteq Ids

Base == ReqsOK /\ TableOK

LEMMA BaseTypes == Base => TypeOK
<1> SUFFICES ASSUME Base PROVE TypeOK
  OBVIOUS
<1>1. creating \in Nat
  BY FS_CardinalityType DEF Base, ReqsOK
<1> QED
  BY <1>1 DEF Base, ReqsOK, TableOK, TypeOK, Request, Stages

-----------------------------------------------------------------------------
(* A step of one request r, with what it reserves and returns. *)

Moves(r) ==
    \E to : /\ WellFormed(r, to)
            /\ req' = [req EXCEPT ![r] = to]
            /\ creating' = creating + Holds(to) - Holds(req[r])

LEMMA MovesKeeps ==
    ASSUME NEW r \in Reqs, ReqsOK, Moves(r)
    PROVE  ReqsOK'
<1>1. PICK to : /\ WellFormed(r, to)
                /\ req' = [req EXCEPT ![r] = to]
                /\ creating' = creating + Holds(to) - Holds(req[r])
  BY DEF Moves
<1>2. /\ req' \in [Reqs -> Request]
      /\ \A q \in Reqs : WellFormed(q, req'[q])
  BY <1>1 DEF ReqsOK, WellFormed
<1>3. /\ to.at \in CreateStages => Creating' = Creating \cup {r}
      /\ to.at \notin CreateStages => Creating' = Creating \ {r}
      /\ r \in Creating <=> req[r].at \in CreateStages
  BY <1>1 DEF Creating, ReqsOK
<1>4. IsFiniteSet(Creating) /\ Cardinality(Creating) \in Nat
  BY FS_CardinalityType DEF ReqsOK
<1>5. /\ IsFiniteSet(Creating')
      /\ Cardinality(Creating') = Cardinality(Creating) + Holds(to) - Holds(req[r])
  <2>1. CASE to.at \in CreateStages
    <3>1. /\ IsFiniteSet(Creating \cup {r})
          /\ Cardinality(Creating \cup {r})
               = IF r \in Creating THEN Cardinality(Creating) ELSE Cardinality(Creating) + 1
      BY <1>4, FS_AddElement
    <3>2. Holds(to) = 1 /\ Holds(req[r]) = IF r \in Creating THEN 1 ELSE 0
      BY <1>3, <2>1 DEF Holds
    <3>3. Creating' = Creating \cup {r}
      BY <1>3, <2>1
    <3> QED
      BY <1>4, <3>1, <3>2, <3>3
  <2>2. CASE to.at \notin CreateStages
    <3>1. /\ IsFiniteSet(Creating \ {r})
          /\ Cardinality(Creating \ {r})
               = IF r \in Creating THEN Cardinality(Creating) - 1 ELSE Cardinality(Creating)
      BY <1>4, FS_RemoveElement
    <3>2. Holds(to) = 0 /\ Holds(req[r]) = IF r \in Creating THEN 1 ELSE 0
      BY <1>3, <2>2 DEF Holds
    <3>3. Creating' = Creating \ {r}
      BY <1>3, <2>2
    <3> QED
      BY <1>4, <3>1, <3>2, <3>3
  <2> QED
    BY <2>1, <2>2
<1>6. creating' = Cardinality(Creating')
  BY <1>1, <1>5 DEF ReqsOK
<1> QED
  BY <1>2, <1>5, <1>6 DEF ReqsOK

\* A Move neither changes the id nor the process of r.
LEMMA MoveMoves ==
    ASSUME NEW r \in Reqs, ReqsOK, NEW from, NEW to \in Stages, Move(r, from, to),
           to \in NamedStages => from \in NamedStages,
           to \in CreateStages \cup {"create"} =>
               r \in Creators \/ from \in CreateStages \cup {"create"},
           creating' = creating + (IF to \in CreateStages THEN 1 ELSE 0)
                                - (IF from \in CreateStages THEN 1 ELSE 0)
    PROVE  Moves(r)
<1> DEFINE q == [req[r] EXCEPT !.at = to]
<1>1. req[r] \in Request /\ WellFormed(r, req[r]) /\ req[r].at = from
  BY DEF ReqsOK, Move, Step
<1>2. q \in Request /\ q.at = to /\ q.id = req[r].id
  BY <1>1 DEF Request
<1>3. WellFormed(r, q)
  BY <1>1, <1>2 DEF WellFormed
<1>4. creating' = creating + Holds(q) - Holds(req[r])
  BY <1>1, <1>2 DEF Holds
<1> QED
  BY <1>3, <1>4 DEF Moves, Move, Step

LEMMA StepMoves ==
    ASSUME NEW r \in Reqs, ReqsOK, NEW to, WellFormed(r, to),
           req' = [req EXCEPT ![r] = to], creating' = creating,
           to.at \in CreateStages <=> req[r].at \in CreateStages
    PROVE  Moves(r)
<1>1. creating \in Nat
  BY FS_CardinalityType DEF ReqsOK
<1>2. creating' = creating + Holds(to) - Holds(req[r])
  BY <1>1 DEF Holds
<1> QED
  BY <1>2 DEF Moves

\* The end of a request.
LEMMA DoneMoves ==
    ASSUME NEW r \in Reqs, ReqsOK, NEW from, Done(r, from),
           creating' = creating - (IF from \in CreateStages THEN 1 ELSE 0)
    PROVE  Moves(r)
<1>1. creating \in Nat
  BY FS_CardinalityType DEF ReqsOK
<1>2. WellFormed(r, IdleReq) /\ Holds(IdleReq) = 0
  BY DEF IdleReq, WellFormed, Request, Stages, NamedStages, CreateStages, AttachStages, Holds
<1>3. creating' = creating + Holds(IdleReq) - Holds(req[r])
  BY <1>1, <1>2 DEF Done, Step, Holds
<1> QED
  BY <1>2, <1>3 DEF Moves, Done, Step

\* Landing an attach wakes the requests that wait for it.
LEMMA LandKeeps ==
    ASSUME NEW r \in Reqs, ReqsOK, NEW to, Land(r, to), WellFormed(r, to),
           req[r].at \notin CreateStages, to.at \notin CreateStages,
           creating' = creating
    PROVE  ReqsOK'
<1>1. \A q \in Reqs :
         WellFormed(q, req[q]) /\ req[q].at = "waiting"
           => /\ WellFormed(q, [req[q] EXCEPT !.at = "attach"])
              /\ [req[q] EXCEPT !.at = "attach"].at = "attach"
  BY DEF WellFormed, Request, Stages, NamedStages, CreateStages, AttachStages
<1>2. \A q \in Reqs :
         /\ WellFormed(q, req'[q])
         /\ req'[q].at \in CreateStages <=> req[q].at \in CreateStages
  BY <1>1 DEF Land, ReqsOK, CreateStages
<1>3. req' \in [Reqs -> Request]
  BY <1>2 DEF Land, WellFormed
<1>4. Creating' = Creating
  BY <1>2 DEF Creating
<1> QED
  BY <1>2, <1>3, <1>4 DEF ReqsOK

-----------------------------------------------------------------------------
(* Every step keeps Base. *)

LEMMA TerminateTypes ==
    ASSUME TableOK, NEW p, Terminate(p)
    PROVE  proc' \in [Procs -> [st : {"none", "up", "stopping", "gone"}, id : Ids \cup {None}]]
BY DEF TableOK, Terminate

LEMMA RequestStepBase ==
    ASSUME Base, NEW r \in Reqs, Begin(r) \/ Proceed(r) \/ CancelWait(r)
    PROVE  Base'
<1> USE DEF tableVars, worldVars
<1>0. /\ ReqsOK /\ TableOK /\ creating \in Nat /\ WellFormed(r, req[r]) /\ req[r] \in Request
  BY FS_CardinalityType DEF Base, ReqsOK
<1>1. CASE SpawnFails(r)
  <2>1. Move(r, "spawn", "unflight") /\ creating' = creating
    BY <1>1 DEF SpawnFails
  <2>2. Moves(r)
    BY <1>0, <2>1, MoveMoves DEF Stages, NamedStages, CreateStages, AttachStages
  <2>3. TableOK'
    BY <1>0, <1>1 DEF SpawnFails, TableOK
  <2> QED
    BY <1>0, <2>2, <2>3, MovesKeeps DEF Base
<1>2. CASE SetupAttached(r)
  <2>1. Move(r, "setup", "publish") /\ creating' = creating
    BY <1>2 DEF SetupAttached
  <2>2. Moves(r)
    BY <1>0, <2>1, MoveMoves DEF Stages, NamedStages, CreateStages, AttachStages
  <2>3. TableOK'
    BY <1>0, <1>2 DEF SetupAttached, TableOK
  <2> QED
    BY <1>0, <2>2, <2>3, MovesKeeps DEF Base
<1>3. CASE SetupFails(r)
  <2>1. Move(r, "setup", "unspawn") /\ creating' = creating
    BY <1>3 DEF SetupFails
  <2>2. Moves(r)
    BY <1>0, <2>1, MoveMoves DEF Stages, NamedStages, CreateStages, AttachStages
  <2>3. TableOK'
    BY <1>0, <1>3, TerminateTypes DEF SetupFails, TableOK
  <2> QED
    BY <1>0, <2>2, <2>3, MovesKeeps DEF Base
<1>4. CASE Unspawned(r)
  <2>1. Move(r, "unspawn", "unflight") /\ creating' = creating
    BY <1>4 DEF Unspawned
  <2>2. Moves(r)
    BY <1>0, <2>1, MoveMoves DEF Stages, NamedStages, CreateStages, AttachStages
  <2>3. TableOK'
    BY <1>0, <1>4 DEF Unspawned, TableOK
  <2> QED
    BY <1>0, <2>2, <2>3, MovesKeeps DEF Base
<1>5. CASE StopOwn(r)
  <2>1. Move(r, "stopOwn", "stopping") /\ creating' = creating
    BY <1>5 DEF StopOwn
  <2>2. Moves(r)
    BY <1>0, <2>1, MoveMoves DEF Stages, NamedStages, CreateStages, AttachStages
  <2>3. TableOK'
    BY <1>0, <1>5, TerminateTypes DEF StopOwn, TableOK
  <2> QED
    BY <1>0, <2>2, <2>3, MovesKeeps DEF Base
<1>6. CASE CreateSetupFails(r)
  <2>1. Move(r, "createSetup", "createUnspawn") /\ creating' = creating
    BY <1>6 DEF CreateSetupFails
  <2>2. Moves(r)
    BY <1>0, <2>1, MoveMoves DEF Stages, NamedStages, CreateStages, AttachStages
  <2>3. TableOK'
    BY <1>0, <1>6, TerminateTypes DEF CreateSetupFails, TableOK
  <2> QED
    BY <1>0, <2>2, <2>3, MovesKeeps DEF Base
<1>7. CASE DeleteStop(r)
  <2>1. Move(r, "deleteStop", "deleteWait") /\ creating' = creating
    BY <1>7 DEF DeleteStop
  <2>2. Moves(r)
    BY <1>0, <2>1, MoveMoves DEF Stages, NamedStages, CreateStages, AttachStages
  <2>3. TableOK'
    <3>1. UNCHANGED <<sessions, inflight, stopped, reaping, minted, disk>>
      BY <1>7 DEF DeleteStop
    <3>2. proc' \in [Procs -> [st : {"none", "up", "stopping", "gone"}, id : Ids \cup {None}]]
      BY <1>0, <1>7, TerminateTypes DEF DeleteStop
    <3> QED
      BY <1>0, <3>1, <3>2 DEF TableOK
  <2> QED
    BY <1>0, <2>2, <2>3, MovesKeeps DEF Base
<1>8. CASE PurgeAttached(r)
  <2>1. Move(r, "purge", "deleteStop") /\ creating' = creating
    BY <1>8 DEF PurgeAttached
  <2>2. Moves(r)
    BY <1>0, <2>1, MoveMoves DEF Stages, NamedStages, CreateStages, AttachStages
  <2>3. TableOK'
    BY <1>0, <1>8 DEF PurgeAttached, TableOK, Terminate
  <2> QED
    BY <1>0, <2>2, <2>3, MovesKeeps DEF Base
<1>9. CASE CancelWait(r)
  <2>1. Done(r, "waiting") /\ creating' = creating
    BY <1>9 DEF CancelWait
  <2>2. Moves(r)
    BY <1>0, <2>1, DoneMoves DEF CreateStages
  <2>3. TableOK'
    BY <1>0, <1>9 DEF CancelWait, TableOK
  <2> QED
    BY <1>0, <2>2, <2>3, MovesKeeps DEF Base
<1>10. CASE OwnStopped(r)
  <2>1. Done(r, "stopping") /\ creating' = creating
    BY <1>10 DEF OwnStopped
  <2>2. Moves(r)
    BY <1>0, <2>1, DoneMoves DEF CreateStages
  <2>3. TableOK'
    BY <1>0, <1>10 DEF OwnStopped, TableOK
  <2> QED
    BY <1>0, <2>2, <2>3, MovesKeeps DEF Base
<1>11. CASE CreateSpawnFails(r)
  <2>1. Done(r, "createSpawn") /\ creating' = creating - 1
    BY <1>11 DEF CreateSpawnFails
  <2>2. Moves(r)
    BY <1>0, <2>1, DoneMoves DEF CreateStages
  <2>3. TableOK'
    BY <1>0, <1>11 DEF CreateSpawnFails, TableOK
  <2> QED
    BY <1>0, <2>2, <2>3, MovesKeeps DEF Base
<1>12. CASE ReleaseReservation(r)
  <2>1. Done(r, "createUnspawn") /\ creating' = creating - 1
    BY <1>12 DEF ReleaseReservation
  <2>2. Moves(r)
    BY <1>0, <2>1, DoneMoves DEF CreateStages
  <2>3. TableOK'
    BY <1>0, <1>12 DEF ReleaseReservation, TableOK
  <2> QED
    BY <1>0, <2>2, <2>3, MovesKeeps DEF Base
<1>13. CASE Deleted(r)
  <2>1. Done(r, "deleteWait") /\ creating' = creating
    BY <1>13 DEF Deleted
  <2>2. Moves(r)
    BY <1>0, <2>1, DoneMoves DEF CreateStages
  <2>3. TableOK'
    BY <1>0, <1>13 DEF Deleted, TableOK
  <2> QED
    BY <1>0, <2>2, <2>3, MovesKeeps DEF Base
<1>14. CASE Attach(r)
  <2>1. PICK to \in Request :
          /\ WellFormed(r, to) /\ to.at \notin CreateStages
          /\ req' = [req EXCEPT ![r] = to]
    <3>1. /\ req[r].id \in Ids /\ req[r].at = "attach"
          /\ sessions' \in [Ids -> Procs \cup {None}]
      BY <1>0, <1>14 DEF Attach, AttachTry, WellFormed, NamedStages, TableOK, Pruned
    <3>2. \/ req' = [req EXCEPT ![r] = IdleReq]
          \/ req' = [req EXCEPT ![r] = [req[r] EXCEPT !.at = "waiting"]]
          \/ req' = [req EXCEPT ![r] = [req[r] EXCEPT !.at = "spawn"]]
          \/ req' = [req EXCEPT ![r] = [req[r] EXCEPT !.at = "purge", !.proc = sessions'[req[r].id]]]
      BY <1>14 DEF Attach, AttachTry, Step, Move, Done, Back
    <3> QED
      BY <1>0, <3>1, <3>2
         DEF WellFormed, Request, IdleReq, Stages, NamedStages, CreateStages, AttachStages
  <2>2. creating' = creating /\ req[r].at \notin CreateStages
    BY <1>14 DEF Attach, AttachTry, CreateStages
  <2>3. Moves(r)
    BY <1>0, <2>1, <2>2, StepMoves
  <2>4. TableOK'
    BY <1>0, <1>14 DEF Attach, AttachTry, TableOK, Pruned, WellFormed, NamedStages
  <2> QED
    BY <1>0, <2>3, <2>4, MovesKeeps DEF Base
<1>15. CASE SpawnAttached(r)
  <2>1. PICK p \in Procs : /\ proc' = [proc EXCEPT ![p] = [st |-> "up", id |-> req[r].id]]
                           /\ Step(r, "spawn", [req[r] EXCEPT !.at = "setup", !.proc = p])
                           /\ creating' = creating
    BY <1>15 DEF SpawnAttached, Spawn
  <2>2. WellFormed(r, [req[r] EXCEPT !.at = "setup", !.proc = p])
    BY <1>0, <2>1 DEF Step, WellFormed, Request, Stages, NamedStages, CreateStages, AttachStages
  <2>3. Moves(r)
    BY <1>0, <2>1, <2>2, StepMoves DEF Step, CreateStages, Request
  <2>4. TableOK'
    BY <1>0, <1>15, <2>1 DEF SpawnAttached, TableOK, Request
  <2> QED
    BY <1>0, <2>3, <2>4, MovesKeeps DEF Base
<1>16. CASE Unflight(r)
  <2>1. WellFormed(r, IdleReq) /\ IdleReq.at = "idle"
    BY DEF WellFormed, Request, IdleReq, Stages, NamedStages, CreateStages, AttachStages
  <2>2. ReqsOK'
    BY <1>0, <1>16, <2>1, LandKeeps DEF Unflight, CreateStages
  <2>3. TableOK'
    BY <1>0, <1>16 DEF Unflight, Land, TableOK
  <2> QED
    BY <2>2, <2>3 DEF Base
<1>17. CASE Publish(r)
  <2>1. PICK to : Land(r, to) /\ to \in {IdleReq, [req[r] EXCEPT !.at = "purge"],
                                         [req[r] EXCEPT !.at = "stopOwn"]}
    BY <1>17 DEF Publish, Back
  <2>2. WellFormed(r, to) /\ to.at \notin CreateStages /\ req[r].at \notin CreateStages
    BY <1>0, <1>17, <2>1
       DEF Publish, WellFormed, Request, IdleReq, Stages, NamedStages, CreateStages, AttachStages
  <2>3. ReqsOK'
    BY <1>0, <1>17, <2>1, <2>2, LandKeeps DEF Publish
  <2>4. TableOK'
    BY <1>0, <1>17 DEF Publish, Land, TableOK, Request
  <2> QED
    BY <2>3, <2>4 DEF Base
<1>18. CASE Reserve(r)
  <2>1. \/ Done(r, "create") /\ creating' = creating
        \/ Move(r, "create", "createSpawn") /\ creating' = creating + 1
    BY <1>18 DEF Reserve
  <2>2. Moves(r)
    BY <1>0, <2>1, MoveMoves, DoneMoves DEF Stages, NamedStages, CreateStages, AttachStages
  <2>3. TableOK'
    BY <1>0, <1>18 DEF Reserve, TableOK, Pruned
  <2> QED
    BY <1>0, <2>2, <2>3, MovesKeeps DEF Base
<1>19. CASE SpawnCreated(r)
  <2>1. PICK p \in Procs : /\ proc' = [proc EXCEPT ![p] = [st |-> "up", id |-> None]]
                           /\ Step(r, "createSpawn", [req[r] EXCEPT !.at = "createSetup", !.proc = p])
                           /\ creating' = creating
    BY <1>19 DEF SpawnCreated, Spawn
  <2>2. WellFormed(r, [req[r] EXCEPT !.at = "createSetup", !.proc = p])
    BY <1>0, <2>1 DEF Step, WellFormed, Request, Stages, NamedStages, CreateStages, AttachStages
  <2>3. Moves(r)
    BY <1>0, <2>1, <2>2, StepMoves DEF Step, CreateStages, Request
  <2>4. TableOK'
    BY <1>0, <1>19, <2>1 DEF SpawnCreated, TableOK
  <2> QED
    BY <1>0, <2>3, <2>4, MovesKeeps DEF Base
<1>20. CASE SetupCreated(r)
  <2>1. PICK i \in Ids : /\ Step(r, "createSetup", [req[r] EXCEPT !.at = "createPublish", !.id = i])
                         /\ minted' = minted \cup {i}
                         /\ proc' = [proc EXCEPT ![req[r].proc].id = i]
                         /\ creating' = creating
    BY <1>20 DEF SetupCreated
  <2>2. WellFormed(r, [req[r] EXCEPT !.at = "createPublish", !.id = i])
    BY <1>0, <2>1 DEF Step, WellFormed, Request, Stages, NamedStages, CreateStages, AttachStages
  <2>3. Moves(r)
    BY <1>0, <2>1, <2>2, StepMoves DEF Step, CreateStages, Request
  <2>4. TableOK'
    <3>1. UNCHANGED <<sessions, inflight, stopped, reaping, disk>>
      BY <1>20 DEF SetupCreated
    <3>2. minted' \subseteq Ids
      BY <1>0, <2>1 DEF TableOK
    <3>3. proc' \in [Procs -> [st : {"none", "up", "stopping", "gone"}, id : Ids \cup {None}]]
      BY <1>0, <2>1 DEF TableOK
    <3> QED
      BY <1>0, <3>1, <3>2, <3>3 DEF TableOK
  <2> QED
    BY <1>0, <2>3, <2>4, MovesKeeps DEF Base
<1>21. CASE PublishCreated(r)
  <2>1. /\ creating' = creating - 1
        /\ Move(r, "createPublish", "stopOwn") \/ Done(r, "createPublish")
    BY <1>21 DEF PublishCreated
  <2>2. Moves(r)
    <3>1. CASE Move(r, "createPublish", "stopOwn")
      <4>1. creating' = creating + (IF "stopOwn" \in CreateStages THEN 1 ELSE 0)
                                 - (IF "createPublish" \in CreateStages THEN 1 ELSE 0)
        BY <1>0, <2>1 DEF CreateStages
      <4>2. /\ "stopOwn" \in Stages /\ "stopOwn" \notin NamedStages
            /\ "stopOwn" \notin CreateStages \cup {"create"}
        BY DEF Stages, NamedStages, CreateStages, AttachStages
      <4> QED
        BY <1>0, <3>1, <4>1, <4>2, MoveMoves
    <3>2. CASE Done(r, "createPublish")
      BY <1>0, <2>1, <3>2, DoneMoves DEF CreateStages
    <3> QED
      BY <2>1, <3>1, <3>2
  <2>3. TableOK'
    BY <1>0, <1>21 DEF PublishCreated, TableOK, Request
  <2> QED
    BY <1>0, <2>2, <2>3, MovesKeeps DEF Base
<1>22. CASE Delete(r)
  <2>1. PICK to : /\ to \in {IdleReq, [req[r] EXCEPT !.at = "attach"],
                             [req[r] EXCEPT !.at = "deleteStop", !.proc = sessions[req[r].id]]}
                  /\ Step(r, "delete", to) /\ creating' = creating
    BY <1>22 DEF Delete
  <2>2. WellFormed(r, to) /\ to.at \notin CreateStages
    <3>1. req[r].id \in Ids /\ sessions[req[r].id] \in Procs \cup {None}
      BY <1>0, <2>1 DEF Step, WellFormed, NamedStages, TableOK
    <3>2. CASE to = IdleReq
      BY <3>2 DEF WellFormed, Request, IdleReq, Stages, NamedStages, CreateStages, AttachStages
    <3>3. CASE to = [req[r] EXCEPT !.at = "attach"]
      BY <1>0, <3>1, <3>3 DEF WellFormed, Request, Stages, NamedStages, CreateStages, AttachStages
    <3>4. CASE to = [req[r] EXCEPT !.at = "deleteStop", !.proc = sessions[req[r].id]]
      BY <1>0, <3>1, <3>4 DEF WellFormed, Request, Stages, NamedStages, CreateStages, AttachStages
    <3> QED
      BY <2>1, <3>2, <3>3, <3>4
  <2>3. Moves(r)
    BY <1>0, <2>1, <2>2, StepMoves DEF Step, CreateStages
  <2>4. TableOK'
    BY <1>0, <1>22 DEF Delete, TableOK
  <2> QED
    BY <1>0, <2>3, <2>4, MovesKeeps DEF Base
<1>23. CASE Begin(r)
  <2>1. PICK to : /\ WellFormed(r, to) /\ to.at \notin CreateStages
                  /\ Step(r, "idle", to) /\ creating' = creating
    <3>1. CASE r \in Creators
      <4>1. WellFormed(r, [req[r] EXCEPT !.at = "create"])
        BY <1>0, <3>1 DEF WellFormed, Request, Stages, NamedStages, CreateStages, AttachStages
      <4> QED
        BY <1>0, <1>23, <3>1, <4>1 DEF Begin, Move, CreateStages, Request
    <3>2. CASE r \notin Creators
      <4>1. PICK i \in Ids, at \in {"attach", "delete"} :
              Step(r, "idle", [IdleReq EXCEPT !.at = at, !.id = i])
        BY <1>23, <3>2 DEF Begin
      <4>2. WellFormed(r, [IdleReq EXCEPT !.at = at, !.id = i])
        BY DEF WellFormed, Request, IdleReq, Stages, NamedStages, CreateStages, AttachStages
      <4> QED
        BY <1>23, <4>1, <4>2 DEF Begin, CreateStages, IdleReq
    <3> QED
      BY <3>1, <3>2
  <2>2. Moves(r)
    BY <1>0, <2>1, StepMoves DEF Step, CreateStages
  <2>3. TableOK'
    BY <1>0, <1>23 DEF Begin, TableOK
  <2> QED
    BY <1>0, <2>2, <2>3, MovesKeeps DEF Base
<1> QED
  BY <1>1, <1>2, <1>3, <1>4, <1>5, <1>6, <1>7, <1>8, <1>9, <1>10, <1>11, <1>12, <1>13,
     <1>14, <1>15, <1>16, <1>17, <1>18, <1>19, <1>20, <1>21, <1>22, <1>23
     DEF Proceed, AttachStep, CreateStep, DeleteStep

LEMMA NextBase ==
    ASSUME Base, [Next]_vars
    PROVE  Base'
<1> USE DEF tableVars, worldVars
<1>1. CASE \E r \in Reqs : Begin(r) \/ Proceed(r) \/ CancelWait(r)
  BY <1>1, RequestStepBase
<1>2. CASE UNCHANGED vars
  BY <1>2 DEF vars, Base, ReqsOK, TableOK, Creating
<1>3. ASSUME NEW i \in Ids, Collect(i) \/ Persist(i)
      PROVE  Base'
  BY <1>3 DEF Collect, Persist, Base, ReqsOK, TableOK, Creating
<1>4. ASSUME NEW p \in Procs, Reap(p) \/ Reaped(p) \/ Exit(p) \/ Reclaim(p)
      PROVE  Base'
  <2>1. ReqsOK'
    BY <1>4 DEF Reap, Reaped, Exit, Reclaim, Base, ReqsOK, Creating
  <2>2. TableOK'
    BY <1>4 DEF Reap, Reaped, Exit, Reclaim, Terminate, NoProc, Base, TableOK
  <2> QED
    BY <2>1, <2>2 DEF Base
<1>5. CASE Stop
  BY <1>5 DEF Stop, Base, ReqsOK, TableOK, Creating, Mapped
<1> QED
  BY <1>1, <1>2, <1>3, <1>4, <1>5 DEF Next

LEMMA InitBase == Init => Base
<1> SUFFICES ASSUME Init PROVE Base
  OBVIOUS
<1>1. Creating = {}
  BY DEF Init, Creating, IdleReq, CreateStages
<1>2. ReqsOK
  BY <1>1, FS_EmptySet
     DEF Init, ReqsOK, WellFormed, Request, IdleReq, Stages, NamedStages, CreateStages, AttachStages
<1>3. TableOK
  BY DEF Init, TableOK, NoProc
<1> QED
  BY <1>2, <1>3 DEF Base

LEMMA BaseInvariant == Spec => []Base
<1> QED
  BY InitBase, NextBase, PTL DEF Spec

\* The manager's bookkeeping keeps its types: in particular creating, which
\* reserveCreate and releaseCreateReservation count up and down from different
\* places of Create, never falls below zero.
THEOREM TypeCorrect == Spec => []TypeOK
<1> QED
  BY BaseInvariant, BaseTypes, PTL

-----------------------------------------------------------------------------
(* The singleflight of attach. *)

\* The id that pi minted for a Create is known to nobody else before Create
\* published its session.
MintedApart ==
    \A r \in Reqs : req[r].at = "createPublish" =>
        \A q \in Reqs : q # r => req[q].id # req[r].id

Collapsed == AttachCollapsed /\ MintedApart

LEMMA RequestStepCollapsed ==
    ASSUME Base, Collapsed, NEW r \in Reqs, Begin(r) \/ Proceed(r) \/ CancelWait(r)
    PROVE  Collapsed'
<1> USE DEF tableVars, worldVars
<1>0. /\ req \in [Reqs -> Request] /\ sessions \in [Ids -> Procs \cup {None}]
      /\ \A q \in Reqs : req[q].at \in NamedStages => req[q].id \in Ids
      /\ \A q \in Reqs : req[q].at \in CreateStages => q \in Creators
      /\ None \notin Ids
  BY SetsAssumption DEF Base, ReqsOK, TableOK, WellFormed
<1>1. CASE Attach(r)
  <2>1. /\ req[r].at = "attach" /\ req[r].id \in Ids
        /\ \A i \in Ids : sessions'[i] \in {sessions[i], None}
    <3>1. req[r].at = "attach" /\ sessions' \in {sessions, Pruned}
      BY <1>1 DEF Attach, AttachTry
    <3>2. req[r].id \in Ids
      BY <1>0, <3>1 DEF NamedStages
    <3>3. \A i \in Ids : Pruned[i] \in {sessions[i], None}
      BY <1>0 DEF Pruned
    <3> QED
      BY <3>1, <3>2, <3>3
  <2>2. CASE req' = [req EXCEPT ![r] = [req[r] EXCEPT !.at = "spawn"]]
    <3>1. /\ inflight' = inflight \cup {req[r].id}
          /\ req[r].id \notin inflight /\ sessions'[req[r].id] = None
      <4>1. req'[r].at = "spawn" /\ IdleReq.at = "idle" /\ req[r] \in Request
        BY <1>0, <2>2 DEF IdleReq, Request
      <4>2. \A to : /\ req' = [req EXCEPT ![r] = to]
                    /\ to.at # "spawn"
                   => FALSE
        BY <1>0, <4>1
      <4>3. /\ ~Done(r, "attach") /\ ~Move(r, "attach", "waiting")
            /\ \A to : to.at # "spawn" => ~Step(r, "attach", to)
        BY <4>1, <4>2 DEF Done, Move, Step, Request
      <4>4. Back(r) # "spawn" /\ \A p : [req[r] EXCEPT !.at = Back(r), !.proc = p].at = Back(r)
        BY <4>1 DEF Back, Request
      <4> QED
        BY <1>1, <4>1, <4>3, <4>4 DEF Attach, AttachTry, Joins
    <3>2. AttachCollapsed'
      BY <1>0, <2>1, <2>2, <3>1
         DEF Collapsed, AttachCollapsed, AttachStages, NamedStages, Request
    <3>3. MintedApart'
      BY <1>0, <2>1, <2>2, <3>1 DEF Collapsed, MintedApart, Request
    <3> QED
      BY <3>2, <3>3 DEF Collapsed
  <2>3. CASE req' # [req EXCEPT ![r] = [req[r] EXCEPT !.at = "spawn"]]
    <3>1. inflight' = inflight
      BY <1>1, <2>3 DEF Attach, AttachTry, Move, Step
    <3>2. PICK to \in Request :
            /\ req' = [req EXCEPT ![r] = to] /\ to.id \in {None, req[r].id}
            /\ to.at \notin AttachStages \cup {"createPublish"}
      <4>1. \/ req' = [req EXCEPT ![r] = IdleReq]
            \/ req' = [req EXCEPT ![r] = [req[r] EXCEPT !.at = "waiting"]]
            \/ req' = [req EXCEPT ![r] = [req[r] EXCEPT !.at = "purge",
                                                        !.proc = sessions'[req[r].id]]]
        BY <1>1, <2>3 DEF Attach, AttachTry, Step, Move, Done, Back
      <4>2. sessions'[req[r].id] \in Procs \cup {None}
        BY <1>0, <2>1
      <4>3. ASSUME NEW to \in {IdleReq, [req[r] EXCEPT !.at = "waiting"],
                               [req[r] EXCEPT !.at = "purge", !.proc = sessions'[req[r].id]]}
            PROVE  /\ to \in Request /\ to.id \in {None, req[r].id}
                   /\ to.at \notin AttachStages \cup {"createPublish"}
        <5>1. CASE to = IdleReq
          BY <5>1 DEF IdleReq, Request, Stages, AttachStages
        <5>2. CASE to = [req[r] EXCEPT !.at = "waiting"]
          BY <1>0, <5>2 DEF Request, Stages, AttachStages
        <5>3. CASE to = [req[r] EXCEPT !.at = "purge", !.proc = sessions'[req[r].id]]
          BY <1>0, <4>2, <5>3 DEF Request, Stages, AttachStages
        <5> QED
          BY <4>3, <5>1, <5>2, <5>3
      <4> QED
        BY <4>1, <4>3
    <3>3. AttachCollapsed'
      BY <1>0, <2>1, <3>1, <3>2 DEF Collapsed, AttachCollapsed, AttachStages, NamedStages
    <3>4. MintedApart'
      BY <1>0, <2>1, <3>1, <3>2 DEF Collapsed, MintedApart, NamedStages
    <3> QED
      BY <3>3, <3>4 DEF Collapsed
  <2> QED
    BY <2>2, <2>3
<1>2. CASE SpawnAttached(r)
  <2>1. AttachCollapsed'
    BY <1>0, <1>2
       DEF SpawnAttached, Spawn, Step, Collapsed, AttachCollapsed, MintedApart, AttachStages,
           NamedStages, CreateStages, Request
  <2>2. MintedApart'
    BY <1>0, <1>2
       DEF SpawnAttached, Spawn, Step, Collapsed, MintedApart, AttachStages, NamedStages,
           CreateStages, Request
  <2> QED
    BY <2>1, <2>2 DEF Collapsed
<1>3. CASE Unflight(r)
  <2>1. AttachCollapsed'
    BY <1>0, <1>3
       DEF Unflight, Land, IdleReq, Collapsed, AttachCollapsed, MintedApart, AttachStages,
           NamedStages, CreateStages, Request
  <2>2. MintedApart'
    BY <1>0, <1>3
       DEF Unflight, Land, IdleReq, Collapsed, MintedApart, AttachStages, NamedStages,
           CreateStages, Request
  <2> QED
    BY <2>1, <2>2 DEF Collapsed
<1>4. CASE Publish(r)
  <2>1. AttachCollapsed'
    BY <1>0, <1>4
       DEF Publish, Land, IdleReq, Back, Collapsed, AttachCollapsed, MintedApart,
           AttachStages, NamedStages, CreateStages, Request
  <2>2. MintedApart'
    BY <1>0, <1>4
       DEF Publish, Land, IdleReq, Back, Collapsed, MintedApart, AttachStages, NamedStages,
           CreateStages, Request
  <2> QED
    BY <2>1, <2>2 DEF Collapsed
<1>5. CASE Reserve(r)
  <2>1. AttachCollapsed'
    BY <1>0, <1>5
       DEF Reserve, Done, Move, Step, IdleReq, Pruned, Collapsed, AttachCollapsed,
           MintedApart, AttachStages, NamedStages, CreateStages, Request
  <2>2. MintedApart'
    BY <1>0, <1>5
       DEF Reserve, Done, Move, Step, IdleReq, Pruned, Collapsed, MintedApart, AttachStages,
           NamedStages, CreateStages, Request
  <2> QED
    BY <2>1, <2>2 DEF Collapsed
<1>6. CASE SpawnCreated(r)
  <2>1. AttachCollapsed'
    BY <1>0, <1>6
       DEF SpawnCreated, Spawn, Step, Collapsed, AttachCollapsed, MintedApart, AttachStages,
           NamedStages, CreateStages, Request
  <2>2. MintedApart'
    BY <1>0, <1>6
       DEF SpawnCreated, Spawn, Step, Collapsed, MintedApart, AttachStages, NamedStages,
           CreateStages, Request
  <2> QED
    BY <2>1, <2>2 DEF Collapsed
<1>7. CASE SetupCreated(r)
  <2>1. AttachCollapsed'
    BY <1>0, <1>7
       DEF SetupCreated, Step, Collapsed, AttachCollapsed, MintedApart, AttachStages,
           NamedStages, CreateStages, Request
  <2>2. MintedApart'
    BY <1>0, <1>7
       DEF SetupCreated, Step, Collapsed, MintedApart, AttachStages, NamedStages,
           CreateStages, Request
  <2> QED
    BY <2>1, <2>2 DEF Collapsed
<1>8. CASE PublishCreated(r)
  <2>1. AttachCollapsed'
    BY <1>0, <1>8
       DEF PublishCreated, Move, Done, Step, IdleReq, Collapsed, AttachCollapsed,
           MintedApart, AttachStages, NamedStages, CreateStages, Request
  <2>2. MintedApart'
    BY <1>0, <1>8
       DEF PublishCreated, Move, Done, Step, IdleReq, Collapsed, MintedApart, AttachStages,
           NamedStages, CreateStages, Request
  <2> QED
    BY <2>1, <2>2 DEF Collapsed
<1>9. CASE Delete(r)
  <2>1. AttachCollapsed'
    BY <1>0, <1>9
       DEF Delete, Step, IdleReq, Collapsed, AttachCollapsed, MintedApart, AttachStages,
           NamedStages, CreateStages, Request
  <2>2. MintedApart'
    BY <1>0, <1>9
       DEF Delete, Step, IdleReq, Collapsed, MintedApart, AttachStages, NamedStages,
           CreateStages, Request
  <2> QED
    BY <2>1, <2>2 DEF Collapsed
<1>10. CASE Begin(r)
  <2>1. PICK to : /\ req[r].at = "idle" /\ req' = [req EXCEPT ![r] = to]
                  /\ to.at \notin AttachStages \cup {"createPublish"}
                  /\ \A q \in Reqs : req[q].at = "createPublish" /\ q # r => to.id # req[q].id
    <3>1. CASE r \in Creators
      BY <1>0, <1>10, <3>1
         DEF Begin, Move, Step, Collapsed, MintedApart, AttachStages, Request
    <3>2. CASE r \notin Creators
      <4>1. PICK i \in Ids \ {req[q].id : q \in {q \in Creators : req[q].at = "createPublish"}} :
              Step(r, "idle", [IdleReq EXCEPT !.at = IF r \in Attachers THEN "attach" ELSE "delete",
                                              !.id = i])
        BY <1>10, <3>2 DEF Begin
      <4>2. \A q \in Reqs : req[q].at = "createPublish" => req[q].id # i
        BY <1>0, <4>1 DEF CreateStages
      <4> DEFINE to == [IdleReq EXCEPT !.at = IF r \in Attachers THEN "attach" ELSE "delete",
                                       !.id = i]
      <4>3. to.id = i /\ to.at \notin AttachStages \cup {"createPublish"}
        BY DEF IdleReq, AttachStages
      <4>4. req[r].at = "idle" /\ req' = [req EXCEPT ![r] = to]
        BY <4>1 DEF Step
      <4> HIDE DEF to
      <4> QED
        BY <4>2, <4>3, <4>4
    <3> QED
      BY <3>1, <3>2
  <2>2. AttachCollapsed'
    <3>1. \A q \in Reqs : /\ q # r => req'[q] = req[q]
                          /\ req'[q].at \in AttachStages => q # r
      BY <1>0, <2>1
    <3>2. UNCHANGED <<inflight, sessions>> /\ req[r].at \notin AttachStages
      BY <1>10, <2>1 DEF Begin, Move, Step, AttachStages
    <3>3. \A q \in Reqs : /\ req'[q].at \in AttachStages <=> req[q].at \in AttachStages
                          /\ req[q].at \in AttachStages => req'[q] = req[q]
      BY <3>1, <3>2
    <3>4. \A i \in inflight' : \E q \in Reqs : req'[q].at \in AttachStages /\ req'[q].id = i
      BY <3>2, <3>3 DEF Collapsed, AttachCollapsed
    <3>5. \A q \in Reqs : req'[q].at \in AttachStages =>
            /\ req'[q].id \in inflight'
            /\ sessions'[req'[q].id] = None
            /\ \A s \in Reqs : req'[s].at \in AttachStages /\ req'[s].id = req'[q].id => s = q
      BY <3>2, <3>3 DEF Collapsed, AttachCollapsed
    <3> QED
      BY <3>4, <3>5 DEF AttachCollapsed, AttachStages
  <2>3. MintedApart'
    BY <1>0, <2>1 DEF Collapsed, MintedApart
  <2> QED
    BY <2>2, <2>3 DEF Collapsed
<1>11. CASE \/ SpawnFails(r) \/ SetupAttached(r) \/ SetupFails(r)
            \/ Unspawned(r) \/ StopOwn(r) \/ CreateSetupFails(r)
            \/ DeleteStop(r) \/ PurgeAttached(r)
  <2>1. AttachCollapsed'
    BY <1>0, <1>11
       DEF SpawnFails, SetupAttached, SetupFails, Unspawned, StopOwn, CreateSetupFails, DeleteStop, PurgeAttached, Move, Step,
           Collapsed, AttachCollapsed, MintedApart, AttachStages, NamedStages, Request
  <2>2. MintedApart'
    BY <1>0, <1>11
       DEF SpawnFails, SetupAttached, SetupFails, Unspawned, StopOwn, CreateSetupFails, DeleteStop, PurgeAttached, Move, Step,
           Collapsed, MintedApart, NamedStages, Request
  <2> QED
    BY <2>1, <2>2 DEF Collapsed
<1>12. CASE \/ OwnStopped(r) \/ CreateSpawnFails(r) \/ ReleaseReservation(r)
            \/ Deleted(r) \/ CancelWait(r)
  <2>1. AttachCollapsed'
    BY <1>0, <1>12
       DEF OwnStopped, CreateSpawnFails, ReleaseReservation, Deleted, CancelWait, Done, Step, IdleReq,
           Collapsed, AttachCollapsed, MintedApart, AttachStages, NamedStages, Request
  <2>2. MintedApart'
    BY <1>0, <1>12
       DEF OwnStopped, CreateSpawnFails, ReleaseReservation, Deleted, CancelWait, Done, Step, IdleReq,
           Collapsed, MintedApart, NamedStages, Request
  <2> QED
    BY <2>1, <2>2 DEF Collapsed
<1> QED
  BY <1>1, <1>2, <1>3, <1>4, <1>5, <1>6, <1>7, <1>8, <1>9, <1>10, <1>11, <1>12
     DEF Proceed, AttachStep, CreateStep, DeleteStep

LEMMA NextCollapsed ==
    ASSUME Base, Collapsed, [Next]_vars
    PROVE  Collapsed'
<1> USE DEF tableVars, worldVars, Collapsed, AttachCollapsed, MintedApart
<1>1. CASE \E r \in Reqs : Begin(r) \/ Proceed(r) \/ CancelWait(r)
  BY <1>1, RequestStepCollapsed
<1>2. CASE UNCHANGED vars
  BY <1>2 DEF vars
<1>3. ASSUME NEW i \in Ids, Collect(i) \/ Persist(i)
      PROVE  Collapsed'
  <2>1. /\ UNCHANGED <<req, inflight>>
        /\ \A j \in Ids : sessions'[j] \in {sessions[j], None}
    BY <1>3 DEF Collect, Persist, Base, TableOK
  <2>2. inflight \subseteq Ids
    BY DEF Base, TableOK
  <2> QED
    BY <2>1, <2>2
<1>4. ASSUME NEW p \in Procs, Reap(p) \/ Reaped(p) \/ Exit(p) \/ Reclaim(p)
      PROVE  Collapsed'
  BY <1>4 DEF Reap, Reaped, Exit, Reclaim
<1>5. CASE Stop
  <2>1. /\ UNCHANGED <<req, inflight>>
        /\ \A j \in Ids : sessions'[j] = None
    BY <1>5 DEF Stop
  <2>2. inflight \subseteq Ids
    BY DEF Base, TableOK
  <2> QED
    BY <2>1, <2>2
<1> QED
  BY <1>1, <1>2, <1>3, <1>4, <1>5 DEF Next

LEMMA InitCollapsed == Init => Collapsed
BY DEF Init, Collapsed, AttachCollapsed, MintedApart, IdleReq, AttachStages

LEMMA CollapsedInvariant == Spec => [](Base /\ Collapsed)
<1>1. Base /\ Collapsed /\ [Next]_vars => (Base /\ Collapsed)'
  BY NextBase, NextCollapsed
<1> QED
  BY <1>1, InitBase, InitCollapsed, PTL DEF Spec

\* attach lets one request at a time re-attach a session, however many ask for
\* it, and only while the session has no process.
THEOREM OneAttachAtATime == Spec => []AttachCollapsed
<1>1. Collapsed => AttachCollapsed
  BY DEF Collapsed
<1> QED
  BY <1>1, CollapsedInvariant, PTL

\* Every failure path of attach and Create returns its reservation: when no
\* request is in progress nothing but sessions counts against the limit.
THEOREM ReservationsReturned == Spec => []NothingLeaked
<1>1. Base /\ Collapsed => NothingLeaked
  <2> SUFFICES ASSUME Base, Collapsed, \A r \in Reqs : req[r].at = "idle"
               PROVE  inflight = {} /\ creating = 0
    BY DEF NothingLeaked
  <2>1. inflight = {}
    BY DEF Collapsed, AttachCollapsed, AttachStages
  <2>2. Creating = {}
    BY DEF Creating, CreateStages
  <2> QED
    BY <2>1, <2>2, FS_EmptySet DEF Base, ReqsOK
<1> QED
  BY <1>1, CollapsedInvariant, PTL

-----------------------------------------------------------------------------
(* The session limit. *)

LEMMA MappedFinite ==
    ASSUME NEW f
    PROVE  IsFiniteSet(Mapped(f)) /\ Cardinality(Mapped(f)) \in Nat
<1>1. Mapped(f) \in SUBSET Ids
  BY DEF Mapped
<1> QED
  BY <1>1, SetsAssumption, FS_Subset, FS_CardinalityType

LEMMA MappedShrinks ==
    ASSUME NEW f, NEW g, \A i \in Ids : g[i] \in {f[i], None}
    PROVE  Cardinality(Mapped(g)) <= Cardinality(Mapped(f))
<1>1. Mapped(g) \in SUBSET Mapped(f)
  BY DEF Mapped
<1> QED
  BY <1>1, MappedFinite, FS_Subset

LEMMA MappedGrows ==
    ASSUME NEW f \in [Ids -> Procs \cup {None}], NEW i, NEW p, NEW g,
           g = [f EXCEPT ![i] = p]
    PROVE  Cardinality(Mapped(g)) <= Cardinality(Mapped(f)) + 1
<1>1. Mapped(g) \in SUBSET (Mapped(f) \cup {i})
  BY DEF Mapped
<1>2. /\ IsFiniteSet(Mapped(f) \cup {i})
      /\ Cardinality(Mapped(f) \cup {i}) =
           IF i \in Mapped(f) THEN Cardinality(Mapped(f)) ELSE Cardinality(Mapped(f)) + 1
  BY MappedFinite, FS_AddElement
<1>3. Cardinality(Mapped(g)) <= Cardinality(Mapped(f) \cup {i})
  BY <1>1, <1>2, FS_Subset
<1> QED
  BY <1>2, <1>3, MappedFinite

LEMMA InflightFinite ==
    ASSUME Base
    PROVE  IsFiniteSet(inflight) /\ Cardinality(inflight) \in Nat /\ creating \in Nat
<1>1. inflight \in SUBSET Ids
  BY DEF Base, TableOK
<1> QED
  BY <1>1, SetsAssumption, FS_Subset, FS_CardinalityType DEF Base, ReqsOK

LEMMA CountsNext ==
    ASSUME Base'
    PROVE  Cardinality(inflight') \in Nat /\ creating' \in Nat
<1>1. inflight' \in SUBSET Ids /\ IsFiniteSet(Creating') /\ creating' = Cardinality(Creating')
  BY DEF Base, TableOK, ReqsOK
<1> QED
  BY <1>1, SetsAssumption, FS_Subset, FS_CardinalityType

\* A step that reserves nothing.
NothingAdded ==
    /\ \A i \in Ids : sessions'[i] \in {sessions[i], None}
    /\ inflight' \subseteq inflight
    /\ creating' <= creating

LEMMA NothingAddedFits ==
    ASSUME Base, Base', CapacityKept, NothingAdded
    PROVE  CapacityKept'
<1>1. Cardinality(inflight') <= Cardinality(inflight)
  BY InflightFinite, FS_Subset DEF NothingAdded
<1>2. Cardinality(Mapped(sessions')) <= Cardinality(Mapped(sessions))
  BY MappedShrinks DEF NothingAdded
<1>3. /\ Cardinality(inflight) \in Nat /\ Cardinality(inflight') \in Nat
      /\ creating \in Nat /\ creating' \in Nat /\ creating' <= creating
  BY InflightFinite, CountsNext DEF NothingAdded
<1> QED
  BY <1>1, <1>2, <1>3, MappedFinite, MaxSessionsAssumption DEF CapacityKept, Load

LEMMA RequestStepFits ==
    ASSUME Base, Base', Collapsed, CapacityKept,
           NEW r \in Reqs, Begin(r) \/ Proceed(r) \/ CancelWait(r)
    PROVE  CapacityKept'
<1> USE DEF tableVars, worldVars
<1>0. /\ creating \in Nat /\ creating' \in Nat
      /\ Cardinality(inflight) \in Nat /\ Cardinality(inflight') \in Nat
      /\ IsFiniteSet(inflight)
      /\ sessions \in [Ids -> Procs \cup {None}]
      /\ MaxSessions \in Nat
  BY InflightFinite, CountsNext, MaxSessionsAssumption DEF Base, TableOK
<1>1. CASE Attach(r)
  <2>1. \A i \in Ids : sessions'[i] \in {sessions[i], None}
    BY <1>0, <1>1 DEF Attach, AttachTry, Pruned
  <2>2. CASE inflight' = inflight
    BY <1>0, <1>1, <2>1, <2>2, NothingAddedFits DEF Attach, AttachTry, NothingAdded
  <2>3. CASE inflight' # inflight
    <3>1. /\ inflight' = inflight \cup {req[r].id} /\ creating' = creating
          /\ Load(sessions') < MaxSessions
      BY <1>1, <2>3 DEF Attach, AttachTry
    <3>2. Cardinality(inflight \cup {req[r].id}) =
            IF req[r].id \in inflight THEN Cardinality(inflight) ELSE Cardinality(inflight) + 1
      BY <1>0, FS_AddElement
    <3> QED
      BY <1>0, <3>1, <3>2, MappedFinite DEF CapacityKept, Load
  <2> QED
    BY <2>2, <2>3
<1>2. CASE Publish(r)
  <2>1. CASE stopped
    BY <1>0, <1>2, <2>1, NothingAddedFits DEF Publish, Land, NothingAdded
  <2>2. CASE ~stopped
    <3>1. /\ sessions' = [sessions EXCEPT ![req[r].id] = req[r].proc]
          /\ inflight' = inflight \ {req[r].id} /\ creating' = creating
      BY <1>2, <2>2 DEF Publish, Land
    <3>2. req[r].id \in inflight
      BY <1>2 DEF Publish, Collapsed, AttachCollapsed, AttachStages
    <3>3. Cardinality(inflight') = Cardinality(inflight) - 1
      BY <1>0, <3>1, <3>2, FS_RemoveElement
    <3>4. Cardinality(Mapped(sessions')) <= Cardinality(Mapped(sessions)) + 1
      BY <1>0, <3>1, MappedGrows
    <3> QED
      BY <1>0, <3>1, <3>3, <3>4, MappedFinite DEF CapacityKept, Load
  <2> QED
    BY <2>1, <2>2
<1>3. CASE Reserve(r)
  <2>1. CASE creating' = creating
    BY <1>0, <1>3, <2>1, NothingAddedFits DEF Reserve, Pruned, NothingAdded
  <2>2. CASE creating' # creating
    <3>1. /\ creating' = creating + 1 /\ inflight' = inflight /\ sessions' = Pruned
          /\ ~(Load(Pruned) >= MaxSessions)
      BY <1>3, <2>2 DEF Reserve
    <3> QED
      BY <1>0, <3>1, MappedFinite DEF CapacityKept, Load
  <2> QED
    BY <2>1, <2>2
<1>4. CASE PublishCreated(r)
  <2>1. CASE sessions' = sessions
    BY <1>0, <1>4, <2>1, NothingAddedFits DEF PublishCreated, NothingAdded
  <2>2. CASE sessions' # sessions
    <3>1. /\ sessions' = [sessions EXCEPT ![req[r].id] = req[r].proc]
          /\ inflight' = inflight /\ creating' = creating - 1
      BY <1>4, <2>2 DEF PublishCreated
    <3>2. Cardinality(Mapped(sessions')) <= Cardinality(Mapped(sessions)) + 1
      BY <1>0, <3>1, MappedGrows
    <3> QED
      BY <1>0, <3>1, <3>2, MappedFinite DEF CapacityKept, Load
  <2> QED
    BY <2>1, <2>2
<1>5. CASE Unflight(r)
  BY <1>0, <1>5, NothingAddedFits DEF Unflight, Land, NothingAdded
<1>6. CASE SpawnCreated(r)
  BY <1>0, <1>6, NothingAddedFits DEF SpawnCreated, NothingAdded
<1>7. CASE SetupCreated(r)
  BY <1>0, <1>7, NothingAddedFits DEF SetupCreated, NothingAdded
<1>8. CASE Delete(r)
  BY <1>0, <1>8, NothingAddedFits DEF Delete, NothingAdded
<1>9. CASE Begin(r)
  <2>1. UNCHANGED <<sessions, inflight, creating>>
    BY <1>9 DEF Begin
  <2> QED
    BY <1>0, <2>1, NothingAddedFits DEF NothingAdded
<1>10. CASE \/ SpawnFails(r) \/ SetupAttached(r) \/ SetupFails(r)
            \/ Unspawned(r) \/ StopOwn(r) \/ CreateSetupFails(r)
            \/ DeleteStop(r) \/ PurgeAttached(r) \/ SpawnAttached(r)
  BY <1>0, <1>10, NothingAddedFits
     DEF SpawnFails, SetupAttached, SetupFails, Unspawned, StopOwn, CreateSetupFails,
         DeleteStop, PurgeAttached, SpawnAttached, NothingAdded
<1>11. CASE \/ OwnStopped(r) \/ CreateSpawnFails(r) \/ ReleaseReservation(r)
            \/ Deleted(r) \/ CancelWait(r)
  BY <1>0, <1>11, NothingAddedFits
     DEF OwnStopped, CreateSpawnFails, ReleaseReservation, Deleted, CancelWait,
         NothingAdded
<1> QED
  BY <1>1, <1>2, <1>3, <1>4, <1>5, <1>6, <1>7, <1>8, <1>9, <1>10, <1>11
     DEF Proceed, AttachStep, CreateStep, DeleteStep

LEMMA NextFits ==
    ASSUME Base, Base', Collapsed, CapacityKept, [Next]_vars
    PROVE  CapacityKept'
<1> USE DEF tableVars, worldVars
<1>0. creating \in Nat /\ sessions \in [Ids -> Procs \cup {None}]
  BY InflightFinite DEF Base, TableOK
<1>1. CASE \E r \in Reqs : Begin(r) \/ Proceed(r) \/ CancelWait(r)
  BY <1>1, RequestStepFits
<1>2. CASE UNCHANGED vars
  BY <1>0, <1>2, NothingAddedFits DEF vars, NothingAdded
<1>3. ASSUME NEW i \in Ids, Collect(i) \/ Persist(i)
      PROVE  CapacityKept'
  BY <1>0, <1>3, NothingAddedFits DEF Collect, Persist, NothingAdded
<1>4. ASSUME NEW p \in Procs, Reap(p) \/ Reaped(p) \/ Exit(p) \/ Reclaim(p)
      PROVE  CapacityKept'
  BY <1>0, <1>4, NothingAddedFits DEF Reap, Reaped, Exit, Reclaim, NothingAdded
<1>5. CASE Stop
  BY <1>0, <1>5, NothingAddedFits DEF Stop, NothingAdded
<1> QED
  BY <1>1, <1>2, <1>3, <1>4, <1>5 DEF Next

LEMMA InitFits == Init => CapacityKept
<1> SUFFICES ASSUME Init PROVE CapacityKept
  OBVIOUS
<1>1. Mapped(sessions) = {} /\ inflight = {} /\ creating = 0
  BY DEF Init, Mapped
<1> QED
  BY <1>1, FS_EmptySet, MaxSessionsAssumption DEF CapacityKept, Load

\* Config.MaxSessions bounds the sessions, attaches and creates together, for
\* any number of requests in any state of their spawning.
THEOREM SessionLimit == Spec => []CapacityKept
<1>1. Base /\ Collapsed /\ CapacityKept /\ [Next]_vars => (Base /\ Collapsed /\ CapacityKept)'
  BY NextBase, NextCollapsed, NextFits
<1> QED
  BY <1>1, InitBase, InitCollapsed, InitFits, PTL DEF Spec

-----------------------------------------------------------------------------
(* Who owns a process.  A purge takes a table entry away whatever process it *)
(* holds by then, so this is about managers without purges.                  *)

\* Where a request has no process yet.
BareStages == {"idle", "attach", "waiting", "spawn", "create", "createSpawn", "delete"}

Referenced(p) ==
    (\E i \in Ids : sessions[i] = p) \/ (\E r \in Reqs : req[r].proc = p) \/ p \in reaping

BareOK ==
    \A r \in Reqs :
        /\ req[r].at \in BareStages => req[r].proc = None
        /\ req[r].at = "unflight" => req[r].proc = None \/ Exited(req[r].proc)

ReferencedExist == \A p \in Procs : Referenced(p) => proc[p].st # "none"

StoppedEmpty == stopped => \A i \in Ids : sessions[i] = None

Owned == BareOK /\ ReferencedExist /\ StoppedEmpty /\ AliveOwned

LEMMA RequestStepOwned ==
    ASSUME NoPurgeRace, Base, Collapsed, Owned,
           NEW r \in Reqs, Begin(r) \/ Proceed(r) \/ CancelWait(r)
    PROVE  Owned'
<1> USE DEF tableVars, worldVars
<1>0. /\ req \in [Reqs -> Request] /\ sessions \in [Ids -> Procs \cup {None}]
      /\ proc \in [Procs -> [st : {"none", "up", "stopping", "gone"}, id : Ids \cup {None}]]
      /\ req[r].at \in NamedStages => req[r].id \in Ids
      /\ None \notin Procs
  BY SetsAssumption DEF Base, ReqsOK, TableOK, WellFormed
<1>1. CASE Attach(r)
  <2>1. /\ req[r].at = "attach" /\ req[r].proc = None /\ req[r].id \in Ids
        /\ UNCHANGED <<proc, reaping, stopped>>
    BY <1>0, <1>1 DEF Attach, AttachTry, Owned, BareOK, BareStages, NamedStages
  <2>2. /\ Pruned \in [Ids -> Procs \cup {None}]
        /\ \A i \in Ids : Pruned[i] = sessions[i] \/ (Pruned[i] = None /\ ~Alive(sessions[i]))
    BY <1>0 DEF Pruned, Exited
  <2>3. sessions' = sessions \/ (sessions' = Pruned /\ ~stopped)
    BY <1>1 DEF Attach, AttachTry
  <2>4. \A i \in Ids : sessions'[i] = sessions[i] \/ (sessions'[i] = None /\ ~Alive(sessions[i]))
    BY <2>2, <2>3
  <2>5. \/ req' = [req EXCEPT ![r] = IdleReq]
        \/ req' = [req EXCEPT ![r] = [req[r] EXCEPT !.at = "waiting"]]
        \/ req' = [req EXCEPT ![r] = [req[r] EXCEPT !.at = "spawn"]]
        \/ /\ ~stopped /\ Pruned[req[r].id] # None
           /\ req' = [req EXCEPT ![r] = [req[r] EXCEPT !.at = "purge", !.proc = Pruned[req[r].id]]]
    BY <1>1 DEF Attach, AttachTry, Step, Move, Done, Back
  <2>6. /\ \A q \in Reqs : q # r => req'[q] = req[q]
        /\ \/ req'[r].at \in {"idle", "waiting", "spawn"} /\ req'[r].proc = None
           \/ req'[r].at = "purge" /\ \E i \in Ids : req'[r].proc = sessions[i]
    <3>1. PICK new : req' = [req EXCEPT ![r] = new]
      BY <2>5
    <3>2. req'[r] = new /\ \A q \in Reqs : q # r => req'[q] = req[q]
      BY <1>0, <3>1
    <3>3. \/ req'[r] \in {IdleReq, [req[r] EXCEPT !.at = "waiting"], [req[r] EXCEPT !.at = "spawn"]}
          \/ /\ Pruned[req[r].id] # None
             /\ req'[r] = [req[r] EXCEPT !.at = "purge", !.proc = Pruned[req[r].id]]
      BY <1>0, <2>5
    <3>4. req[r] \in Request
      BY <1>0
    <3>5. CASE req'[r] \in {IdleReq, [req[r] EXCEPT !.at = "waiting"], [req[r] EXCEPT !.at = "spawn"]}
      BY <2>1, <3>2, <3>4, <3>5 DEF IdleReq, Request
    <3>6. CASE /\ Pruned[req[r].id] # None
               /\ req'[r] = [req[r] EXCEPT !.at = "purge", !.proc = Pruned[req[r].id]]
      <4>1. Pruned[req[r].id] = sessions[req[r].id]
        BY <2>1, <2>2, <3>6
      <4>2. req'[r].at = "purge" /\ req'[r].proc = Pruned[req[r].id]
        BY <3>4, <3>6 DEF Request
      <4> QED
        BY <2>1, <3>2, <4>1, <4>2
    <3> QED
      BY <3>3, <3>5, <3>6
  <2>7. BareOK'
    BY <2>1, <2>6 DEF Owned, BareOK, BareStages, Exited, Alive
  <2>8. ReferencedExist'
    BY <2>1, <2>4, <2>6, <1>0 DEF Owned, ReferencedExist, Referenced
  <2>9. StoppedEmpty'
    BY <2>1, <2>2, <2>3 DEF Owned, StoppedEmpty
  <2>10. AliveOwned'
    <3> SUFFICES ASSUME NEW p \in Procs, Alive(p)
                 PROVE  \/ \E i \in Ids : sessions'[i] = p
                        \/ \E q \in Reqs : req'[q].proc = p
                        \/ p \in reaping
      BY <2>1 DEF AliveOwned, Alive
    <3>1. CASE \E i \in Ids : sessions[i] = p
      BY <2>4, <3>1
    <3>2. CASE \E q \in Reqs : req[q].proc = p
      BY <1>0, <2>1, <2>6, <3>2
    <3> QED
      BY <3>1, <3>2 DEF Owned, AliveOwned
  <2> QED
    BY <2>7, <2>8, <2>9, <2>10 DEF Owned
<1>2. CASE SpawnAttached(r)
  <2>1. BareOK'
    BY <1>0, <1>2
       DEF SpawnAttached, Spawn, Step, NoProc, Owned, Request, BareOK, ReferencedExist,
           Referenced, BareStages, Exited, Alive
  <2>2. ReferencedExist'
    BY <1>0, <1>2
       DEF SpawnAttached, Spawn, Step, NoProc, Owned, Request, ReferencedExist, Referenced
  <2>3. StoppedEmpty'
    BY <1>0, <1>2 DEF SpawnAttached, Spawn, Step, NoProc, Owned, Request, StoppedEmpty
  <2>4. AliveOwned'
    BY <1>0, <1>2
       DEF SpawnAttached, Spawn, Step, NoProc, Owned, Request, AliveOwned, BareOK,
           BareStages, Exited, Alive, Collapsed, AttachCollapsed, AttachStages, NamedStages
  <2> QED
    BY <2>1, <2>2, <2>3, <2>4 DEF Owned
<1>3. CASE Unflight(r)
  <2>1. BareOK'
    BY <1>0, <1>3
       DEF Unflight, Land, IdleReq, Owned, Request, BareOK, ReferencedExist, Referenced,
           BareStages, Exited, Alive
  <2>2. ReferencedExist'
    BY <1>0, <1>3 DEF Unflight, Land, IdleReq, Owned, Request, ReferencedExist, Referenced
  <2>3. StoppedEmpty'
    BY <1>0, <1>3 DEF Unflight, Land, IdleReq, Owned, Request, StoppedEmpty
  <2>4. AliveOwned'
    BY <1>0, <1>3
       DEF Unflight, Land, IdleReq, Owned, Request, AliveOwned, BareOK, BareStages,
           Exited, Alive, Collapsed, AttachCollapsed, AttachStages, NamedStages
  <2> QED
    BY <2>1, <2>2, <2>3, <2>4 DEF Owned
<1>4. CASE Publish(r)
  <2>1. BareOK'
    BY <1>0, <1>4
       DEF Publish, Land, IdleReq, Back, Owned, Request, BareOK, ReferencedExist, Referenced,
           BareStages, Exited, Alive
  <2>2. ReferencedExist'
    BY <1>0, <1>4 DEF Publish, Land, IdleReq, Back, Owned, Request, ReferencedExist, Referenced
  <2>3. StoppedEmpty'
    BY <1>0, <1>4 DEF Publish, Land, IdleReq, Back, Owned, Request, StoppedEmpty
  <2>4. AliveOwned'
    <3>1. /\ req[r].id \in Ids /\ UNCHANGED <<reaping, proc>>
          /\ sessions[req[r].id] = None
      BY <1>0, <1>4 DEF Publish, NamedStages, Collapsed, AttachCollapsed, AttachStages
    <3>2. \A q \in Reqs : q # r => req'[q].proc = req[q].proc
      BY <1>0, <1>4 DEF Publish, Land, Request
    <3>3. CASE stopped
      <4>1. req'[r].proc = req[r].proc /\ UNCHANGED sessions
        BY <1>0, <1>4, <3>3 DEF Publish, Land, Request
      <4> QED
        BY <1>0, <3>1, <3>2, <4>1 DEF Owned, AliveOwned, Alive
    <3>4. CASE ~stopped
      <4>1. sessions' = [sessions EXCEPT ![req[r].id] = req[r].proc]
        BY <1>4, <3>4 DEF Publish
      <4> QED
        BY <1>0, <3>1, <3>2, <4>1 DEF Owned, AliveOwned, Alive
    <3> QED
      BY <3>3, <3>4
  <2> QED
    BY <2>1, <2>2, <2>3, <2>4 DEF Owned
<1>5. CASE Reserve(r)
  <2>1. BareOK'
    BY <1>0, <1>5
       DEF Reserve, Done, Move, Step, IdleReq, Pruned, Owned, Request, BareOK,
           ReferencedExist, Referenced, BareStages, Exited, Alive
  <2>2. ReferencedExist'
    BY <1>0, <1>5
       DEF Reserve, Done, Move, Step, IdleReq, Pruned, Owned, Request, ReferencedExist,
           Referenced
  <2>3. StoppedEmpty'
    BY <1>0, <1>5 DEF Reserve, Done, Move, Step, IdleReq, Pruned, Owned, Request, StoppedEmpty
  <2>4. AliveOwned'
    <3>1. /\ req[r].at = "create" /\ req[r].proc = None
          /\ UNCHANGED <<proc, reaping>>
      BY <1>5 DEF Reserve, Done, Move, Step, Owned, BareOK, BareStages
    <3>2. \A q \in Reqs : q # r => req'[q] = req[q]
      BY <1>0, <1>5 DEF Reserve, Done, Move, Step
    <3>3. \A i \in Ids : sessions'[i] = sessions[i] \/ ~Alive(sessions[i])
      BY <1>0, <1>5 DEF Reserve, Pruned, Exited
    <3> SUFFICES ASSUME NEW p \in Procs, Alive(p)
                 PROVE  \/ \E i \in Ids : sessions'[i] = p
                        \/ \E q \in Reqs : req'[q].proc = p
                        \/ p \in reaping
      BY <3>1 DEF AliveOwned, Alive
    <3>4. CASE \E i \in Ids : sessions[i] = p
      BY <3>3, <3>4
    <3>5. CASE \E q \in Reqs : req[q].proc = p
      BY <1>0, <3>1, <3>2, <3>5
    <3> QED
      BY <3>4, <3>5 DEF Owned, AliveOwned
  <2> QED
    BY <2>1, <2>2, <2>3, <2>4 DEF Owned
<1>6. CASE SpawnCreated(r)
  <2>1. BareOK'
    BY <1>0, <1>6
       DEF SpawnCreated, Spawn, Step, NoProc, Owned, Request, BareOK, ReferencedExist,
           Referenced, BareStages, Exited, Alive
  <2>2. ReferencedExist'
    BY <1>0, <1>6 DEF SpawnCreated, Spawn, Step, NoProc, Owned, Request, ReferencedExist, Referenced
  <2>3. StoppedEmpty'
    BY <1>0, <1>6 DEF SpawnCreated, Spawn, Step, NoProc, Owned, Request, StoppedEmpty
  <2>4. AliveOwned'
    BY <1>0, <1>6
       DEF SpawnCreated, Spawn, Step, NoProc, Owned, Request, AliveOwned, BareOK,
           BareStages, Exited, Alive, Collapsed, AttachCollapsed, AttachStages, NamedStages
  <2> QED
    BY <2>1, <2>2, <2>3, <2>4 DEF Owned
<1>7. CASE SetupCreated(r)
  <2>1. BareOK'
    BY <1>0, <1>7
       DEF SetupCreated, Step, Owned, Request, BareOK, ReferencedExist, Referenced,
           BareStages, Exited, Alive
  <2>2. ReferencedExist'
    BY <1>0, <1>7 DEF SetupCreated, Step, Owned, Request, ReferencedExist, Referenced
  <2>3. StoppedEmpty'
    BY <1>0, <1>7 DEF SetupCreated, Step, Owned, Request, StoppedEmpty
  <2>4. AliveOwned'
    BY <1>0, <1>7
       DEF SetupCreated, Step, Owned, Request, AliveOwned, BareOK, BareStages, Exited,
           Alive, Collapsed, AttachCollapsed, AttachStages, NamedStages
  <2> QED
    BY <2>1, <2>2, <2>3, <2>4 DEF Owned
<1>8. CASE PublishCreated(r)
  <2>1. BareOK'
    BY <1>0, <1>8
       DEF PublishCreated, Move, Done, Step, IdleReq, Owned, Request, BareOK,
           ReferencedExist, Referenced, BareStages, Exited, Alive
  <2>2. ReferencedExist'
    BY <1>0, <1>8
       DEF PublishCreated, Move, Done, Step, IdleReq, Owned, Request, ReferencedExist,
           Referenced
  <2>3. StoppedEmpty'
    BY <1>0, <1>8 DEF PublishCreated, Move, Done, Step, IdleReq, Owned, Request, StoppedEmpty
  <2>4. AliveOwned'
    BY <1>0, <1>8
       DEF PublishCreated, Move, Done, Step, IdleReq, Owned, Request, AliveOwned, BareOK,
           BareStages, Exited, Alive, Collapsed, AttachCollapsed, AttachStages, NamedStages
  <2> QED
    BY <2>1, <2>2, <2>3, <2>4 DEF Owned
<1>9. CASE Delete(r)
  <2>1. BareOK'
    BY <1>0, <1>9
       DEF Delete, Step, IdleReq, Owned, Request, BareOK, ReferencedExist, Referenced,
           BareStages, Exited, Alive
  <2>2. ReferencedExist'
    <3>1. \A i \in Ids : sessions'[i] \in {sessions[i], None}
      BY <1>0, <1>9 DEF Delete
    <3>2. \A q \in Reqs : req'[q].proc \in {req[q].proc, None, sessions[req[r].id]}
      BY <1>0, <1>9 DEF Delete, Step, IdleReq, Request
    <3>3. req[r].id \in Ids /\ UNCHANGED <<reaping, proc>>
      BY <1>0, <1>9 DEF Delete, NamedStages
    <3> QED
      BY <1>0, <3>1, <3>2, <3>3 DEF Owned, ReferencedExist, Referenced
  <2>3. StoppedEmpty'
    BY <1>0, <1>9 DEF Delete, Step, IdleReq, Owned, Request, StoppedEmpty
  <2>4. AliveOwned'
    BY <1>0, <1>9
       DEF Delete, Step, IdleReq, Owned, Request, AliveOwned, BareOK, BareStages, Exited,
           Alive, Collapsed, AttachCollapsed, AttachStages, NamedStages
  <2> QED
    BY <2>1, <2>2, <2>3, <2>4 DEF Owned
<1>10. CASE Begin(r)
  <2>1. PICK to : /\ req[r].at = "idle" /\ req' = [req EXCEPT ![r] = to]
                  /\ to.at \in {"create", "attach", "delete"} /\ to.proc = None
    <3>1. CASE r \in Creators
      BY <1>0, <1>10, <3>1 DEF Begin, Move, Step, Owned, BareOK, BareStages, Request
    <3>2. CASE r \notin Creators
      <4>1. PICK i \in Ids, at \in {"attach", "delete"} :
              Step(r, "idle", [IdleReq EXCEPT !.at = at, !.id = i])
        BY <1>10, <3>2 DEF Begin
      <4> DEFINE to == [IdleReq EXCEPT !.at = at, !.id = i]
      <4>2. /\ req[r].at = "idle" /\ req' = [req EXCEPT ![r] = to]
            /\ to.at \in {"create", "attach", "delete"} /\ to.proc = None
        BY <4>1 DEF Step, IdleReq
      <4> HIDE DEF to
      <4> QED
        BY <4>2
    <3> QED
      BY <3>1, <3>2
  <2>2. UNCHANGED <<sessions, reaping, proc, stopped>> /\ req[r].proc = None
    BY <1>10, <2>1 DEF Begin, Owned, BareOK, BareStages
  <2> QED
    BY <1>0, <2>1, <2>2
       DEF Owned, BareOK, BareStages, ReferencedExist, Referenced, StoppedEmpty,
           AliveOwned, Exited, Alive
<1>11. CASE \/ SpawnFails(r) \/ SetupAttached(r) \/ Unspawned(r)
            \/ PurgeAttached(r)
  <2>1. BareOK'
    BY <1>0, <1>11
       DEF SpawnFails, SetupAttached, Unspawned, PurgeAttached, Move, Step,
           Owned, Request, BareOK, ReferencedExist, Referenced, BareStages, Exited, Alive
  <2>2. ReferencedExist'
    <3>1. CASE PurgeAttached(r)
      BY <1>0, <3>1
         DEF PurgeAttached, Move, Step, Owned, Request, ReferencedExist, Referenced
    <3>2. CASE ~PurgeAttached(r)
      BY <1>0, <1>11, <3>2
         DEF SpawnFails, SetupAttached, Unspawned, Move, Step,
             Owned, Request, ReferencedExist, Referenced
    <3> QED
      BY <3>1, <3>2
  <2>3. StoppedEmpty'
    BY <1>0, <1>11
       DEF SpawnFails, SetupAttached, Unspawned, PurgeAttached, Move, Step,
           Owned, Request, StoppedEmpty
  <2>4. AliveOwned'
    <3>1. PICK at : req' = [req EXCEPT ![r] = [req[r] EXCEPT !.at = at]]
      BY <1>11 DEF SpawnFails, SetupAttached, Unspawned, PurgeAttached, Move, Step
    <3>2. /\ \A q \in Reqs : req'[q].proc = req[q].proc
          /\ UNCHANGED <<proc, reaping>>
      BY <1>0, <1>11, <3>1 DEF Request, SpawnFails, SetupAttached, Unspawned, PurgeAttached
    <3>3. CASE sessions' = sessions
      BY <3>2, <3>3 DEF Owned, AliveOwned, Alive
    <3>4. CASE PurgeAttached(r)
      <4>1. sessions' = [sessions EXCEPT ![req[r].id] = None] /\ req[r].at = "purge"
        BY <3>4 DEF PurgeAttached, Move, Step
      <4>2. \A i \in Ids : sessions'[i] = sessions[i] \/ sessions[i] \in {None, req[r].proc}
        BY <1>0, <4>1 DEF NoPurgeRace
      <4> QED
        BY <1>0, <3>2, <4>2 DEF Owned, AliveOwned, Alive
    <3> QED
      BY <1>11, <3>3, <3>4 DEF SpawnFails, SetupAttached, Unspawned
  <2> QED
    BY <2>1, <2>2, <2>3, <2>4 DEF Owned
<1>12. CASE \/ SetupFails(r) \/ StopOwn(r) \/ CreateSetupFails(r)
            \/ DeleteStop(r)
  <2>1. BareOK'
    BY <1>0, <1>12
       DEF SetupFails, StopOwn, CreateSetupFails, DeleteStop, Move, Step, Terminate,
           Owned, Request, BareOK, ReferencedExist, Referenced, BareStages, Exited, Alive
  <2>2. ReferencedExist'
    <3>1. CASE SetupFails(r)
      BY <1>0, <3>1
         DEF SetupFails, Move, Step, Terminate, Owned, Request, ReferencedExist, Referenced
    <3>2. CASE StopOwn(r)
      BY <1>0, <3>2
         DEF StopOwn, Move, Step, Terminate, Owned, Request, ReferencedExist, Referenced
    <3>3. CASE CreateSetupFails(r)
      BY <1>0, <3>3
         DEF CreateSetupFails, Move, Step, Terminate, Owned, Request, ReferencedExist, Referenced
    <3>4. CASE DeleteStop(r)
      BY <1>0, <3>4
         DEF DeleteStop, Move, Step, Terminate, Owned, Request, ReferencedExist, Referenced
    <3> QED
      BY <1>12, <3>1, <3>2, <3>3, <3>4
  <2>3. StoppedEmpty'
    BY <1>0, <1>12
       DEF SetupFails, StopOwn, CreateSetupFails, DeleteStop, Move, Step, Terminate,
           Owned, Request, StoppedEmpty
  <2>4. AliveOwned'
    BY <1>0, <1>12
       DEF SetupFails, StopOwn, CreateSetupFails, DeleteStop, Move, Step, Terminate,
           Owned, Request, AliveOwned, BareOK, BareStages, Exited, Alive
  <2> QED
    BY <2>1, <2>2, <2>3, <2>4 DEF Owned
<1>13. CASE \/ OwnStopped(r) \/ CreateSpawnFails(r) \/ ReleaseReservation(r)
            \/ Deleted(r) \/ CancelWait(r)
  <2>1. BareOK'
    BY <1>0, <1>13
       DEF OwnStopped, CreateSpawnFails, ReleaseReservation, Deleted, CancelWait, Done, Step, IdleReq,
           Owned, Request, BareOK, ReferencedExist, Referenced, BareStages, Exited, Alive
  <2>2. ReferencedExist'
    BY <1>0, <1>13
       DEF OwnStopped, CreateSpawnFails, ReleaseReservation, Deleted, CancelWait, Done, Step, IdleReq,
           Owned, Request, ReferencedExist, Referenced
  <2>3. StoppedEmpty'
    BY <1>0, <1>13
       DEF OwnStopped, CreateSpawnFails, ReleaseReservation, Deleted, CancelWait, Done, Step, IdleReq,
           Owned, Request, StoppedEmpty
  <2>4. AliveOwned'
    BY <1>0, <1>13
       DEF OwnStopped, CreateSpawnFails, ReleaseReservation, Deleted, CancelWait, Done, Step, IdleReq,
           Owned, Request, AliveOwned, BareOK, BareStages, Exited, Alive
  <2> QED
    BY <2>1, <2>2, <2>3, <2>4 DEF Owned
<1> QED
  BY <1>1, <1>2, <1>3, <1>4, <1>5, <1>6, <1>7, <1>8, <1>9, <1>10, <1>11, <1>12, <1>13
     DEF Proceed, AttachStep, CreateStep, DeleteStep

LEMMA NextOwned ==
    ASSUME NoPurgeRace, Base, Collapsed, Owned, [Next]_vars
    PROVE  Owned'
<1> USE DEF tableVars, worldVars, Owned, BareOK, ReferencedExist, Referenced, StoppedEmpty,
            AliveOwned, Exited, Alive
<1>0. /\ sessions \in [Ids -> Procs \cup {None}]
      /\ proc \in [Procs -> [st : {"none", "up", "stopping", "gone"}, id : Ids \cup {None}]]
      /\ None \notin Procs
  BY SetsAssumption DEF Base, TableOK
<1>1. CASE \E r \in Reqs : Begin(r) \/ Proceed(r) \/ CancelWait(r)
  BY <1>1, RequestStepOwned
<1>2. CASE UNCHANGED vars
  BY <1>2 DEF vars
<1>3. ASSUME NEW i \in Ids, Collect(i) \/ Persist(i)
      PROVE  Owned'
  BY <1>0, <1>3 DEF Collect, Persist
<1>4. ASSUME NEW p \in Procs, Reap(p) \/ Reaped(p) \/ Exit(p) \/ Reclaim(p)
      PROVE  Owned'
  <2>1. CASE Reap(p)
    BY <1>0, <2>1 DEF Reap, Terminate
  <2>2. CASE Reaped(p)
    BY <1>0, <2>2 DEF Reaped
  <2>3. CASE Exit(p)
    BY <1>0, <2>3 DEF Exit
  <2>4. CASE Reclaim(p)
    BY <1>0, <2>4 DEF Reclaim, NoProc
  <2> QED
    BY <1>4, <2>1, <2>2, <2>3, <2>4
<1>5. CASE Stop
  <2>1. /\ \A i \in Ids : sessions'[i] = None
        /\ \A p \in Procs : p \in reaping' <=> p \in reaping \/ \E i \in Ids : sessions[i] = p
        /\ UNCHANGED <<req, proc>>
    BY <1>0, <1>5 DEF Stop, Mapped
  <2> QED
    BY <1>0, <2>1
<1> QED
  BY <1>1, <1>2, <1>3, <1>4, <1>5 DEF Next

LEMMA InitOwned == Init => Owned
BY SetsAssumption
   DEF Init, Owned, BareOK, ReferencedExist, Referenced, StoppedEmpty, AliveOwned,
       BareStages, IdleReq, NoProc, Alive

\* Unless a purge takes another's process off the table no pi process is ever
\* lost: while it lives, the table, a request or the janitor has it.
THEOREM NoProcessLost == Spec => ProcessesOwned
<1>1. Base /\ Collapsed /\ Owned /\ NoPurgeRace /\ [Next]_vars => (Base /\ Collapsed /\ Owned)'
  BY NextBase, NextCollapsed, NextOwned
<1>2. Owned => AliveOwned
  BY DEF Owned
<1> QED
  BY <1>1, <1>2, InitBase, InitCollapsed, InitOwned, PTL DEF Spec, ProcessesOwned

\* Unless a purge takes another's process off the table, Manager.Stop leaves no
\* pi process behind, whatever was being attached, created, deleted or collected
\* when it was called.
THEOREM StopIsComplete == Spec => ([]NoPurgeRace => []StopLeavesNone)
<1>1. Base /\ Collapsed /\ Owned /\ NoPurgeRace /\ [Next]_vars => (Base /\ Collapsed /\ Owned)'
  BY NextBase, NextCollapsed, NextOwned
<1>2. Base /\ Owned => StopLeavesNone
  <2> SUFFICES ASSUME Base, Owned, stopped, reaping = {}, \A r \in Reqs : req[r].at = "idle",
                      NEW p \in Procs
               PROVE  ~Alive(p)
    BY DEF StopLeavesNone
  <2>1. p # None
    BY SetsAssumption
  <2> QED
    BY <2>1 DEF Owned, AliveOwned, StoppedEmpty, BareOK, BareStages
<1> QED
  BY <1>1, <1>2, InitBase, InitCollapsed, InitOwned, PTL DEF Spec

-----------------------------------------------------------------------------
(* A session is served by one process. *)

\* Where a request has a process to itself, which it started.
Private == {"setup", "publish", "createSetup", "createPublish"}

\* A process is private to the one request that starts it.
PrivateOK ==
    \A r \in Reqs : req[r].at \in Private =>
        /\ req[r].proc \in Procs
        /\ \A i \in Ids : sessions[i] # req[r].proc
        /\ \A q \in Reqs : q # r /\ req[q].at \in Private => req[q].proc # req[r].proc

\* A process on the table, or about to be, serves the session it is there for, and
\* a session that Create is about to publish is not on the table.
ServingOK ==
    /\ disk \subseteq minted
    /\ \A i \in Ids : sessions[i] # None => proc[sessions[i]].id = i /\ i \in minted
    /\ \A r \in Reqs :
        /\ req[r].at \in {"setup", "publish", "createPublish"} => proc[req[r].proc].id = req[r].id
        /\ req[r].at \in {"publish", "createPublish"} => req[r].id \in minted
        /\ req[r].at = "createPublish" => sessions[req[r].id] = None

Served == ReferencedExist /\ PrivateOK /\ ServingOK

\* What most steps do to the processes: sessions only leave the table, no process
\* changes what it serves, and no request gets a process to itself.
Calm(r) ==
    /\ \A i \in Ids : sessions'[i] \in {sessions[i], None}
    /\ \A p \in Procs : proc'[p].id = proc[p].id /\ (proc'[p].st = "none" => proc[p].st = "none")
    /\ minted' = minted /\ disk' \subseteq minted
    /\ reaping' = reaping
    /\ \A q \in Reqs : q # r =>
        /\ req'[q].proc = req[q].proc /\ req'[q].id = req[q].id
        /\ req'[q].at = req[q].at \/ req'[q].at \notin Private
    /\ req'[r].at \notin Private
    /\ req'[r].proc \in {None, req[r].proc} \/ \E i \in Ids : req'[r].proc = sessions[i]

\* Calm steps keep it.
LEMMA CalmServed ==
    ASSUME Base, Served, NEW r \in Reqs, Calm(r)
    PROVE  Served'
<1>0. /\ sessions \in [Ids -> Procs \cup {None}] /\ None \notin Procs
      /\ \A q \in Reqs : req[q].proc \in Procs \cup {None}
      /\ \A q \in Reqs : req[q].at \in {"createPublish"} => req[q].id \in Ids
  BY SetsAssumption DEF Base, ReqsOK, TableOK, WellFormed, Request, NamedStages
<1>1. ReferencedExist'
  BY <1>0 DEF Calm, Served, ReferencedExist, Referenced
<1>2. PrivateOK'
  BY <1>0 DEF Calm, Served, PrivateOK
<1>3. disk' \subseteq minted' /\ \A i \in Ids : sessions'[i] # None =>
                                    proc'[sessions'[i]].id = i /\ i \in minted'
  BY <1>0 DEF Calm, Served, ServingOK
<1>4. ASSUME NEW q \in Reqs
      PROVE  /\ req'[q].at \in {"setup", "publish", "createPublish"} =>
                    proc'[req'[q].proc].id = req'[q].id
             /\ req'[q].at \in {"publish", "createPublish"} => req'[q].id \in minted'
             /\ req'[q].at = "createPublish" => sessions'[req'[q].id] = None
  BY <1>0 DEF Calm, Served, ServingOK, PrivateOK, Private
<1> QED
  BY <1>1, <1>2, <1>3, <1>4 DEF Served, ServingOK

\* A request starts a process of its own.
LEMMA SpawnServed ==
    ASSUME Base, Served, NEW r \in Reqs, SpawnAttached(r) \/ SpawnCreated(r)
    PROVE  Served'
<1>0. /\ sessions \in [Ids -> Procs \cup {None}] /\ None \notin Procs /\ req \in [Reqs -> Request]
      /\ proc \in [Procs -> [st : {"none", "up", "stopping", "gone"}, id : Ids \cup {None}]]
  BY SetsAssumption DEF Base, ReqsOK, TableOK
<1>1. PICK p \in Procs, to \in {"setup", "createSetup"} :
        /\ proc[p] = NoProc
        /\ req' = [req EXCEPT ![r] = [req[r] EXCEPT !.at = to, !.proc = p]]
        /\ to = "setup" => proc' = [proc EXCEPT ![p] = [st |-> "up", id |-> req[r].id]]
        /\ to = "createSetup" => proc' = [proc EXCEPT ![p] = [st |-> "up", id |-> None]]
  BY DEF SpawnAttached, SpawnCreated, Spawn, Step
<1>2. UNCHANGED <<sessions, reaping, minted, disk>>
  BY DEF SpawnAttached, SpawnCreated, tableVars
<1>3. /\ \A q \in Reqs : q # r => req'[q] = req[q]
      /\ req'[r].at = to /\ req'[r].proc = p /\ req'[r].id = req[r].id
  BY <1>0, <1>1 DEF Request
<1>4. /\ \A q \in Procs : q # p => proc'[q] = proc[q]
      /\ proc'[p].st = "up" /\ (to = "setup" => proc'[p].id = req[r].id)
      /\ proc[p].st = "none"
  BY <1>0, <1>1 DEF NoProc
<1>5. /\ \A i \in Ids : sessions[i] # p
      /\ \A q \in Reqs : req[q].proc # p
  BY <1>0, <1>4 DEF Served, ReferencedExist, Referenced
<1>6. ReferencedExist'
  BY <1>0, <1>2, <1>3, <1>4 DEF Served, ReferencedExist, Referenced
<1>7. PrivateOK'
  BY <1>0, <1>2, <1>3, <1>5 DEF Served, PrivateOK
<1>8. ServingOK'
  <2>1. disk' \subseteq minted' /\ \A i \in Ids : sessions'[i] # None =>
                                      proc'[sessions'[i]].id = i /\ i \in minted'
    BY <1>0, <1>2, <1>4, <1>5 DEF Served, ServingOK
  <2>2. ASSUME NEW q \in Reqs
        PROVE  /\ req'[q].at \in {"setup", "publish", "createPublish"} =>
                      proc'[req'[q].proc].id = req'[q].id
               /\ req'[q].at \in {"publish", "createPublish"} => req'[q].id \in minted'
               /\ req'[q].at = "createPublish" => sessions'[req'[q].id] = None
    <3>1. CASE q = r
      BY <1>1, <1>3, <1>4, <3>1
    <3>2. CASE q # r
      BY <1>2, <1>3, <1>4, <1>5, <3>2 DEF Served, ServingOK, PrivateOK, Private
    <3> QED
      BY <3>1, <3>2
  <2> QED
    BY <2>1, <2>2 DEF ServingOK
<1> QED
  BY <1>6, <1>7, <1>8 DEF Served

\* pi answered the handshake of a re-attach.
LEMMA SetupAttachedServed ==
    ASSUME Base, Served, NEW r \in Reqs, SetupAttached(r)
    PROVE  Served'
<1>0. req \in [Reqs -> Request]
  BY DEF Base, ReqsOK
<1>1. /\ \A q \in Reqs : q # r => req'[q] = req[q]
      /\ req[r].at = "setup" /\ req'[r].at = "publish"
      /\ req'[r].proc = req[r].proc /\ req'[r].id = req[r].id
      /\ req[r].id \in disk
  BY <1>0 DEF SetupAttached, Move, Step, Request
<1>2. UNCHANGED <<sessions, reaping, proc, minted, disk>>
  BY DEF SetupAttached, tableVars, worldVars
<1>3. ReferencedExist'
  BY <1>1, <1>2 DEF Served, ReferencedExist, Referenced
<1>4. PrivateOK'
  BY <1>1, <1>2 DEF Served, PrivateOK, Private
<1>5. ServingOK'
  BY <1>1, <1>2 DEF Served, ServingOK
<1> QED
  BY <1>3, <1>4, <1>5 DEF Served

\* pi minted an id for the session of a Create.
LEMMA SetupCreatedServed ==
    ASSUME Base, Served, NEW r \in Reqs, SetupCreated(r)
    PROVE  Served'
<1>0. /\ sessions \in [Ids -> Procs \cup {None}] /\ None \notin Procs /\ req \in [Reqs -> Request]
      /\ proc \in [Procs -> [st : {"none", "up", "stopping", "gone"}, id : Ids \cup {None}]]
  BY SetsAssumption DEF Base, ReqsOK, TableOK
<1>1. PICK i \in Ids \ minted :
        /\ req' = [req EXCEPT ![r] = [req[r] EXCEPT !.at = "createPublish", !.id = i]]
        /\ minted' = minted \cup {i}
        /\ proc' = [proc EXCEPT ![req[r].proc].id = i]
  BY DEF SetupCreated, Step
<1>2. req[r].at = "createSetup" /\ UNCHANGED <<sessions, reaping, disk>>
  BY DEF SetupCreated, Step, tableVars
<1>3. /\ \A q \in Reqs : q # r => req'[q] = req[q]
      /\ req'[r].at = "createPublish" /\ req'[r].proc = req[r].proc /\ req'[r].id = i
  BY <1>0, <1>1 DEF Request
<1>4. /\ req[r].proc \in Procs /\ \A j \in Ids : sessions[j] # req[r].proc
      /\ \A q \in Reqs : q # r /\ req[q].at \in Private => req[q].proc # req[r].proc
  BY <1>2 DEF Served, PrivateOK, Private
<1>5. /\ \A p \in Procs : p # req[r].proc => proc'[p] = proc[p]
      /\ proc'[req[r].proc].id = i /\ \A p \in Procs : proc'[p].st = proc[p].st
  BY <1>0, <1>1, <1>4
<1>6. ReferencedExist'
  BY <1>2, <1>3, <1>5 DEF Served, ReferencedExist, Referenced
<1>7. PrivateOK'
  BY <1>2, <1>3, <1>4 DEF Served, PrivateOK, Private
<1>8. ServingOK'
  <2>1. sessions[i] = None
    BY <1>0, <1>1 DEF Served, ServingOK
  <2>2. disk' \subseteq minted' /\ \A j \in Ids : sessions'[j] # None =>
                                      proc'[sessions'[j]].id = j /\ j \in minted'
    BY <1>0, <1>1, <1>2, <1>4, <1>5 DEF Served, ServingOK
  <2>3. ASSUME NEW q \in Reqs
        PROVE  /\ req'[q].at \in {"setup", "publish", "createPublish"} =>
                      proc'[req'[q].proc].id = req'[q].id
               /\ req'[q].at \in {"publish", "createPublish"} => req'[q].id \in minted'
               /\ req'[q].at = "createPublish" => sessions'[req'[q].id] = None
    <3>1. CASE q = r
      BY <1>1, <1>2, <1>3, <1>5, <2>1, <3>1
    <3>2. CASE q # r
      BY <1>1, <1>2, <1>3, <1>4, <1>5, <3>2 DEF Served, ServingOK, PrivateOK, Private
    <3> QED
      BY <3>1, <3>2
  <2> QED
    BY <2>2, <2>3 DEF ServingOK
<1> QED
  BY <1>6, <1>7, <1>8 DEF Served

\* A request puts its process on the table: nobody else has the session's id.
LEMMA PublishServed ==
    ASSUME Base, Served, NEW r \in Reqs,
           req[r].at \in {"publish", "createPublish"},
           sessions' = [sessions EXCEPT ![req[r].id] = req[r].proc],
           req'[r].at \notin Private, req'[r].proc \in {None, req[r].proc},
           \A q \in Reqs : q # r =>
               /\ req'[q].proc = req[q].proc /\ req'[q].id = req[q].id
               /\ req'[q].at = req[q].at \/ req'[q].at \notin Private
               /\ req[q].at = "createPublish" => req[q].id # req[r].id,
           UNCHANGED <<reaping, proc, minted, disk>>
    PROVE  Served'
<1>0. /\ sessions \in [Ids -> Procs \cup {None}] /\ None \notin Procs
      /\ \A q \in Reqs : req[q].proc \in Procs \cup {None}
      /\ \A q \in Reqs : req[q].at \in {"publish", "createPublish"} => req[q].id \in Ids
  BY SetsAssumption DEF Base, ReqsOK, TableOK, WellFormed, Request, NamedStages, AttachStages
<1>1. /\ req[r].id \in Ids /\ req[r].proc \in Procs
      /\ \A q \in Reqs : q # r /\ req[q].at \in Private => req[q].proc # req[r].proc
      /\ proc[req[r].proc].id = req[r].id /\ req[r].id \in minted
  BY <1>0 DEF Served, PrivateOK, Private, ServingOK
<1>2. /\ sessions'[req[r].id] = req[r].proc
      /\ \A i \in Ids : i # req[r].id => sessions'[i] = sessions[i]
  BY <1>0, <1>1
<1>3. ReferencedExist'
  BY <1>0, <1>1, <1>2 DEF Served, ReferencedExist, Referenced
<1>4. PrivateOK'
  BY <1>1, <1>2 DEF Served, PrivateOK
<1>5. disk' \subseteq minted' /\ \A i \in Ids : sessions'[i] # None =>
                                    proc'[sessions'[i]].id = i /\ i \in minted'
  BY <1>1, <1>2 DEF Served, ServingOK
<1>6. ASSUME NEW q \in Reqs
      PROVE  /\ req'[q].at \in {"setup", "publish", "createPublish"} =>
                    proc'[req'[q].proc].id = req'[q].id
             /\ req'[q].at \in {"publish", "createPublish"} => req'[q].id \in minted'
             /\ req'[q].at = "createPublish" => sessions'[req'[q].id] = None
  BY <1>0, <1>2 DEF Served, ServingOK, Private
<1> QED
  BY <1>3, <1>4, <1>5, <1>6 DEF Served, ServingOK

LEMMA RequestStepServed ==
    ASSUME Base, Collapsed, Served, NEW r \in Reqs, Begin(r) \/ Proceed(r) \/ CancelWait(r)
    PROVE  Served'
<1> USE DEF tableVars, worldVars
<1>0. /\ req \in [Reqs -> Request] /\ sessions \in [Ids -> Procs \cup {None}]
      /\ proc \in [Procs -> [st : {"none", "up", "stopping", "gone"}, id : Ids \cup {None}]]
      /\ req[r].at \in NamedStages => req[r].id \in Ids
      /\ None \notin Procs /\ disk \subseteq minted
  BY SetsAssumption DEF Base, ReqsOK, TableOK, WellFormed, Served, ServingOK
<1>1. CASE Attach(r)
  <2>1. /\ req[r].at = "attach" /\ req[r].id \in Ids
        /\ \A i \in Ids : sessions'[i] \in {sessions[i], None}
        /\ UNCHANGED <<proc, reaping, minted, disk>>
    <3>1. req[r].at = "attach" /\ sessions' \in {sessions, Pruned} /\ UNCHANGED <<reaping, worldVars>>
      BY <1>1 DEF Attach, AttachTry
    <3>2. req[r].id \in Ids
      BY <1>0, <3>1 DEF NamedStages
    <3>3. \A i \in Ids : Pruned[i] \in {sessions[i], None}
      BY <1>0 DEF Pruned
    <3> QED
      BY <3>1, <3>2, <3>3
  <2>2. PICK new \in {IdleReq, [req[r] EXCEPT !.at = "waiting"], [req[r] EXCEPT !.at = "spawn"],
                      [req[r] EXCEPT !.at = "purge", !.proc = sessions'[req[r].id]]} :
            req' = [req EXCEPT ![r] = new]
    BY <1>1 DEF Attach, AttachTry, Step, Move, Done, Back
  <2>3. /\ req'[r] = new /\ \A q \in Reqs : q # r => req'[q] = req[q]
        /\ new.at \notin Private /\ new.proc \in {None, req[r].proc, sessions'[req[r].id]}
    <3>1. req'[r] = new /\ \A q \in Reqs : q # r => req'[q] = req[q]
      BY <1>0, <2>2
    <3>2. IdleReq.at \notin Private /\ IdleReq.proc = None
      BY DEF IdleReq, Private
    <3>3. \A at \in Stages :
            /\ [req[r] EXCEPT !.at = at].at = at /\ [req[r] EXCEPT !.at = at].proc = req[r].proc
            /\ \A p : /\ [req[r] EXCEPT !.at = at, !.proc = p].at = at
                     /\ [req[r] EXCEPT !.at = at, !.proc = p].proc = p
      BY <1>0 DEF Request
    <3>4. {"waiting", "spawn", "purge"} \subseteq Stages \ Private
      BY DEF Stages, Private, AttachStages
    <3>5. CASE new = IdleReq
      BY <3>1, <3>2, <3>5
    <3>6. CASE new = [req[r] EXCEPT !.at = "waiting"]
      BY <3>1, <3>3, <3>4, <3>6
    <3>7. CASE new = [req[r] EXCEPT !.at = "spawn"]
      BY <3>1, <3>3, <3>4, <3>7
    <3>8. CASE new = [req[r] EXCEPT !.at = "purge", !.proc = sessions'[req[r].id]]
      BY <3>1, <3>3, <3>4, <3>8
    <3> QED
      BY <2>2, <3>5, <3>6, <3>7, <3>8
  <2>4. Calm(r)
    BY <1>0, <2>1, <2>3 DEF Calm
  <2> QED
    BY <2>4, CalmServed
<1>2. CASE SpawnAttached(r) \/ SpawnCreated(r)
  BY <1>2, SpawnServed
<1>3. CASE SetupAttached(r)
  BY <1>3, SetupAttachedServed
<1>4. CASE SetupCreated(r)
  BY <1>4, SetupCreatedServed
<1>5. CASE Publish(r)
  <2>1. PICK to \in {IdleReq, [req[r] EXCEPT !.at = "stopOwn"], [req[r] EXCEPT !.at = "purge"]} :
            Land(r, to)
    BY <1>5 DEF Publish, Back
  <2>2. /\ req[r].at = "publish" /\ to.at \notin Private /\ to.proc \in {None, req[r].proc}
        /\ UNCHANGED <<reaping, proc, minted, disk>>
    BY <1>0, <1>5, <2>1 DEF Publish, Request, IdleReq, Private
  <2>3. /\ req'[r] = to
        /\ \A q \in Reqs : q # r =>
             /\ req'[q].proc = req[q].proc /\ req'[q].id = req[q].id
             /\ req'[q].at = req[q].at \/ req'[q].at = "attach"
    BY <1>0, <2>1 DEF Land, Request
  <2>4. \A q \in Reqs : req[q].at = "createPublish" => req[q].id # req[r].id
    BY <2>2 DEF Collapsed, MintedApart
  <2>5. CASE stopped
    <3>1. sessions' = sessions
      BY <1>5, <2>5 DEF Publish
    <3>2. Calm(r)
      BY <1>0, <2>2, <2>3, <3>1 DEF Calm, Private
    <3> QED
      BY <3>2, CalmServed
  <2>6. CASE ~stopped
    <3>1. sessions' = [sessions EXCEPT ![req[r].id] = req[r].proc]
      BY <1>5, <2>6 DEF Publish
    <3>2. "attach" \notin Private
      BY DEF Private
    <3> QED
      BY <2>2, <2>3, <2>4, <3>1, <3>2, PublishServed
  <2> QED
    BY <2>5, <2>6
<1>6. CASE Unflight(r)
  <2>1. Calm(r)
    BY <1>0, <1>6 DEF Calm, Unflight, Land, IdleReq, Request, Private
  <2> QED
    BY <2>1, CalmServed
<1>7. CASE Reserve(r)
  <2>1. Calm(r)
    BY <1>0, <1>7 DEF Calm, Reserve, Done, Move, Step, IdleReq, Request, Pruned, Private
  <2> QED
    BY <2>1, CalmServed
<1>8. CASE PublishCreated(r)
  <2>1. /\ req[r].at = "createPublish" /\ UNCHANGED <<reaping, proc, minted, disk>>
        /\ \A q \in Reqs : req[q].at = "createPublish" /\ q # r => req[q].id # req[r].id
    BY <1>8 DEF PublishCreated, Collapsed, MintedApart
  <2>2. CASE sessions' = sessions /\ Move(r, "createPublish", "stopOwn")
    <3>1. Calm(r)
      BY <1>0, <2>1, <2>2 DEF Calm, Move, Step, Request, Private
    <3> QED
      BY <3>1, CalmServed
  <2>3. CASE sessions' = [sessions EXCEPT ![req[r].id] = req[r].proc] /\ Done(r, "createPublish")
    <3>1. req'[r] = IdleReq /\ \A q \in Reqs : q # r => req'[q] = req[q]
      BY <1>0, <2>3 DEF Done, Step
    <3>2. IdleReq.at \notin Private /\ IdleReq.proc = None
      BY DEF IdleReq, Private
    <3> QED
      BY <2>1, <2>3, <3>1, <3>2, PublishServed
  <2> QED
    BY <1>8, <2>2, <2>3 DEF PublishCreated
<1>9. CASE Delete(r)
  <2>1. /\ req[r].id \in Ids /\ UNCHANGED <<reaping, proc, minted, disk>>
        /\ \A i \in Ids : sessions'[i] \in {sessions[i], None}
    BY <1>0, <1>9 DEF Delete, NamedStages
  <2>2. PICK new \in {IdleReq, [req[r] EXCEPT !.at = "attach"],
                      [req[r] EXCEPT !.at = "deleteStop", !.proc = sessions[req[r].id]]} :
            req' = [req EXCEPT ![r] = new]
    BY <1>9 DEF Delete, Step
  <2>3. /\ req'[r] = new /\ \A q \in Reqs : q # r => req'[q] = req[q]
        /\ new.at \notin Private /\ new.proc \in {None, req[r].proc, sessions[req[r].id]}
    <3>1. req'[r] = new /\ \A q \in Reqs : q # r => req'[q] = req[q]
      BY <1>0, <2>2
    <3>2. IdleReq.at \notin Private /\ IdleReq.proc = None
      BY DEF IdleReq, Private
    <3>3. \A at \in Stages :
            /\ [req[r] EXCEPT !.at = at].at = at /\ [req[r] EXCEPT !.at = at].proc = req[r].proc
            /\ \A p : /\ [req[r] EXCEPT !.at = at, !.proc = p].at = at
                     /\ [req[r] EXCEPT !.at = at, !.proc = p].proc = p
      BY <1>0 DEF Request
    <3>4. {"attach", "deleteStop"} \subseteq Stages \ Private
      BY DEF Stages, Private, AttachStages
    <3>5. CASE new = IdleReq
      BY <3>1, <3>2, <3>5
    <3>6. CASE new = [req[r] EXCEPT !.at = "attach"]
      BY <3>1, <3>3, <3>4, <3>6
    <3>7. CASE new = [req[r] EXCEPT !.at = "deleteStop", !.proc = sessions[req[r].id]]
      BY <3>1, <3>3, <3>4, <3>7
    <3> QED
      BY <2>2, <3>5, <3>6, <3>7
  <2>4. Calm(r)
    BY <1>0, <2>1, <2>3 DEF Calm
  <2> QED
    BY <2>4, CalmServed
<1>10. CASE Begin(r)
  <2>1. PICK new : /\ req' = [req EXCEPT ![r] = new]
                   /\ new.at \notin Private /\ new.proc \in {None, req[r].proc}
    <3>1. CASE r \in Creators
      BY <1>0, <1>10, <3>1 DEF Begin, Move, Step, Request, Private
    <3>2. CASE r \notin Creators
      <4>1. PICK i \in Ids, at \in {"attach", "delete"} :
              Step(r, "idle", [IdleReq EXCEPT !.at = at, !.id = i])
        BY <1>10, <3>2 DEF Begin
      <4> DEFINE new == [IdleReq EXCEPT !.at = at, !.id = i]
      <4>2. req' = [req EXCEPT ![r] = new] /\ new.at \notin Private /\ new.proc = None
        BY <4>1 DEF Step, IdleReq, Private
      <4> HIDE DEF new
      <4> QED
        BY <4>2
    <3> QED
      BY <3>1, <3>2
  <2>2. UNCHANGED <<sessions, reaping, proc, minted, disk>>
    BY <1>10 DEF Begin
  <2>3. Calm(r)
    BY <1>0, <2>1, <2>2 DEF Calm
  <2> QED
    BY <2>3, CalmServed
<1>11. CASE SpawnFails(r) \/ Unspawned(r) \/ PurgeAttached(r)
  <2>1. Calm(r)
    BY <1>0, <1>11
       DEF Calm, SpawnFails, Unspawned, PurgeAttached, Move, Step, Request, Private
  <2> QED
    BY <2>1, CalmServed
<1>12. CASE SetupFails(r) \/ StopOwn(r) \/ CreateSetupFails(r) \/ DeleteStop(r)
  <2>1. PICK to \in {"unspawn", "stopping", "createUnspawn", "deleteWait"} :
            /\ req' = [req EXCEPT ![r] = [req[r] EXCEPT !.at = to]]
            /\ Terminate(req[r].proc) /\ UNCHANGED <<sessions, reaping, minted, disk>>
    BY <1>12 DEF SetupFails, StopOwn, CreateSetupFails, DeleteStop, Move, Step
  <2>2. \A p \in Procs : proc'[p].id = proc[p].id /\ (proc'[p].st = "none" => proc[p].st = "none")
    BY <1>0, <2>1 DEF Terminate
  <2>3. Calm(r)
    BY <1>0, <2>1, <2>2 DEF Calm, Request, Private
  <2> QED
    BY <2>3, CalmServed
<1>13. CASE \/ OwnStopped(r) \/ CreateSpawnFails(r) \/ ReleaseReservation(r)
            \/ Deleted(r) \/ CancelWait(r)
  <2>1. /\ req' = [req EXCEPT ![r] = IdleReq] /\ disk' \subseteq minted
        /\ UNCHANGED <<sessions, reaping, proc, minted>>
    BY <1>0, <1>13
       DEF OwnStopped, CreateSpawnFails, ReleaseReservation, Deleted, CancelWait, Done, Step
  <2>2. Calm(r)
    BY <1>0, <2>1 DEF Calm, IdleReq, Private
  <2> QED
    BY <2>2, CalmServed
<1> QED
  BY <1>1, <1>2, <1>3, <1>4, <1>5, <1>6, <1>7, <1>8, <1>9, <1>10, <1>11, <1>12, <1>13
     DEF Proceed, AttachStep, CreateStep, DeleteStep

LEMMA NextServed ==
    ASSUME Base, Collapsed, Served, [Next]_vars
    PROVE  Served'
<1> USE DEF tableVars, worldVars
<1>0. /\ sessions \in [Ids -> Procs \cup {None}]
      /\ proc \in [Procs -> [st : {"none", "up", "stopping", "gone"}, id : Ids \cup {None}]]
      /\ None \notin Procs
      /\ \A r \in Reqs : req[r].at \in Private => req[r].proc \in Procs
      /\ \A r \in Reqs : req[r].at = "createPublish" => req[r].id \in Ids
  BY SetsAssumption DEF Base, ReqsOK, TableOK, WellFormed, NamedStages, Served, PrivateOK
<1>1. CASE \E r \in Reqs : Begin(r) \/ Proceed(r) \/ CancelWait(r)
  BY <1>1, RequestStepServed
<1>2. CASE UNCHANGED vars
  BY <1>2 DEF vars, Served, ReferencedExist, Referenced, PrivateOK, ServingOK
<1>3. ASSUME /\ UNCHANGED <<req, minted>>
             /\ \A i \in Ids : sessions'[i] \in {sessions[i], None}
             /\ \A p \in Procs : proc'[p].id = proc[p].id
             /\ \A p \in Procs : Referenced(p)' => proc'[p].st # "none"
             /\ disk' \subseteq minted
      PROVE  Served'
  <2>1. ReferencedExist' /\ PrivateOK'
    BY <1>0, <1>3 DEF Served, ReferencedExist, PrivateOK
  <2>2. ServingOK'
    BY <1>0, <1>3 DEF Served, ServingOK, Private
  <2> QED
    BY <2>1, <2>2 DEF Served
<1>4. ASSUME NEW i \in Ids, Collect(i) \/ Persist(i)
      PROVE  Served'
  <2>1. /\ UNCHANGED <<req, minted, proc>> /\ disk' \subseteq minted
        /\ \A j \in Ids : sessions'[j] \in {sessions[j], None}
        /\ \A p \in Procs : p \in reaping' => p \in reaping \/ \E j \in Ids : sessions[j] = p
    BY <1>0, <1>4 DEF Collect, Persist, Served, ServingOK
  <2>2. \A p \in Procs : Referenced(p)' => proc'[p].st # "none"
    BY <1>0, <2>1 DEF Served, ReferencedExist, Referenced
  <2> QED
    BY <1>3, <2>1, <2>2
<1>5. ASSUME NEW p \in Procs, Reap(p) \/ Reaped(p) \/ Exit(p)
      PROVE  Served'
  <2>1. /\ UNCHANGED <<req, sessions, minted, disk>> /\ reaping' \subseteq reaping
        /\ \A q \in Procs : proc'[q].id = proc[q].id /\ (proc'[q].st = "none" => proc[q].st = "none")
    BY <1>0, <1>5 DEF Reap, Reaped, Exit, Terminate
  <2>2. \A q \in Procs : Referenced(q)' => proc'[q].st # "none"
    BY <2>1 DEF Served, ReferencedExist, Referenced
  <2>3. disk' \subseteq minted /\ \A j \in Ids : sessions'[j] \in {sessions[j], None}
    BY <2>1 DEF Served, ServingOK
  <2> QED
    BY <1>3, <2>1, <2>2, <2>3
<1>6. ASSUME NEW p \in Procs, Reclaim(p)
      PROVE  Served'
  <2>1. /\ ~Referenced(p) /\ proc' = [proc EXCEPT ![p] = NoProc]
        /\ UNCHANGED <<sessions, req, reaping, minted, disk>>
    BY <1>6 DEF Reclaim, Referenced
  <2>2. \A q \in Procs : q # p => proc'[q] = proc[q]
    BY <1>0, <2>1
  <2>3. ReferencedExist' /\ PrivateOK'
    BY <2>1, <2>2 DEF Served, ReferencedExist, Referenced, PrivateOK
  <2>4. ServingOK'
    BY <1>0, <2>1, <2>2 DEF Served, ServingOK, Referenced, Private
  <2> QED
    BY <2>3, <2>4 DEF Served
<1>7. CASE Stop
  <2>1. /\ UNCHANGED <<req, minted, proc, disk>>
        /\ \A j \in Ids : sessions'[j] = None
        /\ \A p \in Procs : p \in reaping' => p \in reaping \/ \E j \in Ids : sessions[j] = p
    BY <1>0, <1>7 DEF Stop, Mapped
  <2>2. \A p \in Procs : Referenced(p)' => proc'[p].st # "none"
    BY <1>0, <2>1 DEF Served, ReferencedExist, Referenced
  <2>3. disk' \subseteq minted
    BY <2>1 DEF Served, ServingOK
  <2> QED
    BY <1>3, <2>1, <2>2, <2>3
<1> QED
  BY <1>1, <1>2, <1>4, <1>5, <1>6, <1>7 DEF Next

LEMMA InitServed == Init => Served
BY SetsAssumption
   DEF Init, Served, ReferencedExist, Referenced, PrivateOK, ServingOK, Private, IdleReq, NoProc

\* The processes that serve one session are one process.
LEMMA ServedOnce ==
    ASSUME Base, Collapsed, Served
    PROVE  OneServingProcess
<1> DEFINE Kept(p) == \/ \E i \in Ids : sessions[i] = p
                      \/ \E r \in Reqs : req[r].proc = p
                                         /\ req[r].at \in {"publish", "createPublish"}
<1>0. /\ None \notin Procs
      /\ \A r \in Reqs : req[r].at = "createPublish" => sessions[req[r].id] = None
      /\ \A r \in Reqs : req[r].at = "publish" => sessions[req[r].id] = None
      /\ \A r \in Reqs : req[r].at \in {"publish", "createPublish"} =>
            proc[req[r].proc].id = req[r].id
      /\ \A i \in Ids : sessions[i] # None => proc[sessions[i]].id = i
  BY SetsAssumption DEF Served, ServingOK, Collapsed, AttachCollapsed, AttachStages
<1>1. ASSUME NEW r \in Reqs, NEW q \in Reqs,
             req[r].at \in {"publish", "createPublish"}, req[q].at \in {"publish", "createPublish"},
             req[r].id = req[q].id
      PROVE  r = q
  BY <1>1 DEF Collapsed, AttachCollapsed, AttachStages, MintedApart
<1>2. ASSUME NEW p \in Procs, NEW q \in Procs, Kept(p), Kept(q), proc[p].id = proc[q].id
      PROVE  p = q
  <2>1. CASE (\E i \in Ids : sessions[i] = p) /\ (\E i \in Ids : sessions[i] = q)
    BY <1>0, <1>2, <2>1
  <2>2. CASE \E r \in Reqs : req[r].proc = p /\ req[r].at \in {"publish", "createPublish"}
    BY <1>0, <1>1, <1>2, <2>2
  <2>3. CASE \E r \in Reqs : req[r].proc = q /\ req[r].at \in {"publish", "createPublish"}
    BY <1>0, <1>1, <1>2, <2>3
  <2> QED
    BY <1>2, <2>1, <2>2, <2>3
<1> QED
  BY <1>2 DEF OneServingProcess

\* A session is served by one process at a time, whatever attaches, Creates,
\* purges and the janitor do to the table meanwhile: a second one is at most a
\* process that is being stopped.
THEOREM OneProcessServes == Spec => []ServedByOne
<1>1. Base /\ Collapsed /\ Served /\ [Next]_vars => (Base /\ Collapsed /\ Served)'
  BY NextBase, NextCollapsed, NextServed
<1>2. Base /\ Collapsed /\ Served => ServedByOne
  BY BaseTypes, ServedOnce DEF ServedByOne, Collapsed
<1> QED
  BY <1>1, <1>2, InitBase, InitCollapsed, InitServed, PTL DEF Spec
=============================================================================
