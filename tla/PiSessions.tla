----------------------------- MODULE PiSessions -----------------------------
(***************************************************************************)
(* The session table of the pi manager (internal/pi/manager.go): which pi  *)
(* processes exist, which session each one serves, and how Create, attach, *)
(* Delete, the janitor and Stop share the table under Manager.mu.  What a  *)
(* session does with its process is PiRun's subject.                       *)
(*                                                                         *)
(* Spawning, the get_state handshake and process.stop happen outside the   *)
(* lock and take any time; a process may exit at any moment.               *)
(*                                                                         *)
(* A definition marked "Mutant" is a plausible mistake in the definition   *)
(* below it, used by no specification.                                     *)
(***************************************************************************)
EXTENDS Naturals, FiniteSets

CONSTANTS
    Ids,          \* session ids
    Procs,        \* bound: identities of pi processes, reused after their end
    Attachers,    \* requests that attach a session: Get, Send, Submit, Entries, ...
    Creators,     \* requests of Create
    Deleters,     \* requests of Delete without purge
    Purgers,      \* requests of Delete with purge
    MaxSessions,
    None

Reqs == Attachers \cup Creators \cup Deleters \cup Purgers

ASSUME SetsAssumption ==
    /\ IsFiniteSet(Ids)
    /\ None \notin Ids \cup Procs
ASSUME MaxSessionsAssumption == MaxSessions \in Nat \ {0}

VARIABLES
    (* Manager, guarded by Manager.mu *)
    sessions,   \* the process of each mapped session, None if it is not mapped
    inflight,   \* ids whose attach is in progress
    creating,   \* Create reservations
    stopped,
    (* goroutines *)
    req,        \* each request: where it is, its session id, its process
    reaping,    \* processes the janitor or Stop took off the table to stop them
    (* the processes and pi's session directory, external *)
    proc,       \* each process: the session it serves and whether it lives
    minted,     \* ids pi has given to some session
    disk        \* ids with a session file

tableVars == <<sessions, inflight, creating, stopped>>
worldVars == <<proc, minted, disk>>
vars == <<tableVars, req, reaping, worldVars>>

-----------------------------------------------------------------------------
(* Helpers *)

NoProc == [st |-> "none", id |-> None]
IdleReq == [at |-> "idle", id |-> None, proc |-> None]

Alive(p) == proc[p].st \in {"up", "stopping"}
Exited(p) == ~Alive(p)

\* The table after pruneExitedSessionsLocked.
Pruned == [i \in Ids |-> IF sessions[i] # None /\ Exited(sessions[i]) THEN None ELSE sessions[i]]

Mapped(table) == {i \in Ids : table[i] # None}
\* Mutant: sessions being created are not counted.
LoadWithoutCreates(table) == Cardinality(Mapped(table)) + Cardinality(inflight)
Load(table) == Cardinality(Mapped(table)) + Cardinality(inflight) + creating

Step(r, from, to) == req[r].at = from /\ req' = [req EXCEPT ![r] = to]
Move(r, from, to) == Step(r, from, [req[r] EXCEPT !.at = to])
Done(r, from) == Step(r, from, IdleReq)

\* process.stop sends SIGTERM; its caller then waits for the exit.
Terminate(p) == proc' = [proc EXCEPT ![p].st = IF @ = "up" THEN "stopping" ELSE @]

\* A request's turn to spawn, serving id (None while pi has not said which).
Spawn(r, from, to, id) ==
    \E p \in Procs :
        /\ proc[p] = NoProc
        /\ proc' = [proc EXCEPT ![p] = [st |-> "up", id |-> id]]
        /\ Step(r, from, [req[r] EXCEPT !.at = to, !.proc = p])

\* An identity may be reused once nothing refers to the exited process.
Reclaim(p) ==
    /\ proc[p].st = "gone"
    /\ p \notin reaping
    /\ \A i \in Ids : sessions[i] # p
    /\ \A r \in Reqs : req[r].proc # p
    /\ proc' = [proc EXCEPT ![p] = NoProc]
    /\ UNCHANGED <<tableVars, req, reaping, minted, disk>>

-----------------------------------------------------------------------------
(* attach *)

\* Mutant: an attach in progress is not joined.
JoinsNone(i) == FALSE
\* attach's singleflight.
Joins(i) == i \in inflight

\* The locked section at the head of attach's loop.  "from" is where the loop
\* was entered, "back" where the caller goes on with the session.
AttachTry(r, from, back) ==
    /\ req[r].at = from
    /\ LET i == req[r].id
           table == IF stopped THEN sessions ELSE Pruned
       IN  /\ sessions' = table
           /\ \/ /\ stopped
                 /\ Done(r, from) /\ UNCHANGED inflight
              \/ /\ ~stopped /\ table[i] # None
                 /\ Step(r, from, IF back = "idle" THEN IdleReq
                                  ELSE [req[r] EXCEPT !.at = back, !.proc = table[i]])
                 /\ UNCHANGED inflight
              \/ /\ ~stopped /\ table[i] = None /\ Joins(i)
                 /\ Move(r, from, "waiting") /\ UNCHANGED inflight
              \/ /\ ~stopped /\ table[i] = None /\ ~Joins(i)
                 /\ Load(table) >= MaxSessions
                 /\ Done(r, from) /\ UNCHANGED inflight
              \/ /\ ~stopped /\ table[i] = None /\ ~Joins(i)
                 /\ Load(table) < MaxSessions
                 /\ inflight' = inflight \cup {i}
                 /\ Move(r, from, "spawn")
    /\ UNCHANGED <<creating, stopped, reaping, worldVars>>

\* Where a request goes with its attached session.
Back(r) == IF r \in Purgers THEN "purge" ELSE "idle"

Attach(r) == AttachTry(r, "attach", Back(r))

\* The request of a waiting attach is cancelled.
CancelWait(r) ==
    /\ Done(r, "waiting")
    /\ UNCHANGED <<tableVars, reaping, worldVars>>

SpawnAttached(r) ==
    /\ Spawn(r, "spawn", "setup", req[r].id)
    /\ UNCHANGED <<tableVars, reaping, minted, disk>>

SpawnFails(r) ==
    /\ Move(r, "spawn", "unflight")
    /\ UNCHANGED <<tableVars, reaping, worldVars>>

\* getState answered with the requested id: only for a session pi has on disk.
SetupAttached(r) ==
    /\ Move(r, "setup", "publish")
    /\ req[r].id \in disk
    /\ Alive(req[r].proc)
    /\ UNCHANGED <<tableVars, reaping, worldVars>>

\* Mutant: the process of a failed re-attach is left running.
SetupFailsUnstopped(r) ==
    /\ Move(r, "setup", "unflight")
    /\ UNCHANGED <<tableVars, reaping, worldVars>>
\* getState failed or answered with another id: reattach stops the process.
SetupFails(r) ==
    /\ Move(r, "setup", "unspawn")
    /\ Terminate(req[r].proc)
    /\ UNCHANGED <<tableVars, reaping, minted, disk>>

Unspawned(r) ==
    /\ Move(r, "unspawn", "unflight")
    /\ Exited(req[r].proc)
    /\ UNCHANGED <<tableVars, reaping, worldVars>>

\* Mutant: nobody is woken.
LandSilently(r, to) ==
    /\ inflight' = inflight \ {req[r].id}
    /\ req' = [req EXCEPT ![r] = to]
\* The locked section after reattach ends with close(wait): the requests that
\* waited for it try again.
Land(r, to) ==
    /\ inflight' = inflight \ {req[r].id}
    /\ req' = [q \in Reqs |->
                 IF q = r THEN to
                 ELSE IF req[q].at = "waiting" /\ req[q].id = req[r].id
                      THEN [req[q] EXCEPT !.at = "attach"]
                      ELSE req[q]]

\* ... on failure.
Unflight(r) ==
    /\ req[r].at = "unflight"
    /\ Land(r, IdleReq)
    /\ UNCHANGED <<sessions, creating, stopped, reaping, worldVars>>

\* Mutant: a manager that stopped meanwhile is not noticed.
PublishAlways(r) ==
    /\ req[r].at = "publish"
    /\ sessions' = [sessions EXCEPT ![req[r].id] = req[r].proc]
    /\ Land(r, IF Back(r) = "idle" THEN IdleReq ELSE [req[r] EXCEPT !.at = Back(r)])
    /\ UNCHANGED <<creating, stopped, reaping, worldVars>>

\* ... on success.
Publish(r) ==
    /\ req[r].at = "publish"
    /\ IF stopped
       THEN Land(r, [req[r] EXCEPT !.at = "stopOwn"]) /\ UNCHANGED sessions
       ELSE /\ sessions' = [sessions EXCEPT ![req[r].id] = req[r].proc]
            /\ Land(r, IF Back(r) = "idle" THEN IdleReq ELSE [req[r] EXCEPT !.at = Back(r)])
    /\ UNCHANGED <<creating, stopped, reaping, worldVars>>

\* A process that reached no table entry is stopped by the request that owns it.
StopOwn(r) ==
    /\ Move(r, "stopOwn", "stopping")
    /\ Terminate(req[r].proc)
    /\ UNCHANGED <<tableVars, reaping, minted, disk>>

OwnStopped(r) ==
    /\ req[r].at = "stopping"
    /\ Exited(req[r].proc)
    /\ Done(r, "stopping")
    /\ UNCHANGED <<tableVars, reaping, worldVars>>

-----------------------------------------------------------------------------
(* Create *)

\* reserveCreate.
Reserve(r) ==
    /\ req[r].at = "create"
    /\ IF stopped
       THEN Done(r, "create") /\ UNCHANGED <<sessions, creating>>
       ELSE /\ sessions' = Pruned
            /\ IF Load(Pruned) >= MaxSessions
               THEN Done(r, "create") /\ UNCHANGED creating
               ELSE Move(r, "create", "createSpawn") /\ creating' = creating + 1
    /\ UNCHANGED <<inflight, stopped, reaping, worldVars>>

SpawnCreated(r) ==
    /\ Spawn(r, "createSpawn", "createSetup", None)
    /\ UNCHANGED <<tableVars, reaping, minted, disk>>

CreateSpawnFails(r) ==
    /\ Done(r, "createSpawn")
    /\ creating' = creating - 1
    /\ UNCHANGED <<sessions, inflight, stopped, reaping, worldVars>>

\* set_thinking_level and get_state answered: pi minted an id for its session,
\* a random one that no request has named.
SetupCreated(r) ==
    /\ req[r].at = "createSetup" /\ Alive(req[r].proc)
    /\ \E i \in Ids \ (minted \cup {req[q].id : q \in Reqs}) :
         /\ Step(r, "createSetup", [req[r] EXCEPT !.at = "createPublish", !.id = i])
         /\ minted' = minted \cup {i}
         /\ proc' = [proc EXCEPT ![req[r].proc].id = i]
    /\ UNCHANGED <<tableVars, reaping, disk>>

CreateSetupFails(r) ==
    /\ Move(r, "createSetup", "createUnspawn")
    /\ Terminate(req[r].proc)
    /\ UNCHANGED <<tableVars, reaping, minted, disk>>

\* The deferred releaseCreateReservation runs after process.stop returned.
ReleaseReservation(r) ==
    /\ req[r].at = "createUnspawn"
    /\ Exited(req[r].proc)
    /\ Done(r, "createUnspawn")
    /\ creating' = creating - 1
    /\ UNCHANGED <<sessions, inflight, stopped, reaping, worldVars>>

\* The locked section that turns the reservation into a session.
PublishCreated(r) ==
    /\ req[r].at = "createPublish"
    /\ creating' = creating - 1
    /\ IF stopped \/ sessions[req[r].id] # None
       THEN Move(r, "createPublish", "stopOwn") /\ UNCHANGED sessions
       ELSE /\ sessions' = [sessions EXCEPT ![req[r].id] = req[r].proc]
            /\ Done(r, "createPublish")
    /\ UNCHANGED <<inflight, stopped, reaping, worldVars>>

-----------------------------------------------------------------------------
(* Delete *)

\* The locked section of Delete: off the table first, stopped afterwards.
Delete(r) ==
    /\ req[r].at = "delete"
    /\ LET i == req[r].id IN
       /\ sessions' = [sessions EXCEPT ![i] = None]
       /\ Step(r, "delete", IF sessions[i] # None
                            THEN [req[r] EXCEPT !.at = "deleteStop", !.proc = sessions[i]]
                            ELSE IF r \in Purgers THEN [req[r] EXCEPT !.at = "attach"]
                            ELSE IdleReq)
    /\ UNCHANGED <<inflight, creating, stopped, reaping, worldVars>>

DeleteStop(r) ==
    /\ Move(r, "deleteStop", "deleteWait")
    /\ Terminate(req[r].proc)
    /\ UNCHANGED <<tableVars, reaping, minted, disk>>

\* process.stop returned; with purge the session file is removed.
Deleted(r) ==
    /\ req[r].at = "deleteWait"
    /\ Exited(req[r].proc)
    /\ disk' = IF r \in Purgers THEN disk \ {req[r].id} ELSE disk
    /\ Done(r, "deleteWait")
    /\ UNCHANGED <<tableVars, reaping, proc, minted>>

\* Purging an inactive session: it was attached to learn its file, and its id
\* is taken off the table whatever the id is mapped to by now.
PurgeAttached(r) ==
    /\ Move(r, "purge", "deleteStop")
    /\ sessions' = [sessions EXCEPT ![req[r].id] = None]
    /\ UNCHANGED <<inflight, creating, stopped, reaping, worldVars>>

-----------------------------------------------------------------------------
(* The janitor and Stop *)

\* An idle session of a janitor tick (PiRun's Collect); its process is stopped
\* after the unlock.
Collect(i) ==
    /\ ~stopped
    /\ sessions[i] # None
    /\ reaping' = reaping \cup {sessions[i]}
    /\ sessions' = [sessions EXCEPT ![i] = None]
    /\ UNCHANGED <<inflight, creating, stopped, req, worldVars>>

\* The locked section of Stop.
Stop ==
    /\ ~stopped
    /\ stopped' = TRUE
    /\ reaping' = reaping \cup {sessions[i] : i \in Mapped(sessions)}
    /\ sessions' = [i \in Ids |-> None]
    /\ UNCHANGED <<inflight, creating, req, worldVars>>

\* process.stop of a reaped process, and its return.
Reap(p) ==
    /\ p \in reaping
    /\ proc[p].st = "up"
    /\ Terminate(p)
    /\ UNCHANGED <<tableVars, req, reaping, minted, disk>>

Reaped(p) ==
    /\ p \in reaping
    /\ Exited(p)
    /\ reaping' = reaping \ {p}
    /\ UNCHANGED <<tableVars, req, worldVars>>
-----------------------------------------------------------------------------
(* Requests and the outside world *)

\* A client names ids of existing sessions, or ids that never existed: it cannot
\* name a session whose Create has not published it yet.
Begin(r) ==
    /\ IF r \in Creators
       THEN Move(r, "idle", "create")
       ELSE \E i \in Ids \ {req[q].id : q \in {q \in Creators : req[q].at = "createPublish"}} :
              Step(r, "idle", [IdleReq EXCEPT !.at = IF r \in Attachers THEN "attach" ELSE "delete",
                                              !.id = i])
    /\ UNCHANGED <<tableVars, reaping, worldVars>>

\* External: a process crashes, or obeys SIGTERM or SIGKILL.
Exit(p) ==
    /\ Alive(p)
    /\ proc' = [proc EXCEPT ![p].st = "gone"]
    /\ UNCHANGED <<tableVars, req, reaping, minted, disk>>

\* External: pi writes the session file at the session's first message.
Persist(i) ==
    /\ \E p \in Procs : Alive(p) /\ proc[p].id = i
    /\ i \in minted
    /\ disk' = disk \cup {i}
    /\ UNCHANGED <<tableVars, req, reaping, proc, minted>>

-----------------------------------------------------------------------------
(* Specification *)

\* The program starts with an empty table; session files of an earlier run
\* are on disk.
Init ==
    /\ sessions = [i \in Ids |-> None] /\ inflight = {} /\ creating = 0 /\ stopped = FALSE
    /\ req = [r \in Reqs |-> IdleReq] /\ reaping = {}
    /\ proc = [p \in Procs |-> NoProc]
    /\ minted \in SUBSET Ids /\ disk = minted

AttachStep(r) ==
    \/ Attach(r) \/ SpawnAttached(r) \/ SpawnFails(r)
    \/ SetupAttached(r) \/ SetupFails(r) \/ Unspawned(r) \/ Unflight(r) \/ Publish(r)
    \/ StopOwn(r) \/ OwnStopped(r)

CreateStep(r) ==
    \/ Reserve(r) \/ SpawnCreated(r) \/ CreateSpawnFails(r) \/ SetupCreated(r)
    \/ CreateSetupFails(r) \/ ReleaseReservation(r) \/ PublishCreated(r)

DeleteStep(r) == Delete(r) \/ DeleteStop(r) \/ Deleted(r) \/ PurgeAttached(r)

Proceed(r) == AttachStep(r) \/ CreateStep(r) \/ DeleteStep(r)

Next ==
    \/ \E r \in Reqs : Begin(r) \/ Proceed(r) \/ CancelWait(r)
    \/ \E i \in Ids : Collect(i) \/ Persist(i)
    \/ \E p \in Procs : Reap(p) \/ Reaped(p) \/ Exit(p) \/ Reclaim(p)
    \/ Stop

Spec == Init /\ [][Next]_vars

\* Goroutines are scheduled (no wait is relied on to be cancelled), setup calls
\* have a timeout (SetupFails, and CreateSetupFails, stay possible), and a
\* signalled process exits.
Fairness ==
    /\ \A r \in Reqs : WF_vars(Proceed(r))
    /\ \A p \in Procs :
         /\ WF_vars(Reap(p)) /\ WF_vars(Reaped(p)) /\ WF_vars(Reclaim(p))
         /\ WF_vars(proc[p].st = "stopping" /\ Exit(p))

FairSpec == Spec /\ Fairness

-----------------------------------------------------------------------------
(* Properties *)

AttachStages == {"spawn", "setup", "unspawn", "publish", "unflight"}
CreateStages == {"createSpawn", "createSetup", "createUnspawn", "createPublish"}

TypeOK ==
    /\ sessions \in [Ids -> Procs \cup {None}]
    /\ inflight \subseteq Ids
    /\ creating \in Nat
    /\ stopped \in BOOLEAN
    /\ req \in [Reqs -> [at : {"idle", "attach", "waiting", "purge", "stopOwn", "stopping",
                               "create", "delete", "deleteStop", "deleteWait"}
                              \cup AttachStages \cup CreateStages,
                         id : Ids \cup {None}, proc : Procs \cup {None}]]
    /\ reaping \subseteq Procs
    /\ proc \in [Procs -> [st : {"none", "up", "stopping", "gone"}, id : Ids \cup {None}]]
    /\ minted \subseteq Ids
    /\ disk \subseteq Ids

\* Config.MaxSessions: sessions, attaches and creates together never exceed the
\* limit, although each is counted by a different goroutine's lock section.
CapacityKept ==
    Cardinality(Mapped(sessions)) + Cardinality(inflight) + creating <= MaxSessions

\* attach: one request at a time re-attaches a session, and only while no
\* process is mapped for it.
AttachCollapsed ==
    /\ \A i \in inflight : \E r \in Reqs : req[r].at \in AttachStages /\ req[r].id = i
    /\ \A r \in Reqs : req[r].at \in AttachStages =>
         /\ req[r].id \in inflight
         /\ sessions[req[r].id] = None
         /\ \A q \in Reqs : req[q].at \in AttachStages /\ req[q].id = req[r].id => q = r

\* Every failure of attach and Create returns what it reserved: with no request
\* in progress nothing but sessions counts against the limit.
NothingLeaked ==
    (\A r \in Reqs : req[r].at = "idle") => inflight = {} /\ creating = 0

\* A purge never finds another process in the table than the one it learnt the
\* session file from.  The code does not ensure it.
NoPurgeRace == \A r \in Reqs : req[r].at = "purge" => sessions[req[r].id] \in {None, req[r].proc}

AliveOwned ==
    \A p \in Procs : Alive(p) =>
        \/ \E i \in Ids : sessions[i] = p
        \/ \E r \in Reqs : req[r].proc = p
        \/ p \in reaping

\* Unless a purge takes another's process off the table, a process that lives is
\* in the table, or a request or the janitor still holds it in order to publish
\* or to stop it.
ProcessesOwned == []NoPurgeRace => []AliveOwned

\* Two processes serve one session only while one of them is being stopped.
OneServingProcess ==
    LET Kept(p) == \/ \E i \in Ids : sessions[i] = p
                   \/ \E r \in Reqs : req[r].proc = p
                                      /\ req[r].at \in {"publish", "createPublish"}
    IN  \A p, q \in Procs :
          Alive(p) /\ Alive(q) /\ Kept(p) /\ Kept(q) /\ proc[p].id = proc[q].id => p = q

\* attach, publishSession: a session is served by one process at a time.
ServedByOne == TypeOK /\ AttachCollapsed /\ OneServingProcess

\* Stop: once it has returned and no request is in progress, no process lives.
StopLeavesNone ==
    stopped /\ reaping = {} /\ (\A r \in Reqs : req[r].at = "idle") =>
        \A p \in Procs : ~Alive(p)

\* A request waiting for another one's attach is woken by its outcome.
WaitersWake == \A r \in Reqs : req[r].at = "waiting" ~> req[r].at # "waiting"

\* Stop during any mix of requests ends with no process, for good, unless a purge
\* takes another's process off the table.
StopEndsProcesses == []NoPurgeRace => (stopped ~> [](\A p \in Procs : ~Alive(p)))
=============================================================================
