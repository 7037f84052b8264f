------------------------ MODULE CursorManager_proofs ------------------------
(***************************************************************************)
(* Proofs about CursorManager, for any agents, requests and limit, with    *)
(* bridges that exit at any moment.  The invariant is built in layers:     *)
(* types and the shape of a request (Base), the life of a bridge (Born),   *)
(* who stops what (Stopping), who holds a bridge's run slot (Slots), and   *)
(* on top of them the properties.                                          *)
(***************************************************************************)
EXTENDS CursorManager, FiniteSetTheorems, TLAPS

Points == {"idle", "attach", "waiting", "discard", "done", "create", "abort", "abortWait",
           "list", "reserve", "send", "stream", "ending", "release"} \cup AttachStages

Request == [at : Points, kind : {"send", "create", "list", "abort", None},
            agent : Agents \cup {None}, session : Bridges \cup {None}, cancelled : BOOLEAN]

Stopper == [at : {"off", "armed", "cancel", "remove", "stop", "done"},
            session : Bridges \cup {None}, runID : Reqs \cup {None}]

Process == [st : {"none", "up", "exited"}, agent : Agents \cup {None},
            slot : Reqs \cup {Free, Janitor},
            runID : Reqs \cup {None}, run : Reqs \cup {None}, left : SUBSET Reqs]

\* Send's points: its watcher runs, it holds the slot, it has a session.
Watched == {"send", "stream", "ending"}
Using   == Watched \cup {"release"}
Serving == Using \cup {"reserve"}

\* The points of an abortAndStop that has begun and not returned.
Busy == {"cancel", "remove", "stop"}

\* What a request at a point is: its kind, its agent, its session.
Fits(at, q) ==
    /\ at \in {"attach", "waiting"} \cup Serving => q.kind = "send"
    /\ at = "create" => q.kind = "create"
    /\ at = "list" => q.kind = "list"
    /\ at \in {"abort", "abortWait"} => q.kind = "abort"
    /\ at \in AttachStages \cup {"discard"} => q.kind \in {"send", "create", "list"}
    /\ at \notin {"idle", "done"} /\ q.kind \in {"send", "abort"} => q.agent \in Agents
    /\ at \in Serving => q.session \in Bridges

\* The types but those of the requests, and those of the requests.
TableOK ==
    /\ sessions \in [Agents -> Bridges \cup {None}]
    /\ inflight \subseteq Agents
    /\ starting \in Int
    /\ stopped \in BOOLEAN
    /\ abort \in [Aborts -> Stopper]
    /\ reaping \subseteq Bridges
    /\ bridge \in [Bridges -> Process]
    /\ disk \subseteq Agents

ReqsOK == req \in [Reqs -> Request] /\ \A r \in Reqs : Fits(req[r].at, req[r])

\* The first layer.  That starting is never negative is left to the last one, which
\* counts the starts.
Base == TableOK /\ ReqsOK

\* The points of a request that has started no bridge.
Unborn == {"idle", "attach", "waiting", "create", "list", "spawn"}

\* What is referred to has been started, and a mapped session is on the disk.
Born ==
    /\ \A r \in Reqs : req[r].at \in Unborn => bridge[r].st = "none"
    /\ \A r \in Reqs : req[r].at = "setup" => bridge[r].st # "none"
    /\ \A a \in Agents : sessions[a] # None => bridge[sessions[a]].st # "none" /\ a \in disk
    /\ \A r \in Reqs : req[r].at \in Serving => bridge[req[r].session].st # "none"

\* A watcher runs while its Send is watched, an abortAndStop of a request while the
\* request waits for it, and both work on the session of their Send.
Stopping ==
    /\ \A c \in Reqs : req[c].at \notin Watched => abort[Watcher(c)].at = "off"
    /\ \A c \in Reqs : req[c].at \notin {"ending", "abortWait"} => abort[Main(c)].at = "off"
    /\ \A c \in Reqs : req[c].at \in Watched =>
          \A x \in {Watcher(c), Main(c)} : abort[x].at \in Busy => abort[x].session = req[c].session
    /\ \A x \in Aborts : abort[x].at \in Busy =>
          abort[x].session \in Bridges /\ bridge[abort[x].session].st # "none"

\* A bridge's slot is held by the Send that uses it, from Reserve to Release, and the
\* run whose stream is read and the run id are of that Send.
Slots ==
    /\ \A b \in Bridges : bridge[b].run # None => bridge[b].slot = bridge[b].run /\ Live(b)
    /\ \A b \in Bridges : bridge[b].runID # None => bridge[b].slot = bridge[b].runID
    /\ \A c \in Reqs : req[c].at \in Using => bridge[req[c].session].slot = c
    /\ \A b \in Bridges : bridge[b].slot \in Reqs =>
          req[bridge[b].slot].at \in Using /\ req[bridge[b].slot].session = b
    /\ \A c \in Reqs : req[c].at \in {"send", "release"} => bridge[req[c].session].run = None
    /\ \A c \in Reqs : req[c].at = "release" => bridge[req[c].session].runID = None
    /\ \A c \in Reqs : req[c].at = "ending" =>
          bridge[req[c].session].run = None \/ abort[Main(c)].at \in Busy

\* A request of the right type and shape put in place of another.
LEMMA Replaced ==
  ASSUME ReqsOK, NEW r \in Reqs, NEW new \in Request, Fits(new.at, new),
         req' = [req EXCEPT ![r] = new]
  PROVE  ReqsOK'
  BY DEF ReqsOK

\* A step to another point at which the request fits.
LEMMA GotoFits ==
  ASSUME ReqsOK, NEW r \in Reqs, NEW from, NEW to \in Points, Goto(r, from, to),
         Fits(to, req[r])
  PROVE  ReqsOK'
<1> DEFINE new == [req[r] EXCEPT !.at = to]
<1>1. req[r] \in Request
  BY DEF ReqsOK
<1>2. new \in Request
  BY <1>1, Zenon DEF Request
<1>3. /\ new.at = to /\ new.kind = req[r].kind /\ new.agent = req[r].agent
      /\ new.session = req[r].session
  BY <1>1 DEF Request
<1>4. Fits(new.at, new)
  BY <1>3 DEF Fits
<1>5. req' = [req EXCEPT ![r] = new]
  BY DEF Goto
<1> QED
  BY <1>2, <1>4, <1>5, Replaced

\* What is left of a request that is over.
LEMMA OverFits == Over \in Request /\ Fits(Over.at, Over)
  BY DEF Over, NotBegun, Request, Points, Fits, Serving, Using, Watched, AttachStages

\* A request that ends keeps the types.
LEMMA DoneFits ==
  ASSUME ReqsOK, NEW r \in Reqs, NEW from, Done(r, from)
  PROVE  ReqsOK'
  BY OverFits, Replaced DEF Done

\* The landing of a startup moves its Send, and wakes the Sends that joined it.
LEMMA LandFits ==
  ASSUME ReqsOK, NEW c \in Reqs, NEW new \in Request, Fits(new.at, new), Land(c, new)
  PROVE  ReqsOK'
<1> DEFINE Woken(q) == [req[q] EXCEPT !.at = "attach"]
<1>1. ASSUME NEW q \in Reqs PROVE Woken(q) \in Request
  <2>1. req[q] \in Request
    BY DEF ReqsOK
  <2> QED
    BY <2>1, Zenon DEF Request, Points
<1>2. ASSUME NEW q \in Reqs, req[q].at = "waiting" PROVE Fits(Woken(q).at, Woken(q))
  <2>1. req[q] \in Request /\ Fits("waiting", req[q])
    BY <1>2 DEF ReqsOK
  <2>2. /\ Woken(q).at = "attach" /\ Woken(q).kind = req[q].kind
        /\ Woken(q).agent = req[q].agent
    BY <2>1 DEF Request
  <2> QED
    BY <2>1, <2>2 DEF Fits, Serving, Using, Watched, AttachStages
<1>3. req' = [q \in Reqs |-> IF q = c THEN new
                             ELSE IF req[q].at = "waiting" /\ req[q].agent = req[c].agent
                             THEN Woken(q) ELSE req[q]]
  BY DEF Land
<1> HIDE DEF Woken
<1> QED
  BY <1>1, <1>2, <1>3 DEF ReqsOK

\* The two goroutines of abortAndStop that a request has.
LEMMA Goroutines ==
  /\ \A c \in Reqs : Watcher(c) \in Aborts /\ Main(c) \in Aborts
  /\ \A c, d \in Reqs : /\ Watcher(c) # Main(d)
                        /\ Watcher(c) = Watcher(d) => c = d
                        /\ Main(c) = Main(d) => c = d
  /\ \A x \in Aborts : \E c \in Reqs : x \in {Watcher(c), Main(c)}
  BY DEF Watcher, Main, Aborts

\* abortAndStop begins on the session s, busy.
LEMMA AbortBegins ==
  ASSUME TableOK, NEW x \in Aborts, NEW s \in Bridges, AbortStarts(x, s)
  PROVE  /\ abort' \in [Aborts -> Stopper]
         /\ abort'[x].at \in {"cancel", "remove"} /\ abort'[x].session = s
         /\ abort'[x].at = "cancel" => abort'[x].runID = bridge[s].runID
         /\ \A y \in Aborts \ {x} : abort'[y] = abort[y]
<1>1. bridge[s].runID \in Reqs \cup {None}
  BY DEF TableOK, Process
<1>2. [at |-> IF bridge[s].runID = None THEN "remove" ELSE "cancel",
       session |-> s, runID |-> bridge[s].runID] \in Stopper
  BY <1>1 DEF Stopper
<1> QED
  BY <1>2 DEF TableOK, AbortStarts

-----------------------------------------------------------------------------
(* What the steps that change several records do to their fields *)

Others(r) == \A q \in Reqs \ {r} : req'[q] = req[q]

\* Request r goes from one point to another and stays what it is.
Went(r, from, to) ==
    /\ req[r].at = from /\ req'[r].at = to /\ Others(r)
    /\ req'[r].kind = req[r].kind /\ req'[r].agent = req[r].agent
    /\ req'[r].session = req[r].session

\* Request r is over.
Ended(r, from) ==
    /\ req[r].at = from /\ req'[r].at = "done" /\ Others(r)
    /\ req'[r].kind = None /\ req'[r].session = None

\* Every bridge but b stays, and b stays in the state it is in.
OnlyBridge(b) ==
    /\ \A d \in Bridges \ {b} : bridge'[d] = bridge[d]
    /\ bridge'[b].st = bridge[b].st

\* Goto changes the point alone.
LEMMA GotoEffect ==
  ASSUME ReqsOK, NEW r \in Reqs, NEW from, NEW to, Goto(r, from, to)
  PROVE  Went(r, from, to)
  BY DEF ReqsOK, Request, Goto, Went, Others

\* Done forgets the rest.
LEMMA DoneEffect ==
  ASSUME ReqsOK, NEW r \in Reqs, NEW from, Done(r, from)
  PROVE  Ended(r, from)
  BY DEF ReqsOK, Done, Ended, Over, NotBegun, Others

\* A request begins with a lock to take, and no bridge.
LEMMA BeginEffect ==
  ASSUME ReqsOK, NEW r \in Reqs, Begin(r)
  PROVE  /\ req[r].at = "idle" /\ Others(r)
         /\ req'[r].at \in {"attach", "abort", "create", "list"}
<1>1. req \in [Reqs -> Request] /\ req[r].at = "idle"
  BY DEF ReqsOK, Begin
<1>2. ASSUME NEW a \in Agents, NEW at \in {"attach", "abort"},
             req' = [req EXCEPT ![r] = [NotBegun EXCEPT
                       !.at = at, !.agent = a, !.kind = IF at = "attach" THEN "send" ELSE "abort"]]
      PROVE  req'[r].at \in {"attach", "abort"} /\ Others(r)
  BY <1>1, <1>2 DEF NotBegun, Others
<1>3. ASSUME NEW kind \in {"create", "list"},
             req' = [req EXCEPT ![r] = [NotBegun EXCEPT !.at = kind, !.kind = kind]]
      PROVE  req'[r].at \in {"create", "list"} /\ Others(r)
  BY <1>1, <1>3 DEF NotBegun, Others
<1> QED
  BY <1>1, <1>2, <1>3 DEF Begin

\* Attach starts the bridge of its agent, joins, finds a session or gives up.
LEMMA AttachEffect ==
  ASSUME TableOK, ReqsOK, NEW r \in Reqs, Attach(r)
  PROVE  /\ req[r].kind = "send" /\ req[r].agent \in Agents
         /\ UNCHANGED <<sessions, stopped, abort, reaping, bridge, disk>>
         /\ \/ Ended(r, "attach") /\ UNCHANGED <<inflight, starting>>
            \/ /\ req[r].at = "attach" /\ req'[r].at = "reserve" /\ Others(r)
               /\ req'[r].kind = "send" /\ req'[r].agent = req[r].agent
               /\ req'[r].session = sessions[req[r].agent] /\ req'[r].session # None
               /\ UNCHANGED <<inflight, starting>>
            \/ Went(r, "attach", "waiting") /\ UNCHANGED <<inflight, starting>>
            \/ /\ Went(r, "attach", "spawn")
               /\ sessions[req[r].agent] = None /\ req[r].agent \notin inflight
               /\ Load < MaxSessions
               /\ inflight' = inflight \cup {req[r].agent}
               /\ starting' = starting + 1
<1> DEFINE a == req[r].agent
<1>1. /\ req \in [Reqs -> Request] /\ req[r] \in Request
      /\ req[r].kind = "send" /\ a \in Agents /\ req[r].at = "attach"
  BY DEF ReqsOK, Attach, Fits
<1>2. UNCHANGED <<sessions, stopped, abort, reaping, bridge, disk>>
  BY DEF Attach
<1>3. \/ Done(r, "attach") /\ UNCHANGED <<inflight, starting>>
      \/ /\ sessions[a] # None /\ UNCHANGED <<inflight, starting>>
         /\ req' = [req EXCEPT ![r].at = "reserve", ![r].session = sessions[a]]
      \/ Goto(r, "attach", "waiting") /\ UNCHANGED <<inflight, starting>>
      \/ /\ Goto(r, "attach", "spawn")
         /\ sessions[a] = None /\ a \notin inflight /\ Load < MaxSessions
         /\ inflight' = inflight \cup {a} /\ starting' = starting + 1
  BY DEF Attach, Joins
<1>4. ASSUME req' = [req EXCEPT ![r].at = "reserve", ![r].session = sessions[a]]
      PROVE  /\ req'[r].at = "reserve" /\ Others(r)
             /\ req'[r].kind = "send" /\ req'[r].agent = a
             /\ req'[r].session = sessions[a]
  BY <1>1, <1>4 DEF Request, Others
<1> QED
  BY <1>1, <1>2, <1>3, <1>4, GotoEffect, DoneEffect

\* The Sends that joined the startup of c are back at the head of their loop.
Woken(c) ==
    \A q \in Reqs \ {c} :
        \/ req'[q] = req[q]
        \/ /\ req[q].at = "waiting" /\ req'[q].at = "attach"
           /\ req'[q].kind = req[q].kind /\ req'[q].agent = req[q].agent
           /\ req'[q].session = req[q].session

\* Land does so, and gives the start back.
LEMMA LandEffect ==
  ASSUME ReqsOK, NEW c \in Reqs, NEW new, Land(c, new)
  PROVE  /\ req'[c] = new /\ Woken(c)
         /\ inflight' = inflight \ {req[c].agent} /\ starting' = starting - 1
  BY DEF ReqsOK, Request, Land, Woken

\* Attached publishes the bridge, or discards it in a manager that stopped.
LEMMA AttachedEffect ==
  ASSUME TableOK, ReqsOK, NEW r \in Reqs, Attached(r)
  PROVE  /\ req[r].at = "setup" /\ req[r].kind = "send" /\ req[r].agent \in Agents
         /\ req[r].agent \in disk /\ Woken(r)
         /\ req'[r].kind = "send" /\ req'[r].agent = req[r].agent
         /\ inflight' = inflight \ {req[r].agent} /\ starting' = starting - 1
         /\ UNCHANGED <<stopped, abort, reaping, bridge, disk>>
         /\ \/ req'[r].at = "discard" /\ sessions' = sessions
            \/ /\ req'[r].at = "reserve" /\ req'[r].session = r
               /\ sessions' = [sessions EXCEPT ![req[r].agent] = r]
<1>1. /\ req[r].at = "setup" /\ req[r].kind = "send" /\ req[r].agent \in disk
      /\ UNCHANGED <<stopped, abort, reaping, bridge, disk>>
  BY DEF Attached
<1>2. req[r] \in Request /\ req[r].agent \in Agents
  BY <1>1 DEF ReqsOK, TableOK
<1>3. \/ /\ Land(r, [req[r] EXCEPT !.at = "discard"])
         /\ sessions' = sessions
      \/ /\ Land(r, [req[r] EXCEPT !.at = "reserve", !.session = r])
         /\ sessions' = [sessions EXCEPT ![req[r].agent] = r]
  BY DEF Attached
<1>4. CASE Land(r, [req[r] EXCEPT !.at = "discard"]) /\ sessions' = sessions
  BY <1>1, <1>2, <1>4, LandEffect DEF Request
<1>5. CASE /\ Land(r, [req[r] EXCEPT !.at = "reserve", !.session = r])
           /\ sessions' = [sessions EXCEPT ![req[r].agent] = r]
  <2> DEFINE new == [req[r] EXCEPT !.at = "reserve", !.session = r]
  <2>1. new.at = "reserve" /\ new.session = r /\ new.kind = "send" /\ new.agent = req[r].agent
    BY <1>1, <1>2 DEF Request
  <2>2. Land(r, new)
    BY <1>5
  <2> HIDE DEF new
  <2> QED
    BY <1>1, <1>2, <1>5, <2>1, <2>2, LandEffect
<1> QED
  BY <1>3, <1>4, <1>5

\* Reserve takes the slot and starts the watcher, or ends.
LEMMA ReserveEffect ==
  ASSUME TableOK, ReqsOK, NEW r \in Reqs, Reserve(r)
  PROVE  /\ UNCHANGED <<sessions, inflight, starting, stopped, reaping, disk>>
         /\ req[r].kind = "send" /\ req[r].session \in Bridges
         /\ \/ Ended(r, "reserve") /\ UNCHANGED <<bridge, abort>>
            \/ /\ Went(r, "reserve", "send")
               /\ bridge[req[r].session].slot = Free
               /\ OnlyBridge(req[r].session)
               /\ bridge'[req[r].session].slot = r
               /\ bridge'[req[r].session].run = bridge[req[r].session].run
               /\ bridge'[req[r].session].runID = bridge[req[r].session].runID
               /\ abort'[Watcher(r)].at = "armed"
               /\ \A x \in Aborts \ {Watcher(r)} : abort'[x] = abort[x]
<1>1. /\ req[r].at = "reserve"
      /\ UNCHANGED <<sessions, inflight, starting, stopped, reaping, disk>>
  BY DEF Reserve, tableVars
<1>2. req[r].kind = "send" /\ req[r].session \in Bridges
  BY <1>1 DEF ReqsOK, Fits, Serving
<1>3. \/ Done(r, "reserve") /\ UNCHANGED <<bridge, abort>>
      \/ /\ Goto(r, "reserve", "send")
         /\ bridge[req[r].session].slot = Free
         /\ bridge' = [bridge EXCEPT ![req[r].session].slot = r]
         /\ abort' = [abort EXCEPT ![Watcher(r)].at = "armed"]
  BY DEF Reserve
<1>4. CASE Done(r, "reserve") /\ UNCHANGED <<bridge, abort>>
  BY <1>1, <1>2, <1>4, DoneEffect
<1>5. CASE /\ Goto(r, "reserve", "send")
           /\ bridge[req[r].session].slot = Free
           /\ bridge' = [bridge EXCEPT ![req[r].session].slot = r]
           /\ abort' = [abort EXCEPT ![Watcher(r)].at = "armed"]
  <2>1. Went(r, "reserve", "send")
    BY <1>5, GotoEffect
  <2>2. /\ OnlyBridge(req[r].session)
        /\ bridge'[req[r].session].slot = r
        /\ bridge'[req[r].session].run = bridge[req[r].session].run
        /\ bridge'[req[r].session].runID = bridge[req[r].session].runID
    BY <1>2, <1>5 DEF TableOK, Process, OnlyBridge
  <2>3. /\ abort'[Watcher(r)].at = "armed"
        /\ \A x \in Aborts \ {Watcher(r)} : abort'[x] = abort[x]
    BY <1>5, Goroutines DEF TableOK, Stopper
  <2> QED
    BY <1>1, <1>2, <1>5, <2>1, <2>2, <2>3
<1> QED
  BY <1>3, <1>4, <1>5

\* Abort finds no session, or begins to stop the one that is mapped.
LEMMA AbortEffect ==
  ASSUME TableOK, ReqsOK, NEW r \in Reqs, Abort(r)
  PROVE  /\ UNCHANGED <<sessions, inflight, starting, stopped, reaping, bridge, disk>>
         /\ req[r].kind = "abort" /\ req[r].agent \in Agents
         /\ \/ Ended(r, "abort") /\ abort' = abort
            \/ /\ Went(r, "abort", "abortWait")
               /\ sessions[req[r].agent] \in Bridges /\ sessions[req[r].agent] # None
               /\ AbortStarts(Main(r), sessions[req[r].agent])
<1>1. /\ req[r].at = "abort"
      /\ UNCHANGED <<sessions, inflight, starting, stopped, reaping, bridge, disk>>
  BY DEF Abort, tableVars
<1>2. req[r].kind = "abort" /\ req[r].agent \in Agents
  BY <1>1 DEF ReqsOK, Fits
<1>3. \/ Done(r, "abort") /\ abort' = abort
      \/ /\ Goto(r, "abort", "abortWait") /\ sessions[req[r].agent] # None
         /\ AbortStarts(Main(r), sessions[req[r].agent])
  BY DEF Abort
<1> QED
  BY <1>1, <1>2, <1>3, GotoEffect, DoneEffect DEF TableOK

\* A bridge's left runs change alone.
OnlyLeft(b) ==
    /\ \A d \in Bridges \ {b} : bridge'[d] = bridge[d]
    /\ bridge'[b].st = bridge[b].st /\ bridge'[b].slot = bridge[b].slot
    /\ bridge'[b].run = bridge[b].run /\ bridge'[b].runID = bridge[b].runID

\* A stream that breaks off leaves its run behind.
LEMMA StreamFailsEffect ==
  ASSUME TableOK, ReqsOK, NEW r \in Reqs, StreamFails(r)
  PROVE  /\ UNCHANGED <<sessions, inflight, starting, stopped, abort, reaping, disk>>
         /\ Went(r, "stream", "ending") /\ req[r].session \in Bridges
         /\ OnlyBridge(req[r].session)
         /\ bridge' \in [Bridges -> Process]
         /\ bridge'[req[r].session].slot = bridge[req[r].session].slot
         /\ bridge'[req[r].session].runID = bridge[req[r].session].runID
         /\ bridge'[req[r].session].run = None
<1> DEFINE s == req[r].session
           new == [bridge[s] EXCEPT !.run = None, !.left = @ \cup {r}]
<1>1. /\ UNCHANGED <<sessions, inflight, starting, stopped, abort, reaping, disk>>
      /\ Goto(r, "stream", "ending")
      /\ bridge' = [bridge EXCEPT ![s].run = None, ![s].left = @ \cup {r}]
  BY DEF StreamFails, tableVars
<1>2. s \in Bridges
  BY <1>1 DEF Goto, ReqsOK, Fits, Serving, Using, Watched
<1>3. bridge[s] \in Process /\ bridge \in [Bridges -> Process]
  BY <1>2 DEF TableOK
<1>4. bridge' = [bridge EXCEPT ![s] = new]
  BY <1>1, <1>2, <1>3
<1>5. /\ new.st = bridge[s].st /\ new.slot = bridge[s].slot
      /\ new.runID = bridge[s].runID /\ new.run = None
  BY <1>3 DEF Process
<1>6. new \in Process
  BY <1>3 DEF Process
<1> HIDE DEF s, new
<1>7. /\ OnlyBridge(s) /\ bridge' \in [Bridges -> Process]
      /\ bridge'[s].slot = bridge[s].slot /\ bridge'[s].runID = bridge[s].runID
      /\ bridge'[s].run = None
  BY <1>2, <1>3, <1>4, <1>5, <1>6 DEF OnlyBridge
<1> QED
  BY <1>1, <1>2, <1>7, GotoEffect DEF s

\* A run that was left behind ends.
LEMMA LeftRunOverEffect ==
  ASSUME TableOK, NEW b \in Bridges, LeftRunOver(b)
  PROVE  /\ UNCHANGED <<sessions, inflight, starting, stopped, req, abort, reaping, disk>>
         /\ OnlyLeft(b) /\ bridge' \in [Bridges -> Process]
<1>1. /\ UNCHANGED <<sessions, inflight, starting, stopped, req, abort, reaping, disk>>
      /\ \E c : bridge' = [bridge EXCEPT ![b].left = @ \ {c}]
  BY DEF LeftRunOver, tableVars
<1>2. PICK c : bridge' = [bridge EXCEPT ![b].left = @ \ {c}]
  BY <1>1
<1> QED
  BY <1>1, <1>2 DEF TableOK, Process, OnlyLeft

\* CancelRun ends the run with the id that was read, left behind or not, or fails.
LEMMA CancelRunEffect ==
  ASSUME TableOK, NEW x \in Aborts, CancelRun(x)
  PROVE  /\ UNCHANGED <<sessions, inflight, starting, stopped, req, reaping, disk>>
         /\ abort' \in [Aborts -> Stopper] /\ abort[x].at = "cancel"
         /\ abort'[x].at = "remove" /\ abort'[x].session = abort[x].session
         /\ \A y \in Aborts \ {x} : abort'[y] = abort[y]
         /\ bridge' \in [Bridges -> Process]
         /\ \A b \in Bridges :
              /\ bridge'[b].st = bridge[b].st /\ bridge'[b].slot = bridge[b].slot
              /\ bridge'[b].runID = bridge[b].runID
              /\ bridge'[b].run \in {bridge[b].run, None}
<1>1. /\ UNCHANGED <<sessions, inflight, starting, stopped, req, reaping, disk>>
      /\ abort' = [abort EXCEPT ![x].at = "remove"] /\ abort[x].at = "cancel"
  BY DEF CancelRun, tableVars
<1>2. /\ abort' \in [Aborts -> Stopper]
      /\ abort'[x].at = "remove" /\ abort'[x].session = abort[x].session
      /\ \A y \in Aborts \ {x} : abort'[y] = abort[y]
  BY <1>1 DEF TableOK, Stopper
<1>3. PICK s, id :
         \/ UNCHANGED bridge
         \/ bridge' = [bridge EXCEPT ![s].run = None]
         \/ bridge' = [bridge EXCEPT ![s].left = @ \ {id}]
  BY DEF CancelRun
<1>4. /\ bridge' \in [Bridges -> Process]
      /\ \A b \in Bridges :
           /\ bridge'[b].st = bridge[b].st /\ bridge'[b].slot = bridge[b].slot
           /\ bridge'[b].runID = bridge[b].runID
           /\ bridge'[b].run \in {bridge[b].run, None}
  <2>1. CASE UNCHANGED bridge
    BY <2>1 DEF TableOK
  <2>2. CASE bridge' = [bridge EXCEPT ![s].run = None]
    BY <2>2 DEF TableOK, Process
  <2>3. CASE bridge' = [bridge EXCEPT ![s].left = @ \ {id}]
    BY <2>3 DEF TableOK, Process
  <2> QED
    BY <1>3, <2>1, <2>2, <2>3
<1> QED
  BY <1>1, <1>2, <1>4

\* The end of a Send's run: nobody stops anything for it any more.
LEMMA EndRunEffect ==
  ASSUME TableOK, ReqsOK, NEW r \in Reqs, EndRun(r)
  PROVE  /\ UNCHANGED <<sessions, inflight, starting, stopped, reaping, disk>>
         /\ Went(r, "ending", "release") /\ req[r].session \in Bridges
         /\ abort[Main(r)].at \notin Busy /\ abort[Watcher(r)].at \notin Busy
         /\ abort'[Main(r)].at = "off" /\ abort'[Watcher(r)].at = "off"
         /\ \A x \in Aborts \ {Main(r), Watcher(r)} : abort'[x] = abort[x]
         /\ OnlyBridge(req[r].session)
         /\ bridge'[req[r].session].slot = bridge[req[r].session].slot
         /\ bridge'[req[r].session].run = bridge[req[r].session].run
         /\ bridge'[req[r].session].runID = None
<1>1. /\ UNCHANGED <<sessions, inflight, starting, stopped, reaping, disk>>
      /\ bridge' = [bridge EXCEPT ![req[r].session].runID = None]
      /\ Goto(r, "ending", "release")
  BY DEF EndRun, RunCleared, tableVars
<1>2. /\ abort' = [abort EXCEPT ![Watcher(r)] = NoAbort, ![Main(r)] = NoAbort]
      /\ abort[Main(r)].at \notin Busy /\ abort[Watcher(r)].at \notin Busy
  BY DEF EndRun, Unwatched, Busy
<1>3. /\ abort'[Main(r)].at = "off" /\ abort'[Watcher(r)].at = "off"
      /\ \A x \in Aborts \ {Main(r), Watcher(r)} : abort'[x] = abort[x]
  BY <1>2, Goroutines DEF TableOK, NoAbort
<1>4. req[r].session \in Bridges
  BY <1>1 DEF Goto, ReqsOK, Fits, Serving, Using, Watched
<1>5. /\ OnlyBridge(req[r].session)
      /\ bridge'[req[r].session].slot = bridge[req[r].session].slot
      /\ bridge'[req[r].session].run = bridge[req[r].session].run
      /\ bridge'[req[r].session].runID = None
  BY <1>1, <1>4 DEF TableOK, Process, OnlyBridge
<1> QED
  BY <1>1, <1>2, <1>3, <1>4, <1>5, GotoEffect

\* The cancelled Send begins its own abortAndStop.
LEMMA StreamBreaksEffect ==
  ASSUME TableOK, ReqsOK, NEW r \in Reqs, StreamBreaks(r)
  PROVE  /\ UNCHANGED <<sessions, inflight, starting, stopped, reaping, bridge, disk>>
         /\ Went(r, "send", "ending") \/ Went(r, "stream", "ending")
         /\ req[r].session \in Bridges
         /\ AbortStarts(Main(r), req[r].session)
<1>1. /\ UNCHANGED <<sessions, inflight, starting, stopped, reaping, bridge, disk>>
      /\ Goto(r, "send", "ending") \/ Goto(r, "stream", "ending")
      /\ AbortStarts(Main(r), req[r].session)
  BY DEF StreamBreaks, tableVars
<1>2. req[r].session \in Bridges
  BY <1>1 DEF Goto, ReqsOK, Fits, Serving, Using, Watched
<1> QED
  BY <1>1, <1>2, GotoEffect

\* Create maps a new agent, or discards its bridge in a manager that stopped.
LEMMA CommitEffect ==
  ASSUME TableOK, ReqsOK, NEW r \in Reqs, CommitSession(r)
  PROVE  /\ UNCHANGED <<inflight, stopped, abort, reaping>>
         /\ req[r].kind = "create" /\ req[r].at = "setup" /\ starting' = starting - 1
         /\ \E a \in Agents :
              /\ a \notin disk /\ \A q \in Reqs : req[q].agent # a
              /\ disk' = disk \cup {a}
              /\ OnlyBridge(r)
              /\ bridge'[r].slot = bridge[r].slot
              /\ bridge'[r].run = bridge[r].run
              /\ bridge'[r].runID = bridge[r].runID
              /\ \/ Went(r, "setup", "discard") /\ sessions' = sessions
                 \/ Ended(r, "setup") /\ sessions' = [sessions EXCEPT ![a] = r]
<1>1. /\ UNCHANGED <<inflight, stopped, abort, reaping>>
      /\ req[r].kind = "create" /\ req[r].at = "setup" /\ starting' = starting - 1
  BY DEF CommitSession
<1>2. PICK a \in Agents :
         /\ a \notin disk /\ \A q \in Reqs : req[q].agent # a
         /\ disk' = disk \cup {a}
         /\ bridge' = [bridge EXCEPT ![r].agent = a]
         /\ \/ Goto(r, "setup", "discard") /\ sessions' = sessions
            \/ Done(r, "setup") /\ sessions' = [sessions EXCEPT ![a] = r]
  BY DEF CommitSession
<1>3. /\ OnlyBridge(r)
      /\ bridge'[r].slot = bridge[r].slot
      /\ bridge'[r].run = bridge[r].run
      /\ bridge'[r].runID = bridge[r].runID
  BY <1>2 DEF TableOK, Process, Bridges, OnlyBridge
<1>4. \/ Went(r, "setup", "discard") /\ sessions' = sessions
      \/ Ended(r, "setup") /\ sessions' = [sessions EXCEPT ![a] = r]
  BY <1>2, GotoEffect, DoneEffect
<1> QED
  BY <1>1, <1>2, <1>3, <1>4

\* A startup that failed gives its agent back to the Sends that joined.
LEMMA AttachFailedEffect ==
  ASSUME TableOK, ReqsOK, NEW r \in Reqs, AttachFailed(r)
  PROVE  /\ UNCHANGED <<sessions, stopped, abort, reaping, bridge, disk>>
         /\ req[r].kind = "send" /\ req[r].agent \in Agents
         /\ \/ req[r].at = "spawn"
            \/ req[r].at = "unspawn" /\ ~Live(r)
         /\ req'[r].at = "done" /\ Woken(r)
         /\ inflight' = inflight \ {req[r].agent} /\ starting' = starting - 1
<1>1. /\ UNCHANGED <<sessions, stopped, abort, reaping, bridge, disk>>
      /\ req[r].kind = "send"
      /\ \/ req[r].at = "spawn"
         \/ req[r].at = "unspawn" /\ ~Live(r)
      /\ Land(r, Over)
  BY DEF AttachFailed, StartFailed
<1>2. req[r].agent \in Agents
  BY <1>1 DEF ReqsOK, Fits
<1>3. Over.at = "done"
  BY DEF Over, NotBegun
<1> QED
  BY <1>1, <1>2, <1>3, LandEffect

-----------------------------------------------------------------------------
(* The layers *)

\* Every step keeps the types and the shape of the requests.
LEMMA BaseKept ==
  ASSUME Base, Stopping, [Next]_vars
  PROVE  Base'
<1> USE DEF Base
<1>1. ASSUME NEW r \in Reqs, Begin(r) PROVE Base'
  <2>1. UNCHANGED <<sessions, inflight, starting, stopped, abort, reaping, bridge, disk>>
    BY <1>1 DEF Begin, tableVars
  <2>2. TableOK'
    BY <2>1 DEF TableOK
  <2>3. ASSUME NEW a \in Agents, NEW at \in {"attach", "abort"},
               req' = [req EXCEPT ![r] = [NotBegun EXCEPT
                         !.at = at, !.agent = a, !.kind = IF at = "attach" THEN "send" ELSE "abort"]]
        PROVE  ReqsOK'
    <3> DEFINE new == [NotBegun EXCEPT
                         !.at = at, !.agent = a, !.kind = IF at = "attach" THEN "send" ELSE "abort"]
    <3>1. new \in Request /\ Fits(new.at, new)
      BY DEF NotBegun, Request, Points, Fits, Serving, Using, Watched, AttachStages
    <3> QED
      BY <2>3, <3>1, Replaced
  <2>4. ASSUME NEW kind \in {"create", "list"},
               req' = [req EXCEPT ![r] = [NotBegun EXCEPT !.at = kind, !.kind = kind]]
        PROVE  ReqsOK'
    <3> DEFINE new == [NotBegun EXCEPT !.at = kind, !.kind = kind]
    <3>1. new \in Request /\ Fits(new.at, new)
      BY DEF NotBegun, Request, Points, Fits, Serving, Using, Watched
    <3> QED
      BY <2>4, <3>1, Replaced
  <2> QED
    BY <1>1, <2>2, <2>3, <2>4 DEF Begin
<1>2. ASSUME NEW r \in Reqs, Spawn(r) PROVE Base'
  <2>1. Goto(r, "spawn", "setup")
    BY <1>2 DEF Spawn
  <2>2. Fits("setup", req[r])
    BY <1>2, <2>1 DEF Spawn, Goto, ReqsOK, Fits, Serving, Using, Watched, AttachStages
  <2>3. ReqsOK'
    BY <2>1, <2>2, GotoFits DEF Points, AttachStages
  <2>4. TableOK'
    BY <1>2 DEF Spawn, TableOK, tableVars, Process, NoBridge, Request, ReqsOK
  <2> QED
    BY <2>3, <2>4
<1>3. ASSUME NEW r \in Reqs, SetupFails(r) PROVE Base'
  <2>1. Goto(r, "setup", "unspawn")
    BY <1>3 DEF SetupFails
  <2>2. Fits("unspawn", req[r])
    BY <1>3, <2>1 DEF SetupFails, Goto, ReqsOK, Fits, Serving, Using, Watched, AttachStages
  <2>3. ReqsOK'
    BY <2>1, <2>2, GotoFits DEF Points, AttachStages
  <2>4. TableOK'
    BY <1>3 DEF SetupFails, TableOK, tableVars
  <2> QED
    BY <2>3, <2>4
<1>4. ASSUME NEW r \in Reqs, Discarded(r) PROVE Base'
  <2>1. ReqsOK'
    BY <1>4, DoneFits DEF Discarded
  <2>2. TableOK'
    BY <1>4 DEF Discarded, TableOK, tableVars
  <2> QED
    BY <2>1, <2>2
<1>5. ASSUME NEW r \in Reqs, Attach(r) PROVE Base'
  <2>1. TableOK'
    <3>1. UNCHANGED <<sessions, stopped, abort, reaping, bridge, disk>>
      BY <1>5 DEF Attach
    <3>2. req[r].agent \in Agents
      BY <1>5 DEF Attach, ReqsOK, Fits, Serving
    <3>3. inflight' \subseteq Agents /\ starting' \in Int
      BY <1>5, <3>2 DEF Attach, TableOK
    <3> QED
      BY <3>1, <3>3 DEF TableOK
  <2>2. ASSUME Done(r, "attach") PROVE ReqsOK'
    BY <2>2, DoneFits
  <2>3. ASSUME Goto(r, "attach", "waiting") PROVE ReqsOK'
    <3>1. Fits("waiting", req[r])
      BY <2>3 DEF Goto, ReqsOK, Fits, Serving, Using, Watched
    <3> QED
      BY <2>3, <3>1, GotoFits DEF Points, AttachStages
  <2>4. ASSUME Goto(r, "attach", "spawn") PROVE ReqsOK'
    <3>1. Fits("spawn", req[r])
      BY <2>4 DEF Goto, ReqsOK, Fits, Serving, Using, Watched
    <3> QED
      BY <2>4, <3>1, GotoFits DEF Points, AttachStages
  <2>5. ASSUME req[r].at = "attach", sessions[req[r].agent] # None,
               req' = [req EXCEPT ![r].at = "reserve", ![r].session = sessions[req[r].agent]]
        PROVE  ReqsOK'
    <3> DEFINE new == [req[r] EXCEPT !.at = "reserve", !.session = sessions[req[r].agent]]
    <3>1. req[r] \in Request /\ Fits("attach", req[r])
      BY <2>5 DEF ReqsOK
    <3>2. sessions[req[r].agent] \in Bridges
      BY <2>5, <3>1 DEF TableOK, Fits, Watched, AttachStages
    <3>3. new \in Request
      BY <3>1, <3>2, Zenon DEF Request, Points
    <3>4. /\ new.at = "reserve" /\ new.kind = req[r].kind /\ new.agent = req[r].agent
          /\ new.session \in Bridges
      BY <3>1, <3>2 DEF Request
    <3>5. Fits(new.at, new)
      BY <3>1, <3>4 DEF Fits, Serving, Using, AttachStages
    <3> QED
      BY <2>5, <3>3, <3>5, Replaced
  <2> QED
    BY <1>5, <2>1, <2>2, <2>3, <2>4, <2>5 DEF Attach
<1>6. ASSUME NEW r \in Reqs, CancelWait(r) PROVE Base'
  <2>1. ReqsOK'
    BY <1>6, DoneFits DEF CancelWait
  <2>2. TableOK'
    BY <1>6 DEF CancelWait, TableOK, tableVars
  <2> QED
    BY <2>1, <2>2
<1>7. ASSUME NEW r \in Reqs, AttachFailed(r) PROVE Base'
  <2>1. ReqsOK'
    BY <1>7, OverFits, LandFits DEF AttachFailed
  <2>2. TableOK'
    BY <1>7 DEF AttachFailed, TableOK, tableVars, Land
  <2> QED
    BY <2>1, <2>2
<1>8. ASSUME NEW r \in Reqs, Attached(r) PROVE Base'
  <2>1. Fits("setup", req[r]) /\ req[r].kind = "send" /\ req[r] \in Request
    BY <1>8 DEF Attached, ReqsOK
  <2>2. ASSUME Land(r, [req[r] EXCEPT !.at = "discard"]) PROVE ReqsOK'
    <3> DEFINE new == [req[r] EXCEPT !.at = "discard"]
    <3>1. new \in Request
      BY <2>1, Zenon DEF Request, Points
    <3>2. new.at = "discard" /\ new.kind = req[r].kind /\ new.agent = req[r].agent
      BY <2>1 DEF Request
    <3>3. Fits(new.at, new)
      BY <2>1, <3>2 DEF Fits, Serving, Using, Watched
    <3> QED
      BY <2>2, <3>1, <3>3, LandFits
  <2>3. ASSUME Land(r, [req[r] EXCEPT !.at = "reserve", !.session = r]) PROVE ReqsOK'
    <3> DEFINE new == [req[r] EXCEPT !.at = "reserve", !.session = r]
    <3>1. new \in Request
      BY <2>1, Zenon DEF Request, Points, Bridges
    <3>2. /\ new.at = "reserve" /\ new.kind = req[r].kind /\ new.agent = req[r].agent
          /\ new.session \in Bridges
      BY <2>1 DEF Request, Bridges
    <3>3. Fits(new.at, new)
      BY <2>1, <3>2 DEF Fits, Serving, Using, AttachStages
    <3> QED
      BY <2>3, <3>1, <3>3, LandFits
  <2>4. ReqsOK'
    BY <1>8, <2>2, <2>3 DEF Attached
  <2>5. /\ sessions' = sessions \/ sessions' = [sessions EXCEPT ![req[r].agent] = r]
        /\ inflight' = inflight \ {req[r].agent} /\ starting' = starting - 1
        /\ UNCHANGED <<stopped, abort, reaping, bridge, disk>>
    BY <1>8 DEF Attached, Land
  <2>6. TableOK'
    BY <2>5 DEF TableOK, Bridges
  <2> QED
    BY <2>4, <2>6
<1>9. ASSUME NEW r \in Reqs, Reserve(r) PROVE Base'
  <2>1. Fits("reserve", req[r])
    BY <1>9 DEF Reserve, ReqsOK
  <2>2. CASE Done(r, "reserve") /\ UNCHANGED <<bridge, abort>>
    <3>1. TableOK'
      BY <1>9, <2>2 DEF Reserve, TableOK, tableVars
    <3> QED
      BY <2>2, <3>1, DoneFits
  <2>3. CASE /\ Goto(r, "reserve", "send")
             /\ bridge' = [bridge EXCEPT ![req[r].session].slot = r]
             /\ abort' = [abort EXCEPT ![Watcher(r)].at = "armed"]
    <3>1. ReqsOK'
      <4>1. Fits("send", req[r])
        BY <2>1 DEF Fits, Serving, Using, AttachStages
      <4> QED
        BY <2>3, <4>1, GotoFits DEF Points
    <3>2. abort' \in [Aborts -> Stopper]
      BY <2>3 DEF TableOK, Stopper
    <3>3. bridge' \in [Bridges -> Process]
      BY <2>3 DEF TableOK, Process
    <3>4. UNCHANGED <<sessions, inflight, starting, stopped, reaping, disk>>
      BY <1>9 DEF Reserve, tableVars
    <3> QED
      BY <3>1, <3>2, <3>3, <3>4 DEF TableOK
  <2> QED
    BY <1>9, <2>2, <2>3 DEF Reserve
<1>10. ASSUME NEW r \in Reqs, StreamOpens(r) PROVE Base'
  <2>1. Goto(r, "send", "stream")
    BY <1>10 DEF StreamOpens
  <2>2. Fits("stream", req[r])
    BY <1>10, <2>1 DEF StreamOpens, Goto, ReqsOK, Fits, Serving, Using, Watched
  <2>3. ReqsOK'
    BY <2>1, <2>2, GotoFits DEF Points, AttachStages
  <2>4. TableOK'
    BY <1>10 DEF StreamOpens, TableOK, tableVars, Process
  <2> QED
    BY <2>3, <2>4
<1>11. ASSUME NEW r \in Reqs, SendRefused(r) PROVE Base'
  <2>1. Goto(r, "send", "ending")
    BY <1>11 DEF SendRefused
  <2>2. Fits("ending", req[r])
    BY <1>11, <2>1 DEF SendRefused, Goto, ReqsOK, Fits, Serving, Using, Watched
  <2>3. ReqsOK'
    BY <2>1, <2>2, GotoFits DEF Points, AttachStages
  <2>4. TableOK'
    BY <1>11 DEF SendRefused, TableOK, tableVars
  <2> QED
    BY <2>3, <2>4
<1>12. ASSUME NEW r \in Reqs, StreamEnds(r) PROVE Base'
  <2>1. Goto(r, "stream", "ending")
    BY <1>12 DEF StreamEnds
  <2>2. Fits("ending", req[r])
    BY <1>12, <2>1 DEF StreamEnds, Goto, ReqsOK, Fits, Serving, Using, Watched
  <2>3. ReqsOK'
    BY <2>1, <2>2, GotoFits DEF Points, AttachStages
  <2>4. TableOK'
    BY <1>12 DEF StreamEnds, TableOK, tableVars
  <2> QED
    BY <2>3, <2>4
<1>13. ASSUME NEW r \in Reqs, StreamBreaks(r) PROVE Base'
  <2>1. PICK from \in {"send", "stream"} : Goto(r, from, "ending")
    BY <1>13 DEF StreamBreaks
  <2>2. Fits(from, req[r])
    BY <2>1 DEF Goto, ReqsOK
  <2>3. Fits("ending", req[r]) /\ req[r].session \in Bridges
    BY <2>2 DEF Fits, Serving, Using, Watched
  <2>4. ReqsOK'
    BY <2>1, <2>3, GotoFits DEF Points
  <2>5. abort' \in [Aborts -> Stopper]
    BY <1>13, <2>3, AbortBegins, Goroutines DEF StreamBreaks
  <2>6. UNCHANGED <<sessions, inflight, starting, stopped, reaping, bridge, disk>>
    BY <1>13 DEF StreamBreaks, tableVars
  <2> QED
    BY <2>4, <2>5, <2>6 DEF TableOK
<1>14. ASSUME NEW r \in Reqs, EndRun(r) PROVE Base'
  <2>1. Goto(r, "ending", "release")
    BY <1>14 DEF EndRun
  <2>2. Fits("release", req[r])
    BY <1>14, <2>1 DEF EndRun, Goto, ReqsOK, Fits, Serving, Using, Watched
  <2>3. ReqsOK'
    BY <2>1, <2>2, GotoFits DEF Points, AttachStages
  <2>4. abort' \in [Aborts -> Stopper]
    BY <1>14 DEF EndRun, Unwatched, NoAbort, TableOK, Stopper
  <2>5. bridge' \in [Bridges -> Process]
    BY <1>14 DEF EndRun, RunCleared, TableOK, Process
  <2>6. UNCHANGED <<sessions, inflight, starting, stopped, reaping, disk>>
    BY <1>14 DEF EndRun, tableVars
  <2> QED
    BY <2>3, <2>4, <2>5, <2>6 DEF TableOK
<1>15. ASSUME NEW r \in Reqs, Release(r) PROVE Base'
  <2>1. ReqsOK'
    BY <1>15, DoneFits DEF Release
  <2>2. TableOK'
    BY <1>15 DEF Release, TableOK, tableVars, Process
  <2> QED
    BY <2>1, <2>2
<1>16. ASSUME NEW r \in Reqs, BeginStart(r) PROVE Base'
  <2>1. ASSUME Done(r, "create") PROVE ReqsOK'
    BY <2>1, DoneFits
  <2>2. ASSUME Goto(r, "create", "spawn") PROVE ReqsOK'
    <3>1. Fits("spawn", req[r])
      BY <2>2 DEF Goto, ReqsOK, Fits, Serving, Using, Watched
    <3> QED
      BY <2>2, <3>1, GotoFits DEF Points, AttachStages
  <2>3. ReqsOK'
    BY <1>16, <2>1, <2>2 DEF BeginStart
  <2>4. TableOK'
    BY <1>16 DEF BeginStart, TableOK, tableVars
  <2> QED
    BY <2>3, <2>4
<1>17. ASSUME NEW r \in Reqs, CreateFailed(r) PROVE Base'
  <2>1. ReqsOK'
    BY <1>17, OverFits, Replaced DEF CreateFailed
  <2>2. TableOK'
    BY <1>17 DEF CreateFailed, TableOK, tableVars
  <2> QED
    BY <2>1, <2>2
<1>18. ASSUME NEW r \in Reqs, CommitSession(r) PROVE Base'
  <2>1. ASSUME Done(r, "setup") PROVE ReqsOK'
    BY <2>1, DoneFits
  <2>2. ASSUME Goto(r, "setup", "discard") PROVE ReqsOK'
    <3>1. Fits("discard", req[r])
      BY <1>18, <2>2 DEF CommitSession, Fits, Serving, Using, Watched
    <3> QED
      BY <2>2, <3>1, GotoFits DEF Points, AttachStages
  <2>3. ReqsOK'
    BY <1>18, <2>1, <2>2 DEF CommitSession
  <2>4. PICK a \in Agents : /\ disk' = disk \cup {a}
                           /\ bridge' = [bridge EXCEPT ![r].agent = a]
                           /\ sessions' \in {sessions, [sessions EXCEPT ![a] = r]}
    BY <1>18 DEF CommitSession
  <2>5. bridge' \in [Bridges -> Process]
    <3>1. bridge \in [Bridges -> Process] /\ r \in Bridges
      BY DEF TableOK, Bridges
    <3>2. [bridge[r] EXCEPT !.agent = a] \in Process
      BY <3>1 DEF Process
    <3>3. bridge' = [bridge EXCEPT ![r] = [bridge[r] EXCEPT !.agent = a]]
      BY <2>4
    <3> QED
      BY <3>1, <3>2, <3>3
  <2>6. disk' \subseteq Agents /\ sessions' \in [Agents -> Bridges \cup {None}]
    BY <2>4 DEF TableOK, Bridges
  <2>7. starting' = starting - 1 /\ UNCHANGED <<inflight, stopped, abort, reaping>>
    BY <1>18 DEF CommitSession
  <2>8. TableOK'
    BY <2>5, <2>6, <2>7 DEF TableOK
  <2> QED
    BY <2>3, <2>8
<1>19. ASSUME NEW r \in Reqs, ListModels(r) PROVE Base'
  <2>1. ASSUME Goto(r, "list", "done") PROVE ReqsOK'
    <3>1. Fits("done", req[r])
      BY <2>1 DEF Goto, Fits, Serving, Using, Watched, AttachStages
    <3> QED
      BY <2>1, <3>1, GotoFits DEF Points, AttachStages
  <2>2. ASSUME Goto(r, "list", "spawn") PROVE ReqsOK'
    <3>1. Fits("spawn", req[r])
      BY <2>2 DEF Goto, ReqsOK, Fits, Serving, Using, Watched
    <3> QED
      BY <2>2, <3>1, GotoFits DEF Points, AttachStages
  <2>3. ReqsOK'
    BY <1>19, <2>1, <2>2 DEF ListModels
  <2>4. TableOK'
    BY <1>19 DEF ListModels, TableOK, tableVars
  <2> QED
    BY <2>3, <2>4
<1>20. ASSUME NEW r \in Reqs, ListFailed(r) PROVE Base'
  <2>1. ReqsOK'
    BY <1>20, OverFits, Replaced DEF ListFailed
  <2>2. TableOK'
    BY <1>20 DEF ListFailed, TableOK, tableVars
  <2> QED
    BY <2>1, <2>2
<1>21. ASSUME NEW r \in Reqs, ModelsListed(r) PROVE Base'
  <2>1. Goto(r, "setup", "discard")
    BY <1>21 DEF ModelsListed
  <2>2. Fits("discard", req[r])
    BY <1>21, <2>1 DEF ModelsListed, Fits, Serving, Using, Watched
  <2>3. ReqsOK'
    BY <2>1, <2>2, GotoFits DEF Points, AttachStages
  <2>4. TableOK'
    BY <1>21 DEF ModelsListed, TableOK, tableVars
  <2> QED
    BY <2>3, <2>4
<1>22. ASSUME NEW r \in Reqs, Abort(r) PROVE Base'
  <2>1. Fits("abort", req[r])
    BY <1>22 DEF Abort, ReqsOK
  <2>2. UNCHANGED <<sessions, inflight, starting, stopped, reaping, bridge, disk>>
    BY <1>22 DEF Abort, tableVars
  <2>3. CASE Done(r, "abort") /\ UNCHANGED abort
    BY <2>2, <2>3, DoneFits DEF TableOK
  <2>4. CASE /\ sessions[req[r].agent] # None
             /\ Goto(r, "abort", "abortWait") /\ AbortStarts(Main(r), sessions[req[r].agent])
    <3>1. Fits("abortWait", req[r]) /\ req[r].agent \in Agents
      BY <2>1 DEF Fits, Serving, Using, Watched, AttachStages
    <3>2. ReqsOK'
      BY <2>4, <3>1, GotoFits DEF Points
    <3>3. abort' \in [Aborts -> Stopper]
      BY <2>4, <3>1, AbortBegins, Goroutines DEF TableOK
    <3> QED
      BY <2>2, <3>2, <3>3 DEF TableOK
  <2> QED
    BY <1>22, <2>3, <2>4 DEF Abort
<1>23. ASSUME NEW r \in Reqs, Aborted(r) PROVE Base'
  <2>1. ReqsOK'
    BY <1>23, DoneFits DEF Aborted
  <2>2. TableOK'
    BY <1>23 DEF Aborted, TableOK, tableVars, NoAbort, Stopper
  <2> QED
    BY <2>1, <2>2
<1>24. ASSUME NEW r \in Reqs, SetRunID(r) PROVE Base'
  <2>1. ReqsOK'
    BY <1>24 DEF SetRunID, ReqsOK
  <2>2. TableOK'
    BY <1>24 DEF SetRunID, TableOK, tableVars, Process
  <2> QED
    BY <2>1, <2>2
<1>25. ASSUME NEW r \in Reqs, WatchFires(r) PROVE Base'
  <2>1. req[r].session \in Bridges
    BY <1>25 DEF WatchFires, Stopping, ReqsOK, Fits, Serving, Using
  <2>2. UNCHANGED <<sessions, inflight, starting, stopped, reaping, bridge, disk, req>>
    BY <1>25 DEF WatchFires, tableVars
  <2>3. abort' \in [Aborts -> Stopper]
    BY <1>25, <2>1, AbortBegins, Goroutines DEF WatchFires
  <2> QED
    BY <2>2, <2>3 DEF TableOK, ReqsOK
<1>26. ASSUME NEW r \in Reqs, CancelRequest(r) PROVE Base'
  <2> DEFINE new == [req[r] EXCEPT !.cancelled = TRUE]
  <2>1. req[r] \in Request /\ Fits(req[r].at, req[r])
    BY DEF ReqsOK
  <2>2. new \in Request
    BY <2>1, Zenon DEF Request
  <2>3. /\ new.at = req[r].at /\ new.kind = req[r].kind /\ new.agent = req[r].agent
        /\ new.session = req[r].session
    BY <2>1 DEF Request
  <2>4. Fits(new.at, new)
    BY <2>1, <2>3 DEF Fits
  <2>5. ReqsOK'
    BY <1>26, <2>2, <2>4, Replaced DEF CancelRequest
  <2>6. TableOK'
    BY <1>26 DEF CancelRequest, TableOK, tableVars
  <2> QED
    BY <2>5, <2>6
<1>27. ASSUME NEW x \in Aborts, CancelRun(x) PROVE Base'
  BY <1>27, CancelRunEffect DEF TableOK, ReqsOK
<1>28. ASSUME NEW x \in Aborts, RemoveSession(x) PROVE Base'
  <2>1. ReqsOK'
    BY <1>28 DEF RemoveSession, ReqsOK
  <2>2. TableOK'
    BY <1>28 DEF RemoveSession, TableOK, Without, Stopper
  <2> QED
    BY <2>1, <2>2
<1>29. ASSUME NEW x \in Aborts, AbortReturns(x) PROVE Base'
  <2>1. ReqsOK'
    BY <1>29 DEF AbortReturns, ReqsOK
  <2>2. TableOK'
    BY <1>29 DEF AbortReturns, TableOK, tableVars, NoAbort, Stopper
  <2> QED
    BY <2>1, <2>2
<1>30. ASSUME NEW a \in Agents, Collect(a) PROVE Base'
  <2>1. ReqsOK'
    BY <1>30 DEF Collect, ReqsOK
  <2>2. TableOK'
    BY <1>30 DEF Collect, TableOK, Process
  <2> QED
    BY <2>1, <2>2
<1>31. ASSUME NEW b \in Bridges, WatchSession(b) PROVE Base'
  <2>1. ReqsOK'
    BY <1>31 DEF WatchSession, ReqsOK
  <2>2. TableOK'
    BY <1>31 DEF WatchSession, TableOK, tableVars, Without
  <2> QED
    BY <2>1, <2>2
<1>32. ASSUME NEW b \in Bridges, Reaped(b) PROVE Base'
  <2>1. ReqsOK'
    BY <1>32 DEF Reaped, ReqsOK
  <2>2. TableOK'
    BY <1>32 DEF Reaped, TableOK, tableVars
  <2> QED
    BY <2>1, <2>2
<1>33. ASSUME NEW b \in Bridges, RunOver(b) PROVE Base'
  <2>1. ReqsOK'
    BY <1>33 DEF RunOver, ReqsOK
  <2>2. TableOK'
    BY <1>33 DEF RunOver, TableOK, tableVars, Process
  <2> QED
    BY <2>1, <2>2
<1>34. ASSUME NEW b \in Bridges, Exit(b) PROVE Base'
  <2>1. ReqsOK'
    BY <1>34 DEF Exit, ReqsOK
  <2>2. bridge[b] \in Process /\ bridge \in [Bridges -> Process]
    BY DEF TableOK
  <2>3. [bridge[b] EXCEPT !.st = "exited", !.run = None, !.left = {}] \in Process
    BY <2>2 DEF Process
  <2>4. bridge' = [bridge EXCEPT ![b] = [bridge[b] EXCEPT !.st = "exited", !.run = None, !.left = {}]]
    BY <1>34, <2>2 DEF Exit
  <2>5. bridge' \in [Bridges -> Process]
    BY <2>2, <2>3, <2>4, Zenon
  <2>6. TableOK'
    BY <1>34, <2>5 DEF Exit, TableOK, tableVars
  <2> QED
    BY <2>1, <2>6
<1>35. ASSUME Stop PROVE Base'
  <2>1. ReqsOK'
    BY <1>35 DEF Stop, ReqsOK
  <2>2. TableOK'
    BY <1>35 DEF Stop, TableOK, tableVars, Bridges
  <2> QED
    BY <2>1, <2>2
<1>36. ASSUME NEW r \in Reqs, StreamFails(r) PROVE Base'
  <2>1. ReqsOK'
    BY <1>36, GotoFits DEF StreamFails, Goto, ReqsOK, Points, Fits, Serving, Using, Watched,
       AttachStages
  <2> QED
    BY <1>36, <2>1, StreamFailsEffect DEF TableOK
<1>37. ASSUME NEW b \in Bridges, LeftRunOver(b) PROVE Base'
  BY <1>37, LeftRunOverEffect DEF TableOK, ReqsOK
<1>38. CASE UNCHANGED vars
  BY <1>38 DEF vars, tableVars, TableOK, ReqsOK
<1> QED
  BY <1>1, <1>2, <1>3, <1>4, <1>5, <1>6, <1>7, <1>8, <1>9, <1>10, <1>11, <1>12, <1>13,
     <1>14, <1>15, <1>16, <1>17, <1>18, <1>19, <1>20, <1>21, <1>22, <1>23, <1>24, <1>25,
     <1>26, <1>27, <1>28, <1>29, <1>30, <1>31, <1>32, <1>33, <1>34, <1>35, <1>36,
     <1>37, <1>38
     DEF Next, Proceed, StartStep, AttachStep, SendStep, CreateStep, ListStep, AbortStep

\* A bridge is started once, and referred to only afterwards.
LEMMA BornKept ==
  ASSUME Base, Born, [Next]_vars
  PROVE  Born'
<1> USE DEF Base
<1>1. ASSUME NEW r \in Reqs, Begin(r) PROVE Born'
  <2>1. UNCHANGED <<sessions, bridge, disk>>
    BY <1>1 DEF Begin, tableVars
  <2> QED
    BY <1>1, <2>1, BeginEffect DEF Born, Others, Unborn, Serving, Using, Watched
<1>2. ASSUME NEW r \in Reqs, Spawn(r) PROVE Born'
  BY <1>2
     DEF Spawn, TableOK, ReqsOK, Born, Unborn, Serving, Using, Watched, Bridges, tableVars,
         Goto
<1>3. ASSUME NEW r \in Reqs, SetupFails(r) PROVE Born'
  BY <1>3 DEF SetupFails, Born, Unborn, Serving, Using, Watched, tableVars, Goto
<1>4. ASSUME NEW r \in Reqs, Discarded(r) PROVE Born'
  BY <1>4 DEF Discarded, Born, Unborn, Serving, Using, Watched, tableVars, Done, Over
<1>5. ASSUME NEW r \in Reqs, Attach(r) PROVE Born'
  BY <1>5, AttachEffect DEF Went, Ended, Others, Born, Unborn, Serving, Using, Watched
<1>6. ASSUME NEW r \in Reqs, CancelWait(r) PROVE Born'
  BY <1>6 DEF CancelWait, Born, Unborn, Serving, Using, Watched, tableVars, Done, Over
<1>7. ASSUME NEW r \in Reqs, AttachFailed(r) PROVE Born'
  BY <1>7 DEF AttachFailed, Land, Born, Unborn, Serving, Using, Watched, Over
<1>8. ASSUME NEW r \in Reqs, Attached(r) PROVE Born'
  BY <1>8, AttachedEffect DEF TableOK, Born, Woken, Unborn, Serving, Using, Watched
<1>9. ASSUME NEW r \in Reqs, Reserve(r) PROVE Born'
  <2>1. \A b \in Bridges : bridge'[b].st = bridge[b].st
    BY <1>9, ReserveEffect DEF OnlyBridge
  <2>2. req[r].at = "reserve" /\ UNCHANGED <<sessions, disk>>
    BY <1>9, ReserveEffect DEF Went, Ended
  <2>3. /\ req'[r].at \in {"send", "done"}
        /\ req'[r].at = "send" => req'[r].session = req[r].session
        /\ \A q \in Reqs \ {r} : req'[q] = req[q]
    BY <1>9, ReserveEffect DEF Went, Ended, Others
  <2>4. ASSUME NEW q \in Reqs
        PROVE  /\ req'[q].at \in Unborn => bridge'[q].st = "none"
               /\ req'[q].at = "setup" => bridge'[q].st # "none"
    BY <2>1, <2>2, <2>3 DEF Born, Unborn, Bridges
  <2>5. ASSUME NEW q \in Reqs, req'[q].at \in Serving
        PROVE  bridge'[req'[q].session].st # "none"
    <3>1. req[q].at \in Serving /\ req'[q].session = req[q].session
      BY <2>2, <2>3, <2>5 DEF Serving, Using, Watched
    <3>2. req[q].session \in Bridges
      BY <3>1 DEF ReqsOK, Fits
    <3> QED
      BY <2>1, <3>1, <3>2 DEF Born
  <2>6. \A a \in Agents : sessions'[a] # None => bridge'[sessions'[a]].st # "none" /\ a \in disk'
    BY <2>1, <2>2 DEF Born, TableOK
  <2> QED
    BY <2>4, <2>5, <2>6 DEF Born
<1>10. ASSUME NEW r \in Reqs, StreamOpens(r) PROVE Born'
  BY <1>10 DEF StreamOpens, Born, Unborn, Serving, Using, Watched, tableVars, Goto
<1>11. ASSUME NEW r \in Reqs, SendRefused(r) PROVE Born'
  BY <1>11 DEF SendRefused, Born, Unborn, Serving, Using, Watched, tableVars, Goto
<1>12. ASSUME NEW r \in Reqs, StreamEnds(r) PROVE Born'
  BY <1>12 DEF StreamEnds, Born, Unborn, Serving, Using, Watched, tableVars, Goto
<1>13. ASSUME NEW r \in Reqs, StreamBreaks(r) PROVE Born'
  BY <1>13 DEF StreamBreaks, Born, Unborn, Serving, Using, Watched, tableVars, Goto
<1>14. ASSUME NEW r \in Reqs, EndRun(r) PROVE Born'
  BY <1>14 DEF EndRun, RunCleared, Born, Unborn, Serving, Using, Watched, tableVars, Goto
<1>15. ASSUME NEW r \in Reqs, Release(r) PROVE Born'
  BY <1>15 DEF Release, Born, Unborn, Serving, Using, Watched, tableVars, Done, Over
<1>16. ASSUME NEW r \in Reqs, BeginStart(r) PROVE Born'
  BY <1>16
     DEF BeginStart, ReqsOK, Born, Unborn, Serving, Using, Watched, Request, Goto, Done,
         Over, NotBegun
<1>17. ASSUME NEW r \in Reqs, CreateFailed(r) PROVE Born'
  BY <1>17 DEF CreateFailed, Born, Unborn, Serving, Using, Watched, Over
<1>18. ASSUME NEW r \in Reqs, CommitSession(r) PROVE Born'
  BY <1>18
     DEF CommitSession, TableOK, ReqsOK, Born, Unborn, Serving, Using, Watched, Request,
         Goto, Done, Over, NotBegun
<1>19. ASSUME NEW r \in Reqs, ListModels(r) PROVE Born'
  BY <1>19 DEF ListModels, Born, Unborn, Serving, Using, Watched, tableVars, Goto
<1>20. ASSUME NEW r \in Reqs, ListFailed(r) PROVE Born'
  BY <1>20 DEF ListFailed, Born, Unborn, Serving, Using, Watched, tableVars, Over
<1>21. ASSUME NEW r \in Reqs, ModelsListed(r) PROVE Born'
  BY <1>21 DEF ModelsListed, Born, Unborn, Serving, Using, Watched, tableVars, Goto
<1>22. ASSUME NEW r \in Reqs, Abort(r) PROVE Born'
  BY <1>22
     DEF Abort, ReqsOK, Born, Unborn, Serving, Using, Watched, Request, tableVars, Goto,
         Done, Over, NotBegun
<1>23. ASSUME NEW r \in Reqs, Aborted(r) PROVE Born'
  BY <1>23 DEF Aborted, Born, Unborn, Serving, Using, Watched, tableVars, Done, Over
<1>24. ASSUME NEW r \in Reqs, SetRunID(r) PROVE Born'
  BY <1>24 DEF SetRunID, ReqsOK, Born, tableVars
<1>25. ASSUME NEW r \in Reqs, WatchFires(r) PROVE Born'
  BY <1>25 DEF WatchFires, Born, Bridges, tableVars
<1>26. ASSUME NEW r \in Reqs, CancelRequest(r) PROVE Born'
  BY <1>26 DEF CancelRequest, Born, Bridges, tableVars
<1>27. ASSUME NEW x \in Aborts, CancelRun(x) PROVE Born'
  BY <1>27, CancelRunEffect DEF TableOK, ReqsOK, Born, Bridges, Fits
<1>28. ASSUME NEW x \in Aborts, RemoveSession(x) PROVE Born'
  BY <1>28 DEF RemoveSession, Without, Born, Serving
<1>29. ASSUME NEW x \in Aborts, AbortReturns(x) PROVE Born'
  BY <1>29 DEF AbortReturns, Born, Bridges, tableVars
<1>30. ASSUME NEW a \in Agents, Collect(a) PROVE Born'
  BY <1>30 DEF Collect, TableOK, ReqsOK, Born
<1>31. ASSUME NEW b \in Bridges, WatchSession(b) PROVE Born'
  BY <1>31 DEF WatchSession, Without, Born, Serving
<1>32. ASSUME NEW b \in Bridges, Reaped(b) PROVE Born'
  BY <1>32 DEF Reaped, Born, Bridges, tableVars
<1>33. ASSUME NEW b \in Bridges, RunOver(b) PROVE Born'
  BY <1>33 DEF RunOver, ReqsOK, Born, tableVars
<1>34. ASSUME NEW b \in Bridges, Exit(b) PROVE Born'
  BY <1>34 DEF Exit, Live, TableOK, ReqsOK, Born, Bridges, tableVars, Fits
<1>35. ASSUME Stop PROVE Born'
  BY <1>35 DEF Stop, TableOK, ReqsOK, Born
<1>36. ASSUME NEW r \in Reqs, StreamFails(r) PROVE Born'
  <2>1. \A d \in Bridges : bridge'[d].st = bridge[d].st
    BY <1>36, StreamFailsEffect DEF OnlyBridge
  <2> QED
    BY <1>36, <2>1, StreamFailsEffect
       DEF TableOK, ReqsOK, Fits, Went, Others, Born, Unborn, Serving, Using, Watched, Bridges
<1>37. ASSUME NEW b \in Bridges, LeftRunOver(b) PROVE Born'
  BY <1>37, LeftRunOverEffect DEF OnlyLeft, TableOK, ReqsOK, Fits, Born, Bridges
<1>38. CASE UNCHANGED vars
  BY <1>38 DEF vars, tableVars, Born
<1> QED
  BY <1>1, <1>2, <1>3, <1>4, <1>5, <1>6, <1>7, <1>8, <1>9, <1>10, <1>11, <1>12, <1>13,
     <1>14, <1>15, <1>16, <1>17, <1>18, <1>19, <1>20, <1>21, <1>22, <1>23, <1>24, <1>25,
     <1>26, <1>27, <1>28, <1>29, <1>30, <1>31, <1>32, <1>33, <1>34, <1>35, <1>36,
     <1>37, <1>38
     DEF Next, Proceed, StartStep, AttachStep, SendStep, CreateStep, ListStep, AbortStep

\* Every abortAndStop belongs to the request that waits for it, and stops the session
\* of its Send.
LEMMA StoppingKept ==
  ASSUME Base, Born, Stopping, [Next]_vars
  PROVE  Stopping'
<1> USE DEF Base
<1>1. ASSUME NEW r \in Reqs, Begin(r) PROVE Stopping'
  <2>1. UNCHANGED <<abort, bridge>>
    BY <1>1 DEF Begin
  <2> QED
    BY <1>1, <2>1, BeginEffect DEF Others, Stopping, Watched, Busy
<1>2. ASSUME NEW r \in Reqs, Spawn(r) PROVE Stopping'
  BY <1>2 DEF Spawn, Stopping, Watched, Goto
<1>3. ASSUME NEW r \in Reqs, SetupFails(r) PROVE Stopping'
  BY <1>3 DEF SetupFails, Stopping, Watched, Goto
<1>4. ASSUME NEW r \in Reqs, Discarded(r) PROVE Stopping'
  BY <1>4 DEF Discarded, Stopping, Watched, Done, Over
<1>5. ASSUME NEW r \in Reqs, Attach(r) PROVE Stopping'
  BY <1>5, AttachEffect DEF Went, Ended, Others, Stopping, Watched
<1>6. ASSUME NEW r \in Reqs, CancelWait(r) PROVE Stopping'
  BY <1>6 DEF CancelWait, Stopping, Watched, Done, Over
<1>7. ASSUME NEW r \in Reqs, AttachFailed(r) PROVE Stopping'
  BY <1>7 DEF AttachFailed, StartFailed, Land, Stopping, Watched, Busy
<1>8. ASSUME NEW r \in Reqs, Attached(r) PROVE Stopping'
  BY <1>8, AttachedEffect DEF Woken, Stopping, Watched, Busy
<1>9. ASSUME NEW r \in Reqs, Reserve(r) PROVE Stopping'
  <2>1. \A b \in Bridges : bridge'[b].st = bridge[b].st
    BY <1>9, ReserveEffect DEF OnlyBridge
  <2>2. /\ req[r].at = "reserve"
        /\ \A q \in Reqs \ {r} : req'[q] = req[q]
        /\ \/ /\ req'[r].at = "send" /\ req'[r].session = req[r].session
              /\ abort'[Watcher(r)].at = "armed"
              /\ \A x \in Aborts \ {Watcher(r)} : abort'[x] = abort[x]
           \/ req'[r].at = "done" /\ abort' = abort
    BY <1>9, ReserveEffect DEF Went, Ended, Others
  <2>3. CASE req'[r].at = "done" /\ abort' = abort
    BY <2>1, <2>2, <2>3, Goroutines DEF Stopping, Watched, Busy
  <2>4. CASE /\ req'[r].at = "send" /\ req'[r].session = req[r].session
             /\ abort'[Watcher(r)].at = "armed"
             /\ \A x \in Aborts \ {Watcher(r)} : abort'[x] = abort[x]
    BY <2>1, <2>2, <2>4, Goroutines DEF Stopping, Watched, Busy
  <2> QED
    BY <2>2, <2>3, <2>4
<1>10. ASSUME NEW r \in Reqs, StreamOpens(r) PROVE Stopping'
  BY <1>10 DEF StreamOpens, Stopping, Watched, Goto
<1>11. ASSUME NEW r \in Reqs, SendRefused(r) PROVE Stopping'
  BY <1>11 DEF SendRefused, Stopping, Watched, Goto
<1>12. ASSUME NEW r \in Reqs, StreamEnds(r) PROVE Stopping'
  BY <1>12 DEF StreamEnds, Stopping, Watched, Goto
<1>13. ASSUME NEW r \in Reqs, StreamBreaks(r) PROVE Stopping'
  <2>1. req[r].session \in Bridges /\ bridge[req[r].session].st # "none"
    BY <1>13, StreamBreaksEffect DEF Went, Born, Serving, Using, Watched
  <2>2. /\ abort'[Main(r)].at \in Busy /\ abort'[Main(r)].session = req[r].session
        /\ \A y \in Aborts \ {Main(r)} : abort'[y] = abort[y]
    BY <1>13, StreamBreaksEffect, Goroutines, AbortBegins DEF Busy
  <2> QED
    BY <1>13, <2>1, <2>2, StreamBreaksEffect, Goroutines DEF Went, Others, Stopping, Watched
<1>14. ASSUME NEW r \in Reqs, EndRun(r) PROVE Stopping'
  <2>1. \A b \in Bridges : bridge'[b].st = bridge[b].st
    BY <1>14, EndRunEffect DEF OnlyBridge
  <2> QED
    BY <1>14, <2>1, EndRunEffect, Goroutines DEF Went, Others, Stopping, Busy
<1>15. ASSUME NEW r \in Reqs, Release(r) PROVE Stopping'
  BY <1>15 DEF Release, Stopping, Watched, Done, Over
<1>16. ASSUME NEW r \in Reqs, BeginStart(r) PROVE Stopping'
  BY <1>16 DEF BeginStart, ReqsOK, Stopping, Watched, Busy, Goto, Done
<1>17. ASSUME NEW r \in Reqs, CreateFailed(r) PROVE Stopping'
  BY <1>17 DEF CreateFailed, StartFailed, Stopping, Watched, Busy
<1>18. ASSUME NEW r \in Reqs, CommitSession(r) PROVE Stopping'
  <2>1. \A b \in Bridges : bridge'[b].st = bridge[b].st
    BY <1>18, CommitEffect DEF OnlyBridge
  <2> QED
    BY <1>18, <2>1, CommitEffect DEF Went, Ended, Others, Stopping, Watched
<1>19. ASSUME NEW r \in Reqs, ListModels(r) PROVE Stopping'
  BY <1>19 DEF ListModels, Stopping, Watched, Goto
<1>20. ASSUME NEW r \in Reqs, ListFailed(r) PROVE Stopping'
  BY <1>20 DEF ListFailed, StartFailed, Stopping, Watched, Busy
<1>21. ASSUME NEW r \in Reqs, ModelsListed(r) PROVE Stopping'
  BY <1>21 DEF ModelsListed, Stopping, Watched, Goto
<1>22. ASSUME NEW r \in Reqs, Abort(r) PROVE Stopping'
  <2>1. CASE Ended(r, "abort") /\ abort' = abort
    BY <1>22, <2>1, AbortEffect DEF Ended, Others, Stopping, Watched
  <2>2. CASE /\ Went(r, "abort", "abortWait")
             /\ sessions[req[r].agent] \in Bridges /\ sessions[req[r].agent] # None
             /\ AbortStarts(Main(r), sessions[req[r].agent])
    <3>1. bridge[sessions[req[r].agent]].st # "none" /\ bridge' = bridge
      BY <1>22, <2>2, AbortEffect DEF Born
    <3>2. /\ abort'[Main(r)].at \in Busy /\ abort'[Main(r)].session = sessions[req[r].agent]
          /\ \A y \in Aborts \ {Main(r)} : abort'[y] = abort[y]
      BY <2>2, Goroutines, AbortBegins DEF Busy
    <3> QED
      BY <2>2, <3>1, <3>2, Goroutines DEF Went, Others, Stopping, Watched
  <2> QED
    BY <1>22, <2>1, <2>2, AbortEffect
<1>23. ASSUME NEW r \in Reqs, Aborted(r) PROVE Stopping'
  BY <1>23, DoneEffect, Goroutines
     DEF Aborted, Ended, Others, NoAbort, TableOK, Stopping, Serving, Using, Watched, Busy
<1>24. ASSUME NEW r \in Reqs, SetRunID(r) PROVE Stopping'
  BY <1>24 DEF SetRunID, TableOK, ReqsOK, Stopping
<1>25. ASSUME NEW r \in Reqs, WatchFires(r) PROVE Stopping'
  <2>1. req[r].at \in Watched
    BY <1>25 DEF WatchFires, Stopping
  <2>2. req[r].session \in Bridges /\ bridge[req[r].session].st # "none"
    BY <2>1 DEF ReqsOK, Fits, Born, Serving, Using
  <2>3. /\ abort'[Watcher(r)].at \in Busy /\ abort'[Watcher(r)].session = req[r].session
        /\ \A y \in Aborts \ {Watcher(r)} : abort'[y] = abort[y]
    BY <1>25, <2>2, Goroutines, AbortBegins DEF WatchFires, Busy
  <2>4. UNCHANGED <<req, bridge>>
    BY <1>25 DEF WatchFires
  <2> QED
    BY <2>1, <2>2, <2>3, <2>4, Goroutines DEF Stopping, Watched, Busy
<1>26. ASSUME NEW r \in Reqs, CancelRequest(r) PROVE Stopping'
  BY <1>26 DEF CancelRequest, ReqsOK, Stopping, Watched
<1>27. ASSUME NEW x \in Aborts, CancelRun(x) PROVE Stopping'
  BY <1>27, CancelRunEffect, Goroutines DEF Stopping, Busy
<1>28. ASSUME NEW x \in Aborts, RemoveSession(x) PROVE Stopping'
  BY <1>28 DEF RemoveSession, Stopping, Busy, Request
<1>29. ASSUME NEW x \in Aborts, AbortReturns(x) PROVE Stopping'
  BY <1>29 DEF AbortReturns, Stopping, Watched, Busy
<1>30. ASSUME NEW a \in Agents, Collect(a) PROVE Stopping'
  BY <1>30 DEF Collect, TableOK, ReqsOK, Stopping
<1>31. ASSUME NEW b \in Bridges, WatchSession(b) PROVE Stopping'
  BY <1>31 DEF WatchSession, TableOK, ReqsOK, Stopping
<1>32. ASSUME NEW b \in Bridges, Reaped(b) PROVE Stopping'
  BY <1>32 DEF Reaped, ReqsOK, Stopping, Watched
<1>33. ASSUME NEW b \in Bridges, RunOver(b) PROVE Stopping'
  BY <1>33 DEF RunOver, TableOK, ReqsOK, Stopping
<1>34. ASSUME NEW b \in Bridges, Exit(b) PROVE Stopping'
  BY <1>34 DEF Exit, TableOK, Stopping, Busy
<1>35. ASSUME Stop PROVE Stopping'
  BY <1>35 DEF Stop, TableOK, ReqsOK, Stopping
<1>36. ASSUME NEW r \in Reqs, StreamFails(r) PROVE Stopping'
  <2>1. \A d \in Bridges : bridge'[d].st = bridge[d].st
    BY <1>36, StreamFailsEffect DEF OnlyBridge
  <2> QED
    BY <1>36, <2>1, StreamFailsEffect DEF Went, Others, Stopping, Watched, Busy
<1>37. ASSUME NEW b \in Bridges, LeftRunOver(b) PROVE Stopping'
  BY <1>37, LeftRunOverEffect DEF OnlyLeft, Stopping, Busy
<1>38. CASE UNCHANGED vars
  BY <1>38 DEF vars, Stopping, Watched, Busy
<1> QED
  BY <1>1, <1>2, <1>3, <1>4, <1>5, <1>6, <1>7, <1>8, <1>9, <1>10, <1>11, <1>12, <1>13,
     <1>14, <1>15, <1>16, <1>17, <1>18, <1>19, <1>20, <1>21, <1>22, <1>23, <1>24, <1>25,
     <1>26, <1>27, <1>28, <1>29, <1>30, <1>31, <1>32, <1>33, <1>34, <1>35, <1>36,
     <1>37, <1>38
     DEF Next, Proceed, StartStep, AttachStep, SendStep, CreateStep, ListStep, AbortStep

\* A slot is given back by the Send that took it, when its run and its watcher are over.
LEMMA SlotsKept ==
  ASSUME Base, Born, Stopping, Slots, [Next]_vars
  PROVE  Slots'
<1> USE DEF Base
<1>1. ASSUME NEW r \in Reqs, Begin(r) PROVE Slots'
  <2>1. UNCHANGED <<abort, bridge>>
    BY <1>1 DEF Begin
  <2> QED
    BY <1>1, <2>1, BeginEffect DEF Others, Slots, Using, Watched, Live
<1>2. ASSUME NEW r \in Reqs, Spawn(r) PROVE Slots'
  BY <1>2, RequestsAssumption
     DEF Spawn, NoBridge, Born, Unborn, Slots, Serving, Using, Watched, Goto, Live
<1>3. ASSUME NEW r \in Reqs, SetupFails(r) PROVE Slots'
  BY <1>3, RequestsAssumption DEF SetupFails, Slots, Using, Watched, Goto, Live
<1>4. ASSUME NEW r \in Reqs, Discarded(r) PROVE Slots'
  BY <1>4, RequestsAssumption DEF Discarded, Slots, Using, Watched, Done, Over, Live
<1>5. ASSUME NEW r \in Reqs, Attach(r) PROVE Slots'
  BY <1>5, AttachEffect DEF Went, Ended, Others, Slots, Using, Watched, Live
<1>6. ASSUME NEW r \in Reqs, CancelWait(r) PROVE Slots'
  BY <1>6, RequestsAssumption DEF CancelWait, Slots, Using, Watched, Done, Over, Live
<1>7. ASSUME NEW r \in Reqs, AttachFailed(r) PROVE Slots'
  BY <1>7, RequestsAssumption
     DEF AttachFailed, StartFailed, Land, Slots, Using, Watched, Over, Live
<1>8. ASSUME NEW r \in Reqs, Attached(r) PROVE Slots'
  BY <1>8, AttachedEffect DEF Woken, Slots, Using, Watched, Live
<1>9. ASSUME NEW r \in Reqs, Reserve(r) PROVE Slots'
  <2> DEFINE s == req[r].session
  <2>1. CASE Ended(r, "reserve") /\ UNCHANGED <<bridge, abort>>
    BY <2>1 DEF Ended, Others, Slots, Using, Watched, Live
  <2>2. CASE /\ Went(r, "reserve", "send") /\ s \in Bridges
             /\ bridge[s].slot = Free /\ OnlyBridge(s)
             /\ bridge'[s].slot = r
             /\ bridge'[s].run = bridge[s].run /\ bridge'[s].runID = bridge[s].runID
             /\ \A x \in Aborts \ {Watcher(r)} : abort'[x] = abort[x]
    <3>1. bridge[s].run = None /\ bridge[s].runID = None
      BY <2>2, RequestsAssumption DEF Slots, TableOK, Process
    <3>2. \A c \in Reqs : req[c].at \in Using => req[c].session # s /\ req[c].session \in Bridges
      BY <2>2, RequestsAssumption DEF Slots, ReqsOK, Fits, Serving
    <3>3. \A c \in Reqs : abort'[Main(c)] = abort[Main(c)]
      BY <2>2, Goroutines
    <3>4. \A b \in Bridges :
              /\ bridge'[b].run # None => bridge'[b].slot = bridge'[b].run /\ Live(b)'
              /\ bridge'[b].runID # None => bridge'[b].slot = bridge'[b].runID
              /\ bridge'[b].slot \in Reqs =>
                  /\ req'[bridge'[b].slot].at \in Using
                  /\ req'[bridge'[b].slot].session = b
      BY <2>2, <3>1 DEF Went, Others, OnlyBridge, Slots, Using, Watched, Live
    <3>5. ASSUME NEW c \in Reqs, req'[c].at \in Using
          PROVE  /\ bridge'[req'[c].session].slot = c
                 /\ req'[c].at \in {"send", "release"} => bridge'[req'[c].session].run = None
                 /\ req'[c].at = "release" => bridge'[req'[c].session].runID = None
                 /\ req'[c].at = "ending" =>
                       bridge'[req'[c].session].run = None \/ abort'[Main(c)].at \in Busy
      BY <2>2, <3>1, <3>2, <3>3, <3>5 DEF Slots, Went, Others, OnlyBridge
    <3> QED
      BY <3>4, <3>5 DEF Slots, Using, Watched, Live
  <2> QED
    BY <1>9, <2>1, <2>2, ReserveEffect
<1>10. ASSUME NEW r \in Reqs, StreamOpens(r) PROVE Slots'
  BY <1>10, RequestsAssumption DEF StreamOpens, ReqsOK, Slots, Using, Watched, Goto, Live
<1>11. ASSUME NEW r \in Reqs, SendRefused(r) PROVE Slots'
  BY <1>11, RequestsAssumption DEF SendRefused, Slots, Using, Watched, Goto, Live
<1>12. ASSUME NEW r \in Reqs, StreamEnds(r) PROVE Slots'
  BY <1>12, RequestsAssumption
     DEF StreamEnds, ReqsOK, Slots, Serving, Using, Watched, Goto, Fits, Live
<1>13. ASSUME NEW r \in Reqs, StreamBreaks(r) PROVE Slots'
  BY <1>13, StreamBreaksEffect, AbortBegins, Goroutines
     DEF Went, Others, Slots, Using, Watched, Busy, Live
<1>14. ASSUME NEW r \in Reqs, EndRun(r) PROVE Slots'
  <2> DEFINE s == req[r].session
  <2>1. /\ req[r].at = "ending" /\ req'[r].at = "release" /\ req'[r].session = s /\ s \in Bridges
        /\ \A q \in Reqs \ {r} : req'[q] = req[q]
        /\ \A x \in Aborts : abort'[x] = abort[x] \/ x \in {Main(r), Watcher(r)}
    BY <1>14, EndRunEffect DEF Went, Others
  <2>2. /\ \A b \in Bridges :
              /\ bridge'[b].st = bridge[b].st /\ bridge'[b].slot = bridge[b].slot
              /\ bridge'[b].run = bridge[b].run
              /\ bridge'[b].runID = bridge[b].runID \/ b = s
        /\ bridge'[s].runID = None
    BY <1>14, EndRunEffect DEF OnlyBridge
  <2>3. bridge[s].run = None /\ bridge[s].slot = r
    BY <1>14, <2>1, EndRunEffect DEF Slots, Using, Watched
  <2>4. \A c \in Reqs \ {r} : req[c].at \in Using => req[c].session # s /\ req[c].session \in Bridges
    BY <2>3 DEF Slots, ReqsOK, Fits, Serving
  <2>5. \A c \in Reqs \ {r} : abort'[Main(c)] = abort[Main(c)]
    BY <2>1, Goroutines
  <2>6. \A b \in Bridges :
              /\ bridge'[b].run # None => bridge'[b].slot = bridge'[b].run /\ Live(b)'
              /\ bridge'[b].runID # None => bridge'[b].slot = bridge'[b].runID
              /\ bridge'[b].slot \in Reqs =>
                  /\ req'[bridge'[b].slot].at \in Using
                  /\ req'[bridge'[b].slot].session = b
    BY <2>1, <2>2, <2>3 DEF Slots, Using, Busy, Live
  <2>7. ASSUME NEW c \in Reqs, req'[c].at \in Using
        PROVE  /\ bridge'[req'[c].session].slot = c
               /\ req'[c].at \in {"send", "release"} => bridge'[req'[c].session].run = None
               /\ req'[c].at = "release" => bridge'[req'[c].session].runID = None
               /\ req'[c].at = "ending" =>
                     bridge'[req'[c].session].run = None \/ abort'[Main(c)].at \in Busy
    <3>1. CASE c = r
      BY <2>1, <2>2, <2>3, <3>1 DEF Using, Watched
    <3>2. CASE c # r
      <4>1. /\ req'[c] = req[c] /\ req[c].at \in Using /\ req[c].session \in Bridges \ {s}
            /\ abort'[Main(c)] = abort[Main(c)]
        BY <2>1, <2>4, <2>5, <2>7, <3>2
      <4> QED
        BY <2>2, <4>1 DEF Slots
    <3> QED
      BY <3>1, <3>2
  <2> QED
    BY <2>6, <2>7 DEF Slots, Using, Watched, Live
<1>15. ASSUME NEW r \in Reqs, Release(r) PROVE Slots'
  BY <1>15, RequestsAssumption
     DEF Release, TableOK, ReqsOK, Slots, Using, Watched, Done, Over, Live
<1>16. ASSUME NEW r \in Reqs, BeginStart(r) PROVE Slots'
  <2>1. Ended(r, "create") \/ Went(r, "create", "spawn")
    BY <1>16, GotoEffect, DoneEffect DEF BeginStart
  <2>2. UNCHANGED <<abort, bridge>>
    BY <1>16 DEF BeginStart
  <2> QED
    BY <2>1, <2>2 DEF Went, Ended, Others, Slots, Using, Watched, Live
<1>17. ASSUME NEW r \in Reqs, CreateFailed(r) PROVE Slots'
  BY <1>17, RequestsAssumption
     DEF CreateFailed, ReqsOK, Slots, Serving, Using, Watched, Over, Fits, Live
<1>18. ASSUME NEW r \in Reqs, CommitSession(r) PROVE Slots'
  <2>1. PICK a \in Agents :
           /\ OnlyBridge(r)
           /\ bridge'[r].slot = bridge[r].slot /\ bridge'[r].run = bridge[r].run
           /\ bridge'[r].runID = bridge[r].runID
           /\ Went(r, "setup", "discard") \/ Ended(r, "setup")
    BY <1>18, CommitEffect
  <2>2. \A b \in Bridges :
              /\ bridge'[b].st = bridge[b].st /\ bridge'[b].slot = bridge[b].slot
              /\ bridge'[b].run = bridge[b].run /\ bridge'[b].runID = bridge[b].runID
    BY <2>1 DEF OnlyBridge
  <2>3. /\ req[r].at \notin Using /\ req'[r].at \notin Using /\ abort' = abort
        /\ \A q \in Reqs \ {r} : req'[q] = req[q]
    BY <1>18, <2>1, CommitEffect DEF Went, Ended, Others, Using, Watched
  <2>4. \A c \in Reqs : req[c].at \in Using => req[c].session \in Bridges
    BY DEF ReqsOK, Fits, Serving
  <2> QED
    BY <2>2, <2>3, <2>4 DEF Slots, Using, Watched, Live
<1>19. ASSUME NEW r \in Reqs, ListModels(r) PROVE Slots'
  BY <1>19, RequestsAssumption DEF ListModels, Slots, Using, Watched, Goto, Live
<1>20. ASSUME NEW r \in Reqs, ListFailed(r) PROVE Slots'
  BY <1>20, RequestsAssumption
     DEF ListFailed, ReqsOK, Slots, Serving, Using, Watched, Over, Fits, Live
<1>21. ASSUME NEW r \in Reqs, ModelsListed(r) PROVE Slots'
  BY <1>21, RequestsAssumption DEF ModelsListed, Slots, Using, Watched, Goto, Live
<1>22. ASSUME NEW r \in Reqs, Abort(r) PROVE Slots'
  BY <1>22, AbortEffect, Goroutines, AbortBegins
     DEF Went, Ended, Others, Slots, Using, Watched, Live
<1>23. ASSUME NEW r \in Reqs, Aborted(r) PROVE Slots'
  BY <1>23, DoneEffect, Goroutines DEF Aborted, Ended, Others, Slots, Using, Watched, Live
<1>24. ASSUME NEW r \in Reqs, SetRunID(r) PROVE Slots'
  BY <1>24, RequestsAssumption
     DEF SetRunID, TableOK, ReqsOK, Slots, Serving, Using, Watched, Busy, Request, Stopper,
         Process, Bridges, tableVars, Fits, AttachStages, Live
<1>25. ASSUME NEW r \in Reqs, WatchFires(r) PROVE Slots'
  BY <1>25, AbortBegins, Goroutines
     DEF WatchFires, Slots, Using, Live, ReqsOK, Stopping, Fits, Serving
<1>26. ASSUME NEW r \in Reqs, CancelRequest(r) PROVE Slots'
  BY <1>26, RequestsAssumption DEF CancelRequest, Slots, tableVars, Live
<1>27. ASSUME NEW x \in Aborts, CancelRun(x) PROVE Slots'
  <2>1. /\ req' = req /\ abort'[x].at = "remove" /\ abort[x].at \in Busy
        /\ \A y \in Aborts \ {x} : abort'[y] = abort[y]
    BY <1>27, CancelRunEffect DEF Busy
  <2>2. \A y \in Aborts : abort[y].at \in Busy => abort'[y].at \in Busy
    BY <2>1 DEF Busy
  <2>3. \A b \in Bridges :
              /\ bridge'[b].st = bridge[b].st /\ bridge'[b].slot = bridge[b].slot
              /\ bridge'[b].runID = bridge[b].runID
              /\ bridge'[b].run \in {bridge[b].run, None}
    BY <1>27, CancelRunEffect
  <2>4. \A c \in Reqs : req[c].at \in Using => req[c].session \in Bridges
    BY DEF ReqsOK, Fits, Serving
  <2> QED
    BY <2>1, <2>2, <2>3, <2>4, Goroutines DEF Slots, Using, Watched, Live
<1>28. ASSUME NEW x \in Aborts, RemoveSession(x) PROVE Slots'
  BY <1>28, Goroutines DEF RemoveSession, Slots, Busy, Live
<1>29. ASSUME NEW x \in Aborts, AbortReturns(x) PROVE Slots'
  BY <1>29, Goroutines DEF AbortReturns, Stopping, Slots, Watched, Live
<1>30. ASSUME NEW a \in Agents, Collect(a) PROVE Slots'
  BY <1>30, RequestsAssumption DEF Collect, TableOK, Slots, Process, Live
<1>31. ASSUME NEW b \in Bridges, WatchSession(b) PROVE Slots'
  BY <1>31, RequestsAssumption DEF WatchSession, Slots, Bridges, Live
<1>32. ASSUME NEW b \in Bridges, Reaped(b) PROVE Slots'
  BY <1>32, RequestsAssumption DEF Reaped, Slots, tableVars, Live
<1>33. ASSUME NEW b \in Bridges, RunOver(b) PROVE Slots'
  BY <1>33, RequestsAssumption DEF RunOver, ReqsOK, Slots, Live
<1>34. ASSUME NEW b \in Bridges, Exit(b) PROVE Slots'
  BY <1>34, RequestsAssumption
     DEF Exit, TableOK, ReqsOK, Slots, Serving, Using, Watched, Fits, Live
<1>35. ASSUME Stop PROVE Slots'
  BY <1>35, RequestsAssumption DEF Stop, Slots, Bridges, Live
<1>36. ASSUME NEW r \in Reqs, StreamFails(r) PROVE Slots'
  <2> DEFINE s == req[r].session
  <2>1. /\ req[r].at = "stream" /\ req'[r].at = "ending" /\ req'[r].session = s /\ s \in Bridges
        /\ \A q \in Reqs \ {r} : req'[q] = req[q]
        /\ abort' = abort
    BY <1>36, StreamFailsEffect DEF Went, Others
  <2>2. /\ \A b \in Bridges :
              /\ bridge'[b].st = bridge[b].st /\ bridge'[b].slot = bridge[b].slot
              /\ bridge'[b].runID = bridge[b].runID
              /\ bridge'[b].run \in {bridge[b].run, None}
        /\ bridge'[s].run = None
    BY <1>36, StreamFailsEffect DEF OnlyBridge
  <2>3. \A c \in Reqs : req[c].at \in Using => req[c].session \in Bridges
    BY DEF ReqsOK, Fits, Serving
  <2>4. \A b \in Bridges :
              /\ bridge'[b].run # None => bridge'[b].slot = bridge'[b].run /\ Live(b)'
              /\ bridge'[b].runID # None => bridge'[b].slot = bridge'[b].runID
              /\ bridge'[b].slot \in Reqs =>
                  /\ req'[bridge'[b].slot].at \in Using
                  /\ req'[bridge'[b].slot].session = b
    BY <2>1, <2>2 DEF Slots, Using, Watched, Live
  <2>5. ASSUME NEW c \in Reqs, req'[c].at \in Using
        PROVE  /\ bridge'[req'[c].session].slot = c
               /\ req'[c].at \in {"send", "release"} => bridge'[req'[c].session].run = None
               /\ req'[c].at = "release" => bridge'[req'[c].session].runID = None
               /\ req'[c].at = "ending" =>
                     bridge'[req'[c].session].run = None \/ abort'[Main(c)].at \in Busy
    <3>1. CASE c = r
      BY <2>1, <2>2, <3>1 DEF Slots, Using, Watched
    <3>2. CASE c # r
      <4>1. /\ req'[c] = req[c] /\ req[c].at \in Using /\ req[c].session \in Bridges
            /\ abort'[Main(c)] = abort[Main(c)]
        BY <2>1, <2>3, <2>5, <3>2
      <4> QED
        BY <2>2, <4>1 DEF Slots
    <3> QED
      BY <3>1, <3>2
  <2> QED
    BY <2>4, <2>5 DEF Slots, Using, Watched, Live
<1>37. ASSUME NEW b \in Bridges, LeftRunOver(b) PROVE Slots'
  <2>1. \A c \in Reqs : req[c].at \in Using => req[c].session \in Bridges
    BY DEF ReqsOK, Fits, Serving
  <2>2. /\ UNCHANGED <<req, abort>>
        /\ \A d \in Bridges :
              /\ bridge'[d].st = bridge[d].st /\ bridge'[d].slot = bridge[d].slot
              /\ bridge'[d].runID = bridge[d].runID /\ bridge'[d].run = bridge[d].run
    BY <1>37, LeftRunOverEffect DEF OnlyLeft
  <2> QED
    BY <1>37, <2>1, <2>2 DEF Slots, Using, Watched, Live
<1>38. CASE UNCHANGED vars
  BY <1>38 DEF vars, Slots, Busy, Live
<1> QED
  BY <1>1, <1>2, <1>3, <1>4, <1>5, <1>6, <1>7, <1>8, <1>9, <1>10, <1>11, <1>12, <1>13,
     <1>14, <1>15, <1>16, <1>17, <1>18, <1>19, <1>20, <1>21, <1>22, <1>23, <1>24, <1>25,
     <1>26, <1>27, <1>28, <1>29, <1>30, <1>31, <1>32, <1>33, <1>34, <1>35, <1>36,
     <1>37, <1>38
     DEF Next, Proceed, StartStep, AttachStep, SendStep, CreateStep, ListStep, AbortStep

\* An agent is in flight while one Send, and only one, starts its bridge, and is not
\* mapped then.
LEMMA AttachSharedKept ==
  ASSUME Base, AttachShared, [Next]_vars
  PROVE  AttachShared'
<1> USE DEF Base
<1>1. ASSUME NEW r \in Reqs, Begin(r) PROVE AttachShared'
  <2>1. UNCHANGED <<sessions, inflight>>
    BY <1>1 DEF Begin, tableVars
  <2> QED
    BY <1>1, <2>1, BeginEffect DEF Others, AttachShared, Attaching, AttachStages
<1>2. ASSUME NEW r \in Reqs, Spawn(r) PROVE AttachShared'
  BY <1>2 DEF Spawn, AttachShared, Attaching, AttachStages, tableVars, Goto
<1>3. ASSUME NEW r \in Reqs, SetupFails(r) PROVE AttachShared'
  BY <1>3 DEF SetupFails, AttachShared, Attaching, AttachStages, tableVars, Goto
<1>4. ASSUME NEW r \in Reqs, Discarded(r) PROVE AttachShared'
  BY <1>4 DEF Discarded, AttachShared, Attaching, AttachStages, tableVars, Done, Over
<1>5. ASSUME NEW r \in Reqs, Attach(r) PROVE AttachShared'
  BY <1>5, AttachEffect DEF Went, Ended, Others, AttachShared, Attaching, AttachStages
<1>6. ASSUME NEW r \in Reqs, CancelWait(r) PROVE AttachShared'
  BY <1>6 DEF CancelWait, AttachShared, Attaching, AttachStages, tableVars, Done, Over
<1>7. ASSUME NEW r \in Reqs, AttachFailed(r) PROVE AttachShared'
  BY <1>7, AttachFailedEffect DEF Woken, AttachShared, Attaching, AttachStages
<1>8. ASSUME NEW r \in Reqs, Attached(r) PROVE AttachShared'
  BY <1>8, AttachedEffect DEF TableOK, Woken, AttachShared, Attaching, AttachStages
<1>9. ASSUME NEW r \in Reqs, Reserve(r) PROVE AttachShared'
  BY <1>9, ReserveEffect DEF Went, Ended, Others, AttachShared, Attaching, AttachStages
<1>10. ASSUME NEW r \in Reqs, StreamOpens(r) PROVE AttachShared'
  BY <1>10 DEF StreamOpens, AttachShared, Attaching, AttachStages, tableVars, Goto
<1>11. ASSUME NEW r \in Reqs, SendRefused(r) PROVE AttachShared'
  BY <1>11 DEF SendRefused, AttachShared, Attaching, AttachStages, tableVars, Goto
<1>12. ASSUME NEW r \in Reqs, StreamEnds(r) PROVE AttachShared'
  BY <1>12 DEF StreamEnds, AttachShared, Attaching, AttachStages, tableVars, Goto
<1>13. ASSUME NEW r \in Reqs, StreamBreaks(r) PROVE AttachShared'
  BY <1>13, StreamBreaksEffect DEF Went, Others, AttachShared, Attaching, AttachStages
<1>14. ASSUME NEW r \in Reqs, EndRun(r) PROVE AttachShared'
  BY <1>14, EndRunEffect DEF Went, Others, AttachShared, Attaching, AttachStages
<1>15. ASSUME NEW r \in Reqs, Release(r) PROVE AttachShared'
  BY <1>15 DEF Release, AttachShared, Attaching, AttachStages, tableVars, Done, Over
<1>16. ASSUME NEW r \in Reqs, BeginStart(r) PROVE AttachShared'
  BY <1>16
     DEF BeginStart, ReqsOK, AttachShared, Attaching, AttachStages, Request, Goto, Done,
         Over, NotBegun, Fits
<1>17. ASSUME NEW r \in Reqs, CreateFailed(r) PROVE AttachShared'
  BY <1>17 DEF CreateFailed, AttachShared, Attaching, AttachStages, Over
<1>18. ASSUME NEW r \in Reqs, CommitSession(r) PROVE AttachShared'
  BY <1>18, CommitEffect
     DEF TableOK, Went, Ended, Others, AttachShared, Attaching, AttachStages
<1>19. ASSUME NEW r \in Reqs, ListModels(r) PROVE AttachShared'
  BY <1>19 DEF ListModels, ReqsOK, AttachShared, Attaching, tableVars, Goto, Fits
<1>20. ASSUME NEW r \in Reqs, ListFailed(r) PROVE AttachShared'
  BY <1>20 DEF ListFailed, AttachShared, Attaching, AttachStages, tableVars, Over
<1>21. ASSUME NEW r \in Reqs, ModelsListed(r) PROVE AttachShared'
  BY <1>21 DEF ModelsListed, AttachShared, Attaching, tableVars, Goto
<1>22. ASSUME NEW r \in Reqs, Abort(r) PROVE AttachShared'
  BY <1>22, AbortEffect DEF Went, Ended, Others, AttachShared, Attaching, AttachStages
<1>23. ASSUME NEW r \in Reqs, Aborted(r) PROVE AttachShared'
  BY <1>23 DEF Aborted, AttachShared, Attaching, AttachStages, tableVars, Done, Over
<1>24. ASSUME NEW r \in Reqs, SetRunID(r) PROVE AttachShared'
  BY <1>24 DEF SetRunID, AttachShared, Attaching, tableVars
<1>25. ASSUME NEW r \in Reqs, WatchFires(r) PROVE AttachShared'
  BY <1>25 DEF WatchFires, AttachShared, Attaching, tableVars
<1>26. ASSUME NEW r \in Reqs, CancelRequest(r) PROVE AttachShared'
  BY <1>26 DEF CancelRequest, AttachShared, Attaching, tableVars
<1>27. ASSUME NEW x \in Aborts, CancelRun(x) PROVE AttachShared'
  BY <1>27 DEF CancelRun, AttachShared, Attaching, tableVars
<1>28. ASSUME NEW x \in Aborts, RemoveSession(x) PROVE AttachShared'
  BY <1>28 DEF RemoveSession, Without, TableOK, AttachShared, Attaching
<1>29. ASSUME NEW x \in Aborts, AbortReturns(x) PROVE AttachShared'
  BY <1>29 DEF AbortReturns, AttachShared, Attaching, tableVars
<1>30. ASSUME NEW a \in Agents, Collect(a) PROVE AttachShared'
  BY <1>30 DEF Collect, AttachShared, Attaching, Request
<1>31. ASSUME NEW b \in Bridges, WatchSession(b) PROVE AttachShared'
  BY <1>31 DEF WatchSession, Without, TableOK, AttachShared, Attaching
<1>32. ASSUME NEW b \in Bridges, Reaped(b) PROVE AttachShared'
  BY <1>32 DEF Reaped, AttachShared, Attaching, tableVars
<1>33. ASSUME NEW b \in Bridges, RunOver(b) PROVE AttachShared'
  BY <1>33 DEF RunOver, AttachShared, Attaching, tableVars
<1>34. ASSUME NEW b \in Bridges, Exit(b) PROVE AttachShared'
  BY <1>34 DEF Exit, AttachShared, Attaching, tableVars
<1>35. ASSUME Stop PROVE AttachShared'
  BY <1>35 DEF Stop, TableOK, AttachShared, Attaching
<1>36. ASSUME NEW r \in Reqs, StreamFails(r) PROVE AttachShared'
  BY <1>36, StreamFailsEffect DEF Went, Others, AttachShared, Attaching, AttachStages
<1>37. ASSUME NEW b \in Bridges, LeftRunOver(b) PROVE AttachShared'
  BY <1>37, LeftRunOverEffect DEF AttachShared, Attaching
<1>38. CASE UNCHANGED vars
  BY <1>38 DEF vars, tableVars, AttachShared, Attaching
<1> QED
  BY <1>1, <1>2, <1>3, <1>4, <1>5, <1>6, <1>7, <1>8, <1>9, <1>10, <1>11, <1>12, <1>13,
     <1>14, <1>15, <1>16, <1>17, <1>18, <1>19, <1>20, <1>21, <1>22, <1>23, <1>24, <1>25,
     <1>26, <1>27, <1>28, <1>29, <1>30, <1>31, <1>32, <1>33, <1>34, <1>35, <1>36,
     <1>37, <1>38
     DEF Next, Proceed, StartStep, AttachStep, SendStep, CreateStep, ListStep, AbortStep

\* A bridge that lives is never forgotten.
LEMMA BridgesOwnedKept ==
  ASSUME Base, Born, Stopping, AttachShared, BridgesOwned, [Next]_vars
  PROVE  BridgesOwned'
<1> USE DEF Base
<1>1. ASSUME NEW r \in Reqs, Begin(r) PROVE BridgesOwned'
  <2>1. UNCHANGED <<sessions, reaping, abort, bridge>>
    BY <1>1 DEF Begin, tableVars
  <2> QED
    BY <1>1, <2>1, BeginEffect DEF Others, BridgesOwned, BeingStopped, Live, Bridges
<1>2. ASSUME NEW r \in Reqs, Spawn(r) PROVE BridgesOwned'
  BY <1>2 DEF Spawn, ReqsOK, BridgesOwned, BeingStopped, Live, tableVars, Goto
<1>3. ASSUME NEW r \in Reqs, SetupFails(r) PROVE BridgesOwned'
  BY <1>3 DEF SetupFails, BridgesOwned, BeingStopped, Live, tableVars, Goto
<1>4. ASSUME NEW r \in Reqs, Discarded(r) PROVE BridgesOwned'
  BY <1>4 DEF Discarded, BridgesOwned, BeingStopped, Live, tableVars, Done
<1>5. ASSUME NEW r \in Reqs, Attach(r) PROVE BridgesOwned'
  BY <1>5, AttachEffect DEF Went, Ended, Others, BridgesOwned, BeingStopped, Live, Bridges
<1>6. ASSUME NEW r \in Reqs, CancelWait(r) PROVE BridgesOwned'
  BY <1>6 DEF CancelWait, BridgesOwned, BeingStopped, Live, tableVars, Done
<1>7. ASSUME NEW r \in Reqs, AttachFailed(r) PROVE BridgesOwned'
  BY <1>7, AttachFailedEffect DEF Woken, BridgesOwned, BeingStopped, Live, Bridges
<1>8. ASSUME NEW r \in Reqs, Attached(r) PROVE BridgesOwned'
  <2>1. Attaching(r)
    BY <1>8, AttachedEffect DEF Attaching, AttachStages
  <2>2. sessions[req[r].agent] = None
    BY <2>1 DEF AttachShared
  <2>3. \A b \in Bridges : (\E a \in Agents : sessions[a] = b) => \E a \in Agents : sessions'[a] = b
    BY <1>8, <2>2, AttachedEffect, RequestsAssumption DEF TableOK, Bridges
  <2>4. /\ \E a \in Agents : sessions'[a] = r \/ req'[r].at = "discard"
        /\ \A q \in Reqs \ {r} : req'[q] = req[q] \/ req[q].at = "waiting"
        /\ UNCHANGED <<abort, reaping, bridge>>
    BY <1>8, AttachedEffect DEF TableOK, Woken
  <2> QED
    BY <2>3, <2>4 DEF BridgesOwned, BeingStopped, Live, Bridges
<1>9. ASSUME NEW r \in Reqs, Reserve(r) PROVE BridgesOwned'
  BY <1>9, ReserveEffect, Goroutines
     DEF Went, Ended, Others, OnlyBridge, Stopping, Watched, BridgesOwned, BeingStopped,
         Live, Bridges
<1>10. ASSUME NEW r \in Reqs, StreamOpens(r) PROVE BridgesOwned'
  BY <1>10 DEF StreamOpens, BridgesOwned, BeingStopped, Live, tableVars, Goto
<1>11. ASSUME NEW r \in Reqs, SendRefused(r) PROVE BridgesOwned'
  BY <1>11 DEF SendRefused, BridgesOwned, BeingStopped, Live, tableVars, Goto
<1>12. ASSUME NEW r \in Reqs, StreamEnds(r) PROVE BridgesOwned'
  BY <1>12 DEF StreamEnds, BridgesOwned, BeingStopped, Live, tableVars, Goto
<1>13. ASSUME NEW r \in Reqs, StreamBreaks(r) PROVE BridgesOwned'
  BY <1>13, StreamBreaksEffect, AbortBegins, Goroutines
     DEF Went, Ended, Others, Stopping, BridgesOwned, BeingStopped, Live, Bridges
<1>14. ASSUME NEW r \in Reqs, EndRun(r) PROVE BridgesOwned'
  BY <1>14, EndRunEffect
     DEF Went, Others, Busy, OnlyBridge, BridgesOwned, BeingStopped, Live, Bridges
<1>15. ASSUME NEW r \in Reqs, Release(r) PROVE BridgesOwned'
  BY <1>15 DEF Release, BridgesOwned, BeingStopped, Live, tableVars, Done
<1>16. ASSUME NEW r \in Reqs, BeginStart(r) PROVE BridgesOwned'
  BY <1>16 DEF BeginStart, ReqsOK, BridgesOwned, BeingStopped, Live, Bridges, Goto, Done
<1>17. ASSUME NEW r \in Reqs, CreateFailed(r) PROVE BridgesOwned'
  BY <1>17 DEF CreateFailed, StartFailed, BridgesOwned, BeingStopped, Live
<1>18. ASSUME NEW r \in Reqs, CommitSession(r) PROVE BridgesOwned'
  <2>1. PICK a \in Agents :
           /\ a \notin disk /\ OnlyBridge(r)
           /\ \/ Went(r, "setup", "discard") /\ sessions' = sessions
              \/ Ended(r, "setup") /\ sessions' = [sessions EXCEPT ![a] = r]
    BY <1>18, CommitEffect
  <2>2. sessions[a] = None /\ UNCHANGED <<abort, reaping>>
    BY <1>18, <2>1, CommitEffect DEF Born
  <2>3. \A b \in Bridges : (\E d \in Agents : sessions[d] = b) => \E d \in Agents : sessions'[d] = b
    BY <2>1, <2>2, RequestsAssumption DEF TableOK, Bridges
  <2>4. /\ \E d \in Agents : sessions'[d] = r \/ req'[r].at = "discard"
        /\ \A q \in Reqs \ {r} : req'[q] = req[q]
    BY <2>1 DEF TableOK, Went, Ended, Others
  <2>5. \A b \in Bridges : bridge'[b].st = bridge[b].st
    BY <2>1 DEF OnlyBridge
  <2> QED
    BY <2>2, <2>3, <2>4, <2>5 DEF BridgesOwned, BeingStopped, Live, Bridges
<1>19. ASSUME NEW r \in Reqs, ListModels(r) PROVE BridgesOwned'
  BY <1>19 DEF ListModels, BridgesOwned, BeingStopped, Live, tableVars, Goto
<1>20. ASSUME NEW r \in Reqs, ListFailed(r) PROVE BridgesOwned'
  BY <1>20 DEF ListFailed, StartFailed, BridgesOwned, BeingStopped, Live, tableVars
<1>21. ASSUME NEW r \in Reqs, ModelsListed(r) PROVE BridgesOwned'
  BY <1>21 DEF ModelsListed, BridgesOwned, BeingStopped, Live, tableVars, Goto
<1>22. ASSUME NEW r \in Reqs, Abort(r) PROVE BridgesOwned'
  BY <1>22, AbortEffect, AbortBegins, Goroutines
     DEF Went, Ended, Others, Stopping, BridgesOwned, BeingStopped, Live, Bridges
<1>23. ASSUME NEW r \in Reqs, Aborted(r) PROVE BridgesOwned'
  BY <1>23, DoneEffect, Goroutines
     DEF Aborted, tableVars, Ended, Others, BridgesOwned, BeingStopped, Live, Bridges
<1>24. ASSUME NEW r \in Reqs, SetRunID(r) PROVE BridgesOwned'
  BY <1>24 DEF SetRunID, BridgesOwned, BeingStopped, Live, tableVars
<1>25. ASSUME NEW r \in Reqs, WatchFires(r) PROVE BridgesOwned'
  <2>1. UNCHANGED <<sessions, req, reaping, bridge>> /\ abort[Watcher(r)].at = "armed"
    BY <1>25 DEF WatchFires, tableVars
  <2>2. \A y \in Aborts \ {Watcher(r)} : abort'[y] = abort[y]
    BY <1>25 DEF WatchFires, AbortStarts, TableOK
  <2> QED
    BY <2>1, <2>2 DEF BridgesOwned, BeingStopped, Live, Bridges
<1>26. ASSUME NEW r \in Reqs, CancelRequest(r) PROVE BridgesOwned'
  BY <1>26 DEF CancelRequest, BridgesOwned, BeingStopped, Live, tableVars
<1>27. ASSUME NEW x \in Aborts, CancelRun(x) PROVE BridgesOwned'
  <2>1. /\ UNCHANGED <<sessions, req, reaping>> /\ abort[x].at = "cancel"
        /\ \A y \in Aborts \ {x} : abort'[y] = abort[y]
    BY <1>27, CancelRunEffect
  <2>2. \A b \in Bridges : bridge'[b].st = bridge[b].st
    BY <1>27, CancelRunEffect
  <2> QED
    BY <2>1, <2>2 DEF BridgesOwned, BeingStopped, Live, Bridges
<1>28. ASSUME NEW x \in Aborts, RemoveSession(x) PROVE BridgesOwned'
  BY <1>28 DEF RemoveSession, Without, TableOK, BridgesOwned, BeingStopped, Live
<1>29. ASSUME NEW x \in Aborts, AbortReturns(x) PROVE BridgesOwned'
  BY <1>29 DEF AbortReturns, BridgesOwned, BeingStopped, Live, tableVars
<1>30. ASSUME NEW a \in Agents, Collect(a) PROVE BridgesOwned'
  BY <1>30 DEF Collect, BridgesOwned, BeingStopped, Live
<1>31. ASSUME NEW b \in Bridges, WatchSession(b) PROVE BridgesOwned'
  BY <1>31 DEF WatchSession, Without, BridgesOwned, BeingStopped, Live
<1>32. ASSUME NEW b \in Bridges, Reaped(b) PROVE BridgesOwned'
  BY <1>32 DEF Reaped, BridgesOwned, BeingStopped, Live, tableVars
<1>33. ASSUME NEW b \in Bridges, RunOver(b) PROVE BridgesOwned'
  BY <1>33 DEF RunOver, BridgesOwned, BeingStopped, Live, tableVars
<1>34. ASSUME NEW b \in Bridges, Exit(b) PROVE BridgesOwned'
  BY <1>34 DEF Exit, TableOK, BridgesOwned, BeingStopped, Live, tableVars
<1>35. ASSUME Stop PROVE BridgesOwned'
  BY <1>35 DEF Stop, BridgesOwned, BeingStopped, Live
<1>36. ASSUME NEW r \in Reqs, StreamFails(r) PROVE BridgesOwned'
  BY <1>36, StreamFailsEffect
     DEF Went, Others, OnlyBridge, BridgesOwned, BeingStopped, Live, Bridges
<1>37. ASSUME NEW b \in Bridges, LeftRunOver(b) PROVE BridgesOwned'
  BY <1>37, LeftRunOverEffect DEF OnlyLeft, BridgesOwned, BeingStopped, Live, Bridges
<1>38. CASE UNCHANGED vars
  BY <1>38 DEF vars, tableVars, BridgesOwned, BeingStopped, Live
<1> QED
  BY <1>1, <1>2, <1>3, <1>4, <1>5, <1>6, <1>7, <1>8, <1>9, <1>10, <1>11, <1>12, <1>13,
     <1>14, <1>15, <1>16, <1>17, <1>18, <1>19, <1>20, <1>21, <1>22, <1>23, <1>24, <1>25,
     <1>26, <1>27, <1>28, <1>29, <1>30, <1>31, <1>32, <1>33, <1>34, <1>35, <1>36,
     <1>37, <1>38
     DEF Next, Proceed, StartStep, AttachStep, SendStep, CreateStep, ListStep, AbortStep

-----------------------------------------------------------------------------
(* Counting the starts *)

\* The startups that count against the limit, and the sessions that are mapped.
Starts == {r \in Reqs : req[r].kind \in {"send", "create"} /\ req[r].at \in AttachStages}
Mapped == {a \in Agents : sessions[a] # None}

\* Both are finite, and so have a size.
LEMMA CountsFinite ==
  /\ IsFiniteSet(Starts) /\ Cardinality(Starts) \in Nat
  /\ IsFiniteSet(Mapped) /\ Cardinality(Mapped) \in Nat
<1>1. Starts \subseteq Reqs /\ Mapped \subseteq Agents
  BY DEF Starts, Mapped
<1> QED
  BY <1>1, RequestsAssumption, FS_Subset, FS_CardinalityType

\* Nothing starts or ends, and sessions may be removed.
LEMMA CountSame ==
  ASSUME CapacityKept, Starts' = Starts, starting' = starting, Mapped' \subseteq Mapped
  PROVE  CapacityKept'
<1>1. Cardinality(Mapped') \in Nat /\ Cardinality(Mapped') <= Cardinality(Mapped)
  BY CountsFinite, FS_Subset, FS_CardinalityType
<1>2. starting = Cardinality(Starts) /\ Cardinality(Mapped) + starting <= MaxSessions
  BY DEF CapacityKept, Starts, Mapped
<1>3. Cardinality(Mapped') + starting' <= MaxSessions
  BY <1>1, <1>2, CountsFinite, MaxSessionsAssumption
<1>4. starting' = Cardinality(Starts')
  BY <1>2
<1> QED
  BY <1>3, <1>4 DEF CapacityKept, Starts, Mapped

\* One more start, below the limit.
LEMMA CountBegins ==
  ASSUME CapacityKept, NEW r \in Reqs \ Starts, Starts' = Starts \cup {r},
         starting' = starting + 1, Mapped' = Mapped, Load < MaxSessions
  PROVE  CapacityKept'
<1>1. Cardinality(Starts') = Cardinality(Starts) + 1
  BY CountsFinite, FS_AddElement
<1>2. starting = Cardinality(Starts) /\ Cardinality(Mapped) + starting < MaxSessions
  BY DEF CapacityKept, Starts, Mapped, Load
<1>3. Cardinality(Mapped') + starting' <= MaxSessions
  BY <1>2, CountsFinite, MaxSessionsAssumption
<1>4. starting' = Cardinality(Starts')
  BY <1>1, <1>2
<1> QED
  BY <1>3, <1>4 DEF CapacityKept, Starts, Mapped

\* One start less, and at most one more session.
LEMMA CountEnds ==
  ASSUME CapacityKept, NEW r \in Starts, Starts' = Starts \ {r},
         starting' = starting - 1, NEW a, Mapped' \subseteq Mapped \cup {a}
  PROVE  CapacityKept'
<1>1. Cardinality(Starts') = Cardinality(Starts) - 1
  BY CountsFinite, FS_RemoveElement
<1>2. starting = Cardinality(Starts) /\ Cardinality(Mapped) + starting <= MaxSessions
  BY DEF CapacityKept, Starts, Mapped
<1>3. /\ IsFiniteSet(Mapped \cup {a}) /\ Cardinality(Mapped \cup {a}) \in Nat
      /\ Cardinality(Mapped \cup {a}) <= Cardinality(Mapped) + 1
  <2>1. /\ IsFiniteSet(Mapped \cup {a})
        /\ Cardinality(Mapped \cup {a})
             = IF a \in Mapped THEN Cardinality(Mapped) ELSE Cardinality(Mapped) + 1
    BY CountsFinite, FS_AddElement
  <2> QED
    BY <2>1, CountsFinite
<1>4. Cardinality(Mapped') \in Nat /\ Cardinality(Mapped') <= Cardinality(Mapped \cup {a})
  BY <1>3, FS_Subset, FS_CardinalityType
<1>5. Cardinality(Mapped') + starting' <= MaxSessions
  BY <1>2, <1>3, <1>4, CountsFinite, MaxSessionsAssumption
<1>6. starting' = Cardinality(Starts')
  BY <1>1, <1>2
<1> QED
  BY <1>5, <1>6 DEF CapacityKept, Starts, Mapped

\* Every startup is counted until it ends, and none begins at the limit.
LEMMA CapacityPreserved ==
  ASSUME Base, CapacityKept, [Next]_vars
  PROVE  CapacityKept'
<1> USE DEF Base
<1>1. ASSUME NEW r \in Reqs, Begin(r) PROVE CapacityKept'
  <2>1. Starts' = Starts
    BY <1>1, BeginEffect DEF Others, Starts, AttachStages
  <2>2. starting' = starting /\ Mapped' \subseteq Mapped
    BY <1>1 DEF Begin, tableVars, Mapped
  <2> QED
    BY <2>1, <2>2, CountSame
<1>2. ASSUME NEW r \in Reqs, Spawn(r) PROVE CapacityKept'
  <2>1. Starts' = Starts
    BY <1>2 DEF Spawn, Goto, Starts, AttachStages
  <2>2. starting' = starting /\ Mapped' \subseteq Mapped
    BY <1>2 DEF Spawn, TableOK, tableVars, Mapped
  <2> QED
    BY <2>1, <2>2, CountSame
<1>3. ASSUME NEW r \in Reqs, SetupFails(r) PROVE CapacityKept'
  <2>1. Starts' = Starts
    BY <1>3 DEF SetupFails, Goto, Starts, AttachStages
  <2>2. starting' = starting /\ Mapped' \subseteq Mapped
    BY <1>3 DEF SetupFails, TableOK, tableVars, Mapped
  <2> QED
    BY <2>1, <2>2, CountSame
<1>4. ASSUME NEW r \in Reqs, Discarded(r) PROVE CapacityKept'
  <2>1. Starts' = Starts
    BY <1>4 DEF Discarded, Done, Over, Starts, AttachStages
  <2>2. starting' = starting /\ Mapped' \subseteq Mapped
    BY <1>4 DEF Discarded, TableOK, tableVars, Mapped
  <2> QED
    BY <2>1, <2>2, CountSame
<1>5. ASSUME NEW r \in Reqs, Attach(r) PROVE CapacityKept'
  <2>1. CASE UNCHANGED <<inflight, starting>> /\ Starts' = Starts
    <3>1. Mapped' = Mapped
      BY <1>5, AttachEffect DEF Mapped
    <3> QED
      BY <2>1, <3>1, CountSame
  <2>2. CASE Went(r, "attach", "spawn") /\ starting' = starting + 1 /\ Load < MaxSessions
    <3>1. r \notin Starts /\ Starts' = Starts \cup {r}
      BY <1>5, <2>2, AttachEffect DEF Starts, Went, Others, AttachStages
    <3>2. Mapped' = Mapped
      BY <1>5, AttachEffect DEF Mapped
    <3> QED
      BY <2>2, <3>1, <3>2, CountBegins
  <2>3. ASSUME UNCHANGED <<inflight, starting>> PROVE Starts' = Starts
    BY <1>5, <2>3, AttachEffect DEF Starts, Went, Ended, Others, AttachStages
  <2> QED
    BY <1>5, <2>1, <2>2, <2>3, AttachEffect
<1>6. ASSUME NEW r \in Reqs, CancelWait(r) PROVE CapacityKept'
  <2>1. Starts' = Starts
    BY <1>6 DEF CancelWait, Done, Over, Starts, AttachStages
  <2>2. starting' = starting /\ Mapped' \subseteq Mapped
    BY <1>6 DEF CancelWait, TableOK, tableVars, Mapped
  <2> QED
    BY <2>1, <2>2, CountSame
<1>7. ASSUME NEW r \in Reqs, AttachFailed(r) PROVE CapacityKept'
  <2>1. r \in Starts /\ Starts' = Starts \ {r}
    BY <1>7, AttachFailedEffect DEF Starts, Woken, AttachStages
  <2>2. starting' = starting - 1 /\ Mapped' \subseteq Mapped \cup {None}
    BY <1>7, AttachFailedEffect DEF Mapped
  <2> QED
    BY <2>1, <2>2, CountEnds
<1>8. ASSUME NEW r \in Reqs, Attached(r) PROVE CapacityKept'
  <2>1. r \in Starts /\ Starts' = Starts \ {r}
    BY <1>8, AttachedEffect DEF Starts, Woken, AttachStages
  <2>2. starting' = starting - 1 /\ Mapped' \subseteq Mapped \cup {req[r].agent}
    BY <1>8, AttachedEffect DEF Mapped, TableOK
  <2> QED
    BY <2>1, <2>2, CountEnds
<1>9. ASSUME NEW r \in Reqs, Reserve(r) PROVE CapacityKept'
  <2>1. Starts' = Starts
    BY <1>9, ReserveEffect DEF Went, Ended, Others, Starts, AttachStages
  <2>2. starting' = starting /\ Mapped' \subseteq Mapped
    BY <1>9 DEF Reserve, tableVars, Mapped
  <2> QED
    BY <2>1, <2>2, CountSame
<1>10. ASSUME NEW r \in Reqs, StreamOpens(r) PROVE CapacityKept'
  <2>1. Starts' = Starts
    BY <1>10 DEF StreamOpens, Goto, Starts, AttachStages
  <2>2. starting' = starting /\ Mapped' \subseteq Mapped
    BY <1>10 DEF StreamOpens, TableOK, tableVars, Mapped
  <2> QED
    BY <2>1, <2>2, CountSame
<1>11. ASSUME NEW r \in Reqs, SendRefused(r) PROVE CapacityKept'
  <2>1. Starts' = Starts
    BY <1>11 DEF SendRefused, Goto, Starts, AttachStages
  <2>2. starting' = starting /\ Mapped' \subseteq Mapped
    BY <1>11 DEF SendRefused, TableOK, tableVars, Mapped
  <2> QED
    BY <2>1, <2>2, CountSame
<1>12. ASSUME NEW r \in Reqs, StreamEnds(r) PROVE CapacityKept'
  <2>1. Starts' = Starts
    BY <1>12 DEF StreamEnds, Goto, Starts, AttachStages
  <2>2. starting' = starting /\ Mapped' \subseteq Mapped
    BY <1>12 DEF StreamEnds, TableOK, tableVars, Mapped
  <2> QED
    BY <2>1, <2>2, CountSame
<1>13. ASSUME NEW r \in Reqs, StreamBreaks(r) PROVE CapacityKept'
  <2>1. Starts' = Starts
    BY <1>13, StreamBreaksEffect DEF Went, Others, Starts, AttachStages
  <2>2. starting' = starting /\ Mapped' \subseteq Mapped
    BY <1>13 DEF StreamBreaks, tableVars, Mapped
  <2> QED
    BY <2>1, <2>2, CountSame
<1>14. ASSUME NEW r \in Reqs, EndRun(r) PROVE CapacityKept'
  <2>1. Starts' = Starts
    BY <1>14, EndRunEffect DEF Went, Others, Starts, AttachStages
  <2>2. starting' = starting /\ Mapped' \subseteq Mapped
    BY <1>14 DEF EndRun, tableVars, Mapped
  <2> QED
    BY <2>1, <2>2, CountSame
<1>15. ASSUME NEW r \in Reqs, Release(r) PROVE CapacityKept'
  <2>1. Starts' = Starts
    BY <1>15 DEF Release, Done, Over, Starts, AttachStages
  <2>2. starting' = starting /\ Mapped' \subseteq Mapped
    BY <1>15 DEF Release, TableOK, tableVars, Mapped
  <2> QED
    BY <2>1, <2>2, CountSame
<1>16. ASSUME NEW r \in Reqs, BeginStart(r) PROVE CapacityKept'
  <2>1. Mapped' = Mapped
    BY <1>16 DEF BeginStart, Mapped
  <2>2. CASE Done(r, "create") /\ starting' = starting
    <3>1. Starts' = Starts
      BY <2>2, DoneEffect DEF Starts, Ended, Others, AttachStages
    <3> QED
      BY <2>1, <2>2, <3>1, CountSame
  <2>3. CASE Goto(r, "create", "spawn") /\ starting' = starting + 1 /\ Load < MaxSessions
    <3>1. req[r].kind = "create"
      BY <2>3 DEF Goto, ReqsOK, Fits
    <3>2. r \notin Starts /\ Starts' = Starts \cup {r}
      BY <2>3, <3>1, GotoEffect DEF Starts, Went, Others, AttachStages
    <3> QED
      BY <2>1, <2>3, <3>2, CountBegins
  <2>4. Load \in Int
    BY CountsFinite DEF Load, Mapped, TableOK
  <2> QED
    BY <1>16, <2>2, <2>3, <2>4, MaxSessionsAssumption DEF BeginStart
<1>17. ASSUME NEW r \in Reqs, CreateFailed(r) PROVE CapacityKept'
  <2>1. /\ req[r].kind = "create" /\ req[r].at \in AttachStages
        /\ req' = [req EXCEPT ![r] = Over]
        /\ starting' = starting - 1 /\ sessions' = sessions
    BY <1>17 DEF CreateFailed, StartFailed, AttachStages
  <2>2. r \in Starts /\ Starts' = Starts \ {r}
    BY <2>1 DEF Starts, ReqsOK, Over, AttachStages
  <2>3. Mapped' \subseteq Mapped \cup {None}
    BY <2>1 DEF Mapped
  <2> QED
    BY <2>1, <2>2, <2>3, CountEnds
<1>18. ASSUME NEW r \in Reqs, CommitSession(r) PROVE CapacityKept'
  <2>1. PICK a \in Agents :
           \/ Went(r, "setup", "discard") /\ sessions' = sessions
           \/ Ended(r, "setup") /\ sessions' = [sessions EXCEPT ![a] = r]
    BY <1>18, CommitEffect
  <2>2. /\ req[r].kind = "create" /\ req[r].at = "setup" /\ starting' = starting - 1
    BY <1>18, CommitEffect
  <2>3. r \in Starts /\ Starts' = Starts \ {r}
    BY <2>1, <2>2 DEF Starts, Went, Ended, Others, AttachStages
  <2>4. Mapped' \subseteq Mapped \cup {a}
    BY <2>1 DEF Mapped, TableOK
  <2> QED
    BY <2>2, <2>3, <2>4, CountEnds
<1>19. ASSUME NEW r \in Reqs, ListModels(r) PROVE CapacityKept'
  <2>1. PICK to \in {"done", "spawn"} : Goto(r, "list", to)
    BY <1>19 DEF ListModels
  <2>2. req[r].kind = "list"
    BY <2>1 DEF Goto, ReqsOK, Fits
  <2>3. Starts' = Starts
    BY <2>1, <2>2, GotoEffect DEF Starts, Went, Others
  <2>4. starting' = starting /\ Mapped' = Mapped
    BY <1>19 DEF ListModels, tableVars, Mapped
  <2> QED
    BY <2>3, <2>4, CountSame
<1>20. ASSUME NEW r \in Reqs, ListFailed(r) PROVE CapacityKept'
  <2>1. Starts' = Starts
    BY <1>20 DEF ListFailed, Over, Starts, AttachStages
  <2>2. starting' = starting /\ Mapped' \subseteq Mapped
    BY <1>20 DEF ListFailed, tableVars, StartFailed, Mapped
  <2> QED
    BY <2>1, <2>2, CountSame
<1>21. ASSUME NEW r \in Reqs, ModelsListed(r) PROVE CapacityKept'
  <2>1. Starts' = Starts
    BY <1>21 DEF ModelsListed, Goto, Starts, AttachStages
  <2>2. starting' = starting /\ Mapped' \subseteq Mapped
    BY <1>21 DEF ModelsListed, TableOK, tableVars, Mapped
  <2> QED
    BY <2>1, <2>2, CountSame
<1>22. ASSUME NEW r \in Reqs, Abort(r) PROVE CapacityKept'
  <2>1. Starts' = Starts
    BY <1>22, AbortEffect DEF Went, Ended, Others, Starts, AttachStages
  <2>2. starting' = starting /\ Mapped' \subseteq Mapped
    BY <1>22 DEF Abort, tableVars, Mapped
  <2> QED
    BY <2>1, <2>2, CountSame
<1>23. ASSUME NEW r \in Reqs, Aborted(r) PROVE CapacityKept'
  <2>1. Starts' = Starts
    BY <1>23 DEF Aborted, Done, Over, Starts, AttachStages
  <2>2. starting' = starting /\ Mapped' \subseteq Mapped
    BY <1>23 DEF Aborted, TableOK, tableVars, Mapped
  <2> QED
    BY <2>1, <2>2, CountSame
<1>24. ASSUME NEW r \in Reqs, SetRunID(r) PROVE CapacityKept'
  <2>1. Starts' = Starts
    BY <1>24 DEF SetRunID, tableVars, Starts, AttachStages
  <2>2. starting' = starting /\ Mapped' \subseteq Mapped
    BY <1>24 DEF SetRunID, TableOK, tableVars, Mapped
  <2> QED
    BY <2>1, <2>2, CountSame
<1>25. ASSUME NEW r \in Reqs, WatchFires(r) PROVE CapacityKept'
  <2>1. Starts' = Starts
    BY <1>25 DEF WatchFires, tableVars, Starts, AttachStages
  <2>2. starting' = starting /\ Mapped' \subseteq Mapped
    BY <1>25 DEF WatchFires, TableOK, tableVars, Mapped
  <2> QED
    BY <2>1, <2>2, CountSame
<1>26. ASSUME NEW r \in Reqs, CancelRequest(r) PROVE CapacityKept'
  <2>1. Starts' = Starts
    BY <1>26 DEF CancelRequest, tableVars, Starts, AttachStages
  <2>2. starting' = starting /\ Mapped' \subseteq Mapped
    BY <1>26 DEF CancelRequest, TableOK, tableVars, Mapped
  <2> QED
    BY <2>1, <2>2, CountSame
<1>27. ASSUME NEW x \in Aborts, CancelRun(x) PROVE CapacityKept'
  <2>1. Starts' = Starts
    BY <1>27 DEF CancelRun, tableVars, Starts, AttachStages
  <2>2. starting' = starting /\ Mapped' \subseteq Mapped
    BY <1>27 DEF CancelRun, TableOK, tableVars, Mapped
  <2> QED
    BY <2>1, <2>2, CountSame
<1>28. ASSUME NEW x \in Aborts, RemoveSession(x) PROVE CapacityKept'
  <2>1. Starts' = Starts
    BY <1>28 DEF RemoveSession, Without, Starts, AttachStages
  <2>2. starting' = starting /\ Mapped' \subseteq Mapped
    BY <1>28 DEF RemoveSession, TableOK, Without, Mapped
  <2> QED
    BY <2>1, <2>2, CountSame
<1>29. ASSUME NEW x \in Aborts, AbortReturns(x) PROVE CapacityKept'
  <2>1. Starts' = Starts
    BY <1>29 DEF AbortReturns, tableVars, Starts, AttachStages
  <2>2. starting' = starting /\ Mapped' \subseteq Mapped
    BY <1>29 DEF AbortReturns, TableOK, tableVars, Mapped
  <2> QED
    BY <2>1, <2>2, CountSame
<1>30. ASSUME NEW a \in Agents, Collect(a) PROVE CapacityKept'
  <2>1. Starts' = Starts
    BY <1>30 DEF Collect, Request, Starts, AttachStages
  <2>2. starting' = starting /\ Mapped' \subseteq Mapped
    BY <1>30 DEF Collect, TableOK, tableVars, Mapped
  <2> QED
    BY <2>1, <2>2, CountSame
<1>31. ASSUME NEW b \in Bridges, WatchSession(b) PROVE CapacityKept'
  <2>1. Starts' = Starts
    BY <1>31 DEF WatchSession, Without, Starts, AttachStages
  <2>2. starting' = starting /\ Mapped' \subseteq Mapped
    BY <1>31 DEF WatchSession, TableOK, Without, Mapped
  <2> QED
    BY <2>1, <2>2, CountSame
<1>32. ASSUME NEW b \in Bridges, Reaped(b) PROVE CapacityKept'
  <2>1. Starts' = Starts
    BY <1>32 DEF Reaped, tableVars, Starts, AttachStages
  <2>2. starting' = starting /\ Mapped' \subseteq Mapped
    BY <1>32 DEF Reaped, TableOK, tableVars, Mapped
  <2> QED
    BY <2>1, <2>2, CountSame
<1>33. ASSUME NEW b \in Bridges, RunOver(b) PROVE CapacityKept'
  <2>1. Starts' = Starts
    BY <1>33 DEF RunOver, tableVars, Starts, AttachStages
  <2>2. starting' = starting /\ Mapped' \subseteq Mapped
    BY <1>33 DEF RunOver, TableOK, tableVars, Mapped
  <2> QED
    BY <2>1, <2>2, CountSame
<1>34. ASSUME NEW b \in Bridges, Exit(b) PROVE CapacityKept'
  <2>1. Starts' = Starts
    BY <1>34 DEF Exit, tableVars, Starts, AttachStages
  <2>2. starting' = starting /\ Mapped' \subseteq Mapped
    BY <1>34 DEF Exit, TableOK, tableVars, Mapped
  <2> QED
    BY <2>1, <2>2, CountSame
<1>35. ASSUME Stop PROVE CapacityKept'
  <2>1. Starts' = Starts
    BY <1>35 DEF Stop, Request, Starts, AttachStages
  <2>2. starting' = starting /\ Mapped' \subseteq Mapped
    BY <1>35 DEF Stop, TableOK, tableVars, Mapped
  <2> QED
    BY <2>1, <2>2, CountSame
<1>36. ASSUME NEW r \in Reqs, StreamFails(r) PROVE CapacityKept'
  <2>1. Starts' = Starts
    BY <1>36, StreamFailsEffect DEF Went, Others, Starts, AttachStages
  <2>2. starting' = starting /\ Mapped' \subseteq Mapped
    BY <1>36, StreamFailsEffect DEF Mapped
  <2> QED
    BY <2>1, <2>2, CountSame
<1>37. ASSUME NEW b \in Bridges, LeftRunOver(b) PROVE CapacityKept'
  <2>1. Starts' = Starts
    BY <1>37, LeftRunOverEffect DEF Starts, AttachStages
  <2>2. starting' = starting /\ Mapped' \subseteq Mapped
    BY <1>37, LeftRunOverEffect DEF Mapped
  <2> QED
    BY <2>1, <2>2, CountSame
<1>38. CASE UNCHANGED vars
  BY <1>38 DEF vars, tableVars, CapacityKept
<1> QED
  BY <1>1, <1>2, <1>3, <1>4, <1>5, <1>6, <1>7, <1>8, <1>9, <1>10, <1>11, <1>12, <1>13,
     <1>14, <1>15, <1>16, <1>17, <1>18, <1>19, <1>20, <1>21, <1>22, <1>23, <1>24, <1>25,
     <1>26, <1>27, <1>28, <1>29, <1>30, <1>31, <1>32, <1>33, <1>34, <1>35, <1>36,
     <1>37, <1>38
     DEF Next, Proceed, StartStep, AttachStep, SendStep, CreateStep, ListStep, AbortStep

-----------------------------------------------------------------------------
(* The theorems *)

\* The inductive invariant.
Inv == /\ Base /\ Born /\ Stopping /\ Slots
       /\ AttachShared /\ BridgesOwned /\ CapacityKept

\* No request has begun and no bridge has been started.
LEMMA InitInv == Init => Inv
<1> SUFFICES ASSUME Init PROVE Inv
  OBVIOUS
<1>1. /\ sessions = [a \in Agents |-> None] /\ inflight = {} /\ starting = 0 /\ stopped = FALSE
      /\ abort = [x \in Aborts |-> NoAbort] /\ reaping = {}
      /\ bridge = [b \in Bridges |-> NoBridge] /\ disk \subseteq Agents
  BY DEF Init
<1>2. req = [r \in Reqs |-> NotBegun]
  BY DEF Init
<1>3. NotBegun.at = "idle" /\ NoAbort.at = "off" /\ Fits("idle", NotBegun)
  BY DEF NotBegun, NoAbort, Fits, Serving, Using, Watched, AttachStages
<1>4. NoBridge.st = "none" /\ NoBridge.slot = Free /\ NoBridge.run = None /\ NoBridge.runID = None
  BY DEF NoBridge
<1>5. NotBegun \in Request /\ NoAbort \in Stopper /\ NoBridge \in Process
  BY DEF NotBegun, NoAbort, NoBridge, Request, Points, Stopper, Process
<1>6. Base
  <2>1. TableOK
    <3>1. sessions \in [Agents -> Bridges \cup {None}]
      BY <1>1
    <3>2. abort \in [Aborts -> Stopper] /\ bridge \in [Bridges -> Process]
      BY <1>1, <1>5
    <3>3. stopped \in BOOLEAN
      BY <1>1
    <3>4. /\ inflight \subseteq Agents /\ starting \in Int
          /\ reaping \subseteq Bridges /\ disk \subseteq Agents
      BY <1>1
    <3> QED
      BY <3>1, <3>2, <3>3, <3>4 DEF TableOK
  <2>2. \A r \in Reqs : req[r] = NotBegun
    BY <1>2
  <2>3. req \in [Reqs -> Request] /\ \A r \in Reqs : Fits(req[r].at, req[r])
    BY <1>2, <1>3, <1>5, <2>2
  <2> QED
    BY <2>1, <2>3 DEF Base, ReqsOK
<1>7. Born /\ Stopping
  BY <1>1, <1>2, <1>3, <1>4, Goroutines
     DEF Born, Stopping, Serving, Using, Watched, Busy, Bridges
<1>8. Slots
  BY <1>1, <1>2, <1>3, <1>4, RequestsAssumption DEF Slots, Using, Watched, Live
<1>9. AttachShared /\ BridgesOwned
  BY <1>1, <1>2, <1>3, <1>4 DEF AttachShared, Attaching, AttachStages, BridgesOwned, Live
<1>10. CapacityKept
  <2>1. Starts = {} /\ Mapped = {}
    BY <1>1, <1>2, <1>3 DEF Starts, Mapped, AttachStages
  <2>2. Cardinality(Starts) = 0 /\ Cardinality(Mapped) = 0
    BY <2>1, FS_EmptySet
  <2>3. starting = Cardinality(Starts) /\ Cardinality(Mapped) + starting <= MaxSessions
    BY <1>1, <2>2, MaxSessionsAssumption
  <2> QED
    BY <2>3 DEF CapacityKept, Starts, Mapped
<1> QED
  BY <1>6, <1>7, <1>8, <1>9, <1>10 DEF Inv

\* The layers, together.
LEMMA NextInv == Inv /\ [Next]_vars => Inv'
  BY BaseKept, BornKept, StoppingKept, SlotsKept, AttachSharedKept, BridgesOwnedKept,
     CapacityPreserved
     DEF Inv

\* It holds in every state.
LEMMA AlwaysInv == Spec => []Inv
  BY InitInv, NextInv, PTL DEF Spec

\* The types, with a number of starts that is never negative because it is a count.
LEMMA InvTypes == Inv => TypeOK
<1> SUFFICES ASSUME Inv PROVE TypeOK
  OBVIOUS
<1>1. starting \in Nat
  BY CountsFinite DEF Inv, CapacityKept, Starts
<1> QED
  BY <1>1 DEF Inv, Base, TableOK, ReqsOK, TypeOK, Request, Points, Stopper, Process

\* Manager.starting and inflight: whatever is started, joined, cancelled or stopped,
\* every startup is counted until it ends and no longer, mapped sessions and starts
\* keep the limit, and an agent has one startup at a time and none while it is mapped.
THEOREM StartsAreAccounted == Spec => []StartsAccounted
<1>1. Inv => StartsAccounted
  BY InvTypes DEF Inv, StartsAccounted
<1> QED
  BY <1>1, AlwaysInv, PTL

\* session.runSlot and session.runID: the run whose stream is read and the id that an
\* Abort would cancel are of the Send that holds the slot, and the cancellation of a Send
\* stops no bridge that another Send uses.  A run whose stream broke off is in neither.
THEOREM SlotsAreExclusive == Spec => []SlotExclusive
<1>1. Inv => RunHoldsSlot
  BY DEF Inv, Slots, RunHoldsSlot
<1>2. Inv => CancelSparesOthers
  <2> SUFFICES ASSUME Inv, NEW c \in Reqs, NEW x \in {Watcher(c), Main(c)},
                      req[c].kind # "abort", abort[x].at \in Busy
               PROVE  bridge[abort[x].session].slot = c
    BY DEF CancelSparesOthers, Busy
  <2>1. Base /\ Stopping /\ Slots
    BY DEF Inv
  <2>2. req[c].at # "abortWait"
    BY <2>1 DEF Base, ReqsOK, Fits
  <2>3. req[c].at \in Watched
    BY <2>1, <2>2 DEF Stopping, Busy, Watched
  <2>4. abort[x].session = req[c].session
    BY <2>1, <2>3 DEF Stopping
  <2> QED
    BY <2>1, <2>3, <2>4 DEF Slots, Using
<1> QED
  BY <1>1, <1>2, AlwaysInv, PTL DEF SlotExclusive

\* removeSession, janitor, watchSession and Stop: a bridge that lives is mapped, or its
\* request sets it up, or somebody is stopping it.
THEOREM BridgesAreOwned == Spec => []BridgesOwned
<1>1. Inv => BridgesOwned
  BY DEF Inv
<1> QED
  BY <1>1, AlwaysInv, PTL

=============================================================================
