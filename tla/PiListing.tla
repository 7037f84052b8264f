----------------------------- MODULE PiListing ------------------------------
(***************************************************************************)
(* Manager.List (internal/pi/manager.go) and the session files it reads    *)
(* (sessionfile.go): the sessions that have a process are asked one by one, *)
(* without m.mu, and those that turn out to have none are taken from pi's  *)
(* session directory with all the others.                                  *)
(*                                                                         *)
(* Here a session is its id, and a process a number; the sessions come and *)
(* go as the other requests and pi itself make them (module PiSessions).   *)
(*                                                                         *)
(* A definition marked "Mutant" is a plausible mistake in the definition   *)
(* below it and is used by no specification.                               *)
(***************************************************************************)
EXTENDS Naturals, SequencesExt

CONSTANTS
    Ids,            \* session ids
    MaxProcs,       \* bound: processes started
    MaxModTime         \* bound: modification times of files

ASSUME ListingAssumption == MaxProcs \in Nat /\ MaxModTime \in Nat

VARIABLES
    served,     \* m.sessions: the process of each id, or 0
    running,    \* processes that have not exited
    procs,      \* processes started
    files,      \* pi's session files: pairs of an id and a modification time
    list,       \* where List is
    active,     \* its snapshot: pairs of an id and a process
    reported,   \* ids it reports as active
    infos,      \* what it reports: id, active, and the time of the file
    lasting,    \* history: ids that had a file all the time since List began
    steady      \* history: the pairs of the snapshot that were served all the time

world == <<served, running, procs, files>>
listingVars == <<world, list, active, reported, infos, lasting, steady>>

FileTimes(id) == {f[2] : f \in {g \in files : g[1] = id}}
ModTime(id)   == IF FileTimes(id) = {} THEN 0 ELSE CHOOSE t \in FileTimes(id) : \A u \in FileTimes(id) : u <= t

\* pruneExitedSessionsLocked.
ServedNow == [id \in Ids |-> IF served[id] \in running THEN served[id] ELSE 0]

-----------------------------------------------------------------------------
(* List *)

BeginList ==
    /\ list = "idle" /\ list' = "sessions"
    /\ active' = {<<id, served[id]>> : id \in {i \in Ids : served[i] # 0}}
    /\ reported' = {} /\ infos' = <<>>
    /\ lasting' = {id \in Ids : FileTimes(id) # {}}
    /\ steady' = {a \in active' : a[2] \in running}
    /\ UNCHANGED world

\* Mutant: an id counts as reported before its process is known to run.
ExamineSeen(a) ==
    /\ list = "sessions" /\ a \in active
    /\ active' = active \ {a}
    /\ served' = ServedNow
    /\ reported' = reported \cup {a[1]}
    /\ infos' = IF ServedNow[a[1]] = a[2]
                THEN Append(infos, [id |-> a[1], active |-> TRUE, time |-> ModTime(a[1])]) ELSE infos
    /\ UNCHANGED <<running, procs, files, list, lasting, steady>>
\* getState, then sessionIsActive: the session may be gone, or another's.
Examine(a) ==
    /\ list = "sessions" /\ a \in active
    /\ active' = active \ {a}
    /\ served' = ServedNow
    /\ IF ServedNow[a[1]] = a[2]
       THEN /\ reported' = reported \cup {a[1]}
            /\ infos' = Append(infos, [id |-> a[1], active |-> TRUE, time |-> ModTime(a[1])])
       ELSE UNCHANGED <<reported, infos>>
    /\ UNCHANGED <<running, procs, files, list, lasting, steady>>

\* listFileSessions: the newest file of every id that is not reported yet.
FileInfos == {[id |-> id, active |-> FALSE, time |-> ModTime(id)] :
                 id \in {i \in Ids \ reported : FileTimes(i) # {}}}

\* sort.Slice leaves those of one time in any order.
NewestFirst(s) ==
    {t \in {[i \in DOMAIN s |-> s[p[i]]] : p \in Bijection(DOMAIN s, DOMAIN s)} :
        \A i, j \in DOMAIN t : i < j => t[i].time >= t[j].time}

EndList ==
    /\ list = "sessions" /\ active = {}
    /\ \E found \in Bijection(1..Cardinality(FileInfos), FileInfos) :
         infos' \in NewestFirst(infos \o found)
    /\ list' = "listed"
    /\ UNCHANGED <<world, active, reported, lasting, steady>>

Return ==
    /\ list = "listed" /\ list' = "idle" /\ infos' = <<>> /\ reported' = {}
    /\ lasting' = {} /\ steady' = {}
    /\ UNCHANGED <<world, active>>

-----------------------------------------------------------------------------
(* Meanwhile *)

\* A process is started for an id: a new session, or one with a file.
StartSession(id) ==
    /\ ServedNow[id] = 0 /\ procs < MaxProcs
    /\ procs' = procs + 1 /\ running' = running \cup {procs + 1}
    /\ served' = [ServedNow EXCEPT ![id] = procs + 1]
    /\ UNCHANGED <<files, list, active, reported, infos, lasting, steady>>

\* pi writes a file of the session, the first after its first message.
Persist(id) ==
    /\ served[id] \in running
    /\ \E t \in 1..MaxModTime : files' = files \cup {<<id, t>>}
    /\ UNCHANGED <<served, running, procs, list, active, reported, infos, lasting, steady>>

ProcessExits(n) ==
    /\ n \in running /\ running' = running \ {n}
    /\ steady' = {a \in steady : a[2] # n}
    /\ UNCHANGED <<served, procs, files, list, active, reported, infos, lasting>>

\* Eviction, or Delete, with its purge or without.
Drop(id) ==
    /\ served[id] # 0
    /\ served' = [served EXCEPT ![id] = 0] /\ running' = running \ {served[id]}
    /\ \/ UNCHANGED <<files, lasting>>
       \/ files' = {f \in files : f[1] # id} /\ lasting' = lasting \ {id}
    /\ steady' = {a \in steady : a[1] # id}
    /\ UNCHANGED <<procs, list, active, reported, infos>>

-----------------------------------------------------------------------------

ListingInit ==
    /\ served = [id \in Ids |-> 0] /\ running = {} /\ procs = 0 /\ files = {}
    /\ list = "idle" /\ active = {} /\ reported = {} /\ infos = <<>> /\ lasting = {} /\ steady = {}

ListingNext ==
    \/ BeginList \/ EndList \/ Return
    \/ \E a \in active : Examine(a)
    \/ \E id \in Ids : StartSession(id) \/ Persist(id) \/ Drop(id)
    \/ \E n \in running : ProcessExits(n)

ListingSpec == ListingInit /\ [][ListingNext]_listingVars

-----------------------------------------------------------------------------
(* Properties *)

\* List "reports every session on this box, newest first": each that had a file
\* all the while is in the list once, whether its process exits, is evicted or
\* comes back while the others are asked; and one whose process ran all the
\* while is reported as active.
ListComplete ==
    list = "listed" =>
        /\ \A i, j \in DOMAIN infos : i < j => infos[i].id # infos[j].id /\ infos[i].time >= infos[j].time
        /\ \A id \in lasting : \E i \in DOMAIN infos : infos[i].id = id
        /\ \A a \in steady : \E i \in DOMAIN infos : infos[i].id = a[1] /\ infos[i].active
=============================================================================
