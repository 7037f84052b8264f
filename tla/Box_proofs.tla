--------------------------- MODULE Box_proofs ------------------------------
(***************************************************************************)
(* The small parts of the box, for any number of sessions, processes,      *)
(* callers, entries and messages.  What it answers is true: Manager.List   *)
(* reports every session (PiListing); a message that may have reached pi   *)
(* is not sent again, and a transcript that is followed by cursors is exact *)
(* (PiApi); an answered SendMessage of the Cursor API says what the run's  *)
(* stream said (CursorApi).  And what it starts it holds: the transient    *)
(* process of the model catalog (ModelCatalog), a bridge (BridgeStart), the *)
(* parts of the application (BoxApp).                                      *)
(*                                                                         *)
(* Each has one invariant: Listing, what List found so far and has still   *)
(* to ask about; Once, what became of the message; Coherent, all sequences *)
(* of entries there are agree up to an entry they share; Told, consumeRun's *)
(* variables are functions of the messages heard; Gated, Startup and       *)
(* Unwinding, what each point of the procedures knows.  That every answer  *)
(* of the two APIs is a message of its rpc is AnswerOK, by Known (which    *)
(* sessions there are) on Coherent, and ReplyOK, by StreamOK.              *)
(***************************************************************************)
EXTENDS PiListing, Answers, ModelCatalog, BridgeStart, BoxApp,
        FiniteSetTheorems, SequenceTheorems, WellFoundedInduction, TLAPS

-----------------------------------------------------------------------------
(* Finite sets of numbers *)

\* A set of numbers up to n that is not empty has a greatest element: the one
\* whose distance to n contains no other's.
LEMMA Greatest ==
    ASSUME NEW n \in Nat, NEW S \in SUBSET (1..n), S # {}
    PROVE  \E i \in S : \A j \in S : j <= i
<1> DEFINE R == StrictSubsetOrdering(1..n)
           T == {i..n : i \in S}
<1>1. IsFiniteSet(1..n)
  BY FS_Interval
<1>2. IsWellFoundedOn(R, SUBSET (1..n))
  BY <1>1, FS_StrictSubsetOrderingWellFounded, FS_FiniteSubsetsOfFinite
<1>3. T \subseteq SUBSET (1..n)
  <2>1. ASSUME NEW i \in S
        PROVE  i..n \subseteq 1..n
    OBVIOUS
  <2> QED
    BY <2>1
<1>4. T # {}
  BY Zenon
<1>5. PICK x \in T : \A y \in T : <<y, x>> \notin R
  <2> HIDE DEF R, T
  <2> QED
    BY <1>2, <1>3, <1>4, WFMin
<1>6. PICK i \in S : x = i..n
  BY <1>5
<1>7. ASSUME NEW j \in S, j > i
      PROVE  FALSE
  <2>1. j..n \subseteq i..n /\ i \in i..n /\ i \notin j..n
    BY <1>7
  <2>2. j..n \in T
    BY Zenon
  <2>3. <<j..n, i..n>> \in R
    BY <2>1, <1>3, <1>6, <2>2 DEF StrictSubsetOrdering
  <2> QED
    BY <1>5, <1>6, <2>2, <2>3
<1> QED
  BY <1>7

\* The community modules' Max and Min of such a set are in it, and bound it.
LEMMA MaxIs ==
    ASSUME NEW n \in Nat, NEW S \in SUBSET (1..n), S # {}
    PROVE  Max(S) \in S /\ \A j \in S : j <= Max(S)
<1>1. PICK i \in S : \A j \in S : i >= j
  BY Greatest
<1> QED
  BY <1>1 DEF Max

\* The least of S is n + 1 less the greatest of the mirrored set.
LEMMA MinIs ==
    ASSUME NEW n \in Nat, NEW S \in SUBSET (1..n), S # {}
    PROVE  Min(S) \in S /\ \A j \in S : Min(S) <= j
<1> DEFINE T == {(n + 1) - j : j \in S}
<1>1. T \in SUBSET (1..n) /\ T # {}
  <2>1. ASSUME NEW j \in S PROVE (n + 1) - j \in 1..n
    OBVIOUS
  <2>2. PICK j \in S : TRUE
    OBVIOUS
  <2>3. (n + 1) - j \in T
    OBVIOUS
  <2> QED
    BY <2>1, <2>3
<1>2. PICK k \in T : \A j \in T : j <= k
  BY <1>1, Greatest
<1>3. PICK i \in S : k = (n + 1) - i
  BY <1>2
<1>4. ASSUME NEW j \in S
      PROVE  i <= j
  <2>1. (n + 1) - j \in T
    OBVIOUS
  <2>2. (n + 1) - j <= (n + 1) - i
    BY <1>2, <1>3, <2>1
  <2> QED
    BY <2>2
<1> QED
  BY <1>4 DEF Min

-----------------------------------------------------------------------------
(* Manager.List *)

\* Processes are numbers in the order they were started, and serve one id each.
WorldOK ==
    /\ procs \in Nat /\ running \subseteq 1..procs
    /\ served \in [Ids -> 0..procs]
    /\ \A i, j \in Ids : served[i] = served[j] /\ served[i] # 0 => i = j
    /\ files \subseteq Ids \X (1..MaxModTime) /\ IsFiniteSet(files)

Info == [id : Ids, active : BOOLEAN, time : Nat]

\* Where List stands: an id of the snapshot is asked about once; those that were
\* found served are the infos so far; whatever was served all the while still
\* is, and is to be asked about or was.
Asking ==
    list = "sessions" =>
        /\ \A a \in active : a \in Ids \X Nat /\ a[1] \notin reported
        /\ \A a, b \in active : a[1] = b[1] => a = b
        /\ \A i \in DOMAIN infos : infos[i].id \in reported /\ infos[i].active
        /\ \A i, j \in DOMAIN infos : infos[i].id = infos[j].id => i = j
        /\ \A id \in reported : \E i \in DOMAIN infos : infos[i].id = id
        /\ \A id \in lasting : id \in Ids /\ FileTimes(id) # {}
        /\ \A a \in steady : /\ a[1] \in Ids /\ a[2] \in running /\ served[a[1]] = a[2]
                             /\ a \in active \/ a[1] \in reported

Listing ==
    /\ WorldOK /\ list \in {"idle", "sessions", "listed"} /\ infos \in Seq(Info)
    /\ Asking /\ ListComplete

\* A file's time is a time.
LEMMA ModTimeIs ==
    ASSUME WorldOK, NEW id \in Ids
    PROVE  ModTime(id) \in Nat
<1>1. FileTimes(id) \in SUBSET (1..MaxModTime) /\ MaxModTime \in Nat
  BY ListingAssumption DEF WorldOK, FileTimes
<1>2. CASE FileTimes(id) # {}
  <2>1. \E t \in FileTimes(id) : \A u \in FileTimes(id) : u <= t
    BY <1>1, <1>2, Greatest
  <2>2. ModTime(id) \in FileTimes(id)
    BY <1>2, <2>1 DEF ModTime
  <2> QED
    BY <1>1, <2>2
<1>3. CASE FileTimes(id) = {}
  BY <1>3 DEF ModTime
<1> QED
  BY <1>2, <1>3

\* The files of the sessions that are not reported yet make one info for each id.
LEMMA FileInfosAre ==
    ASSUME WorldOK
    PROVE  /\ IsFiniteSet(FileInfos) /\ Cardinality(FileInfos) \in Nat
           /\ FileInfos \subseteq Info
           /\ \A f \in FileInfos : f.id \notin reported
           /\ \A f, g \in FileInfos : f.id = g.id => f = g
           /\ \A id \in Ids \ reported : FileTimes(id) # {} => \E f \in FileInfos : f.id = id
<1> DEFINE F == {g \in files : g[1] \notin reported}
           Of(id) == [id |-> id, active |-> FALSE, time |-> ModTime(id)]
           infoOf == [g \in F |-> Of(g[1])]
<1>1. IsFiniteSet(F)
  BY FS_Subset DEF WorldOK
<1>2. FileInfos = {Of(id) : id \in {i \in Ids \ reported : FileTimes(i) # {}}}
  BY DEF FileInfos
<1>3. \A g \in F : g[1] \in Ids \ reported /\ FileTimes(g[1]) # {}
  BY DEF WorldOK, FileTimes
<1>4. ASSUME NEW id \in Ids \ reported, FileTimes(id) # {}
      PROVE  \E g \in F : g[1] = id
  BY <1>4 DEF FileTimes
<1>5. infoOf \in Surjection(F, FileInfos)
  <2>1. infoOf \in [F -> FileInfos]
    BY <1>2, <1>3
  <2>2. ASSUME NEW o \in FileInfos
        PROVE  \E g \in F : infoOf[g] = o
    <3>1. PICK id \in Ids \ reported : FileTimes(id) # {} /\ o = Of(id)
      BY <1>2
    <3>2. PICK g \in F : g[1] = id
      BY <1>4, <3>1
    <3> QED
      BY <3>1, <3>2
  <2> QED
    BY <2>1, <2>2 DEF Surjection
<1>6. IsFiniteSet(FileInfos) /\ Cardinality(FileInfos) \in Nat
  <2> HIDE DEF F, infoOf
  <2> QED
    BY <1>1, <1>5, FS_Surjection, FS_CardinalityType
<1>7. FileInfos \subseteq Info
  <2>1. ASSUME NEW id \in Ids PROVE Of(id) \in Info
    BY ModTimeIs DEF Info
  <2> QED
    BY <1>2, <2>1
<1>8. \A id : Of(id).id = id
  OBVIOUS
<1> HIDE DEF Of
<1>9. \A f \in FileInfos : f.id \notin reported
  BY <1>2, <1>8
<1>10. \A f, g \in FileInfos : f.id = g.id => f = g
  BY <1>2, <1>8
<1>11. \A id \in Ids \ reported : FileTimes(id) # {} => \E o \in FileInfos : o.id = id
  BY <1>2, <1>8
<1> QED
  BY <1>6, <1>7, <1>9, <1>10, <1>11

\* The files complete what the sessions told, and sorting permutes it.
LEMMA EndListKeeps ==
    ASSUME Listing, EndList
    PROVE  Listing'
<1> DEFINE n == Cardinality(FileInfos)
<1>1. PICK found \in Bijection(1..n, FileInfos) : infos' \in NewestFirst(infos \o found)
  BY DEF EndList
<1>2. /\ list = "sessions" /\ active = {} /\ list' = "listed"
      /\ UNCHANGED <<world, active, reported, lasting, steady>>
  BY DEF EndList
<1> DEFINE s == infos \o found
           m == Len(infos)
<1>3. PICK p \in Bijection(DOMAIN s, DOMAIN s) :
        /\ infos' = [i \in DOMAIN s |-> s[p[i]]]
        /\ \A i, j \in DOMAIN infos' : i < j => infos'[i].time >= infos'[j].time
  BY <1>1 DEF NewestFirst
<1>4. /\ n \in Nat /\ FileInfos \subseteq Info
      /\ \A f \in FileInfos : f.id \notin reported
      /\ \A f, g \in FileInfos : f.id = g.id => f = g
      /\ \A id \in Ids \ reported : FileTimes(id) # {} => \E f \in FileInfos : f.id = id
  BY FileInfosAre DEF Listing
<1>5. /\ found \in [1..n -> FileInfos]
      /\ \A k, l \in 1..n : found[k] = found[l] => k = l
      /\ \A f \in FileInfos : \E k \in 1..n : found[k] = f
  BY <1>1 DEF Bijection, Injection, IsInjective, Surjection
<1>6. infos \in Seq(Info) /\ m \in Nat /\ found \in Seq(Info) /\ Len(found) = n
  BY <1>4, <1>5 DEF Listing
<1> HIDE DEF n, m
<1>7. /\ s \in Seq(Info) /\ Len(s) = m + n /\ DOMAIN s = 1..(m + n)
      /\ \A i \in 1..(m + n) : s[i] = IF i <= m THEN infos[i] ELSE found[i - m]
  <2>1. /\ s \in Seq(Info) /\ Len(s) = m + n
        /\ \A i \in 1..(m + n) : s[i] = IF i <= m THEN infos[i] ELSE found[i - m]
    <3>1. /\ s \in Seq(Info) /\ Len(s) = Len(infos) + Len(found)
          /\ \A i \in 1..(Len(infos) + Len(found)) :
                s[i] = IF i <= Len(infos) THEN infos[i] ELSE found[i - Len(infos)]
      BY <1>6, ConcatProperties
    <3> QED
      BY <1>6, <3>1 DEF m
  <2> HIDE DEF s
  <2> QED
    BY <2>1
<1>8. /\ DOMAIN infos = 1..m
      /\ \A i \in 1..m : infos[i].id \in reported /\ infos[i].active
      /\ \A i, j \in 1..m : infos[i].id = infos[j].id => i = j
      /\ \A id \in reported : \E i \in 1..m : infos[i].id = id
      /\ \A id \in lasting : id \in Ids /\ FileTimes(id) # {}
      /\ \A a \in steady : a[1] \in reported
  BY <1>2, <1>6 DEF Listing, Asking, m
<1> HIDE DEF s
<1>9. /\ \A i \in 1..m : i \in DOMAIN s /\ s[i] = infos[i]
      /\ \A k \in 1..n : m + k \in DOMAIN s /\ s[m + k] = found[k]
      /\ \A i \in DOMAIN s : i \in 1..m \/ \E k \in 1..n : i = m + k
  <2>1. ASSUME NEW i \in 1..m PROVE i \in DOMAIN s /\ s[i] = infos[i]
    BY <1>4, <1>6, <1>7
  <2>2. ASSUME NEW k \in 1..n PROVE m + k \in DOMAIN s /\ s[m + k] = found[k]
    <3>1. m + k \in 1..(m + n) /\ ~(m + k <= m) /\ (m + k) - m = k
      BY <1>4, <1>6
    <3> QED
      BY <1>7, <3>1
  <2>3. ASSUME NEW i \in DOMAIN s PROVE i \in 1..m \/ \E k \in 1..n : i = m + k
    <3>1. CASE i <= m
      BY <1>4, <1>6, <1>7, <3>1
    <3>2. CASE ~(i <= m)
      <4>1. i - m \in 1..n /\ i = m + (i - m)
        BY <1>4, <1>6, <1>7, <3>2
      <4> QED
        BY <4>1
    <3> QED
      BY <3>1, <3>2
  <2> QED
    BY <2>1, <2>2, <2>3
<1>10. \A i, j \in DOMAIN s : s[i].id = s[j].id => i = j
  <2> SUFFICES ASSUME NEW i \in DOMAIN s, NEW j \in DOMAIN s, s[i].id = s[j].id
               PROVE  i = j
    OBVIOUS
  <2>1. \A x \in 1..m : s[x].id \in reported
    BY <1>8, <1>9
  <2>2. \A k \in 1..n : s[m + k].id \notin reported
    BY <1>4, <1>5, <1>9
  <2>3. CASE i \in 1..m /\ j \in 1..m
    BY <1>8, <1>9, <2>3
  <2>4. CASE \E k, l \in 1..n : i = m + k /\ j = m + l
    <3>1. PICK k \in 1..n, l \in 1..n : i = m + k /\ j = m + l
      BY <2>4
    <3>2. found[k].id = found[l].id /\ found[k] \in FileInfos /\ found[l] \in FileInfos
      BY <1>5, <1>9, <3>1
    <3>3. k = l
      BY <1>4, <1>5, <3>2
    <3> QED
      BY <3>1, <3>3
  <2> QED
    BY <1>9, <2>1, <2>2, <2>3, <2>4
<1>11. \A id \in lasting : \E i \in DOMAIN s : s[i].id = id
  <2> SUFFICES ASSUME NEW id \in lasting PROVE \E i \in DOMAIN s : s[i].id = id
    OBVIOUS
  <2>1. CASE id \in reported
    BY <1>8, <1>9, <2>1
  <2>2. CASE id \notin reported
    <3>1. PICK f \in FileInfos : f.id = id
      BY <1>4, <1>8, <2>2
    <3>2. PICK k \in 1..n : found[k] = f
      BY <1>5
    <3> QED
      BY <1>9, <3>1, <3>2
  <2> QED
    BY <2>1, <2>2
<1>12. \A a \in steady : \E i \in DOMAIN s : s[i].id = a[1] /\ s[i].active
  BY <1>8, <1>9
<1>13. /\ p \in [DOMAIN s -> DOMAIN s]
       /\ \A i, j \in DOMAIN s : p[i] = p[j] => i = j
       /\ \A i \in DOMAIN s : \E j \in DOMAIN s : p[j] = i
  BY <1>3 DEF Bijection, Injection, IsInjective, Surjection
<1>14. DOMAIN infos' = DOMAIN s /\ \A i \in DOMAIN s : infos'[i] = s[p[i]]
  BY <1>3
<1>15. infos' \in Seq(Info)
  <2>1. m + n \in Nat /\ \A i \in 1..(m + n) : s[i] \in Info
    BY <1>4, <1>6, <1>7
  <2>2. infos' \in [1..(m + n) -> Info]
    BY <1>3, <1>7, <1>13, <2>1
  <2> QED
    BY <2>1, <2>2
<1>16. ListComplete'
  <2>1. ASSUME NEW i \in DOMAIN infos', NEW j \in DOMAIN infos', i < j
        PROVE  infos'[i].id # infos'[j].id /\ infos'[i].time >= infos'[j].time
    <3>1. infos'[i].time >= infos'[j].time
      BY <1>3, <2>1
    <3>2. i # j
      BY <1>7, <1>14, <2>1
    <3>3. p[i] # p[j] /\ p[i] \in DOMAIN s /\ p[j] \in DOMAIN s
      BY <1>13, <1>14, <3>2
    <3> QED
      BY <1>10, <1>14, <3>1, <3>3
  <2>2. ASSUME NEW id \in lasting
        PROVE  \E i \in DOMAIN infos' : infos'[i].id = id
    BY <1>11, <1>13, <1>14
  <2>3. ASSUME NEW a \in steady
        PROVE  \E i \in DOMAIN infos' : infos'[i].id = a[1] /\ infos'[i].active
    BY <1>12, <1>13, <1>14
  <2> QED
    BY <1>2, <2>1, <2>2, <2>3 DEF ListComplete
<1>17. WorldOK'
  BY <1>2 DEF world, Listing, WorldOK
<1> QED
  BY <1>2, <1>15, <1>16, <1>17 DEF Listing, Asking

\* The snapshot has each id once, with the process that serves it.
LEMMA BeginListKeeps ==
    ASSUME Listing, BeginList
    PROVE  Listing'
<1>1. /\ list' = "sessions" /\ UNCHANGED world /\ reported' = {} /\ infos' = <<>>
      /\ active' = {<<id, served[id]>> : id \in {i \in Ids : served[i] # 0}}
      /\ lasting' = {id \in Ids : FileTimes(id) # {}}
      /\ steady' = {a \in active' : a[2] \in running}
  BY DEF BeginList
<1>2. WorldOK'
  BY <1>1 DEF world, Listing, WorldOK
<1>3. ASSUME NEW a \in active'
      PROVE  a \in Ids \X Nat /\ a[1] \in Ids /\ a[2] = served[a[1]]
  <2>1. PICK id \in Ids : a = <<id, served[id]>>
    BY <1>1
  <2> QED
    BY <2>1 DEF Listing, WorldOK
<1>4. \A a, b \in active' : a[1] = b[1] => a = b
  BY <1>3
<1>5. \A id \in lasting' : id \in Ids /\ FileTimes(id)' # {}
  BY <1>1 DEF world, FileTimes
<1>6. Asking'
  BY <1>1, <1>3, <1>4, <1>5 DEF world, Asking
<1> QED
  BY <1>1, <1>2, <1>6 DEF Listing, ListComplete

\* A process that runs is still served after those that exited are pruned.
LEMMA ServedNowIs ==
    ASSUME WorldOK
    PROVE  /\ ServedNow \in [Ids -> 0..procs]
           /\ \A id \in Ids : served[id] \in running => ServedNow[id] = served[id]
           /\ \A id \in Ids : ServedNow[id] # 0 => ServedNow[id] = served[id] /\ served[id] \in running
  BY DEF WorldOK, ServedNow

\* A session that is found served is reported; one that is not is left to its file,
\* and had not been served all the while.
LEMMA ExamineKeeps ==
    ASSUME Listing, NEW a \in active, Examine(a)
    PROVE  Listing'
<1>1. /\ list = "sessions" /\ active' = active \ {a} /\ served' = ServedNow
      /\ UNCHANGED <<running, procs, files, list, lasting, steady>>
  BY DEF Examine
<1>2. /\ WorldOK /\ Asking /\ infos \in Seq(Info) /\ procs \in Nat /\ running \subseteq 1..procs
      /\ a \in Ids \X Nat /\ a[1] \notin reported /\ a[1] \in Ids
  BY <1>1 DEF Listing, Asking, WorldOK
<1>3. /\ ServedNow \in [Ids -> 0..procs]
      /\ \A id \in Ids : served[id] \in running => ServedNow[id] = served[id]
      /\ \A id \in Ids : ServedNow[id] # 0 => ServedNow[id] = served[id] /\ served[id] \in running
  BY <1>2, ServedNowIs
<1>4. WorldOK'
  BY <1>1, <1>2, <1>3 DEF WorldOK
<1>5. \A id \in lasting' : id \in Ids /\ FileTimes(id)' # {}
  BY <1>1, <1>2 DEF Asking, FileTimes
<1>6. \A b \in steady : /\ b[1] \in Ids /\ b[2] \in running /\ served'[b[1]] = b[2]
                        /\ b \in active \/ b[1] \in reported
  BY <1>1, <1>2, <1>3 DEF Asking
<1>7. CASE ServedNow[a[1]] = a[2]
  <2> DEFINE info == [id |-> a[1], active |-> TRUE, time |-> ModTime(a[1])]
  <2>1. reported' = reported \cup {a[1]} /\ infos' = Append(infos, info)
    BY <1>7 DEF Examine
  <2>2. info \in Info
    BY <1>2, ModTimeIs DEF Info
  <2>3. info.id = a[1] /\ info.active
    OBVIOUS
  <2> HIDE DEF info
  <2>4. /\ infos' \in Seq(Info) /\ Len(infos) \in Nat /\ DOMAIN infos = 1..Len(infos)
        /\ DOMAIN infos' = 1..(Len(infos) + 1)
        /\ infos'[Len(infos) + 1] = info /\ \A i \in 1..Len(infos) : infos'[i] = infos[i]
    BY <1>2, <2>1, <2>2
  <2>5. \A i \in DOMAIN infos' : i \in DOMAIN infos \/ i = Len(infos) + 1
    BY <2>4
  <2>6. \A i \in DOMAIN infos' : infos'[i].id \in reported' /\ infos'[i].active
    BY <1>1, <1>2, <2>1, <2>3, <2>4, <2>5 DEF Asking
  <2>7. \A i, j \in DOMAIN infos' : infos'[i].id = infos'[j].id => i = j
    BY <1>1, <1>2, <2>3, <2>4, <2>5 DEF Asking
  <2>8. \A id \in reported' : \E i \in DOMAIN infos' : infos'[i].id = id
    <3> SUFFICES ASSUME NEW id \in reported' PROVE \E i \in DOMAIN infos' : infos'[i].id = id
      OBVIOUS
    <3>1. CASE id \in reported
      <4>1. PICK i \in DOMAIN infos : infos[i].id = id
        BY <1>1, <1>2, <3>1 DEF Asking
      <4> QED
        BY <2>4, <4>1
    <3>2. CASE id = a[1]
      <4>1. Len(infos) + 1 \in DOMAIN infos'
        BY <2>4
      <4> QED
        BY <2>3, <2>4, <3>2, <4>1
    <3> QED
      BY <2>1, <3>1, <3>2
  <2>9. \A b \in active' : b \in Ids \X Nat /\ b[1] \notin reported'
    BY <1>1, <1>2, <2>1 DEF Asking
  <2>10. \A b, c \in active' : b[1] = c[1] => b = c
    BY <1>1, <1>2 DEF Asking
  <2>11. \A b \in steady' : /\ b[1] \in Ids /\ b[2] \in running' /\ served'[b[1]] = b[2]
                            /\ b \in active' \/ b[1] \in reported'
    BY <1>1, <1>6, <2>1
  <2>12. Asking'
    BY <1>5, <2>6, <2>7, <2>8, <2>9, <2>10, <2>11 DEF Asking
  <2> QED
    BY <1>1, <1>4, <2>4, <2>12 DEF Listing, ListComplete
<1>8. CASE ServedNow[a[1]] # a[2]
  <2>1. reported' = reported /\ infos' = infos
    BY <1>8 DEF Examine
  <2>2. a \notin steady
    BY <1>1, <1>6, <1>8
  <2>3. Asking'
    BY <1>1, <1>2, <1>5, <1>6, <2>1, <2>2 DEF Asking
  <2> QED
    BY <1>1, <1>2, <1>4, <2>1, <2>3 DEF Listing, ListComplete
<1> QED
  BY <1>7, <1>8

\* What happens meanwhile leaves what List has so far, what it is to ask about,
\* and the histories true.
LEMMA MeanwhileKeeps ==
    ASSUME Listing, WorldOK', UNCHANGED <<list, active, reported, infos>>,
           lasting' \subseteq lasting, steady' \subseteq steady,
           \A id \in lasting' : FileTimes(id) # {} => FileTimes(id)' # {},
           list = "sessions" => \A a \in steady' : a[2] \in running' /\ served'[a[1]] = a[2]
    PROVE  Listing'
<1>1. Asking'
  BY DEF Listing, Asking
<1>2. ListComplete'
  BY DEF Listing, ListComplete
<1> QED
  BY <1>1, <1>2 DEF Listing

\* A new process takes no id from one that runs.
LEMMA StartSessionKeeps ==
    ASSUME Listing, NEW id \in Ids, StartSession(id)
    PROVE  Listing'
<1>1. /\ ServedNow[id] = 0 /\ procs' = procs + 1 /\ running' = running \cup {procs + 1}
      /\ served' = [ServedNow EXCEPT ![id] = procs + 1]
      /\ UNCHANGED <<files, list, active, reported, infos, lasting, steady>>
  BY DEF StartSession
<1>2. WorldOK /\ procs \in Nat /\ running \subseteq 1..procs
  BY DEF Listing, WorldOK
<1>3. /\ ServedNow \in [Ids -> 0..procs]
      /\ \A i \in Ids : served[i] \in running => ServedNow[i] = served[i]
      /\ \A i \in Ids : ServedNow[i] # 0 => ServedNow[i] = served[i] /\ served[i] \in running
  BY <1>2, ServedNowIs
<1>4. WorldOK'
  <2>1. served' \in [Ids -> 0..procs']
    BY <1>1, <1>2, <1>3
  <2>2. \A i, j \in Ids : served'[i] = served'[j] /\ served'[i] # 0 => i = j
    BY <1>1, <1>2, <1>3 DEF WorldOK
  <2>3. running' \subseteq 1..procs' /\ procs' \in Nat
    BY <1>1, <1>2
  <2> QED
    BY <1>1, <1>2, <2>1, <2>2, <2>3 DEF WorldOK
<1>5. ASSUME list = "sessions", NEW a \in steady
      PROVE  a[2] \in running' /\ served'[a[1]] = a[2]
  <2>1. a[1] \in Ids /\ a[2] \in running /\ served[a[1]] = a[2] /\ a[2] # 0
    BY <1>2, <1>5 DEF Listing, Asking
  <2>2. ServedNow[a[1]] = a[2] /\ a[1] # id
    BY <1>1, <1>3, <2>1
  <2> QED
    BY <1>1, <1>3, <2>1, <2>2
<1> QED
  BY <1>1, <1>4, <1>5, MeanwhileKeeps DEF FileTimes

\* A file more takes no id its file.
LEMMA PersistKeeps ==
    ASSUME Listing, NEW id \in Ids, Persist(id)
    PROVE  Listing'
<1>1. PICK t \in 1..MaxModTime : files' = files \cup {<<id, t>>}
  BY DEF Persist
<1>2. UNCHANGED <<served, running, procs, list, active, reported, infos, lasting, steady>>
  BY DEF Persist
<1>3. IsFiniteSet(files')
  BY <1>1, FS_AddElement DEF Listing, WorldOK
<1>4. WorldOK'
  BY <1>1, <1>2, <1>3 DEF Listing, WorldOK
<1>5. \A i \in lasting' : FileTimes(i) # {} => FileTimes(i)' # {}
  BY <1>1 DEF FileTimes
<1>6. list = "sessions" => \A a \in steady' : a[2] \in running' /\ served'[a[1]] = a[2]
  BY <1>2 DEF Listing, Asking
<1> QED
  BY <1>2, <1>4, <1>5, <1>6, MeanwhileKeeps

\* The other processes are served as before.
LEMMA ProcessExitsKeeps ==
    ASSUME Listing, NEW n \in running, ProcessExits(n)
    PROVE  Listing'
<1>1. /\ running' = running \ {n} /\ steady' = {a \in steady : a[2] # n}
      /\ UNCHANGED <<served, procs, files, list, active, reported, infos, lasting>>
  BY DEF ProcessExits
<1>2. WorldOK'
  BY <1>1 DEF Listing, WorldOK
<1>3. list = "sessions" => \A a \in steady' : a[2] \in running' /\ served'[a[1]] = a[2]
  BY <1>1 DEF Listing, Asking
<1> QED
  BY <1>1, <1>2, <1>3, MeanwhileKeeps DEF FileTimes

\* A purge takes the files of its own id, which then had none all the while.
LEMMA DropKeeps ==
    ASSUME Listing, NEW id \in Ids, Drop(id)
    PROVE  Listing'
<1>1. /\ served[id] # 0 /\ served' = [served EXCEPT ![id] = 0] /\ running' = running \ {served[id]}
      /\ steady' = {a \in steady : a[1] # id}
      /\ UNCHANGED <<procs, list, active, reported, infos>>
      /\ \/ UNCHANGED <<files, lasting>>
         \/ files' = {f \in files : f[1] # id} /\ lasting' = lasting \ {id}
  BY DEF Drop
<1>2. IsFiniteSet(files') /\ files' \subseteq files
  BY <1>1, FS_Subset DEF Listing, WorldOK
<1>3. WorldOK'
  <2>1. served \in [Ids -> 0..procs] /\ procs \in Nat
    BY DEF Listing, WorldOK
  <2>2. served' \in [Ids -> 0..procs]
    BY <1>1, <2>1
  <2>3. \A i, j \in Ids : served'[i] = served'[j] /\ served'[i] # 0 => i = j
    BY <1>1, <2>1 DEF Listing, WorldOK
  <2> QED
    BY <1>1, <1>2, <2>2, <2>3 DEF Listing, WorldOK
<1>4. ASSUME NEW i \in lasting', FileTimes(i) # {}
      PROVE  FileTimes(i)' # {}
  BY <1>1, <1>4 DEF FileTimes
<1>5. ASSUME list = "sessions", NEW a \in steady'
      PROVE  a[2] \in running' /\ served'[a[1]] = a[2]
  BY <1>1, <1>5 DEF Listing, Asking, WorldOK
<1> QED
  BY <1>1, <1>3, <1>4, <1>5, MeanwhileKeeps

\* Every step keeps the invariant of List.
LEMMA NextListing == Listing /\ [ListingNext]_listingVars => Listing'
<1> SUFFICES ASSUME Listing, [ListingNext]_listingVars PROVE Listing'
  OBVIOUS
<1>1. CASE Return
  BY <1>1 DEF Return, world, Listing, WorldOK, Asking, ListComplete
<1>2. CASE UNCHANGED listingVars
  BY <1>2 DEF listingVars, world, Listing, WorldOK, Asking, ListComplete, FileTimes
<1> QED
  BY <1>1, <1>2, BeginListKeeps, EndListKeeps, ExamineKeeps, StartSessionKeeps, PersistKeeps, DropKeeps,
     ProcessExitsKeeps DEF ListingNext

\* It holds at first.
LEMMA InitListing == ListingInit => Listing
  BY ListingAssumption, FS_EmptySet DEF ListingInit, Listing, WorldOK, Asking, ListComplete

\* List reports every session on this box, newest first: each that had a file all
\* the while is there once, and one whose process ran all the while as active
\* (Manager.List).
THEOREM ListsComplete == ListingSpec => []ListComplete
<1>1. Listing => ListComplete
  BY DEF Listing
<1> QED
  BY <1>1, InitListing, NextListing, PTL DEF ListingSpec

-----------------------------------------------------------------------------
(* The Pi API: a message that may have been sent is not sent again. *)

\* The cases of rpcError one by one: nothing but the three below is found in an
\* error of a prompt that was sent.
LEMMA CasesOf ==
    /\ DOMAIN ErrorCases = 1..14
    /\ \A i \in 1..14 : i \notin {9, 10, 14} =>
          ErrorCases[i].is \cap {"Canceled", "DeadlineExceeded", "connect.Error"} = {}
    /\ ErrorCases[9].is = {"Canceled"} /\ ErrorCases[9].code = "canceled"
    /\ ErrorCases[10].is = {"DeadlineExceeded"} /\ ErrorCases[10].code = "deadline_exceeded"
    /\ ErrorCases[14].is = {"connect.Error"} /\ ErrorCases[14].code = "unknown"
<1>1. DOMAIN ErrorCases = 1..14
  BY DEF ErrorCases
<1>2. /\ ErrorCases[1].is = {"ErrHostConfig"}
      /\ ErrorCases[2].is = {"ErrHostUnsupported", "ErrHostGone"}
      /\ ErrorCases[3].is = {"ErrHostUnknown"}
      /\ ErrorCases[4].is = {"ErrHostConflict"}
      /\ ErrorCases[5].is = {"ErrNotFound"}
      /\ ErrorCases[6].is = {"ErrBusy"}
      /\ ErrorCases[7].is = {"ErrTooManySessions"}
      /\ ErrorCases[8].is = {"ErrBadCursor", "ErrInvalidCwd", "ErrInvalidPath"}
      /\ ErrorCases[11].is = {"ErrInvalidModel"}
      /\ ErrorCases[12].is = {"ErrModelAuth"}
      /\ ErrorCases[13].is = {"ErrSetModel"}
  BY DEF ErrorCases
<1>3. ASSUME NEW i \in 1..14, i \notin {9, 10, 14}
      PROVE  ErrorCases[i].is \cap {"Canceled", "DeadlineExceeded", "connect.Error"} = {}
  <2>1. i \in {1, 2, 3, 4, 5, 6, 7, 8, 11, 12, 13}
    BY <1>3
  <2> QED
    BY <1>2, <2>1
<1>4. /\ ErrorCases[9].is = {"Canceled"} /\ ErrorCases[9].code = "canceled"
      /\ ErrorCases[10].is = {"DeadlineExceeded"} /\ ErrorCases[10].code = "deadline_exceeded"
      /\ ErrorCases[14].is = {"connect.Error"} /\ ErrorCases[14].code = "unknown"
  BY DEF ErrorCases
<1> QED
  BY <1>1, <1>3, <1>4

\* None of the errors of a prompt that was sent is a definite refusal.
LEMMA OpenErrors ==
    ASSUME NEW error \in {Plain, {"Canceled"}, {"DeadlineExceeded"}, {"connect.Error"}}
    PROVE  rpcError(error).code \notin DefiniteRefusals
<1> DEFINE hits == {i \in DOMAIN ErrorCases : ErrorCases[i].is \cap error # {}}
<1>1. DOMAIN ErrorCases = 1..14
  BY CasesOf
<1>2. CASE error = Plain
  <2>1. hits = {}
    BY <1>2 DEF Plain
  <2> HIDE DEF hits
  <2>2. rpcError(error).code = "internal"
    BY <2>1 DEF rpcError, hits
  <2> QED
    BY <2>2 DEF DefiniteRefusals
<1>3. ASSUME NEW k \in 1..14, hits = {k}
      PROVE  rpcError(error) = ErrorCases[k]
  <2>1. hits \in SUBSET (1..14) /\ hits # {}
    BY <1>3
  <2>2. Min(hits) \in hits
    <3> HIDE DEF hits
    <3> QED
      BY <2>1, MinIs
  <2>3. Min(hits) = k
    BY <1>3, <2>2
  <2> HIDE DEF hits
  <2> QED
    BY <2>1, <2>3 DEF rpcError, hits
<1>4. CASE error = {"Canceled"}
  <2>1. hits = {9}
    <3>1. ASSUME NEW i \in 1..14
          PROVE  ErrorCases[i].is \cap error # {} <=> i = 9
      BY <1>4, CasesOf
    <3> QED
      BY <1>1, <3>1
  <2>2. rpcError(error) = ErrorCases[9]
    BY <1>3, <2>1
  <2> QED
    BY <2>2, CasesOf DEF DefiniteRefusals
<1>5. CASE error = {"DeadlineExceeded"}
  <2>1. hits = {10}
    <3>1. ASSUME NEW i \in 1..14
          PROVE  ErrorCases[i].is \cap error # {} <=> i = 10
      BY <1>5, CasesOf
    <3> QED
      BY <1>1, <3>1
  <2>2. rpcError(error) = ErrorCases[10]
    BY <1>3, <2>1
  <2> QED
    BY <2>2, CasesOf DEF DefiniteRefusals
<1>6. CASE error = {"connect.Error"}
  <2>1. hits = {14}
    <3>1. ASSUME NEW i \in 1..14
          PROVE  ErrorCases[i].is \cap error # {} <=> i = 14
      BY <1>6, CasesOf
    <3> QED
      BY <1>1, <3>1
  <2>2. rpcError(error) = ErrorCases[14]
    BY <1>3, <2>1
  <2> QED
    BY <2>2, CasesOf DEF DefiniteRefusals
<1> QED
  BY <1>2, <1>4, <1>5, <1>6

\* While the message may be sent (again) it was not; and an acknowledgement that
\* is awaited is of a prompt that was not taken yet.
Once ==
    /\ delivered \in 0..1
    /\ attempt = "open" => prompt = "unsent" /\ delivered = 0
    /\ prompt = "waiting" => delivered = 0

\* What a request that may send the client's message does to it: nothing, or it
\* is taken or awaited and then the answer closes the attempt.
Tried ==
    \/ UNCHANGED <<prompt, delivered>>
    \/ /\ Mine /\ outcome'.code \notin DefiniteRefusals
       /\ \/ prompt' = "taken" /\ delivered' = delivered + 1
          \/ prompt' = "waiting" /\ delivered' = delivered

\* A message that was taken, or is awaited, is not open to be sent.
LEMMA TriedOnce ==
    ASSUME Once, Tried, Concludes
    PROVE  Once'
  BY DEF Once, Tried, Concludes, Mine

\* The answer of a prompt that was sent and failed is no definite refusal,
LEMMA RefusalOpen ==
    ASSUME NEW rpc, NEW error \in {Plain, {"Canceled"}, {"DeadlineExceeded"}, {"connect.Error"}},
           outcome' = Refusal(rpc, error, TRUE)
    PROVE  outcome'.code \notin DefiniteRefusals
  BY OpenErrors DEF Refusal, Outcome

\* nor is a successful one.
LEMMA ResponseOpen ==
    ASSUME NEW rpc, NEW body, outcome' = NewResponse(rpc, body)
    PROVE  outcome'.code \notin DefiniteRefusals
  BY DEF NewResponse, Outcome, DefiniteRefusals

\* A prompt that pi took, or did not, with such an answer.
LEMMA TakesTried ==
    ASSUME Takes \/ UNCHANGED <<prompt, delivered>>, outcome'.code \notin DefiniteRefusals
    PROVE  Tried
  BY DEF Takes, Tried

\* Pi refused the prompt, or exited.
LEMMA FailsTried ==
    ASSUME NEW rpc, PromptFails(rpc)
    PROVE  Tried
<1>1. outcome' = Refusal(rpc, Plain, TRUE) /\ (Takes \/ UNCHANGED <<prompt, delivered>>)
  BY DEF PromptFails
<1>2. outcome'.code \notin DefiniteRefusals
  BY <1>1, RefusalOpen
<1> QED
  BY <1>1, <1>2, TakesTried

\* The acknowledgement is late.
LEMMA PendingTried ==
    ASSUME NEW rpc, NEW id, PromptPending(rpc, id)
    PROVE  Tried
<1>1. PICK error \in PendingErrors : outcome' = Refusal(rpc, error, TRUE)
  BY DEF PromptPending
<1>2. outcome'.code \notin DefiniteRefusals
  BY <1>1, RefusalOpen DEF PendingErrors
<1> QED
  BY <1>2 DEF PromptPending, Tried

\* Send and Submit try the message at most once, and tell.
LEMMA SendTried ==
    ASSUME NEW rpc, NEW id, NEW Bodies, Send(rpc, id, Bodies)
    PROVE  Tried
<1>1. CASE \E Errors : Unsent(rpc, id, Errors)
  BY <1>1 DEF Unsent, Tried
<1>2. CASE Takes /\ \E body \in Bodies : outcome' = NewResponse(rpc, body)
  BY <1>2, ResponseOpen, TakesTried
<1>3. CASE Takes /\ \E error \in CallErrors \cup {{"connect.Error"}} : outcome' = Refusal(rpc, error, TRUE)
  <2>1. outcome'.code \notin DefiniteRefusals
    BY <1>3, RefusalOpen DEF CallErrors
  <2> QED
    BY <1>3, <2>1, TakesTried
<1> QED
  BY <1>1, <1>2, <1>3, FailsTried, PendingTried DEF Send

\* The same of Submit.
LEMMA SubmitTried ==
    ASSUME NEW req, Submit(req)
    PROVE  Tried
<1>1. CASE \E id, Errors : Unsent("SubmitMessage", id, Errors)
  BY <1>1 DEF Unsent, Tried
<1>2. CASE Takes /\ \E body : outcome' = NewResponse("SubmitMessage", body)
  BY <1>2, ResponseOpen, TakesTried
<1> QED
  BY <1>1, <1>2, FailsTried, PendingTried DEF Submit

\* Every step keeps Once.
LEMMA NextOnce == Once /\ [ApiNext]_apiVars => Once'
<1> SUFFICES ASSUME Once, [ApiNext]_apiVars PROVE Once'
  OBVIOUS
<1>1. ASSUME UNCHANGED <<attempt, prompt, delivered>>
      PROVE  Once'
  BY <1>1 DEF Once
<1>2. ASSUME NEW rpc, NEW id, NEW Bodies, Asks(rpc, id, Bodies)
      PROVE  Once'
  BY <1>1, <1>2 DEF Asks, clientVars
<1>3. CASE GetCapabilities \/ GetSession \/ ListSessions \/ GetAvailableModels \/ ListDirectories
           \/ ListHostCalls \/ RespondHostCall
  <2>1. CASE GetCapabilities
    BY <1>1, <1>2, <2>1 DEF GetCapabilities, clientVars
  <2>2. CASE GetSession
    BY <1>2, <2>2 DEF GetSession
  <2>3. CASE GetAvailableModels
    BY <1>1, <1>2, <2>3 DEF GetAvailableModels, clientVars
  <2> QED
    BY <1>1, <1>3, <2>1, <2>2, <2>3 DEF ListSessions, ListDirectories, ListHostCalls, RespondHostCall, clientVars
<1>4. CASE GetTurn
  BY <1>1, <1>2, <1>4 DEF GetTurn, clientVars
<1>5. CASE ListEntries
  BY <1>1, <1>5 DEF ListEntries
<1>6. ASSUME NEW rpc, NEW id, UNCHANGED <<prompt, delivered>> \/ Tried, Concludes
      PROVE  Once'
  BY <1>6, TriedOnce DEF Tried
<1>7. CASE SendMessage
  <2>1. Concludes /\ (UNCHANGED <<prompt, delivered>> \/ Tried)
    BY <1>7, SendTried DEF SendMessage, SendsTo
  <2> QED
    BY <1>6, <2>1
<1>8. CASE StreamMessage
  <2>1. Concludes /\ (UNCHANGED <<prompt, delivered>> \/ Tried)
    BY <1>8, SendTried DEF StreamMessage, SendsTo
  <2> QED
    BY <1>6, <2>1
<1>9. CASE SubmitMessage
  <2>1. Concludes /\ (UNCHANGED <<prompt, delivered>> \/ Tried)
    BY <1>9, SubmitTried DEF SubmitMessage, SendsTo, Unsent
  <2> QED
    BY <1>6, <2>1
<1>10. CASE PiAcknowledges
  BY <1>10 DEF PiAcknowledges, Once
<1> QED
  BY <1>1, <1>3, <1>4, <1>5, <1>7, <1>8, <1>9, <1>10 DEF ApiNext, apiVars, clientVars, CreateSession, AbortSession,
     DeleteSession, RefusedAtDoor, PiAppends, PiPersists, RunChanges, ProcessEnds

\* A client that sends its message again only after an answer whose code says
\* that it was not sent has it delivered at most once (rpcError,
\* pendingCommandError).
THEOREM DeliveredOnce == ApiSpec => []PromptDeliveredOnce
<1>1. ApiInit => Once
  BY DEF ApiInit, Once
<1>2. Once => PromptDeliveredOnce
  BY DEF Once, PromptDeliveredOnce
<1> QED
  BY <1>1, <1>2, NextOnce, PTL DEF ApiSpec

-----------------------------------------------------------------------------
(* The Pi API: a transcript that is followed cursor by cursor. *)

\* Every sequence of entries there is: in a file, in a process, at the client.
Versions ==
    ({stored[id] : id \in SessionIds} \cup {live[id] : id \in SessionIds} \cup {transcript[id] : id \in SessionIds})
        \ {Gone}

\* Two that share an entry are the same up to it.
Agree(s, t) ==
    \A i \in 1..Len(s), j \in 1..Len(t) :
        s[i] = t[j] => i = j /\ \A k \in 1..i : s[k] = t[k]

VersionTypeOK ==
    /\ minted \in Nat
    /\ stored \in [SessionIds -> Seq(Nat) \cup {Gone}]
    /\ live \in [SessionIds -> Seq(Nat) \cup {Gone}]
    /\ transcript \in [SessionIds -> Seq(Nat)]

Coherent ==
    /\ VersionTypeOK
    /\ \A s \in Versions : s \in Seq(1..minted)
    /\ \A s, t \in Versions : Agree(s, t)

\* No entries agree with any.
LEMMA EmptyAgrees ==
    /\ <<>> \in Seq(1..minted)
    /\ \A s : Agree(<<>>, s) /\ Agree(s, <<>>)
  BY DEF Agree

\* A step that moves versions around makes no new one.
LEMMA NoNewVersion ==
    ASSUME Coherent, minted' = minted,
           stored' \in [SessionIds -> Versions \cup {Gone, <<>>}],
           live' \in [SessionIds -> Versions \cup {Gone, <<>>}],
           transcript' \in [SessionIds -> Versions \cup {<<>>}]
    PROVE  Coherent'
<1>1. Versions' \subseteq Versions \cup {<<>>}
  BY DEF Versions
<1>2. \A s \in Versions \cup {<<>>} : s \in Seq(1..minted) /\ s \in Seq(Nat)
  <2>1. \A s \in Versions : s \in Seq(1..minted)
    BY DEF Coherent
  <2>2. Seq(1..minted) \subseteq Seq(Nat)
    BY DEF Coherent, VersionTypeOK
  <2> QED
    BY <2>1, <2>2, EmptyAgrees
<1>3. \A s, t \in Versions \cup {<<>>} : Agree(s, t)
  BY EmptyAgrees DEF Coherent
<1>4. VersionTypeOK'
  BY <1>2 DEF Coherent, VersionTypeOK
<1> QED
  BY <1>1, <1>2, <1>3, <1>4 DEF Coherent

\* The versions of today.
LEMMA VersionsAre ==
    ASSUME Coherent
    PROVE  /\ stored \in [SessionIds -> Versions \cup {Gone, <<>>}]
           /\ live \in [SessionIds -> Versions \cup {Gone, <<>>}]
           /\ transcript \in [SessionIds -> Versions \cup {<<>>}]
           /\ \A id \in SessionIds : Held(id) # Gone => Held(id) \in Versions
<1>1. \A id \in SessionIds : transcript[id] # Gone
  <2>1. Gone \notin Seq(Nat)
    BY ApiAssumption
  <2> QED
    BY <2>1 DEF Coherent, VersionTypeOK
<1> QED
  BY <1>1 DEF Coherent, VersionTypeOK, Versions, Held

\* An attached session's process holds what it held, or what its file has.
LEMMA AttachesMoves ==
    ASSUME Coherent, NEW id \in SessionIds \cup {Unset}, Attaches(id) \/ UNCHANGED live
    PROVE  live' \in [SessionIds -> Versions \cup {Gone, <<>>}]
<1>1. CASE Attaches(id)
  <2>1. live' = [live EXCEPT ![id] = Held(id)] /\ Held(id) # Gone
    BY <1>1 DEF Attaches
  <2>2. CASE id \in SessionIds
    BY <2>1, <2>2, VersionsAre
  <2>3. CASE id \notin SessionIds
    BY <1>1, <2>3 DEF Attaches
  <2> QED
    BY <2>2, <2>3
<1> QED
  BY <1>1, VersionsAre

\* A handler that reads, or sends, changes no entries.
LEMMA AttachesKeeps ==
    ASSUME Coherent, NEW id \in SessionIds \cup {Unset}, Attaches(id) \/ UNCHANGED live,
           UNCHANGED <<stored, minted, transcript>>
    PROVE  Coherent'
  BY AttachesMoves, VersionsAre, NoNewVersion

\* A sequence is its beginning and the rest of it.
LEMMA Resumed ==
    ASSUME NEW S, NEW t \in Seq(S), NEW h \in Seq(S), NEW n \in Nat, n = Len(t), n <= Len(h),
           \A k \in 1..n : h[k] = t[k]
    PROVE  t \o SubSeq(h, n + 1, Len(h)) = h
<1> DEFINE rest == SubSeq(h, n + 1, Len(h))
           all  == t \o rest
<1>1. Len(h) \in Nat /\ n + 1 \in Int /\ \A i \in (n + 1)..Len(h) : h[i] \in S
  OBVIOUS
<1>2. /\ rest \in Seq(S) /\ Len(rest) = Len(h) - n
      /\ \A k \in 1..(Len(h) - n) : rest[k] = h[n + k]
  <2>1. /\ rest \in Seq(S)
        /\ Len(rest) = IF n + 1 <= Len(h) THEN Len(h) - (n + 1) + 1 ELSE 0
        /\ \A i \in 1..(Len(h) - (n + 1) + 1) : rest[i] = h[(n + 1) + i - 1]
    BY <1>1, SubSeqProperties
  <2>2. Len(h) - (n + 1) + 1 = Len(h) - n /\ \A k \in Nat : (n + 1) + k - 1 = n + k
    BY <1>1
  <2> HIDE DEF rest
  <2>3. Len(rest) = Len(h) - n
    <3>1. CASE n + 1 <= Len(h)
      BY <2>1, <2>2, <3>1
    <3>2. CASE n = Len(h)
      BY <1>1, <2>1, <3>2
    <3> QED
      BY <1>1, <3>1, <3>2
  <2>4. ASSUME NEW k \in 1..(Len(h) - n)
        PROVE  rest[k] = h[n + k]
    <3>1. k \in 1..(Len(h) - (n + 1) + 1) /\ (n + 1) + k - 1 = n + k
      BY <2>2
    <3>2. rest[k] = h[(n + 1) + k - 1]
      BY <2>1, <3>1
    <3> QED
      BY <3>1, <3>2
  <2> QED
    BY <2>1, <2>3, <2>4
<1> HIDE DEF rest
<1>3. /\ all \in Seq(S) /\ Len(all) = Len(h)
      /\ \A k \in 1..Len(h) : all[k] = IF k <= n THEN t[k] ELSE rest[k - n]
  BY <1>1, <1>2, ConcatProperties
<1> HIDE DEF all
<1>4. ASSUME NEW k \in 1..Len(h)
      PROVE  all[k] = h[k]
  <2>1. CASE k <= n
    BY <1>3, <2>1
  <2>2. CASE ~(k <= n)
    <3>1. k - n \in 1..(Len(h) - n) /\ n + (k - n) = k
      BY <1>1, <2>2
    <3> QED
      BY <1>2, <1>3, <2>2, <3>1
  <2> QED
    BY <2>1, <2>2
<1>5. all = h
  BY <1>3, <1>4, SeqEqual
<1> QED
  BY <1>5 DEF all, rest

\* What the client has and is given is what the session holds.
LEMMA GivenExactly ==
    ASSUME Coherent, NEW id \in SessionIds, Held(id) # Gone,
           NEW got, got = EntriesAfter(id, LastOf(transcript[id])), got.found
    PROVE  transcript[id] \o got.entries = Held(id)
<1> DEFINE t == transcript[id]
           h == Held(id)
           p == Place(h, LastOf(t))
<1>1. /\ h \in Versions /\ t \in Versions /\ minted \in Nat
      /\ h \in Seq(1..minted) /\ t \in Seq(1..minted) /\ Agree(h, t)
  <2>1. t # Gone
    BY ApiAssumption DEF Coherent, VersionTypeOK
  <2>2. t \in Versions
    BY <2>1 DEF Versions
  <2> QED
    BY <2>2, VersionsAre DEF Coherent, VersionTypeOK
<1>2. got.entries = SubSeq(h, p + 1, Len(h)) /\ (LastOf(t) = 0 \/ p # 0)
  BY DEF EntriesAfter
<1>3. CASE t = <<>>
  <2>1. LastOf(t) = 0 /\ \A i \in DOMAIN h : h[i] # 0
    BY <1>1, <1>3 DEF LastOf
  <2>2. p = 0
    BY <2>1 DEF Place
  <2> HIDE DEF h, p
  <2>3. got.entries = h
    BY <1>1, <1>2, <2>2
  <2> QED
    BY <1>1, <1>3, <2>3 DEF h
<1>4. CASE t # <<>>
  <2> DEFINE n == Len(t)
  <2>1. n \in 1..n /\ LastOf(t) = t[n] /\ LastOf(t) # 0 /\ n \in Nat /\ DOMAIN h = 1..Len(h)
    BY <1>1, <1>4 DEF LastOf
  <2>2. p \in DOMAIN h /\ h[p] = t[n]
    BY <1>2, <2>1 DEF Place
  <2> HIDE DEF p
  <2>3. p = n /\ \A k \in 1..n : h[k] = t[k]
    BY <1>1, <2>1, <2>2 DEF Agree
  <2>4. n <= Len(h) /\ n \in Nat
    BY <1>1, <2>1, <2>2, <2>3
  <2>5. got.entries = SubSeq(h, n + 1, Len(h))
    BY <1>2, <2>3
  <2> HIDE DEF t, h
  <2> QED
    BY <1>1, <2>3, <2>4, <2>5, Resumed DEF t, h
<1> QED
  BY <1>3, <1>4

\* The client appends what it is given, which completes a version, or starts anew.
LEMMA ListEntriesKeeps ==
    ASSUME Coherent, ListEntries
    PROVE  Coherent'
<1>0. PICK id \in SessionIds : \E req \in ListEntriesRequest({LastOf(transcript[id])}) :
        /\ req.session_id = id
        /\ UNCHANGED <<stored, minted>>
        /\ \/ (Attaches(id) \/ UNCHANGED live) /\ UNCHANGED transcript
           \/ /\ Attaches(id)
              /\ IF EntriesAfter(id, req.after_cursor).found
                 THEN transcript' = [transcript EXCEPT ![id] = @ \o EntriesAfter(id, req.after_cursor).entries]
                 ELSE transcript' = [transcript EXCEPT ![id] = <<>>]
  BY DEF ListEntries, AttachFails
<1>1. PICK req \in ListEntriesRequest({LastOf(transcript[id])}) :
        /\ req.session_id = id
        /\ UNCHANGED <<stored, minted>>
        /\ \/ (Attaches(id) \/ UNCHANGED live) /\ UNCHANGED transcript
           \/ /\ Attaches(id)
              /\ IF EntriesAfter(id, req.after_cursor).found
                 THEN transcript' = [transcript EXCEPT ![id] = @ \o EntriesAfter(id, req.after_cursor).entries]
                 ELSE transcript' = [transcript EXCEPT ![id] = <<>>]
  BY <1>0
<1>2. CASE UNCHANGED transcript /\ (Attaches(id) \/ UNCHANGED live)
  BY <1>1, <1>2, AttachesKeeps
<1>3. CASE Attaches(id) /\ transcript' = [transcript EXCEPT ![id] = <<>>]
  BY <1>1, <1>3, AttachesMoves, VersionsAre, NoNewVersion
<1>4. CASE /\ Attaches(id) /\ EntriesAfter(id, req.after_cursor).found
           /\ transcript' = [transcript EXCEPT ![id] = @ \o EntriesAfter(id, req.after_cursor).entries]
  <2>1. req.after_cursor = LastOf(transcript[id])
    BY DEF ListEntriesRequest
  <2>2. Held(id) # Gone
    BY <1>4 DEF Attaches
  <2>3. transcript[id] \o EntriesAfter(id, req.after_cursor).entries = Held(id)
    BY <1>4, <2>1, <2>2, GivenExactly
  <2>4. transcript' = [transcript EXCEPT ![id] = Held(id)]
    BY <1>4, <2>3
  <2>5. transcript' \in [SessionIds -> Versions \cup {<<>>}]
    BY <2>2, <2>4, VersionsAre
  <2> QED
    BY <1>1, <1>4, <2>5, AttachesMoves, VersionsAre, NoNewVersion
<1> QED
  BY <1>1, <1>2, <1>3, <1>4

\* A new entry is in no version but the one it is appended to.
LEMMA AppendsKeeps ==
    ASSUME Coherent, PiAppends
    PROVE  Coherent'
<1>1. PICK id \in runs :
        /\ live[id] # Gone /\ minted' = minted + 1
        /\ live' = [live EXCEPT ![id] = Append(@, minted + 1)]
        /\ UNCHANGED <<stored, transcript>>
  BY DEF PiAppends, clientVars
<1> DEFINE s == live[id]
           new == Append(s, minted + 1)
<1>2. CASE id \notin SessionIds
  <2>1. live' = live
    BY <1>1, <1>2 DEF Coherent, VersionTypeOK
  <2>2. Versions' = Versions /\ minted \in Nat
    BY <1>1, <2>1 DEF Versions, Coherent, VersionTypeOK
  <2>3. Seq(1..minted) \subseteq Seq(1..(minted + 1))
    BY <2>2
  <2>4. \A u \in Versions' : u \in Seq(1..minted')
    BY <1>1, <2>2, <2>3 DEF Coherent
  <2>5. \A u, v \in Versions' : Agree(u, v)
    BY <2>2 DEF Coherent
  <2>6. VersionTypeOK'
    <3>1. minted' \in Nat /\ UNCHANGED <<stored, live, transcript>>
      BY <1>1, <2>1, <2>2
    <3> QED
      BY <3>1 DEF Coherent, VersionTypeOK
  <2> QED
    BY <2>4, <2>5, <2>6 DEF Coherent
<1>3. CASE id \in SessionIds
  <2>1. s \in Versions /\ minted \in Nat /\ s \in Seq(1..minted)
    BY <1>1, <1>3 DEF Versions, Coherent, VersionTypeOK
  <2>2. Versions' \subseteq Versions \cup {new}
    BY <1>1, <1>3 DEF Versions, Coherent, VersionTypeOK
  <2>3. /\ new \in Seq(1..(minted + 1)) /\ Len(new) = Len(s) + 1 /\ Len(s) \in Nat
        /\ new[Len(s) + 1] = minted + 1 /\ \A i \in 1..Len(s) : new[i] = s[i]
    <3>1. s \in Seq(1..(minted + 1)) /\ minted + 1 \in 1..(minted + 1)
      BY <2>1
    <3> QED
      BY <2>1, <3>1
  <2>4. Seq(1..minted) \subseteq Seq(1..(minted + 1)) /\ Seq(1..(minted + 1)) \subseteq Seq(Nat)
    BY <2>1
  <2> HIDE DEF new
  <2>5. VersionTypeOK'
    <3>1. live' = [live EXCEPT ![id] = new]
      BY <1>1 DEF new
    <3> HIDE DEF s
    <3> QED
      BY <1>1, <1>3, <2>1, <2>3, <2>4, <3>1 DEF Coherent, VersionTypeOK
  <2>6. ASSUME NEW u \in Versions' PROVE u \in Seq(1..minted')
    BY <1>1, <2>2, <2>3, <2>4 DEF Coherent
  <2>7. ASSUME NEW t \in Versions
        PROVE  Agree(new, t) /\ Agree(t, new)
    <3>1. t \in Seq(1..minted) /\ Agree(s, t) /\ Agree(t, s)
      BY <2>1 DEF Coherent
    <3> HIDE DEF s
    <3>2. \A j \in 1..Len(t) : t[j] \in 1..minted /\ t[j] # minted + 1
      BY <2>1, <3>1
    <3>3. ASSUME NEW i \in 1..Len(new), NEW j \in 1..Len(t), new[i] = t[j]
          PROVE  i = j /\ \A k \in 1..i : new[k] = t[k]
      <4>1. i \in 1..Len(s)
        BY <2>3, <3>2, <3>3
      <4>2. s[i] = t[j]
        BY <2>3, <3>3, <4>1
      <4>3. i = j /\ \A k \in 1..i : s[k] = t[k]
        BY <3>1, <4>1, <4>2 DEF Agree
      <4> QED
        BY <2>3, <4>1, <4>3
    <3>4. Agree(new, t)
      BY <3>3 DEF Agree
    <3>5. ASSUME NEW i \in 1..Len(t), NEW j \in 1..Len(new), t[i] = new[j]
          PROVE  i = j /\ \A k \in 1..i : t[k] = new[k]
      BY <3>3, <3>5
    <3>6. Agree(t, new)
      BY <3>5 DEF Agree
    <3> QED
      BY <3>4, <3>6
  <2>8. Agree(new, new)
    <3>1. Agree(new, s) /\ Agree(s, new) /\ Agree(s, s)
      BY <2>1, <2>7 DEF Coherent
    <3> HIDE DEF s
    <3>2. ASSUME NEW i \in 1..Len(new), NEW j \in 1..Len(new), new[i] = new[j]
          PROVE  i = j
      <4>1. \A k \in 1..Len(s) : s[k] \in 1..minted /\ s[k] # minted + 1
        BY <2>1
      <4>2. CASE i \in 1..Len(s) /\ j \in 1..Len(s)
        BY <2>3, <3>1, <3>2, <4>2 DEF Agree
      <4>3. CASE i = Len(s) + 1 \/ j = Len(s) + 1
        BY <2>3, <3>2, <4>1, <4>3
      <4> QED
        BY <2>3, <4>2, <4>3
    <3> QED
      BY <3>2 DEF Agree
  <2>9. \A u, v \in Versions' : Agree(u, v)
    BY <2>2, <2>7, <2>8 DEF Coherent
  <2> QED
    BY <2>5, <2>6, <2>9 DEF Coherent
<1> QED
  BY <1>2, <1>3

\* Every step keeps the versions coherent.
LEMMA NextCoherent == Coherent /\ [ApiNext]_apiVars => Coherent'
<1> SUFFICES ASSUME Coherent, [ApiNext]_apiVars PROVE Coherent'
  OBVIOUS
<1> USE DEF sessionVars, clientVars
<1>0. ASSUME NEW id \in SessionIds \cup {Unset}, Attaches(id) \/ UNCHANGED live,
             UNCHANGED <<stored, minted, transcript>>
      PROVE  Coherent'
  BY <1>0, AttachesKeeps
<1>1. ASSUME UNCHANGED <<live, stored, minted, transcript>>
      PROVE  Coherent'
  BY <1>0, <1>1
<1>2. CASE GetCapabilities
  <2>1. PICK req \in GetCapabilitiesRequest :
          /\ Attaches(req.session_id) \/ UNCHANGED live
          /\ UNCHANGED <<stored, minted, transcript>>
    BY <1>2 DEF GetCapabilities, Asks, AttachFails
  <2>2. req.session_id \in SessionIds \cup {Unset}
    BY DEF GetCapabilitiesRequest, SessionId, Optional
  <2> QED
    BY <1>0, <2>1, <2>2
<1>3. CASE GetSession
  <2>1. PICK req \in GetSessionRequest :
          /\ Attaches(req.session_id) \/ UNCHANGED live
          /\ UNCHANGED <<stored, minted, transcript>>
    BY <1>3 DEF GetSession, Asks, AttachFails
  <2>2. req.session_id \in SessionIds \cup {Unset}
    BY DEF GetSessionRequest, SessionId, Optional
  <2> QED
    BY <1>0, <2>1, <2>2
<1>4. CASE GetAvailableModels
  <2>1. PICK req \in GetAvailableModelsRequest :
          /\ Attaches(req.session_id) \/ UNCHANGED live
          /\ UNCHANGED <<stored, minted, transcript>>
    BY <1>4 DEF GetAvailableModels, Asks, AttachFails
  <2>2. req.session_id \in SessionIds \cup {Unset}
    BY DEF GetAvailableModelsRequest, SessionId, Optional
  <2> QED
    BY <1>0, <2>1, <2>2
<1>5. CASE GetTurn
  <2>1. PICK req \in GetTurnRequest(0..MaxEntries) :
          /\ Attaches(req.session_id) \/ UNCHANGED live
          /\ UNCHANGED <<stored, minted, transcript>>
    BY <1>5 DEF GetTurn, Asks, AttachFails
  <2>2. req.session_id \in SessionIds \cup {Unset}
    BY DEF GetTurnRequest, SessionId, Optional
  <2> QED
    BY <1>0, <2>1, <2>2
<1>6. CASE SendMessage
  <2>1. PICK req \in SendMessageRequest :
          /\ Attaches(req.session_id) \/ UNCHANGED live
          /\ UNCHANGED <<stored, minted, transcript>>
    BY <1>6 DEF SendMessage, SendsTo, AttachFails
  <2>2. req.session_id \in SessionIds \cup {Unset}
    BY DEF SendMessageRequest, SessionId, Optional
  <2> QED
    BY <1>0, <2>1, <2>2
<1>7. CASE StreamMessage
  <2>1. PICK req \in StreamMessageRequest :
          /\ Attaches(req.session_id) \/ UNCHANGED live
          /\ UNCHANGED <<stored, minted, transcript>>
    BY <1>7 DEF StreamMessage, SendsTo, AttachFails
  <2>2. req.session_id \in SessionIds \cup {Unset}
    BY DEF StreamMessageRequest, SessionId, Optional
  <2> QED
    BY <1>0, <2>1, <2>2
<1>8. CASE SubmitMessage
  <2>1. PICK req \in SubmitMessageRequest :
          /\ Attaches(req.session_id) \/ UNCHANGED live
          /\ UNCHANGED <<stored, minted, transcript>>
    BY <1>8 DEF SubmitMessage, SendsTo, AttachFails
  <2>2. req.session_id \in SessionIds \cup {Unset}
    BY DEF SubmitMessageRequest, SessionId, Optional
  <2> QED
    BY <1>0, <2>1, <2>2
<1>9. CASE CreateSession
  <2>1. /\ UNCHANGED <<stored, minted, transcript>>
        /\ live' = live \/ \E id \in SessionIds : live' = [live EXCEPT ![id] = <<>>]
    BY <1>9 DEF CreateSession
  <2>2. live' \in [SessionIds -> Versions \cup {Gone, <<>>}]
    BY <2>1, VersionsAre
  <2> QED
    BY <2>1, <2>2, VersionsAre, NoNewVersion
<1>10. CASE DeleteSession
  <2>1. /\ UNCHANGED <<minted, transcript>>
        /\ live' = live \/ \E id : live' = [live EXCEPT ![id] = Gone]
        /\ stored' = stored \/ \E id : stored' = [stored EXCEPT ![id] = Gone]
    BY <1>10 DEF DeleteSession
  <2>2. live' \in [SessionIds -> Versions \cup {Gone, <<>>}]
    BY <2>1, VersionsAre
  <2>3. stored' \in [SessionIds -> Versions \cup {Gone, <<>>}]
    BY <2>1, VersionsAre
  <2> QED
    BY <2>1, <2>2, <2>3, VersionsAre, NoNewVersion
<1>11. CASE PiPersists
  <2>1. PICK id \in SessionIds :
          /\ stored' = [stored EXCEPT ![id] = live[id]] /\ UNCHANGED <<live, minted, transcript>>
    BY <1>11 DEF PiPersists
  <2>2. stored' \in [SessionIds -> Versions \cup {Gone, <<>>}]
    BY <2>1, VersionsAre
  <2> QED
    BY <2>1, <2>2, VersionsAre, NoNewVersion
<1>12. CASE ProcessEnds
  <2>1. PICK id \in SessionIds :
          /\ live' = [live EXCEPT ![id] = Gone] /\ UNCHANGED <<stored, minted, transcript>>
    BY <1>12 DEF ProcessEnds
  <2>2. live' \in [SessionIds -> Versions \cup {Gone, <<>>}]
    BY <2>1, VersionsAre
  <2> QED
    BY <2>1, <2>2, VersionsAre, NoNewVersion
<1>13. CASE UNCHANGED apiVars
  BY <1>1, <1>13 DEF apiVars
<1>14. CASE ListSessions \/ ListDirectories \/ ListHostCalls \/ RespondHostCall \/ AbortSession \/ RefusedAtDoor
            \/ RunChanges \/ PiAcknowledges
  BY <1>1, <1>14 DEF ListSessions, ListDirectories, ListHostCalls, RespondHostCall, AbortSession, RefusedAtDoor,
     RunChanges, PiAcknowledges
<1> QED
  BY <1>2, <1>3, <1>4, <1>5, <1>6, <1>7, <1>8, <1>9, <1>10, <1>11, <1>12, <1>13, <1>14,
     ListEntriesKeeps, AppendsKeeps DEF ApiNext

\* At first there are no entries.
LEMMA InitCoherent == ApiInit => Coherent
<1> SUFFICES ASSUME ApiInit PROVE Coherent
  OBVIOUS
<1>1. /\ minted = 0 /\ stored = [id \in SessionIds |-> Gone] /\ live = [id \in SessionIds |-> Gone]
      /\ transcript = [id \in SessionIds |-> <<>>]
  BY DEF ApiInit
<1>2. Versions \subseteq {<<>>}
  BY <1>1 DEF Versions
<1>3. VersionTypeOK
  BY <1>1 DEF VersionTypeOK
<1> QED
  BY <1>2, <1>3, EmptyAgrees DEF Coherent

\* A transcript and what its session holds are versions.
LEMMA CoherentExact ==
    ASSUME Coherent
    PROVE  TranscriptExact
<1> SUFFICES ASSUME NEW id \in SessionIds, Held(id) # Gone, transcript[id] # <<>>,
                    NEW k \in DOMAIN Held(id), Held(id)[k] = LastOf(transcript[id])
             PROVE  transcript[id] = SubSeq(Held(id), 1, k)
  BY DEF TranscriptExact
<1> DEFINE t == transcript[id]
           h == Held(id)
<1>1. /\ h \in Versions /\ t \in Versions /\ minted \in Nat
      /\ h \in Seq(1..minted) /\ t \in Seq(1..minted) /\ Agree(h, t)
  <2>1. t # Gone
    BY ApiAssumption DEF Coherent, VersionTypeOK
  <2>2. t \in Versions
    BY <2>1 DEF Versions
  <2> QED
    BY <2>2, VersionsAre DEF Coherent, VersionTypeOK
<1>2. Len(t) \in 1..Len(t) /\ h[k] = t[Len(t)] /\ k \in 1..Len(h) /\ k \in Nat
  BY <1>1 DEF LastOf
<1> HIDE DEF h, t
<1>3. k = Len(t) /\ \A i \in 1..k : h[i] = t[i]
  BY <1>1, <1>2 DEF Agree
<1>4. /\ SubSeq(h, 1, k) \in Seq(1..minted) /\ Len(SubSeq(h, 1, k)) = k
      /\ \A i \in 1..k : SubSeq(h, 1, k)[i] = h[i]
  BY <1>1, <1>2
<1>5. t = SubSeq(h, 1, k)
  BY <1>1, <1>3, <1>4, SeqEqual
<1> QED
  BY <1>5 DEF t, h

\* What a client has put together of a transcript is what the session holds up to
\* the last of it, also after a process lost entries (getEntries).
THEOREM TranscriptsExact == ApiSpec => []TranscriptExact
<1> QED
  BY InitCoherent, NextCoherent, CoherentExact, PTL DEF ApiSpec

-----------------------------------------------------------------------------
(* Errors have no code "ok" *)

\* The first case that holds is one of the cases.
LEMMA FirstOfIsOne ==
    ASSUME NEW cases, NEW n \in Nat, DOMAIN cases = 1..n, \E i \in 1..n : cases[i].holds
    PROVE  \E i \in 1..n : cases[i].holds /\ FirstOf(cases) = cases[i].error
<1> DEFINE S == {i \in DOMAIN cases : cases[i].holds}
<1>1. S \in SUBSET (1..n) /\ S # {}
  OBVIOUS
<1>2. Min(S) \in S
  BY <1>1, MinIs
<1> QED
  BY <1>2 DEF FirstOf

\* rpcError's codes of the sentinels,
LEMMA SentinelCodes ==
    /\ SentinelCode["ErrNotFound"] = "not_found" /\ SentinelCode["ErrBusy"] = "failed_precondition"
    /\ SentinelCode["ErrTooManySessions"] = "resource_exhausted"
    /\ SentinelCode["ErrCancelled"] = "canceled" /\ SentinelCode["Canceled"] = "canceled"
    /\ SentinelCode["DeadlineExceeded"] = "deadline_exceeded"
    /\ SentinelCode["errBridgeExited"] = "unavailable" /\ SentinelCode["other"] = "internal"
  BY DEF SentinelCode

\* none of which is ok,
LEMMA SentinelRefuses ==
    ASSUME NEW name \in {"ErrNotFound", "ErrBusy", "ErrTooManySessions", "ErrCancelled", "Canceled",
                         "DeadlineExceeded", "errBridgeExited", "other"}
    PROVE  Code(Sentinel(name)) # "ok" /\ Sentinel(name).reason = ""
<1>1. Sentinel(name).is = name /\ Sentinel(name).reason = ""
  BY DEF Sentinel
<1>2. Code(Sentinel(name)) = SentinelCode[name]
  BY <1>1 DEF Code
<1> QED
  BY <1>1, <1>2, SentinelCodes

\* and of a connect error, which is its own.
LEMMA ConnectErrorRefuses ==
    ASSUME NEW code, NEW reason
    PROVE  Code(ConnectError(code, reason)) = code /\ ConnectError(code, reason).reason = reason
  BY DEF Code, ConnectError

\* What the bridge or its startup fails with is no success.
LEMMA RefusalCodes ==
    ASSUME NEW error \in BridgeRefusals \cup StartErrors
    PROVE  Code(error) # "ok"
<1>1. ASSUME NEW e \in BridgeErrors
      PROVE  Code(normalizeRPCError(e)) # "ok"
  <2> DEFINE sdk(codes) == e.detail # NotSet /\ e.detail.sdk_error_code \in codes
             cases == <<
            Case(sdk({"API_KEY_NOT_FOUND", "UNAUTHORIZED"}), apiKeyError),
            Case(sdk({"AGENT_NOT_FOUND", "RUN_NOT_FOUND"}), Sentinel("ErrNotFound")),
            Case(sdk({"AGENT_BUSY"}), Sentinel("ErrBusy")),
            Case(e.reason = KeyReason, apiKeyError),
            Case(e.code = "not_found", Sentinel("ErrNotFound")),
            Case(e.code = "resource_exhausted", Sentinel("ErrTooManySessions")),
            Case(e.code = "failed_precondition", Sentinel("ErrBusy")),
            Case(e.code = "unauthenticated" /\ looksLikeAPIKeyFailure(e.message), apiKeyError),
            Case(TRUE, ConnectError(e.code, e.reason)) >>
             Errors == {apiKeyError, Sentinel("ErrNotFound"), Sentinel("ErrBusy"),
                        Sentinel("ErrTooManySessions"), ConnectError(e.code, e.reason)}
  <2>1. DOMAIN cases = 1..9 /\ cases[9].holds
    BY DEF Case
  <2>2. \A i \in 1..9 : cases[i].error \in Errors
    BY DEF Case
  <2>3. normalizeRPCError(e) = FirstOf(cases)
    BY DEF normalizeRPCError
  <2>4. normalizeRPCError(e) \in Errors
    <3> HIDE DEF cases, Errors
    <3>1. \E i \in 1..9 : cases[i].holds
      BY <2>1
    <3> QED
      BY <2>1, <2>2, <2>3, <3>1, FirstOfIsOne
  <2>5. e.code # "ok"
    BY DEF BridgeErrors
  <2>6. Code(apiKeyError) = "unauthenticated" /\ Code(ConnectError(e.code, e.reason)) = e.code
    BY ConnectErrorRefuses DEF apiKeyError
  <2>7. /\ Code(Sentinel("ErrNotFound")) # "ok" /\ Code(Sentinel("ErrBusy")) # "ok"
        /\ Code(Sentinel("ErrTooManySessions")) # "ok"
    BY SentinelRefuses
  <2> QED
    BY <2>4, <2>5, <2>6, <2>7
<1>2. ASSUME NEW s \in ContextErrors \cup StartErrors
      PROVE  Code(s) # "ok"
  BY SentinelRefuses DEF ContextErrors, StartErrors, Other
<1> QED
  BY <1>1, <1>2 DEF BridgeRefusals

-----------------------------------------------------------------------------
(* The Cursor API: consumeRun's variables say what the stream said. *)

Told ==
    /\ heard \in Seq(StreamMessages)
    /\ terminal = IF ResultsAt = {} THEN NotSet ELSE LastResult
    /\ statusMessage = IF SaidAt("status") = {} THEN NotSet ELSE LastStatus
    /\ assistantText \in Seq(Words) /\ Transcribes(assistantText)

Answered == Told /\ CursorAnswerTrue

\* At first nothing was said.
LEMMA InitAnswered == CursorApiInit => Answered
<1> SUFFICES ASSUME CursorApiInit PROVE Answered
  OBVIOUS
<1>1. heard = <<>> /\ assistantText = <<>> /\ phase = "idle" /\ terminal = NotSet /\ statusMessage = NotSet
  BY DEF CursorApiInit
<1>2. ResultsAt = {} /\ SaidAt("status") = {} /\ SaidAt("assistant") = {}
  BY <1>1 DEF ResultsAt, SaidAt
<1>3. Transcribes(assistantText)
  BY <1>1, <1>2, FS_EmptySet DEF Transcribes
<1> QED
  BY <1>1, <1>2, <1>3 DEF Answered, Told, CursorAnswerTrue

\* What the messages of a stream are.
LEMMA MessageShape ==
    ASSUME NEW m \in StreamMessages
    PROVE  /\ m.envelope = "result" => m.result \in Results
           /\ m.envelope = "sdk_message" => m.sdk_message.message \in Words \cup {NotSet}
  BY DEF StreamMessages

\* A result is one that the stream had, and no result is NotSet.
LEMMA TerminalIs ==
    ASSUME Told
    PROVE  /\ ResultsAt \in SUBSET (1..Len(heard)) /\ Len(heard) \in Nat
           /\ terminal = NotSet <=> ResultsAt = {}
           /\ ResultsAt # {} => terminal = LastResult /\ terminal \in Results
<1>1. ResultsAt \in SUBSET (1..Len(heard)) /\ Len(heard) \in Nat
  BY DEF Told, ResultsAt
<1>2. ASSUME ResultsAt # {}
      PROVE  LastResult \in Results
  <2>1. Max(ResultsAt) \in ResultsAt
    BY <1>1, <1>2, MaxIs
  <2>2. heard[Max(ResultsAt)] \in StreamMessages /\ heard[Max(ResultsAt)].envelope = "result"
    BY <2>1, <1>1 DEF ResultsAt, Told
  <2> QED
    BY <2>2, MessageShape DEF LastResult
<1>3. NotSet \notin Results
  <2>1. Results \subseteq RunStreamResult
    BY CursorApiAssumption DEF Results, RunStreamResult, RunLifecycleStatus, RunResult, Maybe
  <2> QED
    BY <2>1, CursorApiAssumption
<1> QED
  BY <1>1, <1>2, <1>3 DEF Told

\* One more number at the end.
LEMMA OneMore ==
    ASSUME NEW n \in Nat, NEW S \in SUBSET (1..n)
    PROVE  /\ Max(S \cup {n + 1}) = n + 1
           /\ IsFiniteSet(S)
           /\ Cardinality(S) \in Nat
           /\ Cardinality(S \cup {n + 1}) = Cardinality(S) + 1
           /\ \A i \in S : Cardinality({j \in S : j <= i}) \in 1..Cardinality(S)
<1>1. Max(S \cup {n + 1}) = n + 1
  <2> DEFINE T == S \cup {n + 1}
  <2>1. T \in SUBSET (1..(n + 1)) /\ T # {} /\ n + 1 \in Nat /\ n + 1 \in T
    OBVIOUS
  <2>2. Max(T) \in T /\ \A j \in T : j <= Max(T)
    <3> HIDE DEF T
    <3> QED
      BY <2>1, MaxIs
  <2>3. Max(T) \in 1..(n + 1) /\ n + 1 <= Max(T)
    BY <2>1, <2>2
  <2> QED
    BY <2>3
<1>2. IsFiniteSet(S)
  <2>1. IsFiniteSet(1..n)
    BY FS_Interval
  <2> QED
    BY <2>1, FS_Subset
<1>3. Cardinality(S) \in Nat /\ Cardinality(S \cup {n + 1}) = Cardinality(S) + 1
  BY <1>2, FS_CardinalityType, FS_AddElement
<1>4. ASSUME NEW i \in S
      PROVE  Cardinality({j \in S : j <= i}) \in 1..Cardinality(S)
  <2> DEFINE U == {j \in S : j <= i}
  <2>1. U \in SUBSET S /\ i \in U
    OBVIOUS
  <2> HIDE DEF U
  <2>2. IsFiniteSet(U) /\ Cardinality(U) <= Cardinality(S)
    BY <1>2, <2>1, FS_Subset
  <2>3. Cardinality(U) \in Nat /\ Cardinality(U) # 0
    BY <2>1, <2>2, FS_CardinalityType, FS_EmptySet
  <2> QED
    BY <1>3, <2>2, <2>3 DEF U
<1> QED
  BY <1>1, <1>2, <1>3, <1>4

\* Each message of the stream is taken into account.
LEMMA ReceiveTold ==
    ASSUME Told, Receive
    PROVE  Told'
<1> DEFINE n == Len(heard)
<1>1. PICK m \in StreamMessages : heard' = Append(heard, m) /\ Receives(m)
  BY DEF Receive
<1> DEFINE said(type) == m.envelope = "sdk_message" /\ m.sdk_message.type = type /\ m.sdk_message.message # NotSet
<1>2. /\ heard \in Seq(StreamMessages) /\ n \in Nat
      /\ heard' \in Seq(StreamMessages)
      /\ Len(heard') = n + 1 /\ DOMAIN heard' = 1..(n + 1) /\ DOMAIN heard = 1..n
      /\ heard'[n + 1] = m
      /\ \A i \in 1..n : heard'[i] = heard[i]
  BY <1>1 DEF Told
<1>3. /\ ResultsAt \in SUBSET (1..n)
      /\ ResultsAt' = IF m.envelope = "result" THEN ResultsAt \cup {n + 1} ELSE ResultsAt
  BY <1>2 DEF ResultsAt
<1>4. ASSUME NEW type
      PROVE  /\ SaidAt(type) \in SUBSET (1..n)
             /\ SaidAt(type)' = IF said(type) THEN SaidAt(type) \cup {n + 1} ELSE SaidAt(type)
  BY <1>2 DEF SaidAt
<1>5. terminal' = IF ResultsAt' = {} THEN NotSet ELSE LastResult'
  <2>1. CASE m.envelope = "result"
    <3>1. ResultsAt' = ResultsAt \cup {n + 1} /\ Max(ResultsAt') = n + 1
      BY <1>2, <1>3, <2>1, OneMore
    <3> QED
      BY <1>1, <1>2, <2>1, <3>1 DEF Receives, LastResult
  <2>2. CASE m.envelope # "result"
    <3>1. ResultsAt' = ResultsAt /\ terminal' = terminal
      BY <1>1, <1>3, <2>2 DEF Receives
    <3>2. ResultsAt # {} => Max(ResultsAt) \in 1..n
      BY <1>2, <1>3, MaxIs
    <3> QED
      BY <1>2, <3>1, <3>2 DEF Told, LastResult
  <2> QED
    BY <2>1, <2>2
<1>6. statusMessage' = IF SaidAt("status")' = {} THEN NotSet ELSE LastStatus'
  <2>1. CASE said("status")
    <3>1. SaidAt("status")' = SaidAt("status") \cup {n + 1} /\ Max(SaidAt("status")') = n + 1
      BY <1>2, <1>4, <2>1, OneMore
    <3> QED
      BY <1>1, <1>2, <2>1, <3>1 DEF Receives, LastStatus
  <2>2. CASE ~said("status")
    <3>1. SaidAt("status")' = SaidAt("status") /\ statusMessage' = statusMessage
      BY <1>1, <1>4, <2>2 DEF Receives
    <3>2. SaidAt("status") # {} => Max(SaidAt("status")) \in 1..n
      BY <1>2, <1>4, MaxIs
    <3> QED
      BY <1>2, <3>1, <3>2 DEF Told, LastStatus
  <2> QED
    BY <2>1, <2>2
<1>7. assistantText' \in Seq(Words) /\ Transcribes(assistantText)'
  <2> DEFINE S == SaidAt("assistant")
  <2>0. /\ S \in SUBSET (1..n) /\ assistantText \in Seq(Words) /\ Len(assistantText) = Cardinality(S)
        /\ \A i \in S : assistantText[Cardinality({j \in S : j <= i})] = heard[i].sdk_message.message
    BY <1>4 DEF Told, Transcribes
  <2>1. CASE said("assistant")
    <3>1. assistantText' = Append(assistantText, m.sdk_message.message) /\ m.sdk_message.message \in Words
      BY <1>1, <2>1, MessageShape DEF Receives
    <3>2. S' = S \cup {n + 1}
      BY <1>4, <2>1
    <3>3. /\ Cardinality(S) \in Nat /\ Cardinality(S \cup {n + 1}) = Cardinality(S) + 1
          /\ \A i \in S : Cardinality({j \in S : j <= i}) \in 1..Cardinality(S)
      BY <1>2, <2>0, OneMore
    <3>4. /\ assistantText' \in Seq(Words) /\ Len(assistantText') = Cardinality(S) + 1
          /\ assistantText'[Cardinality(S) + 1] = m.sdk_message.message
          /\ \A k \in 1..Cardinality(S) : assistantText'[k] = assistantText[k]
      BY <2>0, <3>1, <3>3
    <3>5. ASSUME NEW i \in S \cup {n + 1}
          PROVE  assistantText'[Cardinality({j \in S \cup {n + 1} : j <= i})] = heard'[i].sdk_message.message
      <4>1. CASE i = n + 1
        <5>1. {j \in S \cup {n + 1} : j <= i} = S \cup {n + 1}
          BY <1>2, <2>0, <4>1
        <5> QED
          BY <1>2, <3>3, <3>4, <4>1, <5>1
      <4>2. CASE i \in S
        <5>1. {j \in S \cup {n + 1} : j <= i} = {j \in S : j <= i} /\ i \in 1..n
          BY <1>2, <2>0, <4>2
        <5> QED
          BY <1>2, <2>0, <3>3, <3>4, <4>2, <5>1
      <4> QED
        BY <4>1, <4>2
    <3> QED
      BY <3>2, <3>3, <3>4, <3>5 DEF Transcribes
  <2>2. CASE ~said("assistant")
    <3>1. S' = S /\ assistantText' = assistantText
      BY <1>1, <1>4, <2>2 DEF Receives
    <3>2. \A i \in S : heard'[i] = heard[i]
      BY <1>2, <2>0
    <3> QED
      BY <2>0, <3>1, <3>2 DEF Transcribes
  <2> QED
    BY <2>1, <2>2
<1> QED
  BY <1>2, <1>5, <1>6, <1>7 DEF Told

\* A stream that ended in order is answered with what it said.
LEMMA StreamEndsTrue ==
    ASSUME Told, StreamEnds
    PROVE  CursorAnswerTrue'
<1>1. /\ ended' = "clean" /\ phase' = "over"
      /\ UNCHANGED <<heard, terminal, assistantText, statusMessage>>
  BY DEF StreamEnds
<1>2. /\ ResultsAt' = ResultsAt /\ SaidAt("status")' = SaidAt("status")
      /\ LastResult' = LastResult /\ LastStatus' = LastStatus
      /\ \A text : Transcribes(text)' <=> Transcribes(text)
      /\ \A text : FinalText(text)' <=> FinalText(text)
  BY <1>1 DEF ResultsAt, SaidAt, LastResult, LastStatus, Transcribes, FinalText
<1>3. Finished' <=> ResultsAt # {} /\ LastResult.status = "FINISHED"
  BY <1>1, <1>2 DEF Finished
<1>4. ASSUME NEW Errors, SendFails(Errors)
      PROVE  \E error \in Errors \cup ContextErrors : reply'.code = Code(error) /\ reply'.reason = error.reason
  BY <1>4 DEF SendFails, FailsWith, Failed, ReplyOf
<1>5. ASSUME NEW error \in ContextErrors
      PROVE  Code(error) # "ok" /\ error.reason # KeyReason
  BY SentinelRefuses DEF ContextErrors, KeyReason
<1>6. CASE terminal = NotSet
  <2>1. SendFails({Other})
    BY <1>6 DEF StreamEnds
  <2>2. Code(Other) # "ok" /\ Other.reason # KeyReason
    BY SentinelRefuses DEF Other, KeyReason
  <2>3. reply'.code # "ok" /\ reply'.reason # KeyReason
    BY <1>4, <1>5, <2>1, <2>2
  <2>4. ~Finished'
    BY <1>3, <1>6, TerminalIs
  <2> QED
    BY <2>3, <2>4 DEF CursorAnswerTrue
<1>7. CASE terminal # NotSet /\ terminal.status # "FINISHED"
  <2> DEFINE error == runFailure(terminal.status, terminal.error_code)
  <2>1. SendFails({error})
    BY <1>7 DEF StreamEnds
  <2>2. ResultsAt # {} /\ terminal = LastResult
    BY <1>7, TerminalIs
  <2>3. Code(error) # "ok"
    <3>1. error \in {apiKeyError, Sentinel("ErrCancelled"), Sentinel("other")}
      BY DEF runFailure, Other
    <3>2. Code(apiKeyError) = "unauthenticated"
      BY ConnectErrorRefuses DEF apiKeyError
    <3>3. Code(Sentinel("ErrCancelled")) # "ok" /\ Code(Sentinel("other")) # "ok"
      BY SentinelRefuses
    <3> HIDE DEF error
    <3> QED
      BY <3>1, <3>2, <3>3
  <2>4. error.reason = KeyReason =>
          looksLikeAPIKeyFailure(terminal.error_code) \/ looksLikeAPIKeyFailure(statusMessage)
    BY SentinelRefuses DEF runFailure, Other, KeyReason
  <2>5. looksLikeAPIKeyFailure(statusMessage) => SaidAt("status") # {} /\ looksLikeAPIKeyFailure(LastStatus)
    BY CursorApiAssumption DEF Told, looksLikeAPIKeyFailure
  <2> HIDE DEF error
  <2>6. /\ reply'.code # "ok"
        /\ reply'.reason = KeyReason => error.reason = KeyReason
    BY <1>4, <1>5, <2>1, <2>3
  <2>7. ~Finished'
    BY <1>3, <1>7, <2>2
  <2> QED
    BY <1>2, <2>2, <2>4, <2>5, <2>6, <2>7 DEF CursorAnswerTrue
<1>8. CASE terminal # NotSet /\ terminal.status = "FINISHED"
  <2>1. ResultsAt # {} /\ terminal = LastResult
    BY <1>8, TerminalIs
  <2>2. /\ reply'.code = "ok" /\ reply'.reason = ""
        /\ reply'.body.text = IF terminal.result # NotSet /\ terminal.result.result # NotSet
                              THEN <<terminal.result.result>> ELSE assistantText
    <3> DEFINE text == IF terminal.result # NotSet /\ terminal.result.result # NotSet
                       THEN <<terminal.result.result>> ELSE assistantText
    <3>1. Ok("SendMessage", [text |-> text])
      BY <1>8 DEF StreamEnds
    <3> HIDE DEF text
    <3>2. reply' = ReplyOf("SendMessage", "ok", "", [text |-> text])
      BY <3>1 DEF Ok
    <3> QED
      BY <3>2 DEF ReplyOf, text
  <2>3. FinalText(reply'.body.text)
    BY <2>1, <2>2 DEF FinalText, Told
  <2>4. FinalText(reply.body.text)'
    BY <1>1, <2>3 DEF FinalText, Transcribes, LastResult, ResultsAt, SaidAt
  <2> QED
    BY <1>3, <1>8, <2>1, <2>2, <2>4 DEF CursorAnswerTrue, KeyReason
<1> QED
  BY <1>6, <1>7, <1>8

\* Every step keeps Told, and the answer of a stream that is over.
LEMMA NextAnswered == Answered /\ [CursorApiNext]_cursorApiVars => Answered'
<1> SUFFICES ASSUME Answered, [CursorApiNext]_cursorApiVars PROVE Answered'
  OBVIOUS
<1>1. ASSUME UNCHANGED <<heard, terminal, assistantText, statusMessage>>
      PROVE  Told'
  BY <1>1 DEF Answered, Told, ResultsAt, SaidAt, LastResult, LastStatus, Transcribes
<1>2. ASSUME NewCall, phase' # "over"
      PROVE  Answered'
  BY <1>1, <1>2 DEF NewCall, runVars, Answered, CursorAnswerTrue
<1>3. CASE CursorCreateSession \/ CursorListModels \/ CursorAbort \/ CursorSend
  BY <1>2, <1>3 DEF CursorCreateSession, CursorListModels, CursorAbort, CursorSend, NewCall
<1>4. CASE Receive
  BY <1>4, ReceiveTold DEF Answered, Receive, CursorAnswerTrue
<1>5. CASE CallerLeaves
  BY <1>1, <1>5 DEF CallerLeaves, Answered, CursorAnswerTrue
<1>6. CASE StreamBroke
  <2>1. PICK error \in BridgeRefusals \cup StartErrors : reply'.code = Code(error)
    BY <1>6 DEF StreamBroke, SendFails, FailsWith, Failed, ReplyOf, BridgeRefusals, StartErrors
  <2>2. reply'.code # "ok" /\ ended' = "broken"
    BY <1>6, <2>1, RefusalCodes DEF StreamBroke
  <2> QED
    BY <1>1, <1>6, <2>2 DEF StreamBroke, Answered, CursorAnswerTrue
<1>7. CASE StreamEnds
  BY <1>1, <1>7, StreamEndsTrue DEF StreamEnds, Answered
<1>8. CASE UNCHANGED cursorApiVars
  BY <1>1, <1>8 DEF cursorApiVars, runVars, Answered, CursorAnswerTrue, Finished, FinalText, LastResult, LastStatus,
     Transcribes, ResultsAt, SaidAt
<1> QED
  BY <1>3, <1>4, <1>5, <1>6, <1>7, <1>8 DEF CursorApiNext

\* An answered SendMessage says what its stream said (consumeRun): success only,
\* and always, for a finished run whose stream ended in order, with its text.
THEOREM AnswersTrue == CursorApiSpec => []CursorAnswerTrue
<1>1. Answered => CursorAnswerTrue
  BY DEF Answered
<1> QED
  BY <1>1, InitAnswered, NextAnswered, PTL DEF CursorApiSpec

-----------------------------------------------------------------------------
(* The programs that the box runs *)

\* One caller has the gate, the one whose transient process runs; it looked at
\* the cache before it started one, and nobody else fills it.
Gated ==
    /\ picker \in [Pickers -> {"idle", "gate", "recheck", "spawn", "call", "fetched", "fail"}]
    /\ transient = {p \in Pickers : picker[p] = "call"}
    /\ \A p, q \in Pickers : Fetching(p) /\ Fetching(q) => p = q
    /\ \A p \in Pickers : picker[p] \in {"spawn", "call"} => catalog # "fresh"

\* Every step of a caller, and of the cache, keeps the gate.
LEMMA NextGated == Gated /\ [CatalogNext]_catalogVars => Gated'
<1> SUFFICES ASSUME Gated, [CatalogNext]_catalogVars PROVE Gated'
  OBVIOUS
<1> USE DEF Gated, Fetching, Moves
<1>1. ASSUME NEW p \in Pickers, BoxModels(p) PROVE Gated'
  BY <1>1 DEF BoxModels
<1>2. ASSUME NEW p \in Pickers, EnterGate(p) PROVE Gated'
  BY <1>2 DEF EnterGate
<1>3. ASSUME NEW p \in Pickers, LeaveGate(p) PROVE Gated'
  BY <1>3 DEF LeaveGate
<1>4. ASSUME NEW p \in Pickers, Recheck(p) PROVE Gated'
  BY <1>4 DEF Recheck
<1>5. ASSUME NEW p \in Pickers, StartTransient(p) PROVE Gated'
  BY <1>5 DEF StartTransient
<1>6. ASSUME NEW p \in Pickers, FetchEnds(p) PROVE Gated'
  BY <1>6 DEF FetchEnds
<1>7. ASSUME NEW p \in Pickers, StoreCatalog(p) PROVE Gated'
  BY <1>7 DEF StoreCatalog
<1>8. ASSUME NEW p \in Pickers, ServeStale(p) PROVE Gated'
  BY <1>8 DEF ServeStale
<1>9. CASE TTLPasses \/ StopManager \/ UNCHANGED catalogVars
  BY <1>9 DEF TTLPasses, StopManager, catalogVars
<1> QED
  BY <1>1, <1>2, <1>3, <1>4, <1>5, <1>6, <1>7, <1>8, <1>9 DEF CatalogNext, PickerStep

\* Concurrent callers cost a single spawn, and none while the cache has a fresh
\* answer (boxModels), for any number of callers: the safety part of
\* CatalogServed.
THEOREM SingleSpawn == CatalogSpec => []OneSpawn
<1>1. CatalogInit => Gated
  BY DEF CatalogInit, Gated, Fetching
<1>2. Gated => OneSpawn
  <2> SUFFICES ASSUME Gated PROVE OneSpawn
    OBVIOUS
  <2>1. transient # {} => catalog # "fresh"
    BY DEF Gated
  <2>2. CASE transient = {}
    BY <2>1, <2>2, FS_EmptySet DEF OneSpawn
  <2>3. CASE transient # {}
    <3>1. PICK p \in transient : TRUE
      BY <2>3
    <3>2. transient = {p}
      BY <3>1 DEF Gated, Fetching
    <3>3. Cardinality(transient) = 1
      BY <3>2, FS_Singleton
    <3> QED
      BY <2>1, <3>3 DEF OneSpawn
  <2> QED
    BY <2>2, <2>3
<1> QED
  BY <1>1, <1>2, NextGated, PTL DEF CatalogSpec

\* A startup says what the bridge announced, and is refused without a process or
\* after it was reaped.
Startup ==
    /\ starter = "begin" => process = "none"
    /\ process = "none" => starter \in {"begin", "refused"} /\ stopOnce = "no"
    /\ ready = "good" => told = "good"
    /\ starter \in {"dial", "check", "started"} => told = "good"
    /\ starter \in {"check", "started"} => clients
    /\ starter = "refused" => process = "none" \/ reaped

\* startBridge returns a bridge that announced itself and has its clients, or an
\* error and no process, whichever of its ways out races which: the safety part
\* of BridgeNeverLeaks.
THEOREM StartsOrNothing == BridgeSpec => []StartedOrNone
<1>1. BridgeInit => Startup
  BY DEF BridgeInit, Startup
<1>2. Startup /\ [BridgeNext]_bridgeVars => Startup'
  <2> SUFFICES ASSUME Startup, [BridgeNext]_bridgeVars PROVE Startup'
    OBVIOUS
  <2> USE DEF Startup, Starter, external, handshake, stoppers, StopCalled
  <2>1. CASE StartProcess
    BY <2>1 DEF StartProcess
  <2>2. CASE StarterStep
    BY <2>2 DEF StarterStep, TakeReady, StartTimesOut, SeesExit, Dial, Check, StarterStops, StarterReturns
  <2>3. CASE StopBody
    BY <2>3 DEF StopBody, SignalBridge, KillBridge, BodyEnds
  <2>4. CASE ScanReady \/ ScanEnded \/ Wait
    BY <2>4 DEF ScanReady, ScanEnded, Wait
  <2>5. CASE \E s \in Stoppers : BridgeStopped(s) \/ StopReturned(s)
    BY <2>5 DEF BridgeStopped, StopReturned
  <2>6. CASE (\E line \in {"good", "bad"} : Announce(line)) \/ BridgeExits
    BY <2>6 DEF Announce, BridgeExits
  <2>7. CASE UNCHANGED bridgeVars
    BY <2>7 DEF bridgeVars
  <2> QED
    BY <2>1, <2>2, <2>3, <2>4, <2>5, <2>6, <2>7 DEF BridgeNext
<1>3. Startup => StartedOrNone
  BY DEF Startup, StartedOrNone
<1> QED
  BY <1>1, <1>2, <1>3, PTL DEF BridgeSpec

\* In which order the parts start.
Turn == [p \in Parts |-> IF p = "pi" THEN 1 ELSE IF p = "linear" THEN 2 ELSE 3]

\* The deferred calls stop the parts that are up, those that started later first.
Stacked ==
    /\ defers \in Seq(Parts)
    /\ \A p \in Parts : part[p] = "up" <=> \E i \in 1 .. Len(defers) : defers[i] = p
    /\ \A i, j \in 1 .. Len(defers) : i < j => Turn[defers[j]] < Turn[defers[i]]

\* Which parts can be up where Run is, and that they stop in their order.
Unwinding ==
    /\ part \in [Parts -> {"off", "up", "stopped"}]
    /\ run \in {"load", "web", "pi", "linear", "cursor", "serve", "select", "drain", "deferred", "returned"}
    /\ run \in {"load", "web", "pi"} => part["pi"] = "off"
    /\ run \in {"load", "web", "pi", "linear"} => part["linear"] = "off"
    /\ run \in {"load", "web", "pi", "linear", "cursor"} => part["cursor"] = "off"
    /\ run \notin {"deferred", "returned"} => \A p \in Parts : part[p] # "stopped"
    /\ run \in {"load", "web", "pi", "linear", "cursor", "serve"} => serving = "no"
    /\ run \in {"deferred", "returned"} => serving # "yes"
    /\ part["pi"] = "stopped" => part["linear"] # "up"
    /\ run = "returned" => \A p \in Parts : part[p] # "up"

\* A part that starts after the others goes on top of the stack.
LEMMA StackGrows ==
  ASSUME part \in [Parts -> {"off", "up", "stopped"}], Stacked, NEW p \in Parts, Started(p),
         \A q \in Parts : part[q] = "up" => Turn[q] < Turn[p]
  PROVE  Stacked'
<1> DEFINE new == <<p>> \o defers
<1>1. defers \in Seq(Parts) /\ <<p>> \in Seq(Parts) /\ Len(<<p>>) = 1
  BY DEF Stacked
<1>2. /\ new \in Seq(Parts) /\ Len(new) = 1 + Len(defers)
      /\ new[1] = p /\ \A i \in 2 .. Len(new) : new[i] = defers[i - 1]
  BY <1>1
<1>3. Len(defers) \in Nat
  BY <1>1
<1>4. \A i \in 1 .. Len(defers) : new[i + 1] = defers[i] /\ i + 1 \in 2 .. Len(new)
  BY <1>2, <1>3
<1>5. \A i \in 2 .. Len(new) : i - 1 \in 1 .. Len(defers)
  BY <1>2, <1>3
<1>6. 1 \in 1 .. Len(new)
  BY <1>2, <1>3
<1>7. defers' = new /\ part' = [part EXCEPT ![p] = "up"]
  BY DEF Started
<1> HIDE DEF new
<1>8. ASSUME NEW q \in Parts
      PROVE  part'[q] = "up" <=> \E i \in 1 .. Len(new) : new[i] = q
  <2>1. CASE q = p
    BY <1>2, <1>6, <1>7, <2>1
  <2>2. CASE q # p
    <3>1. part'[q] = part[q]
      BY <1>7, <2>2
    <3>2. ASSUME NEW i \in 1 .. Len(defers), defers[i] = q
          PROVE  \E k \in 1 .. Len(new) : new[k] = q
      BY <1>2, <1>3, <1>4, <3>2
    <3>3. ASSUME NEW k \in 1 .. Len(new), new[k] = q
          PROVE  \E i \in 1 .. Len(defers) : defers[i] = q
      <4>1. k \in 2 .. Len(new)
        BY <1>2, <1>3, <2>2, <3>3
      <4> QED
        BY <1>2, <1>5, <3>3, <4>1
    <3> QED
      BY <3>1, <3>2, <3>3 DEF Stacked
  <2> QED
    BY <2>1, <2>2
<1>9. ASSUME NEW i \in 1 .. Len(new), NEW j \in 1 .. Len(new), i < j
      PROVE  Turn[new[j]] < Turn[new[i]]
  <2>1. j \in 2 .. Len(new) /\ new[j] = defers[j - 1] /\ j - 1 \in 1 .. Len(defers)
    BY <1>2, <1>3, <1>5, <1>9
  <2>2. CASE i = 1
    <3>1. defers[j - 1] \in Parts
      BY <1>1, <2>1
    <3>2. part[defers[j - 1]] = "up"
      BY <2>1, <3>1 DEF Stacked
    <3> QED
      BY <1>2, <2>1, <2>2, <3>1, <3>2
  <2>3. CASE i # 1
    <3>1. i \in 2 .. Len(new) /\ new[i] = defers[i - 1] /\ i - 1 \in 1 .. Len(defers)
      BY <1>2, <1>3, <1>5, <2>3
    <3>2. i - 1 < j - 1
      BY <1>9, <1>2, <1>3
    <3> QED
      BY <2>1, <3>1, <3>2 DEF Stacked
  <2> QED
    BY <2>2, <2>3
<1> QED
  BY <1>2, <1>7, <1>8, <1>9 DEF Stacked

\* The part that started last is stopped, and the stack stays one.
LEMMA StackShrinks ==
  ASSUME part \in [Parts -> {"off", "up", "stopped"}], Stacked, defers # <<>>,
         part' = [part EXCEPT ![Head(defers)] = "stopped"], defers' = Tail(defers)
  PROVE  /\ Stacked' /\ Head(defers) \in Parts
         /\ \A q \in Parts \ {Head(defers)} : part[q] = "up" => Turn[q] < Turn[Head(defers)]
<1> DEFINE rest == Tail(defers)
           top  == Head(defers)
<1>1. defers \in Seq(Parts) /\ Len(defers) \in Nat \ {0}
  BY DEF Stacked
<1>2. /\ rest \in Seq(Parts) /\ Len(rest) = Len(defers) - 1
      /\ \A i \in 1 .. Len(rest) : rest[i] = defers[i + 1]
      /\ top = defers[1] /\ top \in Parts
  BY <1>1
<1>3. /\ \A i \in 1 .. Len(rest) : i + 1 \in 2 .. Len(defers)
      /\ \A i \in 2 .. Len(defers) : i \in 1 .. Len(defers) /\ 1 < i /\ i - 1 \in 1 .. Len(rest)
                                     /\ rest[i - 1] = defers[i]
      /\ 1 \in 1 .. Len(defers)
  BY <1>1, <1>2
<1>4. defers' = rest /\ part' = [part EXCEPT ![top] = "stopped"]
  OBVIOUS
<1> HIDE DEF rest, top
<1>5. \A i \in 2 .. Len(defers) : defers[i] \in Parts /\ Turn[defers[i]] < Turn[top]
  BY <1>1, <1>2, <1>3 DEF Stacked
<1>6. \A i \in 2 .. Len(defers) : defers[i] # top
  <2>1. Turn[top] \in Int
    BY <1>2 DEF Turn
  <2> QED
    BY <1>5, <2>1
<1>7. ASSUME NEW q \in Parts
      PROVE  /\ part'[q] = "up" <=> \E i \in 1 .. Len(rest) : rest[i] = q
             /\ q # top /\ part[q] = "up" => Turn[q] < Turn[top]
  <2>1. CASE q = top
    <3>1. part'[q] = "stopped"
      BY <1>2, <1>4, <2>1
    <3> QED
      BY <1>2, <1>3, <1>6, <2>1, <3>1
  <2>2. CASE q # top
    <3>1. part'[q] = part[q]
      BY <1>4, <2>2
    <3>2. part[q] = "up" <=> \E i \in 2 .. Len(defers) : defers[i] = q
      BY <1>1, <1>2, <1>3, <2>2 DEF Stacked
    <3>3. (\E i \in 2 .. Len(defers) : defers[i] = q) <=> \E i \in 1 .. Len(rest) : rest[i] = q
      BY <1>2, <1>3
    <3> QED
      BY <1>5, <3>1, <3>2, <3>3
  <2> QED
    BY <2>1, <2>2
<1>8. ASSUME NEW i \in 1 .. Len(rest), NEW j \in 1 .. Len(rest), i < j
      PROVE  Turn[rest[j]] < Turn[rest[i]]
  <2>1. i + 1 \in 1 .. Len(defers) /\ j + 1 \in 1 .. Len(defers) /\ i + 1 < j + 1
    BY <1>1, <1>2, <1>8
  <2> QED
    BY <1>2, <2>1 DEF Stacked
<1>9. Stacked'
  BY <1>2, <1>4, <1>7, <1>8 DEF Stacked
<1> QED
  BY <1>2, <1>7, <1>9 DEF top

\* However and wherever Run ends, the managers and the integration it had started are
\* stopped, none while new requests are accepted, and the integration before the manager
\* of its runs: the safety part of ProgramsHeld.  It says nothing of pi-web.
THEOREM RunsUnwind == BoxSpec => []RunUnwinds
<1> DEFINE Inv == Unwinding /\ Stacked
<1>1. BoxInit => Inv
  <2>1. BoxInit => Unwinding
    BY DEF BoxInit, Unwinding, Parts
  <2>2. BoxInit => Stacked
    <3> SUFFICES ASSUME BoxInit PROVE Stacked
      OBVIOUS
    <3>1. defers = <<>> /\ \A p \in Parts : part[p] = "off"
      BY DEF BoxInit
    <3>2. Len(<<>>) = 0 /\ <<>> \in Seq(Parts) /\ 1 .. 0 = {}
      OBVIOUS
    <3> QED
      BY <3>1, <3>2 DEF Stacked
  <2> QED
    BY <2>1, <2>2
<1>2. Inv /\ [BoxNext]_boxVars => Inv'
  <2> SUFFICES ASSUME Inv, [BoxNext]_boxVars PROVE Inv'
    OBVIOUS
  <2>0. \A p \in Parts : Turn[p] = IF p = "pi" THEN 1 ELSE IF p = "linear" THEN 2 ELSE 3
    BY DEF Turn
  <2>1. CASE Load \/ StartPiWeb \/ Serve \/ BeginShutdown \/ EndShutdown \/ ListenFails
    <3>1. UNCHANGED partVars
      BY <2>1 DEF Load, StartPiWeb, Serve, BeginShutdown, EndShutdown, ListenFails
    <3>2. Unwinding'
      BY <2>1, <3>1
         DEF Load, StartPiWeb, Serve, BeginShutdown, EndShutdown, ListenFails, Unwinding,
             RunAt, Parts, partVars
    <3> QED
      BY <3>1, <3>2 DEF Stacked, partVars
  <2>2. CASE StartPi
    <3>1. CASE UNCHANGED partVars
      <4>1. Unwinding'
        BY <2>2, <3>1 DEF StartPi, Unwinding, RunAt, Parts, partVars
      <4> QED
        BY <3>1, <4>1 DEF Stacked, partVars
    <3>2. CASE Started("pi")
      <4>1. Unwinding'
        BY <2>2, <3>2 DEF StartPi, Started, Unwinding, RunAt, Parts
      <4>2. \A q \in Parts : part[q] # "up"
        BY <2>2 DEF StartPi, Unwinding, RunAt, Parts
      <4>3. Stacked'
        BY <3>2, <4>2, StackGrows DEF Unwinding, Parts
      <4> QED
        BY <4>1, <4>3
    <3> QED
      BY <2>2, <3>1, <3>2 DEF StartPi
  <2>3. CASE StartLinear
    <3>1. CASE UNCHANGED partVars
      <4>1. Unwinding'
        BY <2>3, <3>1 DEF StartLinear, Started, Unwinding, RunAt, Parts, partVars
      <4> QED
        BY <3>1, <4>1 DEF Stacked, partVars
    <3>2. CASE RunAt("linear", "cursor") /\ Started("linear") /\ serving' = serving
      <4>1. Unwinding'
        BY <3>2 DEF Started, Unwinding, RunAt, Parts
      <4>2. \A q \in Parts : part[q] = "up" => q = "pi"
        BY <3>2 DEF Unwinding, RunAt, Parts
      <4>3. \A q \in Parts : part[q] = "up" => Turn[q] < Turn["linear"]
        BY <2>0, <4>2 DEF Parts
      <4>4. Stacked'
        BY <3>2, <4>3, StackGrows DEF Unwinding, Parts
      <4> QED
        BY <4>1, <4>4
    <3> QED
      BY <2>3, <3>1, <3>2 DEF StartLinear
  <2>4. CASE StartCursor
    <3>1. CASE UNCHANGED partVars
      <4>1. Unwinding'
        BY <2>4, <3>1 DEF StartCursor, Unwinding, RunAt, Parts, partVars
      <4> QED
        BY <3>1, <4>1 DEF Stacked, partVars
    <3>2. CASE Started("cursor")
      <4>1. Unwinding'
        BY <2>4, <3>2 DEF StartCursor, Started, Unwinding, RunAt, Parts
      <4>2. \A q \in Parts : part[q] = "up" => q \in {"pi", "linear"}
        BY <2>4 DEF StartCursor, Unwinding, RunAt, Parts
      <4>3. \A q \in Parts : part[q] = "up" => Turn[q] < Turn["cursor"]
        BY <2>0, <4>2 DEF Parts
      <4>4. Stacked'
        BY <3>2, <4>3, StackGrows DEF Unwinding, Parts
      <4> QED
        BY <4>1, <4>4
    <3> QED
      BY <2>4, <3>1, <3>2 DEF StartCursor
  <2>5. CASE Deferred
    <3>1. CASE defers = <<>>
      <4>1. run' = "returned" /\ UNCHANGED <<part, defers, serving>> /\ run = "deferred"
        BY <2>5, <3>1 DEF Deferred, partVars
      <4>2. \A p \in Parts : part[p] # "up"
        <5>1. Len(defers) = 0 /\ 1 .. 0 = {}
          BY <3>1
        <5> QED
          BY <5>1 DEF Stacked
      <4>3. Unwinding'
        BY <4>1, <4>2 DEF Unwinding, Parts
      <4> QED
        BY <4>1, <4>3 DEF Stacked
    <3>2. CASE defers # <<>>
      <4>1. /\ run = "deferred" /\ UNCHANGED <<run, serving>>
            /\ part' = [part EXCEPT ![Head(defers)] = "stopped"] /\ defers' = Tail(defers)
        BY <2>5, <3>2 DEF Deferred
      <4>2. /\ Stacked' /\ Head(defers) \in Parts
            /\ \A q \in Parts \ {Head(defers)} : part[q] = "up" => Turn[q] < Turn[Head(defers)]
        BY <3>2, <4>1, StackShrinks DEF Unwinding
      <4>3. Head(defers) = "pi" => part["linear"] # "up"
        BY <2>0, <4>2 DEF Parts
      <4>4. PICK top \in Parts :
              part' = [part EXCEPT ![top] = "stopped"] /\ (top = "pi" => part["linear"] # "up")
        BY <4>1, <4>2, <4>3
      <4>5. Unwinding'
        BY <4>1, <4>4 DEF Unwinding, Parts
      <4> QED
        BY <4>2, <4>5
    <3> QED
      BY <3>1, <3>2
  <2>6. CASE ContextDone \/ StartWeb \/ WebExits \/ WebRunsLong \/ WebWaits \/ UNCHANGED boxVars
    <3>1. UNCHANGED <<run, part, defers, serving>>
      BY <2>6 DEF ContextDone, StartWeb, WebExits, WebRunsLong, WebWaits, boxVars, partVars
    <3> QED
      BY <3>1 DEF Unwinding, Stacked
  <2> QED
    BY <2>1, <2>2, <2>3, <2>4, <2>5, <2>6 DEF BoxNext, RunStep
<1>3. Inv => RunUnwinds
  BY DEF Unwinding, RunUnwinds, Parts
<1> QED
  BY <1>1, <1>2, <1>3, PTL DEF BoxSpec


-----------------------------------------------------------------------------
(* The Pi API: every answer is well formed. *)

\* A successful answer is a response message of its rpc, an error has none.
AnswerOK == outcome.body \in IF outcome.code = "ok" THEN Responses[outcome.rpc] ELSE {Unset}

\* The sessions there are: pi minted the ids of those that have a file or a
\* process, and runs are in processes.
Known ==
    /\ created \subseteq SessionIds /\ IsFiniteSet(created)
    /\ \A id \in SessionIds : Held(id) # Gone => id \in created
    /\ runs \subseteq {id \in created : live[id] # Gone}
    /\ minted <= MaxEntries
    /\ delivered \in Nat /\ attempt \in {"open", "closed"} /\ prompt \in {"unsent", "waiting", "taken"}

\* The response messages, rpc by rpc.
LEMMA ResponsesAre ==
    /\ Responses["none"] = {Unset} /\ Responses["GetCapabilities"] = GetCapabilitiesResponse
    /\ Responses["CreateSession"] = CreateSessionResponse /\ Responses["ListSessions"] = ListSessionsResponse
    /\ Responses["GetSession"] = GetSessionResponse /\ Responses["SendMessage"] = SendMessageResponse
    /\ Responses["StreamMessage"] = Optional(StreamMessageResponse)
    /\ Responses["SubmitMessage"] = SubmitMessageResponse /\ Responses["GetTurn"] = GetTurnResponse
    /\ Responses["ListHostCalls"] = ListHostCallsResponse /\ Responses["RespondHostCall"] = {Unset}
    /\ Responses["ListEntries"] = ListEntriesResponse
    /\ Responses["GetAvailableModels"] = GetAvailableModelsResponse
    /\ Responses["ListDirectories"] = ListDirectoriesResponse /\ Responses["AbortSession"] = {Unset}
    /\ Responses["DeleteSession"] = {Unset}
  BY DEF Responses, RespondHostCallResponse, AbortSessionResponse, DeleteSessionResponse

\* No error's code is ok, whatever it is.
LEMMA CodesRefuse ==
    ASSUME NEW error
    PROVE  rpcError(error).code # "ok"
<1> DEFINE hits == {i \in DOMAIN ErrorCases : ErrorCases[i].is \cap error # {}}
<1>1. DOMAIN ErrorCases = 1..14
  BY CasesOf
<1>2. \A i \in 1..14 : ErrorCases[i].code # "ok"
  <2>1. /\ ErrorCases[1].code # "ok" /\ ErrorCases[2].code # "ok" /\ ErrorCases[3].code # "ok"
        /\ ErrorCases[4].code # "ok" /\ ErrorCases[5].code # "ok" /\ ErrorCases[6].code # "ok"
        /\ ErrorCases[7].code # "ok" /\ ErrorCases[8].code # "ok" /\ ErrorCases[9].code # "ok"
        /\ ErrorCases[10].code # "ok" /\ ErrorCases[11].code # "ok" /\ ErrorCases[12].code # "ok"
        /\ ErrorCases[13].code # "ok" /\ ErrorCases[14].code # "ok"
    BY DEF ErrorCases
  <2>2. \A i \in 1..14 : i \in {1, 2, 3, 4, 5, 6, 7, 8, 9, 10, 11, 12, 13, 14}
    OBVIOUS
  <2> QED
    BY <2>1, <2>2
<1>3. CASE hits = {}
  BY <1>3 DEF rpcError
<1>4. CASE hits # {}
  <2>1. hits \in SUBSET (1..14)
    BY <1>1
  <2>2. Min(hits) \in hits
    <3> HIDE DEF hits
    <3> QED
      BY <1>4, <2>1, MinIs
  <2>3. rpcError(error) = ErrorCases[Min(hits)]
    BY <1>4 DEF rpcError
  <2> HIDE DEF hits
  <2> QED
    BY <1>2, <2>1, <2>2, <2>3
<1> QED
  BY <1>3, <1>4

\* An error is answered without a message,
LEMMA RefusalOK ==
    ASSUME NEW rpc, NEW error, NEW sent, outcome' = Refusal(rpc, error, sent)
    PROVE  AnswerOK'
<1>1. outcome'.code # "ok" /\ outcome'.body = Unset
  BY CodesRefuse DEF Refusal, Outcome
<1> QED
  BY <1>1 DEF AnswerOK

\* and a success with one of the rpc's.
LEMMA ResponseOK ==
    ASSUME NEW rpc, NEW body, outcome' = NewResponse(rpc, body), body \in Responses[rpc]
    PROVE  AnswerOK'
<1>1. outcome'.rpc = rpc /\ outcome'.code = "ok" /\ outcome'.body = body
  BY DEF NewResponse, Outcome
<1> QED
  BY <1>1 DEF AnswerOK, Responses

\* The same of a handler that asks the session's process.
LEMMA AsksOK ==
    ASSUME NEW rpc, NEW id, NEW Bodies, Asks(rpc, id, Bodies),
           id # Unset /\ Held(id) # Gone => Bodies \subseteq Responses[rpc]
    PROVE  AnswerOK'
<1>1. CASE \E error : outcome' = Fail(rpc, error)
  BY <1>1, RefusalOK DEF Fail
<1>2. CASE Attaches(id) /\ \E body \in Bodies : outcome' = NewResponse(rpc, body)
  <2>1. PICK body \in Bodies : outcome' = NewResponse(rpc, body)
    BY <1>2
  <2>2. body \in Responses[rpc]
    BY <1>2 DEF Attaches
  <2> QED
    BY <2>1, <2>2, ResponseOK
<1> QED
  BY <1>1, <1>2 DEF Asks, AttachFails

\* The parts of messages.
LEMMA PartsOK ==
    /\ TheText \in Text
    /\ statsProto \in SessionStats
    /\ ModelProto \in Model
<1>1. TheText \in Text
  BY ApiAssumption DEF TheText
<1>2. statsProto \in SessionStats
  BY DEF statsProto, SessionStats
<1>3. <<TheText>> \in Seq(Text)
  BY <1>1
<1>4. ModelProto \in Model
  BY <1>1, <1>3 DEF ModelProto, Model, ModelCost
<1> QED
  BY <1>1, <1>2, <1>4

\* A session's message, with a count of what its process holds.
LEMMA SessionOK ==
    ASSUME NEW id \in SessionIds, NEW on \in BOOLEAN, NEW held \in Seq(Nat)
    PROVE  sessionProto(id, on, held) \in Session
<1>1. Len(held) \in Nat /\ (on /\ id \in runs) \in BOOLEAN
  OBVIOUS
<1>2. (IF stored[id] = Gone THEN 0 ELSE 1) \in Nat
  OBVIOUS
<1> QED
  BY <1>1, <1>2 DEF sessionProto, Session, Optional

\* A list of one by one members of S is a sequence over S.
LEMMA ListOf ==
    ASSUME NEW S, NEW n \in Nat, NEW f \in [1..n -> S]
    PROVE  f \in Seq(S)
  BY SeqDef

\* What a process holds, or a file, are entries of pi.
LEMMA HeldEntries ==
    ASSUME Coherent, Known, NEW id \in SessionIds
    PROVE  /\ Held(id) # Gone => Held(id) \in Seq(1..MaxEntries) /\ Held(id) \in Seq(Nat)
           /\ live[id] # Gone => live[id] \in Seq(Nat)
<1>1. minted \in Nat /\ MaxEntries \in Nat /\ minted <= MaxEntries
  BY ApiAssumption DEF Coherent, VersionTypeOK, Known
<1>2. Seq(1..minted) \subseteq Seq(1..MaxEntries) /\ Seq(1..MaxEntries) \subseteq Seq(Nat)
  <2>1. 1..minted \subseteq 1..MaxEntries /\ 1..MaxEntries \subseteq Nat
    BY <1>1
  <2> QED
    BY <2>1, SeqMonotonic
<1>3. Held(id) # Gone => Held(id) \in Seq(1..minted)
  BY VersionsAre DEF Coherent
<1> QED
  BY <1>2, <1>3 DEF Coherent, VersionTypeOK

\* The handlers that report of a process.
LEMMA ReportsOK ==
    ASSUME Coherent, Known, GetCapabilities \/ GetSession \/ GetAvailableModels \/ GetTurn
    PROVE  AnswerOK'
<1>1. CASE GetCapabilities
  <2> DEFINE Body(r) == [submit_message_model_selection |-> TRUE, host_tools_protocol_version |-> 1,
                             host_tools_contract_sha256 |-> "own", host_tools_extension_ready |-> r,
                             host_tools_max_payload_bytes |-> hostMaxPayload,
                             host_tools_max_calls_per_turn |-> hostMaxCalls,
                             host_tools_max_run_seconds |-> hostMaxRunSeconds]
  <2>1. {Body(b) : b \in BOOLEAN} \subseteq Responses["GetCapabilities"]
    BY ResponsesAre DEF GetCapabilitiesResponse
  <2>2. PICK req \in GetCapabilitiesRequest :
            \/ outcome' = NewResponse("GetCapabilities", Body(FALSE))
            \/ Asks("GetCapabilities", req.session_id, {Body(b) : b \in BOOLEAN})
    BY <1>1 DEF GetCapabilities
  <2>3. Body(FALSE) \in Responses["GetCapabilities"]
    BY <2>1
  <2> HIDE DEF Body
  <2> QED
    BY <2>1, <2>2, <2>3, AsksOK, ResponseOK
<1>2. CASE GetSession
  <2> DEFINE Bodies(id) == {[session |-> sessionProto(id, TRUE, Held(id)), stats |-> statsProto]}
  <2>1. PICK req \in GetSessionRequest : Asks("GetSession", req.session_id, Bodies(req.session_id))
    BY <1>2 DEF GetSession
  <2>2. req.session_id \in SessionIds \cup {Unset}
    BY DEF GetSessionRequest, SessionId, Optional
  <2>3. ASSUME req.session_id # Unset, Held(req.session_id) # Gone
        PROVE  Bodies(req.session_id) \subseteq Responses["GetSession"]
    <3>1. sessionProto(req.session_id, TRUE, Held(req.session_id)) \in Session
      BY <2>2, <2>3, HeldEntries, SessionOK
    <3> QED
      BY <3>1, PartsOK, ResponsesAre DEF GetSessionResponse
  <2> HIDE DEF Bodies
  <2> QED
    BY <2>1, <2>3, AsksOK
<1>3. CASE GetAvailableModels
  <2> DEFINE bodies == {[models |-> <<>>], [models |-> <<ModelProto>>]}
  <2>1. bodies \subseteq Responses["GetAvailableModels"]
    <3>1. <<>> \in Seq(Model) /\ <<ModelProto>> \in Seq(Model)
      BY PartsOK
    <3> QED
      BY <3>1, ResponsesAre DEF GetAvailableModelsResponse
  <2>2. PICK req \in GetAvailableModelsRequest :
            \/ Asks("GetAvailableModels", req.session_id, bodies)
            \/ \E body \in bodies : outcome' = NewResponse("GetAvailableModels", body)
            \/ \E error \in CallErrors : outcome' = Fail("GetAvailableModels", error)
    BY <1>3 DEF GetAvailableModels
  <2> HIDE DEF bodies
  <2>3. CASE \E body \in bodies : outcome' = NewResponse("GetAvailableModels", body)
    BY <2>1, <2>3, ResponseOK
  <2> QED
    BY <2>1, <2>2, <2>3, AsksOK, RefusalOK DEF Fail
<1>4. CASE GetTurn
  <2> DEFINE over(result) == [running |-> FALSE, result |-> result]
             done == [text |-> TheText, stop_reason |-> TheText, stats |-> statsProto]
             Running == {[running |-> TRUE, result |-> Unset]}
             Over(results) == {over(result) : result \in results}
  <2>1. done \in TurnResult
    BY PartsOK DEF TurnResult
  <2>2. Running \subseteq Responses["GetTurn"]
    BY ResponsesAre DEF GetTurnResponse, Optional
  <2>3. Over({Unset}) \subseteq Responses["GetTurn"] /\ Over({Unset, done}) \subseteq Responses["GetTurn"]
    <3> HIDE DEF done
    <3>1. over(Unset) \in GetTurnResponse /\ over(done) \in GetTurnResponse
      BY <2>1 DEF GetTurnResponse, Optional
    <3> HIDE DEF over
    <3> QED
      BY <3>1, ResponsesAre
  <2>4. \/ \E req \in GetTurnRequest(0..MaxEntries), Bodies \in {Running, Over({Unset}), Over({Unset, done})} :
             Asks("GetTurn", req.session_id, Bodies)
        \/ outcome' = Fail("GetTurn", {"ErrBadCursor"})
    BY <1>4 DEF GetTurn
  <2> HIDE DEF Running, Over, done, over
  <2> QED
    BY <2>2, <2>3, <2>4, AsksOK, RefusalOK DEF Fail
<1> QED
  BY <1>1, <1>2, <1>3, <1>4

\* The handlers that ask no process.
LEMMA ListsOK ==
    ASSUME Coherent, Known,
           ListSessions \/ ListDirectories \/ ListHostCalls \/ RespondHostCall \/ RefusedAtDoor
    PROVE  AnswerOK'
<1>1. CASE ListSessions
  <2> DEFINE S == {id \in SessionIds : live[id] # Gone \/ stored[id] # Gone}
  <2>1. PICK s \in Orders(S) :
            outcome' = NewResponse("ListSessions", [sessions |-> [i \in DOMAIN s |-> Listed(s[i])]])
    BY <1>1 DEF ListSessions
  <2>2. Cardinality(S) \in Nat
    <3>1. S \subseteq created
      BY DEF Known, Held
    <3> QED
      BY <3>1, FS_Subset, FS_CardinalityType DEF Known
  <2>3. s \in [1..Cardinality(S) -> S]
    BY DEF Orders
  <2>4. \A id \in S : Listed(id) \in Session
    <3> SUFFICES ASSUME NEW id \in S PROVE Listed(id) \in Session
      OBVIOUS
    <3> DEFINE held == IF live[id] # Gone THEN live[id] ELSE <<>>
    <3>1. held \in Seq(Nat) /\ (live[id] # Gone) \in BOOLEAN
      BY HeldEntries
    <3> HIDE DEF held
    <3>2. sessionProto(id, live[id] # Gone, held) \in Session
      BY <3>1, SessionOK
    <3> QED
      BY <3>2 DEF Listed, held
  <2> HIDE DEF S
  <2>5. [i \in DOMAIN s |-> Listed(s[i])] \in [1..Cardinality(S) -> Session]
    BY <2>3, <2>4
  <2>6. [i \in DOMAIN s |-> Listed(s[i])] \in Seq(Session)
    BY <2>2, <2>5, ListOf
  <2>7. [sessions |-> [i \in DOMAIN s |-> Listed(s[i])]] \in Responses["ListSessions"]
    BY <2>6, ResponsesAre DEF ListSessionsResponse
  <2> QED
    BY <2>1, <2>7, ResponseOK
<1>2. CASE ListDirectories
  <2> DEFINE Body(cut_) == [path |-> TheText, directories |-> <<[name |-> TheText, path |-> TheText]>>,
                            truncated |-> cut_]
  <2>1. \A c \in BOOLEAN : Body(c) \in Responses["ListDirectories"]
    <3>1. [name |-> TheText, path |-> TheText] \in Directory
      BY PartsOK DEF Directory
    <3>2. <<[name |-> TheText, path |-> TheText]>> \in Seq(Directory)
      BY <3>1
    <3> QED
      BY <3>2, PartsOK, ResponsesAre DEF ListDirectoriesResponse
  <2>2. \/ \E error \in {{"ErrInvalidPath"}, Plain} : outcome' = Fail("ListDirectories", error)
        \/ \E c \in BOOLEAN : outcome' = NewResponse("ListDirectories", Body(c))
    BY <1>2 DEF ListDirectories
  <2> HIDE DEF Body
  <2> QED
    BY <2>1, <2>2, ResponseOK, RefusalOK DEF Fail
<1>3. CASE ListHostCalls
  <2> DEFINE Call(req) == [session_id |-> req.session_id, turn_id |-> req.turn_id, call_id |-> TheText,
                           tool |-> TheText, arguments_json |-> TheText]
  <2>1. PICK req \in ListHostCallsRequest :
          \/ \E error \in {{"ErrHostUnknown"}, {"Canceled"}} : outcome' = Fail("ListHostCalls", error)
          \/ /\ req.session_id # Unset
             /\ \E on \in BOOLEAN : \E calls \in {<<>>, <<Call(req)>>} :
                  outcome' = NewResponse("ListHostCalls", [calls |-> calls, running |-> on])
    BY <1>3 DEF ListHostCalls
  <2>2. CASE \E error \in {{"ErrHostUnknown"}, {"Canceled"}} : outcome' = Fail("ListHostCalls", error)
    BY <2>2, RefusalOK DEF Fail
  <2>3. CASE req.session_id # Unset /\ \E on \in BOOLEAN : \E calls \in {<<>>, <<Call(req)>>} :
                  outcome' = NewResponse("ListHostCalls", [calls |-> calls, running |-> on])
    <3>1. PICK on \in BOOLEAN : \E calls \in {<<>>, <<Call(req)>>} :
                  outcome' = NewResponse("ListHostCalls", [calls |-> calls, running |-> on])
      BY <2>3
    <3>2. PICK calls \in {<<>>, <<Call(req)>>} :
                  outcome' = NewResponse("ListHostCalls", [calls |-> calls, running |-> on])
      BY <3>1
    <3>3. Call(req) \in HostCall
      BY <2>3, PartsOK DEF HostCall, ListHostCallsRequest, SessionId, Optional
    <3> HIDE DEF Call
    <3>4. calls \in Seq(HostCall)
      <4>1. <<>> \in Seq(HostCall) /\ <<Call(req)>> \in Seq(HostCall)
        BY <3>3
      <4> QED
        BY <3>2, <4>1
    <3>5. [calls |-> calls, running |-> on] \in Responses["ListHostCalls"]
      BY <3>4, ResponsesAre DEF ListHostCallsResponse
    <3> QED
      BY <3>2, <3>5, ResponseOK
  <2> QED
    BY <2>1, <2>2, <2>3
<1>4. CASE RespondHostCall
  <2>1. \/ \E error : outcome' = Fail("RespondHostCall", error)
        \/ outcome' = NewResponse("RespondHostCall", Unset)
    BY <1>4 DEF RespondHostCall
  <2> QED
    BY <2>1, ResponsesAre, ResponseOK, RefusalOK DEF Fail
<1>5. CASE RefusedAtDoor
  <2>1. PICK rpc \in Rpcs, code \in {"unauthenticated", "invalid_argument", "unimplemented", "resource_exhausted"} :
          outcome' = Outcome(rpc, code, "", Unset, FALSE)
    BY <1>5 DEF RefusedAtDoor, DoorCodes
  <2> QED
    BY <2>1 DEF Outcome, AnswerOK
<1> QED
  BY <1>1, <1>2, <1>3, <1>4, <1>5

\* A page of entries is a response message.
LEMMA EntriesOK ==
    ASSUME Coherent, Known, ListEntries
    PROVE  AnswerOK'
<1>1. PICK id \in SessionIds : \E req \in ListEntriesRequest({LastOf(transcript[id])}) :
        \/ \E error : outcome' = Fail("ListEntries", error)
        \/ LET got == EntriesAfter(id, req.after_cursor) IN
           /\ Held(id) # Gone
           /\ outcome' = NewResponse("ListEntries",
                            [entries |-> [i \in DOMAIN got.entries |-> EntryProto(got.entries[i])],
                             leaf_id |-> LastOf(Held(id)), running |-> id \in runs])
  BY DEF ListEntries, AttachFails, Attaches
<1>2. PICK req \in ListEntriesRequest({LastOf(transcript[id])}) :
        \/ \E error : outcome' = Fail("ListEntries", error)
        \/ LET got == EntriesAfter(id, req.after_cursor) IN
           /\ Held(id) # Gone
           /\ outcome' = NewResponse("ListEntries",
                            [entries |-> [i \in DOMAIN got.entries |-> EntryProto(got.entries[i])],
                             leaf_id |-> LastOf(Held(id)), running |-> id \in runs])
  BY <1>1
<1> DEFINE held == Held(id)
           from == Place(held, req.after_cursor) + 1
           rest == SubSeq(held, from, Len(held))
           page == [i \in DOMAIN rest |-> EntryProto(rest[i])]
<1>3. CASE \E error : outcome' = Fail("ListEntries", error)
  BY <1>3, RefusalOK DEF Fail
<1>4. CASE /\ held # Gone
           /\ outcome' = NewResponse("ListEntries",
                            [entries |-> page, leaf_id |-> LastOf(held), running |-> id \in runs])
  <2>1. held \in Seq(1..MaxEntries) /\ MaxEntries \in Nat
    BY <1>4, HeldEntries, ApiAssumption
  <2> HIDE DEF held
  <2>2. DOMAIN held = 1..Len(held) /\ Len(held) \in Nat /\ \A i \in 1..Len(held) : held[i] \in 1..MaxEntries
    BY <2>1
  <2>3. Place(held, req.after_cursor) \in 0..Len(held)
    BY <2>2 DEF Place
  <2>4. from \in 1..(Len(held) + 1)
    BY <2>2, <2>3
  <2> HIDE DEF from
  <2>5. \A i \in from..Len(held) : held[i] \in 1..MaxEntries
    BY <2>2, <2>4
  <2>6. rest \in Seq(1..MaxEntries)
    BY <2>2, <2>4, <2>5, SubSeqProperties
  <2> HIDE DEF rest
  <2>7. DOMAIN rest = 1..Len(rest) /\ Len(rest) \in Nat /\ \A i \in 1..Len(rest) : rest[i] \in Nat \ {0}
    BY <2>1, <2>6
  <2>8. \A n \in Nat \ {0} : EntryProto(n) \in Entry
    BY PartsOK DEF EntryProto, Entry
  <2>9. page \in [1..Len(rest) -> Entry]
    BY <2>7, <2>8
  <2>10. page \in Seq(Entry)
    BY <2>7, <2>9, ListOf
  <2>11. LastOf(held) \in Nat /\ (id \in runs) \in BOOLEAN
    <3>1. CASE held = <<>>
      BY <3>1 DEF LastOf
    <3>2. CASE held # <<>>
      <4>1. Len(held) \in 1..Len(held)
        BY <2>1, <2>2, <3>2, EmptySeq
      <4>2. held[Len(held)] \in Nat
        BY <2>1, <2>2, <4>1
      <4> QED
        BY <3>2, <4>2 DEF LastOf
    <3> QED
      BY <3>1, <3>2
  <2> HIDE DEF page
  <2>12. [entries |-> page, leaf_id |-> LastOf(held), running |-> id \in runs] \in Responses["ListEntries"]
    BY <2>10, <2>11, ResponsesAre DEF ListEntriesResponse, Cursor
  <2> QED
    BY <1>4, <2>12, ResponseOK
<1>5. EntriesAfter(id, req.after_cursor).entries = rest
  BY DEF EntriesAfter
<1> QED
  BY <1>2, <1>3, <1>4, <1>5

\* A message that is sent is answered by its result, or an error.
LEMMA SendOK ==
    ASSUME NEW rpc, NEW id, NEW Bodies, Bodies \subseteq Responses[rpc], Send(rpc, id, Bodies)
    PROVE  AnswerOK'
<1>1. \/ \E error, sent : outcome' = Refusal(rpc, error, sent)
      \/ \E body \in Bodies : outcome' = NewResponse(rpc, body)
  BY DEF Send, Unsent, PromptFails, PromptPending, Fail
<1> QED
  BY <1>1, RefusalOK, ResponseOK

\* The handlers that start runs.
LEMMA SendsOK ==
    ASSUME Coherent, Known, SendMessage \/ StreamMessage \/ SubmitMessage
    PROVE  AnswerOK'
<1>1. CASE SendMessage
  <2> DEFINE Bodies == {[text |-> t, stop_reason |-> t, stats |-> statsProto] : t \in {TheText, Unset}}
  <2>1. Bodies \subseteq Responses["SendMessage"]
    BY PartsOK, ResponsesAre DEF SendMessageResponse, Optional
  <2>2. \/ \E error : outcome' = Fail("SendMessage", error)
        \/ \E id : Send("SendMessage", id, Bodies)
    BY <1>1 DEF SendMessage, SendsTo, AttachFails
  <2> HIDE DEF Bodies
  <2> QED
    BY <2>1, <2>2, SendOK, RefusalOK DEF Fail
<1>2. CASE StreamMessage
  <2> DEFINE Bodies == {Unset, [type |-> "agent_settled", payload_json |-> TheText]}
  <2>1. Bodies \subseteq Responses["StreamMessage"]
    BY PartsOK, ResponsesAre DEF StreamMessageResponse, Optional
  <2>2. \/ \E error : outcome' = Fail("StreamMessage", error)
        \/ \E id : Send("StreamMessage", id, Bodies)
    BY <1>2 DEF StreamMessage, SendsTo, AttachFails
  <2> HIDE DEF Bodies
  <2> QED
    BY <2>1, <2>2, SendOK, RefusalOK DEF Fail
<1>3. CASE SubmitMessage
  <2> DEFINE Body(req) ==
               [turn_cursor |-> LastOf(Held(req.session_id)),
                applied_model |-> IF req.model_selection = Unset THEN Unset
                                  ELSE [provider |-> TheText, model_id |-> TheText],
                turn_id |-> IF req.host_tools = Unset THEN Unset ELSE TheText]
  <2>1. PICK req \in SubmitMessageRequest :
          \/ \E error, sent : outcome' = Refusal("SubmitMessage", error, sent)
          \/ Attaches(req.session_id) /\ outcome' = NewResponse("SubmitMessage", Body(req))
    BY <1>3 DEF SubmitMessage, SendsTo, AttachFails, Submit, Unsent, PromptFails, PromptPending, Fail
  <2>2. ASSUME Attaches(req.session_id)
        PROVE  Body(req) \in Responses["SubmitMessage"]
    <3>1. req.session_id \in SessionIds /\ Held(req.session_id) # Gone
      BY <2>2 DEF Attaches, SubmitMessageRequest, SessionId, Optional
    <3> DEFINE held == Held(req.session_id)
    <3>2. held \in Seq(Nat)
      BY <3>1, HeldEntries
    <3> HIDE DEF held
    <3>3. LastOf(held) \in Nat
      <4>1. CASE held = <<>>
        BY <4>1 DEF LastOf
      <4>2. CASE held # <<>>
        <5>1. Len(held) \in 1..Len(held)
          BY <3>2, <4>2, EmptySeq
        <5>2. held[Len(held)] \in Nat
          BY <3>2, <5>1
        <5> QED
          BY <4>2, <5>2 DEF LastOf
      <4> QED
        BY <4>1, <4>2
    <3>4. /\ Body(req).turn_cursor = LastOf(held)
          /\ [provider |-> TheText, model_id |-> TheText] \in [provider : Text, model_id : Text]
      BY PartsOK DEF held
    <3>5. (IF req.model_selection = Unset THEN Unset ELSE [provider |-> TheText, model_id |-> TheText])
            \in Optional([provider : Text, model_id : Text])
      BY <3>4 DEF Optional
    <3>6. (IF req.host_tools = Unset THEN Unset ELSE TheText) \in Optional(Text)
      BY PartsOK DEF Optional
    <3>7. LastOf(Held(req.session_id)) \in Cursor
      BY <3>3 DEF Cursor, held
    <3> QED
      BY <3>5, <3>6, <3>7, ResponsesAre DEF SubmitMessageResponse
  <2> HIDE DEF Body
  <2> QED
    BY <2>1, <2>2, ResponseOK, RefusalOK
<1> QED
  BY <1>1, <1>2, <1>3

\* The handlers that change sessions.
LEMMA ChangesOK ==
    ASSUME Coherent, Known, CreateSession \/ AbortSession \/ DeleteSession
    PROVE  AnswerOK'
<1>1. CASE CreateSession
  <2>1. \/ \E error : outcome' = Fail("CreateSession", error)
        \/ \E id \in SessionIds : outcome' = NewResponse("CreateSession", [session |-> sessionProto(id, TRUE, <<>>)])
    BY <1>1 DEF CreateSession
  <2>2. ASSUME NEW id \in SessionIds
        PROVE  [session |-> sessionProto(id, TRUE, <<>>)] \in Responses["CreateSession"]
    <3>1. <<>> \in Seq(Nat)
      OBVIOUS
    <3>2. sessionProto(id, TRUE, <<>>) \in Session
      BY <3>1, SessionOK
    <3> QED
      BY <3>2, ResponsesAre DEF CreateSessionResponse
  <2> QED
    BY <2>1, <2>2, ResponseOK, RefusalOK DEF Fail
<1>2. CASE AbortSession
  <2>1. \/ \E error : outcome' = Fail("AbortSession", error)
        \/ outcome' = NewResponse("AbortSession", Unset)
    BY <1>2 DEF AbortSession
  <2> QED
    BY <2>1, ResponsesAre, ResponseOK, RefusalOK DEF Fail
<1>3. CASE DeleteSession
  <2>1. \/ \E error : outcome' = Fail("DeleteSession", error)
        \/ outcome' = NewResponse("DeleteSession", Unset)
    BY <1>3 DEF DeleteSession
  <2> QED
    BY <2>1, ResponsesAre, ResponseOK, RefusalOK DEF Fail
<1> QED
  BY <1>1, <1>2, <1>3

\* The client's side of Known.
Client == delivered \in Nat /\ attempt \in {"open", "closed"} /\ prompt \in {"unsent", "waiting", "taken"}

\* Attaching makes no session known, and takes no process away.
LEMMA KnownAttached ==
    ASSUME Coherent, Known, NEW id \in SessionIds \cup {Unset}, Attaches(id) \/ UNCHANGED live,
           UNCHANGED <<stored, minted, created>>,
           runs' \subseteq runs \cup {j \in {id} : Attaches(j)}, Client'
    PROVE  Known'
<1>1. ASSUME Attaches(id)
      PROVE  /\ id \in SessionIds /\ Held(id) # Gone /\ id \in created
             /\ live' = [live EXCEPT ![id] = Held(id)]
  BY <1>1 DEF Attaches, Known
<1>2. live \in [SessionIds -> Seq(Nat) \cup {Gone}]
  BY DEF Coherent, VersionTypeOK
<1>3. \A j \in SessionIds : /\ live[j] # Gone => live'[j] # Gone
                            /\ live'[j] # Gone => Held(j) # Gone
                            /\ Attaches(id) => live'[id] # Gone
  <2>1. CASE Attaches(id)
    BY <1>1, <1>2, <2>1 DEF Held
  <2>2. CASE UNCHANGED live /\ ~Attaches(id)
    BY <2>2 DEF Held
  <2> QED
    BY <2>1, <2>2
<1>4. \A j \in SessionIds : Held(j)' # Gone => j \in created'
  BY <1>3 DEF Known, Held
<1>5. runs' \subseteq {j \in created' : live'[j] # Gone}
  BY <1>1, <1>3 DEF Known
<1> QED
  BY <1>4, <1>5 DEF Known, Client

\* Sending a message attaches, may start a run of the session, and leaves the
\* client with what became of it.
LEMMA SendKnown ==
    ASSUME Known, NEW rpc, NEW id \in SessionIds \cup {Unset}, NEW Bodies,
           Send(rpc, id, Bodies) \/ \E req : req.session_id = id /\ Submit(req)
    PROVE  /\ runs' \subseteq runs \cup {id}
           /\ delivered' \in Nat /\ prompt' \in {"unsent", "waiting", "taken"}
<1>1. /\ delivered' \in {delivered, delivered + 1}
      /\ prompt' \in {prompt, "waiting", "taken"}
      /\ runs' \in {runs, runs \cup {id}}
  BY DEF Send, Submit, Unsent, PromptFails, PromptPending, Takes
<1> QED
  BY <1>1 DEF Known

\* Every step keeps what is known of sessions.
LEMMA NextKnown == Coherent /\ Known /\ [ApiNext]_apiVars => Known'
<1> SUFFICES ASSUME Coherent, Known, [ApiNext]_apiVars PROVE Known'
  OBVIOUS
<1> USE DEF sessionVars, clientVars
<1>c. UNCHANGED <<attempt, prompt, delivered>> => Client'
  BY DEF Known, Client
<1>0. ASSUME NEW id \in SessionIds \cup {Unset}, Attaches(id) \/ UNCHANGED live,
             UNCHANGED <<stored, minted, created, runs, attempt, prompt, delivered>>
      PROVE  Known'
  BY <1>0, <1>c, KnownAttached
<1>1. ASSUME UNCHANGED <<live, stored, minted, created, runs, attempt, prompt, delivered>>
      PROVE  Known'
  BY <1>0, <1>1
<1>t. live \in [SessionIds -> Seq(Nat) \cup {Gone}] /\ stored \in [SessionIds -> Seq(Nat) \cup {Gone}]
  BY DEF Coherent, VersionTypeOK
<1>2. CASE GetCapabilities
  <2>1. PICK req \in GetCapabilitiesRequest :
          /\ Attaches(req.session_id) \/ UNCHANGED live
          /\ UNCHANGED <<stored, minted, created, runs, attempt, prompt, delivered>>
    BY <1>2 DEF GetCapabilities, Asks, AttachFails
  <2>2. req.session_id \in SessionIds \cup {Unset}
    BY DEF GetCapabilitiesRequest, SessionId, Optional
  <2> QED
    BY <1>0, <2>1, <2>2
<1>3. CASE GetSession
  <2>1. PICK req \in GetSessionRequest :
          /\ Attaches(req.session_id) \/ UNCHANGED live
          /\ UNCHANGED <<stored, minted, created, runs, attempt, prompt, delivered>>
    BY <1>3 DEF GetSession, Asks, AttachFails
  <2>2. req.session_id \in SessionIds \cup {Unset}
    BY DEF GetSessionRequest, SessionId, Optional
  <2> QED
    BY <1>0, <2>1, <2>2
<1>4. CASE GetAvailableModels
  <2>1. PICK req \in GetAvailableModelsRequest :
          /\ Attaches(req.session_id) \/ UNCHANGED live
          /\ UNCHANGED <<stored, minted, created, runs, attempt, prompt, delivered>>
    BY <1>4 DEF GetAvailableModels, Asks, AttachFails
  <2>2. req.session_id \in SessionIds \cup {Unset}
    BY DEF GetAvailableModelsRequest, SessionId, Optional
  <2> QED
    BY <1>0, <2>1, <2>2
<1>5. CASE GetTurn
  <2>1. PICK req \in GetTurnRequest(0..MaxEntries) :
          /\ Attaches(req.session_id) \/ UNCHANGED live
          /\ UNCHANGED <<stored, minted, created, runs, attempt, prompt, delivered>>
    BY <1>5 DEF GetTurn, Asks, AttachFails
  <2>2. req.session_id \in SessionIds \cup {Unset}
    BY DEF GetTurnRequest, SessionId, Optional
  <2> QED
    BY <1>0, <2>1, <2>2
<1>6. CASE ListEntries
  <2>1. PICK id \in SessionIds :
          /\ Attaches(id) \/ UNCHANGED live
          /\ UNCHANGED <<stored, minted, created, runs, attempt, prompt, delivered>>
    BY <1>6 DEF ListEntries, AttachFails
  <2> QED
    BY <1>0, <2>1
<1>7. ASSUME NEW id \in SessionIds \cup {Unset}, UNCHANGED <<stored, minted, created>>, Concludes,
             \/ UNCHANGED <<live, runs, prompt, delivered>>
             \/ /\ Attaches(id)
                /\ \E rpc, Bodies : Send(rpc, id, Bodies) \/ \E req : req.session_id = id /\ Submit(req)
      PROVE  Known'
  <2>1. attempt' \in {"open", "closed"}
    BY <1>7 DEF Concludes
  <2>2. CASE UNCHANGED <<live, runs, prompt, delivered>>
    <3>1. Client'
      BY <2>1, <2>2 DEF Known, Client
    <3> QED
      BY <1>7, <2>2, <3>1, KnownAttached
  <2>3. CASE /\ Attaches(id)
             /\ \E rpc, Bodies : Send(rpc, id, Bodies) \/ \E req : req.session_id = id /\ Submit(req)
    <3>1. runs' \subseteq runs \cup {id} /\ delivered' \in Nat /\ prompt' \in {"unsent", "waiting", "taken"}
      BY <2>3, SendKnown
    <3>2. Client'
      BY <2>1, <3>1 DEF Client
    <3> QED
      BY <1>7, <2>3, <3>1, <3>2, KnownAttached
  <2> QED
    BY <1>7, <2>2, <2>3
<1>8. CASE SendMessage
  <2> DEFINE Bodies == {[text |-> t, stop_reason |-> t, stats |-> statsProto] : t \in {TheText, Unset}}
  <2>1. PICK req \in SendMessageRequest :
          /\ UNCHANGED <<stored, minted, created>> /\ Concludes
          /\ \/ UNCHANGED <<live, runs, prompt, delivered>>
             \/ Attaches(req.session_id) /\ Send("SendMessage", req.session_id, Bodies)
    BY <1>8 DEF SendMessage, SendsTo, AttachFails
  <2>2. req.session_id \in SessionIds \cup {Unset}
    BY DEF SendMessageRequest, SessionId, Optional
  <2> HIDE DEF Bodies
  <2> QED
    BY <1>7, <2>1, <2>2
<1>9. CASE StreamMessage
  <2> DEFINE Bodies == {Unset, [type |-> "agent_settled", payload_json |-> TheText]}
  <2>1. PICK req \in StreamMessageRequest :
          /\ UNCHANGED <<stored, minted, created>> /\ Concludes
          /\ \/ UNCHANGED <<live, runs, prompt, delivered>>
             \/ Attaches(req.session_id) /\ Send("StreamMessage", req.session_id, Bodies)
    BY <1>9 DEF StreamMessage, SendsTo, AttachFails
  <2>2. req.session_id \in SessionIds \cup {Unset}
    BY DEF StreamMessageRequest, SessionId, Optional
  <2> HIDE DEF Bodies
  <2> QED
    BY <1>7, <2>1, <2>2
<1>10. CASE SubmitMessage
  <2>1. PICK req \in SubmitMessageRequest :
          /\ UNCHANGED <<stored, minted, created>> /\ Concludes
          /\ \/ UNCHANGED <<live, runs, prompt, delivered>>
             \/ Attaches(req.session_id) /\ Submit(req)
    BY <1>10 DEF SubmitMessage, SendsTo, AttachFails, Unsent
  <2>2. req.session_id \in SessionIds \cup {Unset}
    BY DEF SubmitMessageRequest, SessionId, Optional
  <2> QED
    BY <1>7, <2>1, <2>2
<1>11. CASE CreateSession
  <2>1. UNCHANGED <<stored, runs, minted, attempt, prompt, delivered>>
    BY <1>11 DEF CreateSession
  <2>2. CASE UNCHANGED <<live, created>>
    BY <1>1, <2>1, <2>2
  <2>3. CASE \E id \in SessionIds \ created : live' = [live EXCEPT ![id] = <<>>] /\ created' = created \cup {id}
    <3>1. PICK id \in SessionIds \ created : live' = [live EXCEPT ![id] = <<>>] /\ created' = created \cup {id}
      BY <2>3
    <3>2. created' \subseteq SessionIds /\ IsFiniteSet(created')
      BY <3>1, FS_AddElement DEF Known
    <3>3. \A j \in SessionIds : j # id => live'[j] = live[j]
      BY <1>t, <3>1
    <3>4. \A j \in SessionIds : Held(j)' # Gone => j \in created'
      BY <2>1, <3>1, <3>3 DEF Known, Held
    <3>5. runs' \subseteq {j \in created' : live'[j] # Gone}
      BY <2>1, <3>1, <3>3 DEF Known
    <3> QED
      BY <2>1, <3>2, <3>4, <3>5 DEF Known
  <2> QED
    BY <1>11, <2>2, <2>3 DEF CreateSession
<1>12. CASE AbortSession
  <2>1. UNCHANGED <<stored, live, minted, created, attempt, prompt, delivered>> /\ runs' \subseteq runs
    BY <1>12 DEF AbortSession
  <2> QED
    BY <2>1 DEF Known, Held
<1>13. ASSUME NEW id, UNCHANGED <<minted, created, attempt, prompt, delivered>>,
              \/ live' = live /\ runs' = runs
              \/ live' = [live EXCEPT ![id] = Gone] /\ runs' = runs \ {id},
              stored' = stored \/ stored' = [stored EXCEPT ![id] = Gone]
       PROVE  Known'
  <2>1. \A j \in SessionIds : /\ live'[j] \in {live[j], Gone} /\ (j # id => live'[j] = live[j])
                              /\ stored'[j] \in {stored[j], Gone}
    BY <1>t, <1>13
  <2>2. \A j \in SessionIds : Held(j)' # Gone => Held(j) # Gone
    BY <2>1 DEF Held
  <2>3. runs' \subseteq {j \in created' : live'[j] # Gone}
    BY <1>13, <2>1 DEF Known
  <2> QED
    BY <1>13, <2>2, <2>3 DEF Known
<1>14. CASE DeleteSession
  <2>1. PICK req \in DeleteSessionRequest :
          /\ UNCHANGED <<minted, created, attempt, prompt, delivered>>
          /\ \/ live' = live /\ runs' = runs
             \/ live' = [live EXCEPT ![req.session_id] = Gone] /\ runs' = runs \ {req.session_id}
          /\ stored' = stored \/ stored' = [stored EXCEPT ![req.session_id] = Gone]
    BY <1>14 DEF DeleteSession
  <2> QED
    BY <1>13, <2>1
<1>15. CASE ProcessEnds
  BY <1>13, <1>15 DEF ProcessEnds
<1>16. CASE PiAppends
  <2>1. PICK id \in runs :
          /\ minted < MaxEntries /\ live[id] # Gone /\ minted' = minted + 1
          /\ live' = [live EXCEPT ![id] = Append(@, minted + 1)]
          /\ UNCHANGED <<stored, runs, created, attempt, prompt, delivered>>
    BY <1>16 DEF PiAppends
  <2>2. id \in SessionIds /\ id \in created /\ live[id] \in Seq(Nat) /\ minted \in Nat /\ MaxEntries \in Nat
    BY <1>t, <2>1, ApiAssumption DEF Known, Coherent, VersionTypeOK
  <2>3. live'[id] \in Seq(Nat) /\ live'[id] # Gone
    <3>1. live'[id] = Append(live[id], minted + 1)
      BY <1>t, <2>1, <2>2
    <3>2. Append(live[id], minted + 1) \in Seq(Nat)
      BY <2>2
    <3> QED
      BY <3>1, <3>2, ApiAssumption
  <2>4. \A j \in SessionIds : j # id => live'[j] = live[j]
    BY <1>t, <2>1
  <2>5. \A j \in SessionIds : Held(j)' # Gone => j \in created'
    BY <2>1, <2>2, <2>4 DEF Known, Held
  <2>6. runs' \subseteq {j \in created' : live'[j] # Gone}
    BY <2>1, <2>3, <2>4 DEF Known
  <2>7. minted' <= MaxEntries
    BY <2>1, <2>2
  <2> QED
    BY <2>1, <2>5, <2>6, <2>7 DEF Known
<1>17. CASE PiPersists
  <2>1. PICK id \in SessionIds : live[id] # Gone /\ stored' = [stored EXCEPT ![id] = live[id]]
    BY <1>17 DEF PiPersists
  <2>2. \A j \in SessionIds : Held(j)' # Gone => Held(j) # Gone
    BY <1>t, <1>17, <2>1 DEF Held, PiPersists
  <2> QED
    BY <1>17, <2>2 DEF PiPersists, Known
<1>18. CASE RunChanges
  <2>1. PICK id \in SessionIds :
          /\ live[id] # Gone /\ runs' \subseteq runs \cup {id}
          /\ UNCHANGED <<stored, live, minted, created, attempt, prompt, delivered>>
    BY <1>18 DEF RunChanges
  <2>2. id \in created
    BY <2>1 DEF Known, Held
  <2> QED
    BY <2>1, <2>2 DEF Known, Held
<1>19. CASE PiAcknowledges
  BY <1>19 DEF PiAcknowledges, Known, Held
<1>20. CASE ListSessions \/ ListDirectories \/ ListHostCalls \/ RespondHostCall \/ RefusedAtDoor \/ UNCHANGED apiVars
  BY <1>1, <1>20 DEF ListSessions, ListDirectories, ListHostCalls, RespondHostCall, RefusedAtDoor, apiVars
<1> QED
  BY <1>2, <1>3, <1>4, <1>5, <1>6, <1>8, <1>9, <1>10, <1>11, <1>12, <1>14, <1>15, <1>16, <1>17, <1>18, <1>19,
     <1>20 DEF ApiNext

\* Every answer is well formed: a success is a response message of its rpc,
\* whatever the request, pi and the processes did, and an error has none
\* (service.go, sessionProto); and the sessions have their types.
THEOREM PiAnswersTyped == ApiSpec => []ApiTypeOK
<1>1. ApiInit => Known /\ AnswerOK
  <2> SUFFICES ASSUME ApiInit PROVE Known /\ AnswerOK
    OBVIOUS
  <2>1. AnswerOK
    BY ResponsesAre DEF ApiInit, AnswerOK, NewResponse, Outcome
  <2>2. Known
    BY ApiAssumption, FS_EmptySet DEF ApiInit, Known, Held
  <2> QED
    BY <2>1, <2>2
<1>2. Coherent /\ Known /\ AnswerOK /\ [ApiNext]_apiVars => AnswerOK'
  <2> SUFFICES ASSUME Coherent, Known, AnswerOK, [ApiNext]_apiVars PROVE AnswerOK'
    OBVIOUS
  <2>1. ASSUME UNCHANGED outcome PROVE AnswerOK'
    BY <2>1 DEF AnswerOK, Responses
  <2> QED
    BY <2>1, ReportsOK, ListsOK, EntriesOK, SendsOK, ChangesOK DEF ApiNext, apiVars, PiAppends, PiPersists, RunChanges, PiAcknowledges,
       ProcessEnds
<1>3. Coherent /\ Known /\ AnswerOK => ApiTypeOK
  <2> SUFFICES ASSUME Coherent, Known, AnswerOK PROVE ApiTypeOK
    OBVIOUS
  <2>1. minted \in Nat /\ MaxEntries \in Nat /\ minted <= MaxEntries
    BY ApiAssumption DEF Coherent, VersionTypeOK, Known
  <2>2. Seq(1..minted) \subseteq Seq(1..MaxEntries)
    <3>1. 1..minted \subseteq 1..MaxEntries
      BY <2>1
    <3> QED
      BY <3>1, SeqMonotonic
  <2>3. Versions \cup {<<>>} \subseteq Seq(1..MaxEntries)
    BY <2>2, EmptySeq DEF Coherent
  <2>4. /\ stored \in [SessionIds -> Seq(1..MaxEntries) \cup {Gone}]
        /\ live \in [SessionIds -> Seq(1..MaxEntries) \cup {Gone}]
        /\ transcript \in [SessionIds -> Seq(1..MaxEntries)]
    BY <2>3, VersionsAre
  <2> QED
    BY <2>1, <2>4 DEF ApiTypeOK, Known, AnswerOK
<1> QED
  BY <1>1, <1>2, <1>3, InitCoherent, NextCoherent, NextKnown, PTL DEF ApiSpec


-----------------------------------------------------------------------------
(* The Cursor API: every request to the bridge, and every answer, is well  *)
(* formed.                                                                 *)

\* A successful answer is a response message of its rpc, an error has none.
ReplyOK == reply.body \in IF reply.code = "ok" THEN CursorResponses[reply.rpc] ELSE {NotSet}

\* The requests to the bridge, and what consumeRun has of the stream.
StreamOK ==
    /\ asked \in Maybe(SdkRequests)
    /\ heard \in Seq(RunStreamMessage)
    /\ terminal \in Maybe(RunStreamResult) /\ assistantText \in Seq(Words) /\ statusMessage \in Maybe(Words)
    /\ phase \in {"idle", "streaming", "over"} /\ ended \in {"open", "clean", "broken"} /\ left \in BOOLEAN

\* The response messages, rpc by rpc.
LEMMA CursorResponsesAre ==
    /\ CursorResponses["none"] = {NotSet}
    /\ CursorResponses["CreateSession"] = CursorCreateSessionResponse
    /\ CursorResponses["SendMessage"] = CursorSendMessageResponse
    /\ CursorResponses["AbortSession"] = {NotSet}
    /\ CursorResponses["ListModels"] = CursorListModelsResponse
  BY DEF CursorResponses, CursorAbortSessionResponse

\* What the calls fail with.
Failures ==
    BridgeRefusals \cup StartErrors
        \cup {apiKeyError} \cup {Sentinel(name) : name \in {"ErrNotFound", "ErrBusy", "ErrTooManySessions", "ErrInvalidCwd",
                                                "ErrInvalidMode", "ErrCancelled", "errBridgeExited", "other"}}

\* None of it is ok.
LEMMA FailuresRefuse ==
    ASSUME NEW error \in Failures
    PROVE  Code(error) # "ok"
<1>1. CASE error = apiKeyError
  BY <1>1, ConnectErrorRefuses DEF apiKeyError
<1>2. ASSUME NEW name \in {"ErrInvalidCwd", "ErrInvalidMode"}
      PROVE  Code(Sentinel(name)) # "ok"
  <2>1. Sentinel(name).is = name
    BY DEF Sentinel
  <2>2. SentinelCode["ErrInvalidCwd"] = "invalid_argument" /\ SentinelCode["ErrInvalidMode"] = "invalid_argument"
    BY DEF SentinelCode
  <2> QED
    BY <2>1, <2>2 DEF Code
<1> QED
  BY <1>1, <1>2, RefusalCodes, SentinelRefuses DEF Failures

\* An error is answered without a message,
LEMMA FailsOK ==
    ASSUME NEW rpc, NEW Errors, Errors \subseteq Failures, FailsWith(rpc, Errors)
    PROVE  ReplyOK'
<1>1. PICK error \in Failures : reply' = ReplyOf(rpc, Code(error), error.reason, NotSet)
  BY DEF FailsWith, Failed
<1>2. reply'.code # "ok" /\ reply'.body = NotSet
  BY <1>1, FailuresRefuse DEF ReplyOf
<1> QED
  BY <1>2 DEF ReplyOK

\* also a single one,
LEMMA FailedOK ==
    ASSUME NEW rpc, NEW error \in Failures, Failed(rpc, error)
    PROVE  ReplyOK'
  BY FailsOK DEF FailsWith

\* and a success with one of the rpc's.
LEMMA OkOK ==
    ASSUME NEW rpc, NEW body, Ok(rpc, body), body \in CursorResponses[rpc]
    PROVE  ReplyOK'
<1>1. reply'.rpc = rpc /\ reply'.code = "ok" /\ reply'.body = body
  BY DEF Ok, ReplyOf
<1> QED
  BY <1>1 DEF ReplyOK, CursorResponses

\* The errors that the actions name.
LEMMA FailuresAre ==
    /\ BridgeRefusals \subseteq Failures /\ StartErrors \subseteq Failures /\ ContextErrors \subseteq Failures
    /\ Other \in Failures /\ Sentinel("ErrNotFound") \in Failures /\ Sentinel("ErrBusy") \in Failures
    /\ Sentinel("ErrTooManySessions") \in Failures /\ Sentinel("ErrInvalidCwd") \in Failures
    /\ Sentinel("ErrInvalidMode") \in Failures /\ Sentinel("errBridgeExited") \in Failures
    /\ \A status, code : runFailure(status, code) \in Failures
  BY DEF Failures, StartErrors, Other, runFailure

\* The requests of the handlers are messages of the bridge.
LEMMA CreateAsks ==
    ASSUME NEW req \in CursorCreateSessionRequest
    PROVE  [options |-> Options(req)] \in Maybe(SdkRequests)
<1>1. KeyWord \in Words /\ req.name \in Maybe(Words) /\ req.model \in Maybe(Words) /\ req.cwd \in Maybe(Words)
  BY CursorApiAssumption DEF CursorCreateSessionRequest
<1>2. (IF req.cwd = NotSet THEN KeyWord ELSE req.cwd) \in Words
  BY <1>1 DEF Maybe
<1>3. [cwd |-> <<IF req.cwd = NotSet THEN KeyWord ELSE req.cwd>>] \in LocalAgentOptions
  BY <1>2 DEF LocalAgentOptions
<1>4. (IF req.model = NotSet THEN NotSet ELSE [id |-> req.model]) \in Maybe(SdkModelSelection)
  BY <1>1 DEF Maybe, SdkModelSelection
<1>5. ModeOf(req.mode) \in AgentModeOption
  BY DEF ModeOf, AgentModeOption
<1>6. Options(req) \in AgentOptions
  BY <1>1, <1>3, <1>4, <1>5 DEF Options, AgentOptions, Maybe
<1> QED
  BY <1>6 DEF CreateAgentRequest, SdkRequests, Maybe

\* So are those of Send.
LEMMA SendAsks ==
    ASSUME NEW req \in CursorSendMessageRequest, req.session_id # NotSet
    PROVE  /\ [agent_id |-> req.session_id, message |-> [text |-> req.message, images |-> sdkImages(req.images)]]
                \in Maybe(SdkRequests)
           /\ Resumes(req.session_id) => asked' \in Maybe(SdkRequests)
<1>1. req.session_id \in Agents /\ req.message \in Words /\ req.images \in Single(CursorImageContent)
  BY DEF CursorSendMessageRequest, Maybe
<1>2. sdkImages(req.images) \in Seq(SdkImage)
  <2>1. CASE req.images = <<>>
    <3>1. sdkImages(<<>>) = <<>>
      BY DEF sdkImages
    <3>2. <<>> \in Seq(SdkImage)
      OBVIOUS
    <3> QED
      BY <2>1, <3>1, <3>2, Zenon
  <2>2. CASE \E c \in CursorImageContent : req.images = <<c>>
    <3>1. PICK c \in CursorImageContent : req.images = <<c>>
      BY <2>2
    <3>2. [data |-> [data |-> c.data, mime_type |-> c.mime_type]] \in SdkImage
      BY DEF CursorImageContent, SdkImage, SdkImageData
    <3>3. sdkImages(<<c>>) \in [1..1 -> SdkImage]
      BY <3>2 DEF sdkImages
    <3> QED
      BY <3>1, <3>3, SeqDef
  <2> QED
    BY <1>1, <2>1, <2>2 DEF Single
<1>3. [agent_id |-> req.session_id, message |-> [text |-> req.message, images |-> sdkImages(req.images)]] \in SendRequest
  BY <1>1, <1>2 DEF SendRequest, UserMessage
<1>4. ASSUME Resumes(req.session_id)
      PROVE  asked' \in ResumeAgentRequest \cup GetAgentRequest
  BY <1>1, <1>4 DEF Resumes, ResumeAgentRequest, GetAgentRequest, AgentOptions, AgentOperationOptions, AgentModeOption,
     Maybe
<1> QED
  BY <1>3, <1>4 DEF SdkRequests, Maybe

\* Every call keeps the requests and the answers well formed.
LEMMA CallsOK ==
    ASSUME StreamOK, ReplyOK, CursorCreateSession \/ CursorListModels \/ CursorAbort \/ CursorSend
    PROVE  StreamOK' /\ ReplyOK'
<1>1. ASSUME NewCall, asked' \in Maybe(SdkRequests), phase' \in {"idle", "streaming"}
      PROVE  StreamOK'
  BY <1>1 DEF StreamOK, NewCall, runVars
<1>2. ASSUME NewCall, UNCHANGED asked, phase' \in {"idle", "streaming"}
      PROVE  StreamOK'
  BY <1>1, <1>2 DEF StreamOK
<1>3. CASE CursorCreateSession
  <2>1. PICK req \in CursorCreateSessionRequest :
          \/ \E Errors : Errors \subseteq Failures /\ FailsWith("CreateSession", Errors) /\ UNCHANGED asked
          \/ /\ asked' = [options |-> Options(req)]
             /\ \/ \E Errors : Errors \subseteq Failures /\ FailsWith("CreateSession", Errors)
                \/ Failed("CreateSession", Other)
                \/ \E response \in CreateAgentResponse :
                     response.agent_id # NotSet /\ Ok("CreateSession", [session_id |-> response.agent_id])
    <3>1. /\ {Sentinel("ErrInvalidCwd")} \subseteq Failures /\ {Sentinel("ErrInvalidMode")} \subseteq Failures
          /\ StartErrors \cup {Sentinel("ErrTooManySessions")} \subseteq Failures
          /\ BridgeRefusals \cup {Other} \subseteq Failures
      BY FailuresAre
    <3> QED
      BY <1>3, <3>1 DEF CursorCreateSession
  <2>2. ASSUME NEW response \in CreateAgentResponse, response.agent_id # NotSet
        PROVE  [session_id |-> response.agent_id] \in CursorResponses["CreateSession"]
    BY <2>2, CursorResponsesAre DEF CreateAgentResponse, Maybe, CursorCreateSessionResponse
  <2>3. ReplyOK'
    BY <2>1, <2>2, FailsOK, FailedOK, FailuresAre, OkOK
  <2>4. StreamOK'
    BY <1>1, <1>2, <1>3, <2>1, CreateAsks DEF CursorCreateSession, NewCall
  <2> QED
    BY <2>3, <2>4
<1>4. CASE CursorListModels
  <2> DEFINE Names(items) == [models |-> [i \in DOMAIN items |-> [id |-> items[i].id, name |-> items[i].display_name]]]
  <2>1. /\ UNCHANGED asked \/ asked' = [options |-> [api_key |-> "key"]]
        /\ \/ FailsWith("ListModels", StartErrors) \/ FailsWith("ListModels", BridgeRefusals)
           \/ \E items \in Single(SdkModel) : Ok("ListModels", Names(items))
    BY <1>4 DEF CursorListModels
  <2>2. [options |-> [api_key |-> "key"]] \in Maybe(SdkRequests)
    BY DEF SdkListModelsRequest, CursorRequestOptions, SdkRequests, Maybe
  <2>3. ASSUME NEW items \in Single(SdkModel)
        PROVE  Names(items) \in CursorResponses["ListModels"]
    <3> DEFINE models == [i \in DOMAIN items |-> [id |-> items[i].id, name |-> items[i].display_name]]
    <3>1. models \in Seq(CursorModel)
      <4>1. CASE items = <<>>
        <5>1. models = <<>>
          BY <4>1
        <5>2. <<>> \in Seq(CursorModel)
          OBVIOUS
        <5> QED
          BY <5>1, <5>2, Zenon
      <4>2. CASE \E m \in SdkModel : items = <<m>>
        <5>1. PICK m \in SdkModel : items = <<m>>
          BY <4>2
        <5>2. [id |-> m.id, name |-> m.display_name] \in CursorModel
          BY DEF SdkModel, CursorModel
        <5>3. models \in [1..1 -> CursorModel]
          BY <5>1, <5>2
        <5> QED
          BY <5>3, SeqDef
      <4> QED
        BY <4>1, <4>2 DEF Single
    <3> HIDE DEF models
    <3>2. [models |-> models] \in CursorListModelsResponse
      BY <3>1 DEF CursorListModelsResponse
    <3> QED
      BY <3>2, CursorResponsesAre DEF models
  <2> HIDE DEF Names
  <2>4. ReplyOK'
    BY <2>1, <2>3, FailsOK, FailuresAre, OkOK
  <2>5. StreamOK'
    BY <1>1, <1>2, <1>4, <2>1, <2>2 DEF CursorListModels, NewCall
  <2> QED
    BY <2>4, <2>5
<1>5. CASE CursorAbort
  <2>1. /\ UNCHANGED asked
        /\ \/ \E Errors : Errors \subseteq Failures /\ FailsWith("AbortSession", Errors)
           \/ Ok("AbortSession", NotSet)
    <3>1. {Sentinel("ErrNotFound")} \subseteq Failures /\ {e \in BridgeRefusals : e.is # "ErrNotFound"} \subseteq Failures
      BY FailuresAre
    <3> QED
      BY <1>5, <3>1 DEF CursorAbort
  <2>2. ReplyOK'
    BY <2>1, FailsOK, OkOK, CursorResponsesAre
  <2>3. StreamOK'
    BY <1>2, <1>5, <2>1 DEF CursorAbort, NewCall
  <2> QED
    BY <2>2, <2>3
<1>6. CASE CursorSend
  <2>1. PICK req \in CursorSendMessageRequest :
          \/ /\ \/ Failed("SendMessage", Sentinel("ErrNotFound"))
                \/ \E Errors : Errors \subseteq Failures /\ FailsWith("SendMessage", Errors)
             /\ UNCHANGED <<phase, asked>>
          \/ /\ req.session_id # NotSet /\ UNCHANGED phase
             /\ Resumes(req.session_id) /\ FailsWith("SendMessage", BridgeRefusals)
          \/ /\ req.session_id # NotSet
             /\ asked' = [agent_id |-> req.session_id,
                          message |-> [text |-> req.message, images |-> sdkImages(req.images)]]
             /\ \/ FailsWith("SendMessage", BridgeRefusals) /\ UNCHANGED phase
                \/ phase' = "streaming" /\ reply' = ReplyOf("SendMessage", "pending", "", NotSet)
    <3>1. StartErrors \cup {Sentinel("ErrTooManySessions"), Sentinel("ErrBusy")} \subseteq Failures
      BY FailuresAre
    <3> QED
      BY <1>6, <3>1 DEF CursorSend
  <2>2. reply' = ReplyOf("SendMessage", "pending", "", NotSet) => ReplyOK'
    <3> SUFFICES ASSUME reply' = ReplyOf("SendMessage", "pending", "", NotSet)
                 PROVE  ReplyOK'
      OBVIOUS
    <3>1. reply'.code = "pending" /\ reply'.body = NotSet
      BY DEF ReplyOf
    <3>2. reply'.code # "ok" /\ reply'.body \in {NotSet}
      BY <3>1
    <3> QED
      BY <3>2, Zenon DEF ReplyOK
  <2>3. ReplyOK'
    BY <2>1, <2>2, FailsOK, FailedOK, FailuresAre
  <2>4. NewCall /\ phase' \in {"idle", "streaming"}
    BY <1>6, <2>1 DEF CursorSend, NewCall
  <2>5. UNCHANGED asked \/ asked' \in Maybe(SdkRequests)
    BY <2>1, SendAsks
  <2> QED
    BY <1>1, <1>2, <2>3, <2>4, <2>5
<1> QED
  BY <1>3, <1>4, <1>5, <1>6

\* What consumeRun makes of a message of the stream has its type.
LEMMA ReceiveOK ==
    ASSUME StreamOK, Receive
    PROVE  StreamOK'
<1>1. PICK m \in StreamMessages : heard' = Append(heard, m) /\ Receives(m)
  BY DEF Receive
<1>2. Results \subseteq RunStreamResult
  BY CursorApiAssumption DEF Results, RunStreamResult, RunLifecycleStatus, RunResult, Maybe
<1>3. m \in RunStreamMessage
  <2>1. CASE \E r \in Results : m = [envelope |-> "result", result |-> r]
    BY <1>2, <2>1 DEF RunStreamMessage
  <2>2. CASE m = [envelope |-> "done", done |-> [run_id |-> NotSet]]
    BY <2>2 DEF RunStreamMessage, RunStreamDone, Maybe
  <2>3. CASE \E c \in [type : {"assistant", "status"}, message : Words] \cup {[type |-> "status", message |-> NotSet]} :
               m = [envelope |-> "sdk_message", sdk_message |-> c]
    <3>1. PICK c \in [type : {"assistant", "status"}, message : Words] \cup {[type |-> "status", message |-> NotSet]} :
               m = [envelope |-> "sdk_message", sdk_message |-> c]
      BY <2>3
    <3>2. c \in SdkMessage
      BY DEF SdkMessage, Maybe
    <3> QED
      BY <3>1, <3>2 DEF RunStreamMessage
  <2> QED
    BY <2>1, <2>2, <2>3 DEF StreamMessages
<1>4. heard' \in Seq(RunStreamMessage)
  BY <1>1, <1>3 DEF StreamOK
<1>5. terminal' \in Maybe(RunStreamResult)
  BY <1>1, <1>2, MessageShape DEF Receives, StreamOK, Maybe
<1>6. statusMessage' \in Maybe(Words)
  BY <1>1, MessageShape DEF Receives, StreamOK, Maybe
<1>7. assistantText' \in Seq(Words)
  <2>1. CASE assistantText' = assistantText
    BY <2>1 DEF StreamOK
  <2>2. CASE m.envelope = "sdk_message" /\ m.sdk_message.message # NotSet
             /\ assistantText' = Append(assistantText, m.sdk_message.message)
    <3>1. m.sdk_message.message \in Words
      BY <2>2, MessageShape
    <3> QED
      BY <2>2, <3>1 DEF StreamOK
  <2> QED
    BY <1>1, <2>1, <2>2 DEF Receives
<1>8. asked' \in Maybe(SdkRequests)
  BY DEF Receive, Maybe
<1> QED
  BY <1>4, <1>5, <1>6, <1>7, <1>8 DEF Receive, StreamOK

\* The answer of a run is well formed however its stream ends.
LEMMA EndsOK ==
    ASSUME StreamOK, StreamBroke \/ StreamEnds
    PROVE  StreamOK' /\ ReplyOK'
<1>1. StreamOK'
  BY DEF StreamOK, StreamBroke, StreamEnds, Maybe
<1>2. ASSUME NEW Errors, Errors \subseteq Failures, SendFails(Errors)
      PROVE  ReplyOK'
  <2>1. ContextErrors \subseteq Failures
    BY FailuresAre
  <2>2. FailsWith("SendMessage", Errors) \/ FailsWith("SendMessage", ContextErrors)
    BY <1>2 DEF SendFails
  <2> QED
    BY <1>2, <2>1, <2>2, FailsOK
<1>3. CASE StreamBroke
  <2>1. BridgeRefusals \cup {Sentinel("errBridgeExited")} \subseteq Failures
    BY FailuresAre
  <2> QED
    BY <1>1, <1>2, <1>3, <2>1 DEF StreamBroke
<1>4. CASE StreamEnds
  <2> DEFINE text == IF terminal.result # NotSet /\ terminal.result.result # NotSet
                     THEN <<terminal.result.result>> ELSE assistantText
             failure == runFailure(terminal.status, terminal.error_code)
  <2>1. \/ SendFails({Other}) \/ SendFails({failure})
        \/ terminal # NotSet /\ Ok("SendMessage", [text |-> text])
    BY <1>4 DEF StreamEnds
  <2>2. {Other} \subseteq Failures /\ {failure} \subseteq Failures
    BY FailuresAre
  <2>3. ASSUME terminal # NotSet
        PROVE  [text |-> text] \in CursorResponses["SendMessage"]
    <3>1. terminal \in RunStreamResult /\ assistantText \in Seq(Words)
      BY <2>3 DEF StreamOK, Maybe
    <3>2. CASE terminal.result # NotSet /\ terminal.result.result # NotSet
      <4>1. terminal.result.result \in Words
        BY <3>1, <3>2 DEF RunStreamResult, RunResult, Maybe
      <4>2. text = <<terminal.result.result>>
        BY <3>2
      <4>3. <<terminal.result.result>> \in Seq(Words)
        BY <4>1
      <4>4. text \in Seq(Words)
        BY <4>2, <4>3, Zenon
      <4> QED
        BY <4>4, CursorResponsesAre DEF CursorSendMessageResponse
    <3>3. CASE ~(terminal.result # NotSet /\ terminal.result.result # NotSet)
      <4>1. text \in Seq(Words)
        BY <3>1, <3>3
      <4> QED
        BY <4>1, CursorResponsesAre DEF CursorSendMessageResponse
    <3> QED
      BY <3>2, <3>3
  <2> HIDE DEF text, failure
  <2>4. ReplyOK'
    BY <1>2, <2>1, <2>2, <2>3, OkOK
  <2> QED
    BY <1>1, <2>4
<1> QED
  BY <1>3, <1>4

\* Every request to the bridge is one of its messages, every answer a response
\* message of its rpc or an error without one, whatever the bridge says.
THEOREM CursorAnswersTyped == CursorApiSpec => []CursorTypeOK
<1>1. CursorApiInit => StreamOK /\ ReplyOK
  <2> SUFFICES ASSUME CursorApiInit PROVE StreamOK /\ ReplyOK
    OBVIOUS
  <2>1. StreamOK
    <3>1. <<>> \in Seq(RunStreamMessage) /\ <<>> \in Seq(Words)
      OBVIOUS
    <3>2. heard \in Seq(RunStreamMessage) /\ assistantText \in Seq(Words)
      BY <3>1, Zenon DEF CursorApiInit
    <3>3. asked = NotSet /\ terminal = NotSet /\ statusMessage = NotSet
      BY DEF CursorApiInit
    <3>4. phase = "idle" /\ ended = "open" /\ left = FALSE
      BY DEF CursorApiInit
    <3> QED
      BY <3>2, <3>3, <3>4, Zenon DEF StreamOK, Maybe
  <2>2. ReplyOK
    BY CursorResponsesAre DEF CursorApiInit, ReplyOK, ReplyOf
  <2> QED
    BY <2>1, <2>2
<1>2. StreamOK /\ ReplyOK /\ [CursorApiNext]_cursorApiVars => StreamOK' /\ ReplyOK'
  <2> SUFFICES ASSUME StreamOK, ReplyOK, [CursorApiNext]_cursorApiVars PROVE StreamOK' /\ ReplyOK'
    OBVIOUS
  <2>1. ASSUME UNCHANGED reply PROVE ReplyOK'
    BY <2>1 DEF ReplyOK, CursorResponses
  <2>2. CASE Receive
    BY <2>1, <2>2, ReceiveOK DEF Receive
  <2>3. CASE CallerLeaves
    BY <2>1, <2>3 DEF CallerLeaves, StreamOK
  <2>4. CASE UNCHANGED cursorApiVars
    BY <2>1, <2>4 DEF cursorApiVars, runVars, StreamOK
  <2> QED
    BY <2>2, <2>3, <2>4, CallsOK, EndsOK DEF CursorApiNext
<1>3. StreamOK /\ ReplyOK => CursorTypeOK
  BY DEF StreamOK, ReplyOK, CursorTypeOK
<1> QED
  BY <1>1, <1>2, <1>3, PTL DEF CursorApiSpec

\* Neither API ever answers what is not a message of the rpc: a response that says
\* less or more than its declaration, or an error that carries a body.
THEOREM AnswersTyped == ApiSpec /\ CursorApiSpec => []AnswersWellFormed
<1>1. ApiTypeOK /\ CursorTypeOK => AnswersWellFormed
  BY DEF AnswersWellFormed
<1> QED
  BY <1>1, PiAnswersTyped, CursorAnswersTyped, PTL

=============================================================================
