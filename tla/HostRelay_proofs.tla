-------------------------- MODULE HostRelay_proofs --------------------------
(***************************************************************************)
(* Proofs about HostRelay: a host call is settled once, by its own turn,   *)
(* and a long poll of the host never sleeps through a call.                *)
(*                                                                         *)
(* The inductive invariant is a conjunction of layers, each proved from    *)
(* the ones before it:                                                     *)
(*   Types      what every variable and every message on the socket is;    *)
(*   Started    the extension asks for its current run, and a message that *)
(*              names a run names one that has started;                    *)
(*   Reserved   the active grant is the current one, of the run that holds *)
(*              the slot, and the only one with a pending call;            *)
(*   Listening  a long poll sleeps on an active turn with nothing pending; *)
(*   Isolated   a turn, and a config on its way, is of the run that asks;  *)
(*   Settled    one answer in the ledger, on the socket and in the tool;   *)
(*   Ledger     the bound of the ledger, which keeps every active grant.   *)
(***************************************************************************)
EXTENDS HostRelay, SequenceTheorems, FiniteSetTheorems, WellFoundedInduction, TLAPS

BoxMessages == [type : {"begin"}, run : Runs]
    \cup [type : {"call", "cancel_call"}, turn : Grants, call : CallIds]
PiMessages == [type : {"config"}, run : Runs, turn : Grants \cup {None}]
    \cup [type : {"result"}, turn : Grants, call : CallIds, answer : Answers \cup {None}]

GrantRecords == [active : BOOLEAN, begun : BOOLEAN, late : BOOLEAN, aged : BOOLEAN]
Polls == [at : {"idle", "look", "waiting"}, turn : Grants \cup {None}]
ToolStates == {"none", "waiting", "failed"} \cup Answers

Types ==
    /\ ready \in BOOLEAN /\ closed \in BOOLEAN
    /\ grants \in Seq(Grants) /\ current \in Grants \cup {None}
    /\ grant \in [Grants -> GrantRecords]
    /\ calls \in [Grants -> [CallIds -> Records]]
    /\ lister \in [Listers -> Polls]
    /\ toBox \in Seq(BoxMessages) /\ toPi \in Seq(PiMessages)
    /\ turn \in Grants \cup {None} /\ asking \in Runs \cup {None}
    /\ tool \in [Grants -> [CallIds -> ToolStates]]
    /\ slot \in Runs \cup {None} /\ run \in Runs \cup {None} /\ prompted \subseteq Runs
    /\ accepted \in [Grants -> [CallIds -> SUBSET Answers]]

Started ==
    /\ run # None => run = slot /\ run \in prompted
    /\ asking # None => asking = run
    /\ \A m \in BoxMessages : Contains(toBox, m) /\ m.type = "begin" => m.run \in prompted
    /\ \A m \in PiMessages : Contains(toPi, m) /\ m.type = "config" => m.run \in prompted

Reserved ==
    /\ \A g \in Grants : grant[g].active => current = g /\ slot = g
    /\ \A g \in Grants, c \in CallIds : calls[g][c] = "pending" => grant[g].active
    /\ \A g \in Grants, c, d \in CallIds :
        calls[g][c] = "pending" /\ calls[g][d] = "pending" => c = d

Listening ==
    \A l \in Listers : lister[l].at = "waiting" =>
        /\ lister[l].turn \in Grants /\ grant[lister[l].turn].active
        /\ \A c \in CallIds : calls[lister[l].turn][c] # "pending"

Isolated ==
    /\ turn # None => run = turn
    /\ \A m \in PiMessages : Contains(toPi, m) /\ m.type = "config" =>
        (m.run = asking => m.turn \in {None, m.run})

Settled ==
    /\ \A g \in Grants, c \in CallIds :
        /\ calls[g][c] \in Answers => accepted[g][c] = {calls[g][c]}
        /\ calls[g][c] \notin Answers => accepted[g][c] = {}
        /\ tool[g][c] \in Answers => calls[g][c] = tool[g][c]
    /\ \A m \in PiMessages : Contains(toPi, m) /\ m.type = "result" =>
        (m.answer # None => calls[m.turn][m.call] = m.answer)

Ledger ==
    /\ Len(grants) <= Retained
    /\ \A g \in Grants : grant[g].active => Contains(grants, g)

IInv == Types /\ Started /\ Reserved /\ Listening /\ Isolated /\ Settled /\ Ledger

-----------------------------------------------------------------------------
(* Sequences and sets *)

\* What a message taken from the front of a queue leaves in it.
LEMMA TakeFromQueue ==
    ASSUME NEW S, NEW s \in Seq(S), s # <<>>
    PROVE  /\ Head(s) \in S /\ Contains(s, Head(s)) /\ Tail(s) \in Seq(S)
           /\ \A m : Contains(Tail(s), m) => Contains(s, m)
  <1>1. Head(s) \in S /\ Tail(s) \in Seq(S) /\ Len(s) \in Nat \ {0} /\ Head(s) = s[1]
    OBVIOUS
  <1>2. \A i \in 1..Len(Tail(s)) : i + 1 \in 1..Len(s) /\ Tail(s)[i] = s[i + 1]
    OBVIOUS
  <1> QED
    BY <1>1, <1>2 DEF Contains

\* What a message appended to a queue adds to it.
LEMMA AppendToQueue ==
    ASSUME NEW S, NEW s \in Seq(S), NEW e \in S
    PROVE  /\ Append(s, e) \in Seq(S) /\ Contains(Append(s, e), e)
           /\ \A m : Contains(Append(s, e), m) <=> Contains(s, m) \/ m = e
  <1>1. /\ Append(s, e) \in Seq(S) /\ Len(Append(s, e)) = Len(s) + 1 /\ Len(s) \in Nat
        /\ \A i \in 1..Len(s) : Append(s, e)[i] = s[i]
        /\ Append(s, e)[Len(s) + 1] = e
    OBVIOUS
  <1>2. 1..Len(s) + 1 = 1..Len(s) \cup {Len(s) + 1}
    BY <1>1
  <1> QED
    BY <1>1, <1>2 DEF Contains

\* What a sequence of messages appended to a queue adds to it.
LEMMA ConcatToQueue ==
    ASSUME NEW S, NEW s \in Seq(S), NEW t \in Seq(S)
    PROVE  /\ s \o t \in Seq(S)
           /\ \A m : Contains(s \o t, m) => Contains(s, m) \/ Contains(t, m)
  <1>1. s \o t \in Seq(S) /\ Len(s \o t) = Len(s) + Len(t) /\ Len(s) \in Nat /\ Len(t) \in Nat
    OBVIOUS
  <1>2. ASSUME NEW i \in 1..Len(s \o t)
        PROVE  \/ i \in 1..Len(s) /\ (s \o t)[i] = s[i]
               \/ i - Len(s) \in 1..Len(t) /\ (s \o t)[i] = t[i - Len(s)]
    BY <1>1
  <1> QED
    BY <1>1, <1>2 DEF Contains

\* SetToSeq of a finite set is a sequence of its elements.
LEMMA SetToSeqElements ==
    ASSUME NEW S, IsFiniteSet(S)
    PROVE  /\ SetToSeq(S) \in Seq(S)
           /\ \A m : Contains(SetToSeq(S), m) => m \in S
  <1> DEFINE n == Cardinality(S)
  <1>1. n \in Nat /\ ExistsBijection(1..n, S)
    BY FS_CardinalityType
  <1>2. PICK f \in [1..n -> S] : IsInjective(f)
    BY <1>1 DEF ExistsBijection, Bijection, Injection, IsInjective
  <1>4. SetToSeq(S) \in [1..n -> S]
    BY <1>2 DEF SetToSeq
  <1>5. SetToSeq(S) \in Seq(S) /\ Len(SetToSeq(S)) = n
    BY <1>1, <1>4
  <1> QED
    BY <1>1, <1>4, <1>5 DEF Contains

\* A set of naturals that is not empty has a least element.
LEMMA LeastNatural ==
    ASSUME NEW T \in SUBSET Nat, T # {}
    PROVE  \E x \in T : \A y \in T : x <= y
  <1>1. PICK x \in T : \A y \in T : ~ (<<y, x>> \in OpToRel(<, Nat))
    BY NatLessThanWellFounded, WFMin
  <1>2. ASSUME NEW y \in T PROVE x <= y
    <2>1. y \in Nat /\ x \in Nat
      OBVIOUS
    <2>2. ~ (y < x)
      BY <1>1, <2>1, Zenon DEF OpToRel
    <2> QED
      BY ONLY <2>1, <2>2
  <1> QED
    BY <1>2

\* Min of a set of naturals that is not empty is in the set.
LEMMA MinMember ==
    ASSUME NEW T \in SUBSET Nat, T # {}
    PROVE  Min(T) \in T
  BY LeastNatural DEF Min

Upto(S, m) == {j \in S : j <= m}

\* The part of a set of positive naturals up to a number grows element by element.
LEMMA UptoGrows ==
    ASSUME NEW S, \A j \in S : j \in Nat /\ 1 <= j
    PROVE  /\ Upto(S, 0) = {}
           /\ \A m : Upto(S, m) \in SUBSET S
           /\ \A m \in Nat : m # 0 => m - 1 \in Nat
           /\ \A m \in Nat : m # 0 /\ m \in S =>
                Upto(S, m) = Upto(S, m - 1) \cup {m} /\ m \notin Upto(S, m - 1)
           /\ \A m \in Nat : m # 0 /\ m \notin S => Upto(S, m) = Upto(S, m - 1)
           /\ \A i, j \in S : i < j =>
                Upto(S, i) \in SUBSET Upto(S, j) /\ j \notin Upto(S, i) /\ j \in Upto(S, j)
  <1> USE DEF Upto
  <1>1. Upto(S, 0) = {} /\ \A m : Upto(S, m) \in SUBSET S
    OBVIOUS
  <1>2. ASSUME NEW m \in Nat, m # 0, m \in S
        PROVE  Upto(S, m) = Upto(S, m - 1) \cup {m} /\ m \notin Upto(S, m - 1)
    <2>1. \A j \in S : j <= m <=> j <= m - 1 \/ j = m
      BY <1>2
    <2>2. ~ (m <= m - 1)
      BY <1>2
    <2> QED
      BY <1>2, <2>1, <2>2, Zenon
  <1>3. ASSUME NEW m \in Nat, m # 0, m \notin S
        PROVE  Upto(S, m) = Upto(S, m - 1)
    BY <1>3
  <1>4. ASSUME NEW i \in S, NEW j \in S, i < j
        PROVE  Upto(S, i) \in SUBSET Upto(S, j) /\ j \notin Upto(S, i) /\ j \in Upto(S, j)
    BY <1>4
  <1>5. \A m \in Nat : m # 0 => m - 1 \in Nat
    OBVIOUS
  <1> QED
    BY <1>1, <1>2, <1>3, <1>4, <1>5

\* Nth is the place of the n-th element of a finite set of places, and every
\* element has its number.
LEMMA NthElement ==
    ASSUME NEW k \in Nat, NEW S \in SUBSET (1..k)
    PROVE  /\ IsFiniteSet(S) /\ Cardinality(S) \in Nat /\ Cardinality(S) <= k
           /\ \A n \in 1..Cardinality(S) : Nth(S, n) \in S
           /\ \A i \in S : \E n \in 1..Cardinality(S) : Nth(S, n) = i
  <1>0. \A j \in S : j \in Nat /\ 1 <= j /\ j <= k
    OBVIOUS
  <1>1. IsFiniteSet(S) /\ Cardinality(S) \in Nat /\ Cardinality(S) <= k
    <2>1. IsFiniteSet(1..k) /\ Cardinality(1..k) = k
      BY FS_Interval
    <2> QED
      BY <2>1, FS_Subset, FS_CardinalityType
  <1>2. ASSUME NEW m \in Nat
        PROVE  /\ IsFiniteSet(Upto(S, m)) /\ Cardinality(Upto(S, m)) \in Nat
               /\ Cardinality(Upto(S, m)) <= Cardinality(S)
    <2>1. Upto(S, m) \in SUBSET S
      BY DEF Upto
    <2> QED
      BY <1>1, <2>1, FS_Subset, FS_CardinalityType
  <1>3. ASSUME NEW n \in 1..Cardinality(S)
        PROVE  \E i \in S : Cardinality(Upto(S, i)) = n
    <2> DEFINE T == {m \in Nat : n <= Cardinality(Upto(S, m))}
    <2>1. Upto(S, k) = S
      BY <1>0 DEF Upto
    <2>2. k \in T
      BY <1>1, <2>1
    <2>3. PICK m \in T : \A y \in T : m <= y
      <3>1. T \in SUBSET Nat /\ T # {}
        BY <2>2
      <3> QED
        BY <3>1, LeastNatural
    <2>4. m # 0
      <3>1. Upto(S, 0) = {}
        BY <1>0, UptoGrows
      <3>2. Cardinality(Upto(S, 0)) = 0
        BY <3>1, FS_EmptySet
      <3> QED
        BY <3>2
    <2>5. m - 1 \in Nat /\ m - 1 \notin T
      BY <1>0, <2>3, <2>4, UptoGrows
    <2>6. Cardinality(Upto(S, m - 1)) < n
      BY <1>0, <2>5, <1>2
    <2>7. CASE m \in S
      <3>1. Upto(S, m) = Upto(S, m - 1) \cup {m} /\ m \notin Upto(S, m - 1)
        BY <1>0, <2>7, <2>4, UptoGrows
      <3>2. Cardinality(Upto(S, m)) = Cardinality(Upto(S, m - 1)) + 1
        BY <3>1, <2>5, <1>2, FS_AddElement
      <3> QED
        BY <3>2, <2>6, <2>3, <2>7, <2>5, <1>2
    <2>8. CASE m \notin S
      <3>1. Upto(S, m) = Upto(S, m - 1)
        BY <1>0, <2>8, <2>4, UptoGrows
      <3> QED
        BY <3>1, <2>6, <2>3, <2>5, <1>2
    <2> QED
      BY <2>7, <2>8
  <1>4. ASSUME NEW i \in S, NEW j \in S, i < j
        PROVE  Cardinality(Upto(S, i)) # Cardinality(Upto(S, j))
    <2>1. Upto(S, i) \in SUBSET Upto(S, j) /\ j \notin Upto(S, i) /\ j \in Upto(S, j)
      BY <1>0, <1>4, UptoGrows
    <2>2. Upto(S, i) # Upto(S, j)
      BY <2>1, Zenon
    <2> QED
      BY <2>1, <2>2, <1>0, <1>2, FS_Subset
  <1>5. \A i, j \in S : Cardinality(Upto(S, i)) = Cardinality(Upto(S, j)) => i = j
    BY <1>4
  <1>6. \A n \in 1..Cardinality(S) : Nth(S, n) \in S
    BY <1>3 DEF Nth, Upto
  <1>7. ASSUME NEW i \in S
        PROVE  \E n \in 1..Cardinality(S) : Nth(S, n) = i
    <2> DEFINE n == Cardinality(Upto(S, i))
    <2>1. n \in 1..Cardinality(S)
      <3>1. i \in Upto(S, i) /\ i \in Nat
        BY <1>0 DEF Upto
      <3>2. Cardinality(Upto(S, i)) # 0
        BY <3>1, <1>2, FS_EmptySet
      <3> QED
        BY <3>1, <3>2, <1>2, <1>1
    <2>2. \E p \in S : Cardinality(Upto(S, p)) = n
      BY <2>1, <1>3
    <2>3. Nth(S, n) \in S /\ Cardinality(Upto(S, Nth(S, n))) = n
      BY <2>2, Zenon DEF Nth, Upto
    <2> QED
      BY <2>1, <2>3, <1>5
  <1> QED
    BY <1>1, <1>6, <1>7

-----------------------------------------------------------------------------
(* What the relay's helpers do *)

\* Records with one field changed keep their type.
LEMMA GrantFields ==
    ASSUME NEW x \in GrantRecords, NEW b \in BOOLEAN
    PROVE  /\ [x EXCEPT !.active = b] \in GrantRecords /\ [x EXCEPT !.begun = b] \in GrantRecords
           /\ [x EXCEPT !.late = b] \in GrantRecords /\ [x EXCEPT !.aged = b] \in GrantRecords
           /\ [x EXCEPT !.active = b].active = b /\ [x EXCEPT !.begun = b].active = x.active
           /\ [x EXCEPT !.late = b].active = x.active /\ [x EXCEPT !.aged = b].active = x.active
  BY Zenon DEF GrantRecords

\* A function with one value replaced.
LEMMA Replaced ==
    ASSUME NEW S, NEW T, NEW f \in [S -> T], NEW s \in S, NEW v
    PROVE  /\ v \in T => [f EXCEPT ![s] = v] \in [S -> T]
           /\ [f EXCEPT ![s] = v][s] = v
           /\ \A t \in S : t # s => [f EXCEPT ![s] = v][t] = f[t]
  OBVIOUS

\* collectLocked keeps the ledger a ledger, no longer than it was, and keeps every
\* grant that is active.
LEMMA CollectedKeepsActive ==
    ASSUME Types
    PROVE  /\ Collected \in Seq(Grants) /\ Len(Collected) <= Len(grants)
           /\ \A g \in Grants : grant[g].active /\ Contains(grants, g) => Contains(Collected, g)
           /\ \A g : Known(g) => g \in Grants
  <1> DEFINE n == Cardinality(Kept)
  <1>1. grants \in Seq(Grants) /\ Len(grants) \in Nat /\ DOMAIN grants = 1..Len(grants)
    BY DEF Types
  <1>2. Kept \in SUBSET (1..Len(grants))
    BY <1>1 DEF Kept
  <1>3. /\ n \in Nat /\ n <= Len(grants)
        /\ \A k \in 1..n : Nth(Kept, k) \in Kept
        /\ \A i \in Kept : \E k \in 1..n : Nth(Kept, k) = i
    BY <1>1, <1>2, NthElement
  <1>4. \A k \in 1..n : grants[Nth(Kept, k)] \in Grants
    <2>1. \A i \in 1..Len(grants) : grants[i] \in Grants
      BY <1>1
    <2>2. \A k \in 1..n : Nth(Kept, k) \in 1..Len(grants)
      BY <1>2, <1>3, Zenon
    <2> QED
      BY <2>1, <2>2, Zenon
  <1>5. Collected \in [1..n -> Grants]
    BY <1>4 DEF Collected
  <1>6. Collected \in Seq(Grants) /\ Len(Collected) = n /\ DOMAIN Collected = 1..n
    BY <1>3, <1>5
  <1>7. ASSUME NEW g \in Grants, grant[g].active, Contains(grants, g)
        PROVE  Contains(Collected, g)
    <2>1. PICK i \in 1..Len(grants) : grants[i] = g
      BY <1>7 DEF Contains
    <2>2. i \in Kept
      BY <1>1, <1>7, <2>1 DEF Kept
    <2>3. PICK k \in 1..n : Nth(Kept, k) = i
      BY <1>3, <2>2
    <2>4. Collected[k] = g
      BY <2>1, <2>3 DEF Collected
    <2> QED
      BY <1>6, <2>4 DEF Contains
  <1>8. \A g : Known(g) => g \in Grants
    BY <1>5, <1>6 DEF Known
  <1> QED
    BY <1>3, <1>6, <1>7, <1>8

\* The loop of authorize leaves room for one more grant when none is active.
LEMMA RoomForOne ==
    ASSUME Types, \A g \in Grants : ~grant[g].active, NEW gs \in Seq(Grants)
    PROVE  Room(gs) \in Seq(Grants) /\ Len(Room(gs)) < Retained
  <1> DEFINE stops == {i \in 0..Len(gs) : Len(gs) - i < Retained \/ grant[gs[i + 1]].active}
  <1>1. Len(gs) \in Nat /\ Retained \in Nat \ {0} /\ \A i \in 1..Len(gs) : gs[i] \in Grants
    BY RelayAssumption
  <1>2. Len(gs) \in stops /\ stops \in SUBSET Nat
    BY <1>1
  <1>3. Min(stops) \in stops
    BY <1>2, MinMember, Zenon
  <1> DEFINE m == Min(stops)
  <1>4. m \in 0..Len(gs) /\ (Len(gs) - m < Retained \/ grant[gs[m + 1]].active)
    BY <1>3
  <1> HIDE DEF m
  <1>5. Len(gs) - m < Retained
    <2>1. CASE m = Len(gs)
      BY <1>1, <2>1
    <2>2. CASE m # Len(gs)
      <3>1. m + 1 \in 1..Len(gs)
        BY <1>1, <1>4, <2>2
      <3> QED
        BY <1>1, <1>4, <3>1
    <2> QED
      BY <2>1, <2>2
  <1>6. 1 + m \in 1..Len(gs) + 1 /\ Room(gs) = SubSeq(gs, 1 + m, Len(gs))
    BY <1>1, <1>4 DEF Room, m
  <1>7. SubSeq(gs, 1 + m, Len(gs)) \in Seq(Grants)
        /\ Len(SubSeq(gs, 1 + m, Len(gs))) = Len(gs) - m
    BY <1>1, <1>4, SubSeqProperties
  <1> QED
    BY <1>5, <1>6, <1>7

\* At most one call is pending, so the results a revocation sends are at most one.
LEMMA RevocationResults ==
    ASSUME Types, Reserved, NEW g \in Grants
    PROVE  LET rs == SetToSeq({Result(g, c, None) : c \in Pending(g)})
           IN /\ rs \in Seq(PiMessages)
              /\ \A m : Contains(rs, m) => m.type = "result" /\ m.answer = None
  <1> DEFINE S == {Result(g, c, None) : c \in Pending(g)}
  <1>1. \A c, d \in Pending(g) : c = d
    BY DEF Reserved, Pending
  <1>2. IsFiniteSet(S)
    <2>1. CASE Pending(g) = {}
      <3>1. S = {}
        BY <2>1
      <3> QED
        BY <3>1, FS_EmptySet
    <2>2. CASE Pending(g) # {}
      <3>1. PICK c \in Pending(g) : TRUE
        BY <2>2
      <3>2. S = {Result(g, c, None)}
        BY <1>1, <3>1
      <3> QED
        BY <3>2, FS_Singleton
    <2> QED
      BY <2>1, <2>2
  <1>3. \A m \in S : m \in PiMessages /\ m.type = "result" /\ m.answer = None
    BY DEF Result, PiMessages, Pending
  <1>4. SetToSeq(S) \in Seq(S) /\ \A m : Contains(SetToSeq(S), m) => m \in S
    BY <1>2, SetToSeqElements
  <1> HIDE DEF S
  <1>5. SetToSeq(S) \in Seq(PiMessages)
    <2>1. S \subseteq PiMessages
      BY <1>3
    <2> QED
      BY <1>4, <2>1
  <1> QED
    BY <1>3, <1>4, <1>5 DEF S

\* revokeLocked: no grant is active, no call is pending, and only refusals are sent.
LEMMA RevokeEffect ==
    ASSUME Types, Reserved, Listening, Revoke
    PROVE  /\ grant' \in [Grants -> GrantRecords] /\ calls' \in [Grants -> [CallIds -> Records]]
           /\ lister' \in [Listers -> Polls] /\ toPi' \in Seq(PiMessages)
           /\ \A g \in Grants : ~grant'[g].active
           /\ \A g \in Grants, c \in CallIds :
                calls'[g][c] = IF calls[g][c] = "pending" THEN "cancelled" ELSE calls[g][c]
           /\ \A m : Contains(toPi', m) =>
                Contains(toPi, m) \/ (m.type = "result" /\ m.answer = None)
           /\ \A l \in Listers : lister'[l].at # "waiting"
  <1>1. CASE current # None /\ grant[current].active
    <2> DEFINE S == {Result(current, c, None) : c \in Pending(current)}
    <2>1. /\ current \in Grants
          /\ grant' = [grant EXCEPT ![current].active = FALSE]
          /\ calls' = [calls EXCEPT ![current] =
                        [c \in CallIds |-> IF @[c] = "pending" THEN "cancelled" ELSE @[c]]]
          /\ toPi' = toPi \o SetToSeq(S)
          /\ lister' = Notified(current)
      BY <1>1 DEF Revoke, Types
    <2>2. grant' \in [Grants -> GrantRecords] /\ \A g \in Grants : ~grant'[g].active
      <3> DEFINE x == [grant[current] EXCEPT !.active = FALSE]
      <3>1. x \in GrantRecords /\ x.active = FALSE
        BY <2>1, GrantFields DEF Types
      <3>2. grant' = [grant EXCEPT ![current] = x]
        BY <2>1
      <3> HIDE DEF x
      <3>3. \A g \in Grants : g # current => ~grant[g].active
        BY DEF Reserved
      <3>4. grant \in [Grants -> GrantRecords]
        BY DEF Types
      <3>5. grant' \in [Grants -> GrantRecords]
        BY <2>1, <3>1, <3>2, <3>4
      <3>6. ASSUME NEW g \in Grants PROVE ~grant'[g].active
        BY <2>1, <3>1, <3>2, <3>3, <3>4
      <3> QED
        BY <3>5, <3>6
    <2>3. calls' \in [Grants -> [CallIds -> Records]]
          /\ \A g \in Grants, c \in CallIds :
                calls'[g][c] = IF calls[g][c] = "pending" THEN "cancelled" ELSE calls[g][c]
      <3>1. \A g \in Grants, c \in CallIds : g # current => calls[g][c] # "pending"
        BY DEF Reserved
      <3> QED
        BY <2>1, <3>1 DEF Types, Records
    <2>4. toPi' \in Seq(PiMessages)
          /\ \A m : Contains(toPi', m) =>
                Contains(toPi, m) \/ (m.type = "result" /\ m.answer = None)
      <3>1. SetToSeq(S) \in Seq(PiMessages)
            /\ \A m : Contains(SetToSeq(S), m) => m.type = "result" /\ m.answer = None
        BY <2>1, RevocationResults
      <3>2. toPi \in Seq(PiMessages)
        BY DEF Types
      <3> HIDE DEF S
      <3> QED
        BY <2>1, <3>1, <3>2, ConcatToQueue
    <2>5. lister' \in [Listers -> Polls] /\ \A l \in Listers : lister'[l].at # "waiting"
      <3>1. \A l \in Listers : lister[l].at = "waiting" =>
                lister[l] = [at |-> "waiting", turn |-> current]
        BY DEF Listening, Reserved, Types, Polls
      <3> QED
        BY <2>1, <3>1 DEF Notified, Types, Polls
    <2> QED
      BY <2>2, <2>3, <2>4, <2>5
  <1>2. CASE ~(current # None /\ grant[current].active)
    <2>1. UNCHANGED <<grant, calls, toPi, lister>>
      BY <1>2 DEF Revoke
    <2>2. \A g \in Grants : ~grant[g].active
      BY <1>2, RelayAssumption DEF Reserved, Runs
    <2>3. \A g \in Grants, c \in CallIds : calls[g][c] # "pending"
      BY <2>2 DEF Reserved
    <2>4. /\ grant' \in [Grants -> GrantRecords] /\ calls' \in [Grants -> [CallIds -> Records]]
          /\ lister' \in [Listers -> Polls] /\ toPi' \in Seq(PiMessages)
      BY <2>1 DEF Types
    <2>5. \A l \in Listers : lister[l].at # "waiting"
      BY <2>2 DEF Listening
    <2> QED
      BY <2>1, <2>2, <2>3, <2>4, <2>5
  <1> QED
    BY <1>1, <1>2

\* A message of a kind taken by the relay.
LEMMA ReceivesEffect ==
    ASSUME Types, NEW type, Receives(type)
    PROVE  /\ Head(toBox) \in BoxMessages /\ Contains(toBox, Head(toBox))
           /\ Head(toBox).type = type /\ toBox' \in Seq(BoxMessages)
           /\ \A m : Contains(toBox', m) => Contains(toBox, m)
  BY TakeFromQueue DEF Receives, Types

\* A message of a kind taken by the extension.
LEMMA HearsEffect ==
    ASSUME Types, NEW type, Hears(type)
    PROVE  /\ Head(toPi) \in PiMessages /\ Contains(toPi, Head(toPi))
           /\ Head(toPi).type = type /\ toPi' \in Seq(PiMessages)
           /\ \A m : Contains(toPi', m) => Contains(toPi, m)
  BY TakeFromQueue DEF Hears, Types

\* A message sent to the extension.
LEMMA SentToPi ==
    ASSUME Types, NEW x \in PiMessages, toPi' = Append(toPi, x)
    PROVE  /\ toPi' \in Seq(PiMessages)
           /\ \A m : Contains(toPi', m) <=> Contains(toPi, m) \/ m = x
  BY AppendToQueue DEF Types

\* A message sent to the relay.
LEMMA SentToBox ==
    ASSUME Types, NEW x \in BoxMessages, toBox' = Append(toBox, x)
    PROVE  /\ toBox' \in Seq(BoxMessages)
           /\ \A m : Contains(toBox', m) <=> Contains(toBox, m) \/ m = x
  BY AppendToQueue DEF Types

\* What the kinds of messages are made of.
LEMMA MessageTypes ==
    /\ \A r \in Runs : Begin(r) \in BoxMessages
    /\ \A g \in Grants, c \in CallIds :
        Call(g, c) \in BoxMessages /\ CancelCall(g, c) \in BoxMessages
    /\ \A r \in Runs, g \in Grants \cup {None} : Config(r, g) \in PiMessages
    /\ \A g \in Grants, c \in CallIds, a \in Answers \cup {None} :
        Result(g, c, a) \in PiMessages
    /\ \A m \in BoxMessages : m.type = "begin" => m.run \in Runs
    /\ \A m \in BoxMessages : m.type # "begin" => m.turn \in Grants /\ m.call \in CallIds
    /\ \A m \in PiMessages : m.type = "config" => m.run \in Runs /\ m.turn \in Grants \cup {None}
    /\ \A m \in PiMessages : m.type = "result" =>
        m.turn \in Grants /\ m.call \in CallIds /\ m.answer \in Answers \cup {None}
  BY DEF BoxMessages, PiMessages, Begin, Call, CancelCall, Config, Result

\* What ReceiveBegin does: a grant may begin, and a config answers the run that asked.
LEMMA ReceiveBeginEffect ==
    ASSUME Types, ReceiveBegin
    PROVE  \E r \in Runs, g \in Grants \cup {None} :
            /\ Contains(toBox, Head(toBox)) /\ Head(toBox) \in BoxMessages
            /\ Head(toBox).type = "begin" /\ Head(toBox).run = r
            /\ toBox' \in Seq(BoxMessages) /\ \A m : Contains(toBox', m) => Contains(toBox, m)
            /\ toPi' \in Seq(PiMessages)
            /\ \A m : Contains(toPi', m) <=> Contains(toPi, m) \/ m = Config(r, g)
            /\ grant' \in [Grants -> GrantRecords]
            /\ \A h \in Grants : grant'[h].active = grant[h].active
            /\ g # None => grant[g].active
  <1> DEFINE r == Head(toBox).run
  <1>1. /\ Head(toBox) \in BoxMessages /\ Contains(toBox, Head(toBox))
        /\ Head(toBox).type = "begin" /\ toBox' \in Seq(BoxMessages)
        /\ \A m : Contains(toBox', m) => Contains(toBox, m)
    BY ReceivesEffect DEF ReceiveBegin
  <1>2. r \in Runs
    BY <1>1, MessageTypes
  <1>3. CASE current # None /\ InTime(current) /\ ~grant[current].begun
    <2> DEFINE x == [grant[current] EXCEPT !.begun = TRUE]
    <2>1. current \in Grants /\ grant \in [Grants -> GrantRecords] /\ grant[current].active
      BY <1>3 DEF Types, InTime
    <2>2. grant' = [grant EXCEPT ![current] = x] /\ toPi' = Append(toPi, Config(r, current))
      BY <1>3 DEF ReceiveBegin
    <2>3. x \in GrantRecords /\ x.active = grant[current].active
      BY <2>1, GrantFields
    <2> HIDE DEF x, r
    <2>4. grant' \in [Grants -> GrantRecords]
      BY <2>1, <2>2, <2>3
    <2>5. \A h \in Grants : grant'[h].active = grant[h].active
      BY <2>1, <2>2, <2>3
    <2>6. Config(r, current) \in PiMessages
      BY <1>2, <2>1, MessageTypes
    <2>7. toPi' \in Seq(PiMessages)
          /\ \A m : Contains(toPi', m) <=> Contains(toPi, m) \/ m = Config(r, current)
      BY <2>2, <2>6, SentToPi
    <2> QED
      BY <1>1, <1>2, <2>1, <2>4, <2>5, <2>7 DEF r
  <1>4. CASE ~(current # None /\ InTime(current) /\ ~grant[current].begun)
    <2>1. grant' = grant /\ toPi' = Append(toPi, Config(r, None))
      BY <1>4 DEF ReceiveBegin
    <2>2. Config(r, None) \in PiMessages
      BY <1>2, MessageTypes
    <2>3. toPi' \in Seq(PiMessages)
          /\ \A m : Contains(toPi', m) <=> Contains(toPi, m) \/ m = Config(r, None)
      BY <2>1, <2>2, SentToPi
    <2>4. grant' \in [Grants -> GrantRecords]
      BY <2>1 DEF Types
    <2> QED
      BY <1>1, <1>2, <2>1, <2>3, <2>4
  <1> QED
    BY <1>3, <1>4

\* A call admitted, or a call and its cancellation received.
LEMMA NotifiedType ==
    ASSUME Types, NEW g \in Grants
    PROVE  /\ Notified(g) \in [Listers -> Polls]
           /\ \A l \in Listers : Notified(g)[l].at = "waiting" => Notified(g)[l] = lister[l]
           /\ \A l \in Listers : Notified(g)[l].at = "waiting" => lister[l].turn # g
  BY DEF Notified, Types, Polls

\* The ledger with the state of one call replaced.
LEMMA CallReplaced ==
    ASSUME Types, NEW g \in Grants, NEW c \in CallIds, NEW v \in Records,
           calls' = [calls EXCEPT ![g][c] = v]
    PROVE  /\ calls' \in [Grants -> [CallIds -> Records]]
           /\ calls'[g][c] = v
           /\ \A h \in Grants, d \in CallIds : h # g \/ d # c => calls'[h][d] = calls[h][d]
  BY DEF Types

\* What ReceiveCall does: a call is pending, or it is refused at once.
LEMMA ReceiveCallEffect ==
    ASSUME Types, ReceiveCall
    PROVE  /\ toBox' \in Seq(BoxMessages) /\ \A m : Contains(toBox', m) => Contains(toBox, m)
           /\ \/ /\ \E g \in Grants, c \in CallIds :
                        /\ g = current /\ grant[g].active /\ calls[g][c] = "none"
                        /\ Pending(g) = {} /\ calls' = [calls EXCEPT ![g][c] = "pending"]
                        /\ lister' = Notified(g)
                 /\ toPi' = toPi
              \/ /\ UNCHANGED <<calls, lister>> /\ toPi' \in Seq(PiMessages)
                 /\ \A m : Contains(toPi', m) =>
                        Contains(toPi, m) \/ (m.type = "result" /\ m.answer = None)
  <1> DEFINE g == Head(toBox).turn  c == Head(toBox).call
  <1>1. /\ Head(toBox) \in BoxMessages /\ Head(toBox).type = "call"
        /\ toBox' \in Seq(BoxMessages) /\ \A m : Contains(toBox', m) => Contains(toBox, m)
    BY ReceivesEffect DEF ReceiveCall
  <1>2. g \in Grants /\ c \in CallIds
    BY <1>1, MessageTypes
  <1>3. CASE Admits(g, c)
    BY <1>1, <1>2, <1>3 DEF ReceiveCall, Admits, InTime
  <1>4. CASE ~Admits(g, c)
    <2>1. UNCHANGED <<calls, lister>> /\ toPi' = Append(toPi, Result(g, c, None))
      BY <1>4 DEF ReceiveCall
    <2>2. /\ Result(g, c, None) \in PiMessages
          /\ Result(g, c, None).type = "result" /\ Result(g, c, None).answer = None
      BY <1>2, MessageTypes DEF Result
    <2> HIDE DEF g, c
    <2> QED
      BY <1>1, <2>1, <2>2, SentToPi
  <1> QED
    BY <1>3, <1>4

\* What ReceiveCancel does: the call it names is cancelled, if it was not over.
LEMMA ReceiveCancelEffect ==
    ASSUME Types, ReceiveCancel
    PROVE  /\ toBox' \in Seq(BoxMessages) /\ \A m : Contains(toBox', m) => Contains(toBox, m)
           /\ \/ \E g \in Grants, c \in CallIds :
                    /\ calls[g][c] \in {"pending", "cancelled"}
                    /\ calls' = [calls EXCEPT ![g][c] = "cancelled"] /\ lister' = Notified(g)
              \/ UNCHANGED <<calls, lister>>
  <1> DEFINE g == Head(toBox).turn  c == Head(toBox).call
  <1>1. /\ Head(toBox) \in BoxMessages /\ Head(toBox).type = "cancel_call"
        /\ toBox' \in Seq(BoxMessages) /\ \A m : Contains(toBox', m) => Contains(toBox, m)
    BY ReceivesEffect DEF ReceiveCancel
  <1>2. g \in Grants /\ c \in CallIds
    BY <1>1, MessageTypes
  <1> QED
    BY <1>1, <1>2 DEF ReceiveCancel

\* What Respond does: the first answer is recorded and sent, the same one again is not.
LEMMA RespondEffect ==
    ASSUME Types, NEW g \in Grants, NEW c \in CallIds, NEW a \in Answers, Respond(g, c, a)
    PROVE  /\ accepted' = [accepted EXCEPT ![g][c] = @ \cup {a}] /\ toPi' \in Seq(PiMessages)
           /\ \/ /\ calls[g][c] = "pending" /\ calls' = [calls EXCEPT ![g][c] = a]
                 /\ \A m : Contains(toPi', m) <=> Contains(toPi, m) \/ m = Result(g, c, a)
                 /\ lister' = Notified(g)
              \/ calls[g][c] = a /\ UNCHANGED <<calls, toPi, lister>>
  <1>1. Result(g, c, a) \in PiMessages
    BY MessageTypes
  <1>2. CASE calls[g][c] = "pending"
    <2>1. toPi' = Append(toPi, Result(g, c, a)) \/ (calls[g][c] = a /\ UNCHANGED toPi)
      BY DEF Respond
    <2>2. calls[g][c] # a
      BY <1>2, RelayAssumption
    <2> QED
      BY <1>1, <1>2, <2>1, <2>2, SentToPi DEF Respond
  <1>3. CASE calls[g][c] # "pending"
    BY <1>3 DEF Respond, Types
  <1> QED
    BY <1>2, <1>3

\* Nothing is active, pending or asleep after a revocation.
LEMMA RevokeEnds ==
    ASSUME Types, Reserved, Listening, Revoke
    PROVE  /\ \A g \in Grants : ~grant'[g].active
           /\ \A g \in Grants, c \in CallIds : calls'[g][c] # "pending"
           /\ \A l \in Listers : lister'[l].at # "waiting"
  BY RevokeEffect

\* A revocation changes no settled call, and sends no answer and no config.
LEMMA RevokeKeeps ==
    ASSUME Types, Reserved, Listening, Revoke
    PROVE  /\ \A g \in Grants, c \in CallIds : calls[g][c] # "pending" => calls'[g][c] = calls[g][c]
           /\ \A g \in Grants, c \in CallIds : calls[g][c] = "pending" => calls'[g][c] = "cancelled"
           /\ \A m : Contains(toPi', m) =>
                Contains(toPi, m) \/ (m.type = "result" /\ m.answer = None)
  BY RevokeEffect

\* A config sent by ReceiveBegin answers a run whose begin was on the socket.
LEMMA ReceiveBeginSends ==
    ASSUME Types, Reserved, Started, ReceiveBegin
    PROVE  /\ \A m : Contains(toBox', m) => Contains(toBox, m)
           /\ \A m \in PiMessages : Contains(toPi', m) =>
                \/ Contains(toPi, m)
                \/ /\ m.type = "config" /\ m.run \in prompted
                   /\ m.turn # None => m.turn = slot
           /\ \A h \in Grants : grant'[h].active = grant[h].active
  <1>1. PICK r \in Runs, g \in Grants \cup {None} :
            /\ Contains(toBox, Head(toBox)) /\ Head(toBox) \in BoxMessages
            /\ Head(toBox).type = "begin" /\ Head(toBox).run = r
            /\ toBox' \in Seq(BoxMessages) /\ \A m : Contains(toBox', m) => Contains(toBox, m)
            /\ toPi' \in Seq(PiMessages)
            /\ \A m : Contains(toPi', m) <=> Contains(toPi, m) \/ m = Config(r, g)
            /\ grant' \in [Grants -> GrantRecords]
            /\ \A h \in Grants : grant'[h].active = grant[h].active
            /\ g # None => grant[g].active
    BY ReceiveBeginEffect
  <1>2. r \in prompted
    BY <1>1 DEF Started
  <1>3. g # None => g = slot
    BY <1>1 DEF Reserved
  <1>4. Config(r, g).type = "config" /\ Config(r, g).run = r /\ Config(r, g).turn = g
    BY DEF Config
  <1> QED
    BY <1>1, <1>2, <1>3, <1>4

\* A receipt sends nothing but results.
LEMMA RespondSends ==
    ASSUME Types, NEW g \in Grants, NEW c \in CallIds, NEW a \in Answers, Respond(g, c, a)
    PROVE  \A m \in PiMessages : Contains(toPi', m) /\ m.type = "config" => Contains(toPi, m)
  <1>1. Result(g, c, a).type = "result"
    BY DEF Result
  <1> QED
    BY <1>1, RespondEffect

\* The refusals of calls are no configs.
LEMMA ReceiveCallSends ==
    ASSUME Types, ReceiveCall
    PROVE  /\ \A m : Contains(toBox', m) => Contains(toBox, m)
           /\ \A m \in PiMessages : Contains(toPi', m) =>
                Contains(toPi, m) \/ (m.type = "result" /\ m.answer = None)
  BY ReceiveCallEffect

\* No message names None as the run.
LEMMA MessagesNameRuns ==
    /\ \A m \in PiMessages : m.type = "config" => m.run # None
    /\ \A m \in BoxMessages : m.type = "begin" => m.run # None
  BY MessageTypes, RelayAssumption

\* The extension's begin is of the run that starts.
LEMMA RunStartsSends ==
    ASSUME Types, RunStarts
    PROVE  \A m \in BoxMessages : Contains(toBox', m) /\ m.type = "begin" =>
                Contains(toBox, m) \/ m.run = slot
  <1>1. CASE toBox' = Append(toBox, Begin(slot))
    <2>1. Begin(slot) \in BoxMessages /\ Begin(slot).run = slot
      <3>1. slot \in Runs
        BY DEF RunStarts, Types
      <3> QED
        BY <3>1, MessageTypes DEF Begin
    <2> QED
      BY <1>1, <2>1, SentToBox
  <1>2. CASE UNCHANGED toBox
    BY <1>2
  <1> QED
    BY <1>1, <1>2 DEF RunStarts

\* The other requests of the extension begin nothing.
LEMMA RequestsSend ==
    ASSUME Types, NEW c \in CallIds, Execute(c) \/ (\E g \in Grants : AbortTool(g, c))
    PROVE  \A m \in BoxMessages : Contains(toBox', m) /\ m.type = "begin" => Contains(toBox, m)
  <1>1. CASE UNCHANGED toBox
    BY <1>1
  <1>2. ASSUME NEW x \in BoxMessages, x.type # "begin", toBox' = Append(toBox, x)
        PROVE  \A m \in BoxMessages : Contains(toBox', m) /\ m.type = "begin" => Contains(toBox, m)
    BY <1>2, SentToBox
  <1>3. CASE Execute(c)
    <2>1. turn \in Grants /\ toBox' = Append(toBox, Call(turn, c))
      BY <1>3 DEF Execute, Types
    <2>2. Call(turn, c) \in BoxMessages /\ Call(turn, c).type # "begin"
      BY <2>1, MessageTypes DEF Call
    <2> QED
      BY <1>2, <2>1, <2>2
  <1>4. ASSUME NEW g \in Grants, AbortTool(g, c)
        PROVE  \A m \in BoxMessages : Contains(toBox', m) /\ m.type = "begin" => Contains(toBox, m)
    <2>1. UNCHANGED toBox \/ toBox' = Append(toBox, CancelCall(g, c))
      BY <1>4 DEF AbortTool
    <2>2. CancelCall(g, c) \in BoxMessages /\ CancelCall(g, c).type # "begin"
      BY MessageTypes DEF CancelCall
    <2> QED
      BY <1>1, <1>2, <2>1, <2>2
  <1> QED
    BY <1>3, <1>4

\* A poll woken by no one is as it was; one that sleeps on was not of the turn notified.
LEMMA NotifyWakes ==
    ASSUME Types, NEW g \in Grants, lister' = Notified(g) \/ UNCHANGED lister
    PROVE  \A l \in Listers : lister'[l].at = "waiting" =>
                lister'[l] = lister[l] /\ (lister' = Notified(g) => lister[l].turn # g)
  BY NotifiedType

\* A receipt makes no call pending.
LEMMA RespondPending ==
    ASSUME Types, NEW g \in Grants, NEW c \in CallIds, NEW a \in Answers, Respond(g, c, a)
    PROVE  /\ \A h \in Grants, d \in CallIds : calls'[h][d] = "pending" => calls[h][d] = "pending"
           /\ \A l \in Listers : lister'[l].at = "waiting" => lister'[l] = lister[l]
  <1>1. CASE UNCHANGED <<calls, lister>>
    BY <1>1
  <1>2. CASE calls' = [calls EXCEPT ![g][c] = a] /\ lister' = Notified(g)
    <2>1. a \in Records /\ a # "pending"
      BY RelayAssumption DEF Records
    <2>2. \A h \in Grants, d \in CallIds : calls'[h][d] = "pending" => calls[h][d] = "pending"
      BY <1>2, <2>1, CallReplaced
    <2> QED
      BY <1>2, <2>2, NotifyWakes
  <1> QED
    BY <1>1, <1>2, RespondEffect

\* A cancellation makes no call pending.
LEMMA ReceiveCancelPending ==
    ASSUME Types, ReceiveCancel
    PROVE  /\ \A h \in Grants, d \in CallIds : calls'[h][d] = "pending" => calls[h][d] = "pending"
           /\ \A l \in Listers : lister'[l].at = "waiting" => lister'[l] = lister[l]
  <1>1. CASE UNCHANGED <<calls, lister>>
    BY <1>1
  <1>2. ASSUME NEW g \in Grants, NEW c \in CallIds,
               calls' = [calls EXCEPT ![g][c] = "cancelled"], lister' = Notified(g)
        PROVE  /\ \A h \in Grants, d \in CallIds :
                    calls'[h][d] = "pending" => calls[h][d] = "pending"
               /\ \A l \in Listers : lister'[l].at = "waiting" => lister'[l] = lister[l]
    <2>1. "cancelled" \in Records
      BY DEF Records
    <2>2. \A h \in Grants, d \in CallIds : calls'[h][d] = "pending" => calls[h][d] = "pending"
      BY <1>2, <2>1, CallReplaced
    <2> QED
      BY <1>2, <2>2, NotifyWakes
  <1> QED
    BY <1>1, <1>2, ReceiveCancelEffect

\* A call becomes pending in an active turn with none pending, and wakes its polls.
LEMMA ReceiveCallPending ==
    ASSUME Types, ReceiveCall
    PROVE  \/ UNCHANGED <<calls, lister>>
           \/ \E g \in Grants, c \in CallIds :
                /\ grant[g].active /\ \A d \in CallIds : calls[g][d] # "pending"
                /\ \A h \in Grants, d \in CallIds :
                    calls'[h][d] = "pending" => calls[h][d] = "pending" \/ (h = g /\ d = c)
                /\ \A l \in Listers : lister'[l].at = "waiting" =>
                    lister'[l] = lister[l] /\ lister[l].turn # g
  <1> SUFFICES ASSUME ~UNCHANGED <<calls, lister>>
               PROVE  \E g \in Grants, c \in CallIds :
                /\ grant[g].active /\ \A d \in CallIds : calls[g][d] # "pending"
                /\ \A h \in Grants, d \in CallIds :
                    calls'[h][d] = "pending" => calls[h][d] = "pending" \/ (h = g /\ d = c)
                /\ \A l \in Listers : lister'[l].at = "waiting" =>
                    lister'[l] = lister[l] /\ lister[l].turn # g
    OBVIOUS
  <1>1. PICK g \in Grants, c \in CallIds :
            /\ g = current /\ grant[g].active /\ calls[g][c] = "none"
            /\ Pending(g) = {} /\ calls' = [calls EXCEPT ![g][c] = "pending"]
            /\ lister' = Notified(g)
    BY ReceiveCallEffect
  <1>2. "pending" \in Records /\ \A d \in CallIds : calls[g][d] # "pending"
    BY <1>1 DEF Records, Pending
  <1>3. \A h \in Grants, d \in CallIds :
            calls'[h][d] = "pending" => calls[h][d] = "pending" \/ (h = g /\ d = c)
    BY <1>1, <1>2, CallReplaced
  <1>4. \A l \in Listers : lister'[l].at = "waiting" => lister'[l] = lister[l] /\ lister[l].turn # g
    BY <1>1, NotifyWakes
  <1> QED
    BY <1>1, <1>2, <1>3, <1>4

-----------------------------------------------------------------------------
(* What a step does to the answers *)

\* No call gets, changes or loses an answer.
SameAnswers == \A g \in Grants, c \in CallIds :
    calls[g][c] \in Answers \/ calls'[g][c] \in Answers => calls'[g][c] = calls[g][c]

\* No answer is sent.
NoNewAnswers == \A m \in PiMessages :
    Contains(toPi', m) /\ m.type = "result" /\ m.answer # None => Contains(toPi, m)

\* No tool call gets an answer.
NoNewSuccess == \A g \in Grants, c \in CallIds :
    tool'[g][c] \in Answers => tool[g][c] = tool'[g][c]

\* A step that settles nothing keeps what is settled.
LEMMA NothingSettled ==
    ASSUME Types, Settled, SameAnswers, NoNewAnswers, NoNewSuccess, UNCHANGED accepted
    PROVE  Settled'
  <1>1. \A m \in PiMessages : m.type = "result" =>
            m.turn \in Grants /\ m.call \in CallIds /\ m.answer \in Answers \cup {None}
    BY MessageTypes
  <1>2. ASSUME NEW m \in PiMessages, Contains(toPi', m), m.type = "result", m.answer # None
        PROVE  calls'[m.turn][m.call] = m.answer
    <2>1. calls[m.turn][m.call] = m.answer
      BY <1>2 DEF NoNewAnswers, Settled
    <2> QED
      BY <1>1, <1>2, <2>1 DEF SameAnswers
  <1>3. ASSUME NEW g \in Grants, NEW c \in CallIds
        PROVE  /\ calls'[g][c] \in Answers => accepted'[g][c] = {calls'[g][c]}
               /\ calls'[g][c] \notin Answers => accepted'[g][c] = {}
               /\ tool'[g][c] \in Answers => calls'[g][c] = tool'[g][c]
    BY DEF Settled, SameAnswers, NoNewSuccess
  <1> QED
    BY <1>2, <1>3 DEF Settled

\* A call received is pending or refused.
LEMMA ReceiveCallSettles ==
    ASSUME Types, ReceiveCall
    PROVE  SameAnswers /\ NoNewAnswers
  <1>1. NoNewAnswers
    BY ReceiveCallSends DEF NoNewAnswers
  <1>2. ASSUME NEW g \in Grants, NEW c \in CallIds, calls[g][c] = "none",
               calls' = [calls EXCEPT ![g][c] = "pending"]
        PROVE  SameAnswers
    <2>1. "pending" \in Records /\ "pending" \notin Answers /\ "none" \notin Answers
      BY RelayAssumption DEF Records
    <2> QED
      BY <1>2, <2>1, CallReplaced DEF SameAnswers
  <1>3. ASSUME UNCHANGED calls PROVE SameAnswers
    BY <1>3, Zenon DEF SameAnswers
  <1> QED
    BY <1>1, <1>2, <1>3, ReceiveCallEffect

\* A call cancelled had no answer.
LEMMA ReceiveCancelSettles ==
    ASSUME Types, ReceiveCancel
    PROVE  SameAnswers
  <1>1. ASSUME NEW g \in Grants, NEW c \in CallIds, calls[g][c] \in {"pending", "cancelled"},
               calls' = [calls EXCEPT ![g][c] = "cancelled"]
        PROVE  SameAnswers
    <2>1. "cancelled" \in Records /\ "pending" \notin Answers /\ "cancelled" \notin Answers
      BY RelayAssumption DEF Records
    <2> QED
      BY <1>1, <2>1, CallReplaced DEF SameAnswers
  <1>2. CASE UNCHANGED calls
    BY <1>2 DEF SameAnswers
  <1> QED
    BY <1>1, <1>2, ReceiveCancelEffect

\* A revocation cancels what is pending and answers nothing.
LEMMA RevokeSettles ==
    ASSUME Types, Reserved, Listening, Revoke
    PROVE  SameAnswers /\ NoNewAnswers
  <1>1. "cancelled" \notin Answers /\ "pending" \notin Answers
    BY RelayAssumption
  <1> QED
    BY <1>1, RevokeKeeps DEF SameAnswers, NoNewAnswers

-----------------------------------------------------------------------------
\* Every action keeps the types.
LEMMA TypesStep ==
    ASSUME Types, Reserved, Listening, [Next]_vars
    PROVE  Types'
  <1>1. ASSUME Hello PROVE Types'
    BY <1>1 DEF Hello, Types, extVars, runVars
  <1>2. ASSUME ReceiveBegin PROVE Types'
    BY <1>2, ReceiveBeginEffect DEF ReceiveBegin, Types, extVars, runVars
  <1>3. ASSUME ReceiveCall PROVE Types'
    <2>1. toBox' \in Seq(BoxMessages) /\ toPi' \in Seq(PiMessages)
      BY <1>3, ReceiveCallEffect DEF Types
    <2>2. calls' \in [Grants -> [CallIds -> Records]] /\ lister' \in [Listers -> Polls]
      <3>1. CASE UNCHANGED <<calls, lister>>
        BY <3>1 DEF Types
      <3>2. CASE ~UNCHANGED <<calls, lister>>
        <4>1. PICK g \in Grants, c \in CallIds :
                calls' = [calls EXCEPT ![g][c] = "pending"] /\ lister' = Notified(g)
          BY <1>3, <3>2, ReceiveCallEffect
        <4>2. "pending" \in Records
          BY DEF Records
        <4> QED
          BY <4>1, <4>2, CallReplaced, NotifiedType
      <3> QED
        BY <3>1, <3>2
    <2> QED
      BY <1>3, <2>1, <2>2 DEF ReceiveCall, Types, extVars, runVars
  <1>4. ASSUME ReceiveCancel PROVE Types'
    <2>1. toBox' \in Seq(BoxMessages)
      BY <1>4, ReceiveCancelEffect
    <2>2. calls' \in [Grants -> [CallIds -> Records]] /\ lister' \in [Listers -> Polls]
      <3>1. CASE UNCHANGED <<calls, lister>>
        BY <3>1 DEF Types
      <3>2. CASE ~UNCHANGED <<calls, lister>>
        <4>1. PICK g \in Grants, c \in CallIds :
                calls' = [calls EXCEPT ![g][c] = "cancelled"] /\ lister' = Notified(g)
          BY <1>4, <3>2, ReceiveCancelEffect
        <4>2. "cancelled" \in Records
          BY DEF Records
        <4> QED
          BY <4>1, <4>2, CallReplaced, NotifiedType
      <3> QED
        BY <3>1, <3>2
    <2> QED
      BY <1>4, <2>1, <2>2 DEF ReceiveCancel, Types, extVars, runVars
  <1>5. ASSUME Disconnect PROVE Types'
    BY <1>5, RevokeEffect DEF Disconnect, CloseRelay, Types, Records, Polls, extVars,
        runVars
  <1>6. ASSUME NEW g \in Grants, Authorize(g) PROVE Types'
    <2>1. grants' \in Seq(Grants)
      <3>1. \A h \in Grants : ~grant[h].active
        BY <1>6, RelayAssumption DEF Authorize, Reserved, Runs
      <3>2. Room(Collected) \in Seq(Grants)
        BY <3>1, CollectedKeepsActive, RoomForOne
      <3> QED
        BY <1>6, <3>2, AppendToQueue DEF Authorize
    <2>2. grant' \in [Grants -> GrantRecords]
      <3> DEFINE x == [grant[g] EXCEPT !.active = TRUE]
      <3>1. grant \in [Grants -> GrantRecords] /\ x \in GrantRecords
        BY GrantFields DEF Types
      <3>2. grant' = [grant EXCEPT ![g] = x]
        BY <1>6 DEF Authorize
      <3> HIDE DEF x
      <3> QED
        BY <3>1, <3>2
    <2> QED
      BY <1>6, <2>1, <2>2 DEF Authorize, Types, extVars, Runs
  <1>7. ASSUME NEW g \in Grants, Expire(g) PROVE Types'
    BY <1>7, RevokeEffect DEF Expire, Types, Records, Polls, extVars, runVars
  <1>8. ASSUME NEW r \in Plain, Send(r) PROVE Types'
    BY <1>8 DEF Send, Types, Runs, relayVars, extVars
  <1>9. ASSUME Abort PROVE Types'
    BY <1>9, RevokeEffect DEF Abort, Types, Records, Polls, extVars, runVars
  <1>10. ASSUME Release PROVE Types'
    BY <1>10, RevokeEffect DEF Release, Types, Records, Polls, Runs, extVars
  <1>11. ASSUME NEW l \in Listers, NEW g \in Grants, List(l, g) PROVE Types'
    BY <1>11 DEF List, Types, Polls, extVars, runVars
  <1>12. ASSUME NEW l \in Listers, Look(l) PROVE Types'
    <2>1. lister' \in [Listers -> Polls]
      BY <1>12, CollectedKeepsActive DEF Look, Types, Polls, Idle
    <2> QED
      BY <1>12, <2>1, CollectedKeepsActive DEF Look, Types, extVars, runVars
  <1>13. ASSUME NEW l \in Listers, ListTimesOut(l) PROVE Types'
    <2>1. lister' \in [Listers -> Polls]
      BY <1>13 DEF ListTimesOut, Types, Polls, Idle
    <2> QED
      BY <1>13, <2>1 DEF ListTimesOut, Types, extVars, runVars
  <1>14. ASSUME NEW g \in Grants, NEW c \in CallIds, NEW a \in Answers, Respond(g, c, a) PROVE Types'
    <2>1. toPi' \in Seq(PiMessages)
          /\ accepted' = [accepted EXCEPT ![g][c] = @ \cup {a}]
      BY <1>14, RespondEffect
    <2>2. accepted' \in [Grants -> [CallIds -> SUBSET Answers]]
      BY <2>1 DEF Types
    <2>3. calls' \in [Grants -> [CallIds -> Records]] /\ lister' \in [Listers -> Polls]
      <3>1. CASE UNCHANGED <<calls, lister>>
        BY <3>1 DEF Types
      <3>2. CASE ~UNCHANGED <<calls, lister>>
        <4>1. calls' = [calls EXCEPT ![g][c] = a] /\ lister' = Notified(g)
          BY <1>14, <3>2, RespondEffect
        <4>2. a \in Records
          BY DEF Records
        <4> QED
          BY <4>1, <4>2, CallReplaced, NotifiedType
      <3> QED
        BY <3>1, <3>2
    <2>4. grants' \in Seq(Grants)
      BY <1>14, CollectedKeepsActive DEF Respond
    <2> QED
      BY <1>14, <2>1, <2>2, <2>3, <2>4 DEF Respond, Types, extVars, runVars
  <1>15. ASSUME RunStarts PROVE Types'
    BY <1>15, SentToBox, MessageTypes DEF RunStarts, Types, ToolStates, Runs, relayVars
  <1>16. ASSUME HearConfig PROVE Types'
    BY <1>16, HearsEffect, MessageTypes DEF HearConfig, Asked, Types, Runs, relayVars,
        runVars
  <1>17. ASSUME AskTimesOut PROVE Types'
    BY <1>17 DEF AskTimesOut, Types, Runs, relayVars, runVars
  <1>18. ASSUME NEW c \in CallIds, Execute(c) PROVE Types'
    BY <1>18, SentToBox, MessageTypes DEF Execute, Types, ToolStates, relayVars, runVars
  <1>19. ASSUME NEW g \in Grants, NEW c \in CallIds, AbortTool(g, c) PROVE Types'
    BY <1>19, SentToBox, MessageTypes DEF AbortTool, Types, ToolStates, relayVars, runVars
  <1>20. ASSUME HearResult PROVE Types'
    BY <1>20, HearsEffect, MessageTypes DEF HearResult, Types, ToolStates, relayVars,
        runVars
  <1>21. ASSUME Settle PROVE Types'
    BY <1>21 DEF Settle, Reset, Types, ToolStates, Runs, relayVars
  <1>22. ASSUME ExtensionResets PROVE Types'
    BY <1>22 DEF ExtensionResets, Reset, Types, ToolStates, Runs, relayVars, runVars
  <1>23. ASSUME NEW g \in Grants, Late(g) PROVE Types'
    BY <1>23, GrantFields DEF Late, Types, extVars, runVars
  <1>24. ASSUME NEW g \in Grants, Age(g) PROVE Types'
    BY <1>24, GrantFields DEF Age, Types, extVars, runVars
  <1>25. ASSUME UNCHANGED vars PROVE Types'
    BY <1>25 DEF Types, vars, relayVars, extVars, runVars
  <1> QED
    BY <1>1, <1>2, <1>3, <1>4, <1>5, <1>6, <1>7, <1>8, <1>9, <1>10, <1>11, <1>12, <1>13,
        <1>14, <1>15, <1>16, <1>17, <1>18, <1>19, <1>20, <1>21, <1>22, <1>23, <1>24, <1>25
        DEF Next, RelayStep, ManagerStep, HostStep, ExtensionStep, vars, relayVars, extVars,
        runVars

\* What the extension asks for, and what the messages name, has started.
LEMMA StartedStep ==
    ASSUME Types, Reserved, Listening, Started, [Next]_vars
    PROVE  Started'
  <1>1. ASSUME ReceiveBegin PROVE Started'
    BY <1>1, ReceiveBeginSends DEF ReceiveBegin, Started, extVars, runVars
  <1>2. ASSUME ReceiveCall PROVE Started'
    BY <1>2, ReceiveCallEffect DEF ReceiveCall, Started, extVars, runVars
  <1>3. ASSUME ReceiveCancel PROVE Started'
    BY <1>3, ReceiveCancelEffect DEF ReceiveCancel, Started, extVars, runVars
  <1>4. ASSUME Disconnect PROVE Started'
    BY <1>4, RevokeEffect DEF Disconnect, CloseRelay, Started, extVars, runVars
  <1>5. ASSUME NEW g \in Grants, Authorize(g) PROVE Started'
    BY <1>5, RelayAssumption DEF Authorize, Started, extVars
  <1>6. ASSUME NEW g \in Grants, Expire(g) PROVE Started'
    BY <1>6, RevokeEffect DEF Expire, Started, extVars, runVars
  <1>7. ASSUME NEW r \in Plain, Send(r) PROVE Started'
    BY <1>7, RelayAssumption DEF Send, Started, extVars, relayVars
  <1>8. ASSUME Abort PROVE Started'
    BY <1>8, RevokeEffect DEF Abort, Started, extVars, runVars
  <1>9. ASSUME Release PROVE Started'
    BY <1>9, RevokeEffect DEF Release, Started, extVars
  <1>10. ASSUME NEW g \in Grants, NEW c \in CallIds, NEW a \in Answers, Respond(g, c, a) PROVE Started'
    BY <1>10, RespondSends DEF Respond, Started, extVars, runVars
  <1>11. ASSUME RunStarts PROVE Started'
    <2>1. slot \in Runs
      BY <1>11 DEF RunStarts, Types
    <2> QED
      BY <1>11, <2>1, RunStartsSends, RelayAssumption DEF RunStarts, Started
  <1>12. ASSUME HearConfig PROVE Started'
    BY <1>12, HearsEffect DEF HearConfig, Asked, Started, runVars, relayVars
  <1>13. ASSUME AskTimesOut PROVE Started'
    BY <1>13 DEF AskTimesOut, Started, runVars, relayVars
  <1>14. ASSUME NEW c \in CallIds, Execute(c) PROVE Started'
    BY <1>14, RequestsSend DEF Execute, Started, runVars
  <1>15. ASSUME NEW g \in Grants, NEW c \in CallIds, AbortTool(g, c) PROVE Started'
    BY <1>15, RequestsSend DEF AbortTool, Started, runVars
  <1>16. ASSUME HearResult PROVE Started'
    BY <1>16, HearsEffect DEF HearResult, Started, runVars, relayVars
  <1>17. ASSUME Settle PROVE Started'
    BY <1>17 DEF Settle, Reset, Started, relayVars
  <1>18. ASSUME ExtensionResets PROVE Started'
    BY <1>18 DEF ExtensionResets, Reset, Started, runVars, relayVars
  <1>19. ASSUME UNCHANGED <<run, slot, prompted, asking, toBox, toPi>> PROVE Started'
    BY <1>19 DEF Started
  <1> QED
    BY <1>1, <1>2, <1>3, <1>4, <1>5, <1>6, <1>7, <1>8, <1>9, <1>10, <1>11, <1>12, <1>13,
        <1>14, <1>15, <1>16, <1>17, <1>18, <1>19 DEF Next, RelayStep, ManagerStep, HostStep,
        ExtensionStep, vars, relayVars, extVars, runVars, Hello, List, Look, ListTimesOut,
        Late, Age

\* Only the grant of the run that holds the slot is active, with one pending call.
LEMMA ReservedStep ==
    ASSUME Types, Types', Reserved, Listening, Started, [Next]_vars
    PROVE  Reserved'
  <1>1. ASSUME ReceiveBegin PROVE Reserved'
    BY <1>1, ReceiveBeginEffect DEF ReceiveBegin, Reserved, runVars
  <1>2. ASSUME ReceiveCall PROVE Reserved'
    <2>1. UNCHANGED <<grant, current, slot>>
      BY <1>2 DEF ReceiveCall, runVars
    <2>2. CASE UNCHANGED <<calls, lister>>
      BY <2>1, <2>2 DEF Reserved
    <2>3. ASSUME NEW g \in Grants, NEW c \in CallIds, grant[g].active,
                 \A d \in CallIds : calls[g][d] # "pending",
                 \A h \in Grants, d \in CallIds :
                    calls'[h][d] = "pending" => calls[h][d] = "pending" \/ (h = g /\ d = c)
          PROVE  Reserved'
      BY <2>1, <2>3 DEF Reserved
    <2> QED
      BY <1>2, <2>2, <2>3, ReceiveCallPending
  <1>3. ASSUME ReceiveCancel PROVE Reserved'
    BY <1>3, ReceiveCancelPending DEF ReceiveCancel, Reserved, runVars
  <1>4. ASSUME Disconnect PROVE Reserved'
    BY <1>4, RevokeEnds DEF Disconnect, CloseRelay, Reserved
  <1>5. ASSUME NEW g \in Grants, Authorize(g) PROVE Reserved'
    <2>1. \A h \in Grants : ~grant[h].active
      BY <1>5, RelayAssumption DEF Authorize, Reserved, Runs
    <2>2. \A h \in Grants : grant'[h].active => h = g
      BY <1>5, <2>1 DEF Authorize, Types
    <2>3. \A h \in Grants, c \in CallIds : calls[h][c] # "pending"
      BY <2>1 DEF Reserved
    <2> QED
      BY <1>5, <2>2, <2>3 DEF Authorize, Reserved
  <1>6. ASSUME NEW g \in Grants, Expire(g) PROVE Reserved'
    BY <1>6, RevokeEnds DEF Expire, Reserved
  <1>7. ASSUME NEW r \in Plain, Send(r) PROVE Reserved'
    <2>1. \A h \in Grants : ~grant[h].active
      BY <1>7, RelayAssumption DEF Send, Reserved, Runs
    <2> QED
      BY <1>7, <2>1 DEF Send, Reserved, relayVars
  <1>8. ASSUME Abort PROVE Reserved'
    BY <1>8, RevokeEnds DEF Abort, Reserved
  <1>9. ASSUME Release PROVE Reserved'
    BY <1>9, RevokeEnds DEF Release, Reserved
  <1>10. ASSUME NEW g \in Grants, NEW c \in CallIds, NEW a \in Answers, Respond(g, c, a) PROVE Reserved'
    BY <1>10, RespondPending DEF Respond, Reserved, runVars
  <1>11. ASSUME NEW g \in Grants, Late(g) PROVE Reserved'
    BY <1>11, GrantFields DEF Late, Reserved, runVars
  <1>12. ASSUME NEW g \in Grants, Age(g) PROVE Reserved'
    BY <1>12, GrantFields DEF Age, Reserved, runVars
  <1>13. ASSUME UNCHANGED <<grant, current, slot, calls>> PROVE Reserved'
    BY <1>13 DEF Reserved
  <1> QED
    BY <1>1, <1>2, <1>3, <1>4, <1>5, <1>6, <1>7, <1>8, <1>9, <1>10, <1>11, <1>12, <1>13 DEF
        Next, RelayStep, ManagerStep, HostStep, ExtensionStep, vars, relayVars, extVars,
        runVars, Hello, List, Look, ListTimesOut, RunStarts, HearConfig, AskTimesOut,
        Execute, AbortTool, HearResult, Settle, ExtensionResets

\* A long poll sleeps only on an active turn with nothing pending.
LEMMA ListeningStep ==
    ASSUME Types, Types', Reserved, Listening, [Next]_vars
    PROVE  Listening'
  <1>1. ASSUME ReceiveBegin PROVE Listening'
    BY <1>1, ReceiveBeginEffect DEF ReceiveBegin, Listening, runVars
  <1>2. ASSUME ReceiveCall PROVE Listening'
    <2>1. UNCHANGED grant
      BY <1>2 DEF ReceiveCall
    <2>2. CASE UNCHANGED <<calls, lister>>
      BY <2>1, <2>2 DEF Listening
    <2>3. ASSUME NEW g \in Grants, NEW c \in CallIds,
                 \A h \in Grants, d \in CallIds :
                    calls'[h][d] = "pending" => calls[h][d] = "pending" \/ (h = g /\ d = c),
                 \A l \in Listers : lister'[l].at = "waiting" =>
                    lister'[l] = lister[l] /\ lister[l].turn # g
          PROVE  Listening'
      BY <2>1, <2>3 DEF Listening
    <2> QED
      BY <1>2, <2>2, <2>3, ReceiveCallPending
  <1>3. ASSUME ReceiveCancel PROVE Listening'
    BY <1>3, ReceiveCancelPending DEF ReceiveCancel, Listening
  <1>4. ASSUME Disconnect PROVE Listening'
    BY <1>4, RevokeEnds DEF Disconnect, CloseRelay, Listening
  <1>5. ASSUME NEW g \in Grants, Authorize(g) PROVE Listening'
    BY <1>5, CollectedKeepsActive, RoomForOne, AppendToQueue, GrantFields DEF Authorize,
        Listening
  <1>6. ASSUME NEW g \in Grants, Expire(g) PROVE Listening'
    BY <1>6, RevokeEnds DEF Expire, Listening
  <1>7. ASSUME Abort PROVE Listening'
    BY <1>7, RevokeEnds DEF Abort, Listening
  <1>8. ASSUME Release PROVE Listening'
    BY <1>8, RevokeEnds DEF Release, Listening
  <1>9. ASSUME NEW l \in Listers, NEW g \in Grants, List(l, g) PROVE Listening'
    BY <1>9 DEF List, Listening, runVars
  <1>10. ASSUME NEW l \in Listers, Look(l) PROVE Listening'
    <2> DEFINE g == lister[l].turn
               x == IF Known(g) /\ grant[g].active /\ Pending(g) = {}
                    THEN [at |-> "waiting", turn |-> g] ELSE Idle
    <2>1. lister' = [lister EXCEPT ![l] = x] /\ UNCHANGED <<grant, calls>>
      BY <1>10 DEF Look
    <2>2. x.at = "waiting" => /\ x.turn \in Grants /\ grant[x.turn].active
                              /\ \A c \in CallIds : calls[x.turn][c] # "pending"
      BY CollectedKeepsActive DEF Idle, Pending
    <2> HIDE DEF x
    <2>3. \A k \in Listers : lister'[k] = IF k = l THEN x ELSE lister[k]
      BY <2>1 DEF Types
    <2> QED
      BY <2>1, <2>2, <2>3 DEF Listening
  <1>11. ASSUME NEW l \in Listers, ListTimesOut(l) PROVE Listening'
    <2>1. \A k \in Listers : lister'[k] = IF k = l THEN Idle ELSE lister[k]
      BY <1>11 DEF ListTimesOut, Types
    <2> QED
      BY <1>11, <2>1 DEF ListTimesOut, Listening, Idle
  <1>12. ASSUME NEW g \in Grants, NEW c \in CallIds, NEW a \in Answers, Respond(g, c, a) PROVE Listening'
    <2>1. UNCHANGED grant
      BY <1>12 DEF Respond
    <2>2. /\ \A h \in Grants, d \in CallIds : calls'[h][d] = "pending" => calls[h][d] = "pending"
          /\ \A k \in Listers : lister'[k].at = "waiting" => lister'[k] = lister[k]
      BY <1>12, RespondPending
    <2> QED
      BY <2>1, <2>2 DEF Listening
  <1>13. ASSUME NEW g \in Grants, Late(g) PROVE Listening'
    BY <1>13, GrantFields DEF Late, Listening, runVars
  <1>14. ASSUME NEW g \in Grants, Age(g) PROVE Listening'
    BY <1>14, GrantFields DEF Age, Listening, runVars
  <1>15. ASSUME UNCHANGED <<lister, grant, calls>> PROVE Listening'
    BY <1>15 DEF Listening
  <1> QED
    BY <1>1, <1>2, <1>3, <1>4, <1>5, <1>6, <1>7, <1>8, <1>9, <1>10, <1>11, <1>12, <1>13,
        <1>14, <1>15 DEF Next, RelayStep, ManagerStep, HostStep, ExtensionStep, vars,
        relayVars, extVars, runVars, Hello, Send, RunStarts, HearConfig, AskTimesOut,
        Execute, AbortTool, HearResult, Settle, ExtensionResets

\* The turn, and a config that the run asked for, is of that run.
LEMMA IsolatedStep ==
    ASSUME Types, Types', Reserved, Listening, Started, Isolated, [Next]_vars
    PROVE  Isolated'
  <1>1. ASSUME ReceiveBegin PROVE Isolated'
    <2>1. \A m \in PiMessages : Contains(toPi', m) =>
                \/ Contains(toPi, m)
                \/ m.type = "config" /\ (m.turn # None => m.turn = slot)
      BY <1>1, ReceiveBeginSends
    <2>2. \A m \in PiMessages : m.type = "config" /\ m.run = asking => m.run = slot
      BY MessagesNameRuns DEF Started
    <2> QED
      BY <1>1, <2>1, <2>2 DEF ReceiveBegin, Isolated, extVars, runVars
  <1>2. ASSUME ReceiveCall PROVE Isolated'
    BY <1>2, ReceiveCallSends DEF ReceiveCall, Isolated, extVars, runVars
  <1>3. ASSUME Disconnect PROVE Isolated'
    BY <1>3, RevokeKeeps DEF Disconnect, CloseRelay, Isolated, extVars, runVars
  <1>4. ASSUME NEW g \in Grants, Expire(g) PROVE Isolated'
    BY <1>4, RevokeKeeps DEF Expire, Isolated, extVars, runVars
  <1>5. ASSUME Abort PROVE Isolated'
    BY <1>5, RevokeKeeps DEF Abort, Isolated, extVars, runVars
  <1>6. ASSUME Release PROVE Isolated'
    BY <1>6, RevokeKeeps DEF Release, Isolated, extVars, runVars
  <1>7. ASSUME NEW g \in Grants, NEW c \in CallIds, NEW a \in Answers, Respond(g, c, a) PROVE Isolated'
    BY <1>7, RespondSends DEF Respond, Isolated, extVars, runVars
  <1>8. ASSUME RunStarts PROVE Isolated'
    <2>1. \A m \in PiMessages : Contains(toPi, m) /\ m.type = "config" => m.run # asking'
      BY <1>8, MessagesNameRuns DEF RunStarts, Started
    <2> QED
      BY <1>8, <2>1 DEF RunStarts, Isolated
  <1>9. ASSUME HearConfig PROVE Isolated'
    <2> DEFINE m == Head(toPi)
    <2>1. /\ m \in PiMessages /\ Contains(toPi, m) /\ m.type = "config"
          /\ \A x : Contains(toPi', x) => Contains(toPi, x)
      BY <1>9, HearsEffect DEF HearConfig
    <2>2. UNCHANGED run /\ asking' \in {asking, None}
      BY <1>9 DEF HearConfig, runVars
    <2>3. turn' # None => turn' = turn \/ (turn' = m.turn /\ m.run = asking)
      BY <1>9 DEF HearConfig, Asked
    <2>4. m.run = asking => m.turn \in {None, run}
      BY <2>1, MessagesNameRuns DEF Started, Isolated
    <2> HIDE DEF m
    <2>5. turn' # None => run' = turn'
      BY <2>2, <2>3, <2>4 DEF Isolated
    <2>6. \A x \in PiMessages : Contains(toPi', x) /\ x.type = "config" =>
                (x.run = asking' => x.turn \in {None, x.run})
      BY <2>1, <2>2, MessagesNameRuns DEF Isolated
    <2> QED
      BY <2>5, <2>6 DEF Isolated
  <1>10. ASSUME AskTimesOut PROVE Isolated'
    BY <1>10, MessagesNameRuns DEF AskTimesOut, Isolated, runVars
  <1>11. ASSUME HearResult PROVE Isolated'
    BY <1>11, HearsEffect DEF HearResult, Isolated, runVars, relayVars
  <1>12. ASSUME Settle PROVE Isolated'
    BY <1>12, MessagesNameRuns DEF Settle, Reset, Isolated
  <1>13. ASSUME ExtensionResets PROVE Isolated'
    BY <1>13, MessagesNameRuns DEF ExtensionResets, Reset, Isolated
  <1>14. ASSUME UNCHANGED <<turn, run, asking, toPi>> PROVE Isolated'
    BY <1>14 DEF Isolated
  <1> QED
    BY <1>1, <1>2, <1>3, <1>4, <1>5, <1>6, <1>7, <1>8, <1>9, <1>10, <1>11, <1>12, <1>13,
        <1>14 DEF Next, RelayStep, ManagerStep, HostStep, ExtensionStep, vars, relayVars,
        extVars, runVars, Hello, ReceiveCancel, Authorize, Send, List, Look, ListTimesOut,
        Execute, AbortTool, Late, Age

\* The ledger, the socket and the tool agree on the one answer to a call.
LEMMA SettledStep ==
    ASSUME Types, Types', Reserved, Listening, Started, Settled, [Next]_vars
    PROVE  Settled'
  <1>1. ASSUME ReceiveBegin PROVE Settled'
    <2>1. NoNewAnswers
      BY <1>1, ReceiveBeginSends DEF NoNewAnswers
    <2> QED
      BY <1>1, <2>1, NothingSettled DEF ReceiveBegin, SameAnswers, NoNewSuccess, extVars
  <1>2. ASSUME ReceiveCall PROVE Settled'
    BY <1>2, ReceiveCallSettles, NothingSettled DEF ReceiveCall, NoNewSuccess, extVars
  <1>3. ASSUME ReceiveCancel PROVE Settled'
    BY <1>3, ReceiveCancelSettles, NothingSettled
        DEF ReceiveCancel, NoNewAnswers, NoNewSuccess, extVars
  <1>4. ASSUME Disconnect PROVE Settled'
    BY <1>4, RevokeSettles, NothingSettled DEF Disconnect, CloseRelay, NoNewSuccess, extVars
  <1>5. ASSUME NEW g \in Grants, Expire(g) PROVE Settled'
    BY <1>5, RevokeSettles, NothingSettled DEF Expire, NoNewSuccess, extVars
  <1>6. ASSUME Abort PROVE Settled'
    BY <1>6, RevokeSettles, NothingSettled DEF Abort, NoNewSuccess, extVars
  <1>7. ASSUME Release PROVE Settled'
    BY <1>7, RevokeSettles, NothingSettled DEF Release, NoNewSuccess, extVars
  <1>8. ASSUME NEW g \in Grants, NEW c \in CallIds, NEW a \in Answers, Respond(g, c, a) PROVE Settled'
    <2>1. CASE UNCHANGED <<calls, toPi>> /\ calls[g][c] = a
      <3>1. accepted' = [accepted EXCEPT ![g][c] = @ \cup {a}] /\ UNCHANGED tool
        BY <1>8, RespondEffect DEF Respond, extVars
      <3>2. accepted[g][c] = {a}
        BY <2>1 DEF Settled
      <3>3. accepted' = accepted
        BY <3>1, <3>2 DEF Types
      <3> QED
        BY <2>1, <3>1, <3>3 DEF Settled
    <2>2. CASE ~(UNCHANGED <<calls, toPi>> /\ calls[g][c] = a)
      <3>1. /\ accepted' = [accepted EXCEPT ![g][c] = @ \cup {a}]
            /\ calls[g][c] = "pending" /\ calls' = [calls EXCEPT ![g][c] = a]
            /\ \A m : Contains(toPi', m) <=> Contains(toPi, m) \/ m = Result(g, c, a)
        BY <1>8, <2>2, RespondEffect
      <3>2. UNCHANGED tool
        BY <1>8 DEF Respond, extVars
      <3>3. "pending" \notin Answers /\ a \in Records
        BY RelayAssumption DEF Records
      <3>4. /\ calls'[g][c] = a
            /\ \A h \in Grants, d \in CallIds : h # g \/ d # c => calls'[h][d] = calls[h][d]
        BY <3>1, <3>3, CallReplaced
      <3>5. accepted[g][c] = {} /\ tool[g][c] \notin Answers
        BY <3>1, <3>3 DEF Settled
      <3>6. /\ accepted'[g][c] = {a}
            /\ \A h \in Grants, d \in CallIds :
                    h # g \/ d # c => accepted'[h][d] = accepted[h][d]
        BY <3>1, <3>5 DEF Types
      <3>7. ASSUME NEW h \in Grants, NEW d \in CallIds
            PROVE  /\ calls'[h][d] \in Answers => accepted'[h][d] = {calls'[h][d]}
                   /\ calls'[h][d] \notin Answers => accepted'[h][d] = {}
                   /\ tool'[h][d] \in Answers => calls'[h][d] = tool'[h][d]
        BY <3>2, <3>4, <3>5, <3>6 DEF Settled
      <3>8. ASSUME NEW m \in PiMessages, Contains(toPi', m), m.type = "result", m.answer # None
            PROVE  calls'[m.turn][m.call] = m.answer
        <4>1. CASE m = Result(g, c, a)
          BY <4>1, <3>4 DEF Result
        <4>2. CASE Contains(toPi, m)
          <5>1. calls[m.turn][m.call] = m.answer /\ m.answer \in Answers
                /\ m.turn \in Grants /\ m.call \in CallIds
            BY <3>8, <4>2, MessageTypes DEF Settled
          <5> QED
            BY <5>1, <3>1, <3>3, <3>4
        <4> QED
          BY <3>1, <3>8, <4>1, <4>2
      <3> QED
        BY <3>7, <3>8 DEF Settled
    <2> QED
      BY <2>1, <2>2
  <1>9. ASSUME RunStarts PROVE Settled'
    <2>1. NoNewSuccess
      BY <1>9, RelayAssumption DEF RunStarts, Types, NoNewSuccess
    <2> QED
      BY <1>9, <2>1, NothingSettled DEF RunStarts, SameAnswers, NoNewAnswers, relayVars
  <1>10. ASSUME HearConfig PROVE Settled'
    <2>1. NoNewAnswers
      BY <1>10, HearsEffect DEF HearConfig, NoNewAnswers
    <2> QED
      BY <1>10, <2>1, NothingSettled DEF HearConfig, SameAnswers, NoNewSuccess, relayVars
  <1>11. ASSUME NEW c \in CallIds, Execute(c) PROVE Settled'
    <2>1. NoNewSuccess
      BY <1>11, RelayAssumption DEF Execute, Types, NoNewSuccess
    <2> QED
      BY <1>11, <2>1, NothingSettled DEF Execute, SameAnswers, NoNewAnswers, relayVars
  <1>12. ASSUME NEW g \in Grants, NEW c \in CallIds, AbortTool(g, c) PROVE Settled'
    <2>1. NoNewSuccess
      BY <1>12, RelayAssumption DEF AbortTool, Types, NoNewSuccess
    <2> QED
      BY <1>12, <2>1, NothingSettled DEF AbortTool, SameAnswers, NoNewAnswers, relayVars
  <1>13. ASSUME HearResult PROVE Settled'
    <2> DEFINE m == Head(toPi)
    <2>1. /\ m \in PiMessages /\ Contains(toPi, m) /\ m.type = "result"
          /\ \A x : Contains(toPi', x) => Contains(toPi, x)
      BY <1>13, HearsEffect DEF HearResult
    <2>2. UNCHANGED <<calls, accepted>>
      BY <1>13 DEF HearResult, relayVars
    <2>3. m.turn \in Grants /\ m.call \in CallIds /\ m.answer \in Answers \cup {None}
      BY <2>1, MessageTypes
    <2> DEFINE v == IF m.answer = None THEN "failed" ELSE m.answer
    <2>4. tool' = tool \/ tool' = [tool EXCEPT ![m.turn][m.call] = v]
      BY <1>13 DEF HearResult
    <2>5. v \in Answers => calls[m.turn][m.call] = v
      BY <2>1, RelayAssumption DEF Settled
    <2> HIDE DEF m, v
    <2>6. ASSUME NEW g \in Grants, NEW c \in CallIds, tool'[g][c] \in Answers
          PROVE  calls[g][c] = tool'[g][c]
      <3>1. tool'[g][c] = tool[g][c] \/ (g = m.turn /\ c = m.call /\ tool'[g][c] = v)
        BY <2>3, <2>4 DEF Types
      <3> QED
        BY <2>5, <2>6, <3>1 DEF Settled
    <2>7. \A x \in PiMessages : Contains(toPi', x) /\ x.type = "result" =>
                (x.answer # None => calls[x.turn][x.call] = x.answer)
      BY <2>1 DEF Settled
    <2> QED
      BY <2>2, <2>6, <2>7 DEF Settled
  <1>14. ASSUME Settle PROVE Settled'
    <2>1. NoNewSuccess
      BY <1>14, RelayAssumption DEF Settle, Reset, Types, NoNewSuccess
    <2> QED
      BY <1>14, <2>1, NothingSettled DEF Settle, Reset, SameAnswers, NoNewAnswers, relayVars
  <1>15. ASSUME ExtensionResets PROVE Settled'
    <2>1. NoNewSuccess
      BY <1>15, RelayAssumption DEF ExtensionResets, Reset, Types, NoNewSuccess
    <2> QED
      BY <1>15, <2>1, NothingSettled DEF ExtensionResets, Reset, SameAnswers, NoNewAnswers, relayVars
  <1>16. ASSUME UNCHANGED <<calls, accepted, tool, toPi>> PROVE Settled'
    BY <1>16 DEF Settled
  <1> QED
    BY <1>1, <1>2, <1>3, <1>4, <1>5, <1>6, <1>7, <1>8, <1>9, <1>10, <1>11, <1>12, <1>13,
        <1>14, <1>15, <1>16 DEF Next, RelayStep, ManagerStep, HostStep, ExtensionStep, vars,
        relayVars, extVars, runVars, Hello, Authorize, Send, List, Look, ListTimesOut,
        AskTimesOut, Late, Age

\* The ledger keeps its bound and every active grant.
LEMMA LedgerStep ==
    ASSUME Types, Types', Reserved, Listening, Ledger, [Next]_vars
    PROVE  Ledger'
  <1>1. ASSUME ReceiveBegin PROVE Ledger'
    BY <1>1, ReceiveBeginEffect DEF ReceiveBegin, Ledger
  <1>2. ASSUME Disconnect PROVE Ledger'
    BY <1>2, RevokeEnds DEF Disconnect, CloseRelay, Ledger
  <1>3. ASSUME NEW g \in Grants, Authorize(g) PROVE Ledger'
    <2>1. \A h \in Grants : ~grant[h].active
      BY <1>3, RelayAssumption DEF Authorize, Reserved, Runs
    <2>2. \A h \in Grants : grant'[h].active => h = g
      BY <1>3, <2>1 DEF Authorize, Types
    <2> DEFINE rest == Room(Collected)
    <2>3. rest \in Seq(Grants) /\ Len(rest) < Retained
      BY <2>1, CollectedKeepsActive, RoomForOne
    <2>4. grants' = Append(rest, g)
      BY <1>3 DEF Authorize
    <2> HIDE DEF rest
    <2>5. Contains(grants', g)
      BY <2>3, <2>4, AppendToQueue
    <2>6. Len(grants') <= Retained
      BY <2>3, <2>4, RelayAssumption
    <2> QED
      BY <2>2, <2>5, <2>6 DEF Ledger
  <1>4. ASSUME NEW g \in Grants, Expire(g) PROVE Ledger'
    BY <1>4, RevokeEnds DEF Expire, Ledger
  <1>5. ASSUME Abort PROVE Ledger'
    BY <1>5, RevokeEnds DEF Abort, Ledger
  <1>6. ASSUME Release PROVE Ledger'
    BY <1>6, RevokeEnds DEF Release, Ledger
  <1>7. ASSUME NEW l \in Listers, Look(l) PROVE Ledger'
    <2>1. Len(grants') <= Retained
          /\ \A g \in Grants : grant[g].active => Contains(grants', g)
      <3>1. grants' = Collected /\ Len(grants) \in Nat /\ Len(Collected) \in Nat
        BY <1>7, CollectedKeepsActive DEF Look, Types
      <3> QED
        BY <3>1, CollectedKeepsActive, RelayAssumption DEF Ledger
    <2> QED
      BY <1>7, <2>1 DEF Look, Ledger
  <1>8. ASSUME NEW g \in Grants, NEW c \in CallIds, NEW a \in Answers, Respond(g, c, a) PROVE Ledger'
    <2>1. Len(grants') <= Retained
          /\ \A h \in Grants : grant[h].active => Contains(grants', h)
      <3>1. grants' = Collected /\ Len(grants) \in Nat /\ Len(Collected) \in Nat
        BY <1>8, CollectedKeepsActive DEF Respond, Types
      <3> QED
        BY <3>1, CollectedKeepsActive, RelayAssumption DEF Ledger
    <2> QED
      BY <1>8, <2>1 DEF Respond, Ledger
  <1>9. ASSUME NEW g \in Grants, Late(g) PROVE Ledger'
    BY <1>9, GrantFields DEF Late, Ledger
  <1>10. ASSUME NEW g \in Grants, Age(g) PROVE Ledger'
    BY <1>10, GrantFields DEF Age, Ledger
  <1>11. ASSUME UNCHANGED <<grants, grant>> PROVE Ledger'
    BY <1>11 DEF Ledger
  <1> QED
    BY <1>1, <1>2, <1>3, <1>4, <1>5, <1>6, <1>7, <1>8, <1>9, <1>10, <1>11 DEF Next,
        RelayStep, ManagerStep, HostStep, ExtensionStep, vars, relayVars, extVars, runVars,
        Hello, ReceiveCall, ReceiveCancel, Send, List, ListTimesOut, RunStarts, HearConfig,
        AskTimesOut, Execute, AbortTool, HearResult, Settle, ExtensionResets

-----------------------------------------------------------------------------
(* The inductive invariant and the properties *)

\* The initial state has every layer.
LEMMA InitIInv == Init => IInv
  <1> SUFFICES ASSUME Init PROVE IInv
    OBVIOUS
  <1>1. \A m : ~Contains(toBox, m) /\ ~Contains(toPi, m)
    BY DEF Init, Contains
  <1>2. Types
    <2>1. grant \in [Grants -> GrantRecords] /\ lister \in [Listers -> Polls]
      BY Zenon DEF Init, NewGrant, GrantRecords, Idle, Polls
    <2>2. /\ calls \in [Grants -> [CallIds -> Records]]
          /\ tool \in [Grants -> [CallIds -> ToolStates]]
          /\ accepted \in [Grants -> [CallIds -> SUBSET Answers]]
      BY DEF Init, Records, ToolStates
    <2>3. grants \in Seq(Grants) /\ toBox \in Seq(BoxMessages) /\ toPi \in Seq(PiMessages)
      BY DEF Init
    <2>4. ready \in BOOLEAN /\ closed \in BOOLEAN
      BY Zenon DEF Init
    <2> QED
      BY <2>1, <2>2, <2>3, <2>4 DEF Init, Types
  <1>3. Started
    BY <1>1 DEF Init, Started
  <1>4. Reserved /\ Listening
    BY DEF Init, Reserved, Listening, NewGrant, Idle
  <1>5. Isolated
    BY <1>1 DEF Init, Isolated
  <1>6. Settled
    BY <1>1, RelayAssumption DEF Init, Settled
  <1>7. Ledger
    BY RelayAssumption DEF Init, Ledger, NewGrant
  <1> QED
    BY <1>2, <1>3, <1>4, <1>5, <1>6, <1>7 DEF IInv

\* Every step keeps every layer.
LEMMA StepIInv == IInv /\ [Next]_vars => IInv'
  <1> SUFFICES ASSUME IInv, [Next]_vars PROVE IInv'
    OBVIOUS
  <1>1. Types'
    BY TypesStep DEF IInv
  <1>2. Started'
    BY StartedStep DEF IInv
  <1>3. Reserved' /\ Listening'
    BY <1>1, ReservedStep, ListeningStep DEF IInv
  <1>4. Isolated' /\ Settled' /\ Ledger'
    BY <1>1, IsolatedStep, SettledStep, LedgerStep DEF IInv
  <1> QED
    BY <1>1, <1>2, <1>3, <1>4 DEF IInv

\* At most one call is pending, and only in the active grant.
LEMMA OnePending ==
    ASSUME Types, Reserved, NEW g \in Grants
    PROVE  Cardinality(Pending(g)) <= (IF g = current THEN 1 ELSE 0)
  <1>1. CASE Pending(g) = {}
    BY <1>1, FS_EmptySet
  <1>2. CASE Pending(g) # {}
    <2>1. PICK c \in Pending(g) : TRUE
      BY <1>2
    <2>2. g = current /\ Pending(g) = {c}
      BY <2>1 DEF Reserved, Pending
    <2>3. Cardinality({c}) = 1
      BY FS_Singleton
    <2> QED
      BY <2>2, <2>3
  <1> QED
    BY <1>1, <1>2

\* The invariant has the properties.
LEMMA IInvProperties == IInv => CallsSettledOnce /\ ListersWake
  <1> SUFFICES ASSUME IInv PROVE CallsSettledOnce /\ ListersWake
    OBVIOUS
  <1>1. TypeOK
    <2>1. Len(grants) <= Retained /\ \A i \in DOMAIN grants : grants[i] \in Grants
      BY DEF IInv, Types, Ledger
    <2>2. \A g \in Grants : Cardinality(Pending(g)) <= (IF g = current THEN 1 ELSE 0)
      BY OnePending DEF IInv
    <2> QED
      BY <2>1, <2>2 DEF IInv, Types, Ledger, TypeOK, GrantRecords, Polls, ToolStates
  <1>2. ReceiptsFinal
    <2>1. ASSUME NEW g \in Grants, NEW c \in CallIds
          PROVE  /\ Cardinality(accepted[g][c]) <= 1
                 /\ tool[g][c] \in Answers => accepted[g][c] = {tool[g][c]}
      <3>1. accepted[g][c] = {} \/ accepted[g][c] = {calls[g][c]}
        BY DEF IInv, Settled
      <3>2. Cardinality(accepted[g][c]) <= 1
        <4>1. CASE accepted[g][c] = {}
          BY <4>1, FS_EmptySet
        <4>2. CASE accepted[g][c] = {calls[g][c]}
          <5>1. Cardinality({calls[g][c]}) = 1
            BY FS_Singleton
          <5> QED
            BY <4>2, <5>1
        <4> QED
          BY <3>1, <4>1, <4>2
      <3> QED
        BY <3>2 DEF IInv, Settled
    <2> QED
      BY <2>1 DEF ReceiptsFinal
  <1>3. TurnIsolated
    BY DEF IInv, Isolated, Reserved, Pending, TurnIsolated
  <1>4. ListersWake
    BY DEF IInv, Listening, Pending, ListersWake
  <1> QED
    BY <1>1, <1>2, <1>3, <1>4 DEF CallsSettledOnce

\* A host call is settled once, by its own turn and its own run, in a ledger that
\* keeps its bounds (HostRelay.CallsSettledOnce).
THEOREM SettledOnce == Spec => []CallsSettledOnce
  <1>1. Init => IInv
    BY InitIInv
  <1>2. IInv /\ [Next]_vars => IInv'
    BY StepIInv
  <1>3. IInv => CallsSettledOnce
    BY IInvProperties
  <1> QED
    BY <1>1, <1>2, <1>3, PTL DEF Spec

\* A long poll sleeps only while its turn is active and has no pending call
\* (HostRelay.ListersWake).
THEOREM PollsWake == Spec => []ListersWake
  <1>1. Init => IInv
    BY InitIInv
  <1>2. IInv /\ [Next]_vars => IInv'
    BY StepIInv
  <1>3. IInv => ListersWake
    BY IInvProperties
  <1> QED
    BY <1>1, <1>2, <1>3, PTL DEF Spec

-----------------------------------------------------------------------------
(* Steps *)

\* An accepted answer stays in the history.
LEMMA AcceptedGrows ==
    ASSUME Types, [Next]_vars, NEW g \in Grants, NEW c \in CallIds
    PROVE  accepted[g][c] \subseteq accepted'[g][c]
  <1>1. ASSUME NEW h \in Grants, NEW d \in CallIds, NEW a \in Answers, Respond(h, d, a)
        PROVE  accepted[g][c] \subseteq accepted'[g][c]
    <2>1. accepted' = [accepted EXCEPT ![h][d] = @ \cup {a}]
      BY <1>1 DEF Respond
    <2> QED
      BY <2>1 DEF Types
  <1>2. ASSUME UNCHANGED accepted PROVE accepted[g][c] \subseteq accepted'[g][c]
    BY <1>2
  <1> QED
    BY <1>1, <1>2 DEF Next, RelayStep, ManagerStep, HostStep, ExtensionStep, vars, Hello, ReceiveBegin,
        ReceiveCall, ReceiveCancel, Disconnect, Authorize, Expire, Send, Abort, Release, List, Look,
        ListTimesOut, RunStarts, HearConfig, AskTimesOut, Execute, AbortTool, HearResult, Settle,
        ExtensionResets, Late, Age

\* A tool that got its answer keeps it.
LEMMA ToolsKeepAnswers ==
    ASSUME Types, [Next]_vars, NEW g \in Grants, NEW c \in CallIds, tool[g][c] \in Answers
    PROVE  tool'[g][c] = tool[g][c]
  <1>1. tool[g][c] # "none" /\ tool[g][c] # "waiting"
    BY RelayAssumption
  <1>2. ASSUME RunStarts \/ Settle \/ ExtensionResets PROVE tool'[g][c] = tool[g][c]
    BY <1>1, <1>2 DEF RunStarts, Settle, ExtensionResets, Reset
  <1>3. ASSUME NEW d \in CallIds, Execute(d) PROVE tool'[g][c] = tool[g][c]
    BY <1>1, <1>3 DEF Execute, Types
  <1>4. ASSUME NEW h \in Grants, NEW d \in CallIds, AbortTool(h, d)
        PROVE  tool'[g][c] = tool[g][c]
    BY <1>1, <1>4 DEF AbortTool, Types
  <1>5. ASSUME HearResult PROVE tool'[g][c] = tool[g][c]
    BY <1>1, <1>5 DEF HearResult, Types
  <1>6. ASSUME UNCHANGED tool PROVE tool'[g][c] = tool[g][c]
    BY <1>6
  <1> QED
    BY <1>2, <1>3, <1>4, <1>5, <1>6 DEF Next, RelayStep, ManagerStep, HostStep, ExtensionStep, vars,
        extVars, Hello, ReceiveBegin, ReceiveCall, ReceiveCancel, Disconnect, Authorize, Expire, Send,
        Abort, Release, List, Look, ListTimesOut, Respond, HearConfig, AskTimesOut, Late, Age

\* What the ledger recorded for a call and what its tool got do not change.
AnswersStay ==
    \A g \in Grants, c \in CallIds :
        /\ calls[g][c] \in Answers => calls'[g][c] = calls[g][c]
        /\ tool[g][c] \in Answers => tool'[g][c] = tool[g][c]

\* An answer is final: no step changes the answer the ledger recorded for a call
\* or the answer its tool got.
THEOREM AnswersFinal == Spec => [][AnswersStay]_vars
  <1>1. Init => IInv
    BY InitIInv
  <1>2. IInv /\ [Next]_vars => IInv'
    BY StepIInv
  <1>3. IInv /\ IInv' /\ [Next]_vars => [AnswersStay]_vars
    <2> SUFFICES ASSUME IInv, IInv', [Next]_vars, NEW g \in Grants, NEW c \in CallIds
                 PROVE  /\ calls[g][c] \in Answers => calls'[g][c] = calls[g][c]
                        /\ tool[g][c] \in Answers => tool'[g][c] = tool[g][c]
      BY DEF AnswersStay
    <2>1. accepted[g][c] \subseteq accepted'[g][c]
      BY AcceptedGrows DEF IInv
    <2>2. calls[g][c] \in Answers => accepted[g][c] = {calls[g][c]}
      BY DEF IInv, Settled
    <2>3. accepted'[g][c] \in {{}, {calls'[g][c]}}
      BY DEF IInv, Settled
    <2>4. tool[g][c] \in Answers => tool'[g][c] = tool[g][c]
      BY ToolsKeepAnswers DEF IInv
    <2> QED
      BY <2>1, <2>2, <2>3, <2>4
  <1> QED
    BY <1>1, <1>2, <1>3, PTL DEF Spec
=====
