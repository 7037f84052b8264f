---------------------------- MODULE PiPipe_proofs ----------------------------
(***************************************************************************)
(* Proofs about PiPipe: an answer of pi reaches the call it belongs to,    *)
(* and an event reaches every subscription once and in order, for any      *)
(* number of calls, subscriptions, events and dialogs and pipes of any     *)
(* size.                                                                   *)
(*                                                                         *)
(* The inductive invariant is a conjunction of layers, each proved from    *)
(* the ones before it:                                                     *)
(*   Types       what every variable and every record on a pipe is;        *)
(*   Ending      the process is marked as exited only once pi is gone;     *)
(*   Correlated  a registered call has no answer yet, one that waits has   *)
(*               an answer or is registered, and none is once the process  *)
(*               is marked;                                                *)
(*   Written     the events on stdout are those that follow the last one   *)
(*               dispatched, with no gap and in order;                     *)
(*   Streamed    a subscription and its pump hold the events dispatched    *)
(*               since it subscribed.                                      *)
(***************************************************************************)
EXTENDS PiPipe, SequenceTheorems, TLAPS

Answers == {Empty, Closed, Undecodable} \cup [is : {"full"}, of : Calls]
Inputs == {Reply} \cup [kind : {"command"}, of : Calls]
Outputs == {Dialog, Overlong} \cup [kind : {"answer"}, of : Calls] \cup [kind : {"event"}, n : Nat]
Stream == [queue : Seq(Nat), signal : BOOLEAN, done : BOOLEAN,
           pump : {"off", "check", "select", "send", "end"}, ev : Nat, from : Nat]

CallTypes ==
    /\ call \in [Calls -> {"new", "write", "wait", "answered", "failed", "cancelled"}]
    /\ pending \subseteq Calls
    /\ answer \in [Calls -> Answers]

PipeTypes ==
    /\ stdin \in Seq(Inputs) /\ stdout \in Seq(Outputs)
    /\ todo \subseteq Calls /\ emitted \in Nat /\ dispatched \in Nat
    /\ pi \in {"up", "gone"}

SubTypes ==
    /\ subs \subseteq Subs
    /\ sub \in [Subs -> Stream]
    /\ got \in [Subs -> Seq(Nat)]

Types == CallTypes /\ PipeTypes /\ SubTypes /\ exitErr \in BOOLEAN

Ending ==
    /\ exitErr <=> reader \in {"close", "end"}
    /\ done => reader = "end"
    /\ reader \in {"close", "end"} => pi = "gone"

Correlated ==
    /\ exitErr => pending = {}
    /\ \A c \in Calls :
        /\ answer[c] \in {Empty, Closed, Undecodable, Full(c)}
        /\ answer[c] = Closed => pi = "gone"
        /\ call[c] = "failed" => pi = "gone" \/ answer[c] = Undecodable
        /\ c \in pending => answer[c] = Empty /\ call[c] \in {"write", "wait"}
        /\ call[c] = "new" => answer[c] = Empty
        /\ call[c] \in {"write", "wait"} => c \in pending \/ answer[c] # Empty

\* Event n is among the first k records of a pipe.
Holds(pipe, n, k) == \E j \in 1..k : pipe[j] = Event(n)

Written ==
    /\ dispatched <= emitted
    /\ \A i \in 1..Len(stdout) : stdout[i].kind = "event" =>
        /\ stdout[i].n \in dispatched + 1 .. emitted
        /\ \A n \in dispatched + 1 .. stdout[i].n - 1 : Holds(stdout, n, i - 1)
        /\ \A j \in 1 .. i - 1 : stdout[j].kind = "event" => stdout[j].n < stdout[i].n
    /\ pi = "up" => \A n \in dispatched + 1 .. emitted : Holds(stdout, n, Len(stdout))

\* What a subscription s has delivered, holds in its pump and has queued.
Here(s) == got[s] \o (IF sub[s].pump = "send" THEN <<sub[s].ev>> ELSE <<>>) \o sub[s].queue

InOrder(here, from, last) ==
    /\ Len(here) <= last - from
    /\ \A i \in 1..Len(here) : here[i] = from + i

StreamOK(s) ==
    /\ s \in subs => sub[s].pump # "off" /\ ~sub[s].done /\ Len(Here(s)) = dispatched - sub[s].from
    /\ sub[s].pump = "off" => got[s] = <<>> /\ sub[s].queue = <<>>
    /\ sub[s].from <= dispatched
    /\ InOrder(Here(s), sub[s].from, dispatched)

Streamed == \A s \in Subs : StreamOK(s)

IInv == Types /\ Ending /\ Correlated /\ Written /\ Streamed

-----------------------------------------------------------------------------
(* Records and pipes *)

\* A record of pi is of one kind.
LEMMA OutputKinds ==
    ASSUME NEW m \in Outputs
    PROVE  /\ m.kind \in {"dialog", "overlong", "answer", "event"}
           /\ m.kind = "answer" => m.of \in Calls
           /\ m.kind = "event" => m.n \in Nat /\ m = Event(m.n)
           /\ m = Overlong => m.kind # "event"
  BY DEF Outputs, Dialog, Overlong, Event

\* What pi writes is a record.
LEMMA OutputRecords ==
    /\ \A c \in Calls : Answer(c) \in Outputs /\ Answer(c).kind = "answer"
    /\ \A n \in Nat : Event(n) \in Outputs /\ Event(n).kind = "event" /\ Event(n).n = n
    /\ Dialog \in Outputs /\ Dialog.kind = "dialog"
    /\ Overlong \in Outputs /\ Overlong.kind = "overlong"
  BY DEF Outputs, Answer, Event, Dialog, Overlong

\* The record at the head of stdout is dispatched.
LEMMA TakeWritten ==
    ASSUME PipeTypes, Written, stdout # <<>>, stdout' = Tail(stdout), UNCHANGED <<emitted, pi>>,
           dispatched' = IF Head(stdout).kind = "event" THEN Head(stdout).n ELSE dispatched
    PROVE  Written' /\ (Head(stdout).kind = "event" => Head(stdout).n = dispatched + 1)
<1>1. /\ stdout \in Seq(Outputs) /\ dispatched \in Nat /\ emitted \in Nat
      /\ Head(stdout) = stdout[1] /\ Len(stdout) \in Nat \ {0}
      /\ Len(Tail(stdout)) = Len(stdout) - 1
      /\ \A i \in 1..Len(Tail(stdout)) : Tail(stdout)[i] = stdout[i + 1]
  BY DEF PipeTypes
<1>2. \A i \in 1..Len(stdout) : stdout[i] \in Outputs
  BY <1>1
<1>3. \A i \in 1..Len(stdout) : stdout[i].kind = "event" => stdout[i].n \in Nat
  BY <1>2, OutputKinds
<1>4. ASSUME stdout[1].kind = "event"
      PROVE  stdout[1].n = dispatched + 1
  <2>1. /\ stdout[1].n \in dispatched + 1 .. emitted
        /\ \A n \in dispatched + 1 .. stdout[1].n - 1 : Holds(stdout, n, 0)
    BY <1>1, <1>4 DEF Written
  <2>2. \A n : ~Holds(stdout, n, 0)
    BY DEF Holds
  <2> QED
    BY <1>1, <1>3, <1>4, <2>1, <2>2
<1>5. dispatched' \in Nat /\ dispatched <= dispatched' /\ dispatched' <= emitted
      /\ (stdout[1].kind = "event" => dispatched' = stdout[1].n)
      /\ (stdout[1].kind # "event" => dispatched' = dispatched)
  <2>1. stdout[1].kind = "event" => dispatched + 1 \in dispatched + 1 .. emitted
    BY <1>1, <1>4 DEF Written
  <2>2. dispatched <= emitted
    BY DEF Written
  <2> QED
    BY <1>1, <1>4, <2>1, <2>2
<1>6. ASSUME NEW n \in Nat, n > dispatched', NEW k \in 1..Len(stdout), Holds(stdout, n, k)
      PROVE  Holds(stdout', n, k - 1)
  <2>1. PICK j \in 1..k : stdout[j] = Event(n)
    BY <1>6 DEF Holds
  <2>2. j # 1
    BY <1>5, <1>6, <2>1, OutputRecords
  <2>3. j - 1 \in 1..(k - 1) /\ stdout'[j - 1] = Event(n)
    BY <1>1, <2>1, <2>2
  <2> QED
    BY <2>3 DEF Holds
<1>7. ASSUME NEW i \in 1..Len(stdout'), stdout'[i].kind = "event"
      PROVE  /\ stdout'[i].n \in dispatched' + 1 .. emitted
             /\ \A n \in dispatched' + 1 .. stdout'[i].n - 1 : Holds(stdout', n, i - 1)
             /\ \A j \in 1 .. i - 1 : stdout'[j].kind = "event" => stdout'[j].n < stdout'[i].n
  <2>1. i + 1 \in 1..Len(stdout) /\ stdout'[i] = stdout[i + 1] /\ stdout[i + 1].kind = "event"
    BY <1>1, <1>7
  <2>2. /\ stdout[i + 1].n \in dispatched + 1 .. emitted
        /\ \A n \in dispatched + 1 .. stdout[i + 1].n - 1 : Holds(stdout, n, i)
        /\ \A j \in 1 .. i : stdout[j].kind = "event" => stdout[j].n < stdout[i + 1].n
    BY <1>1, <2>1 DEF Written
  <2>3. stdout'[i].n \in dispatched' + 1 .. emitted
    BY <1>1, <1>3, <1>5, <2>1, <2>2
  <2>4. \A n \in dispatched' + 1 .. stdout'[i].n - 1 : Holds(stdout', n, i - 1)
    <3> SUFFICES ASSUME NEW n \in dispatched' + 1 .. stdout'[i].n - 1
                 PROVE  Holds(stdout', n, i - 1)
      OBVIOUS
    <3>1. n \in Nat /\ n > dispatched' /\ Holds(stdout, n, i) /\ i \in 1..Len(stdout)
      BY <1>1, <1>3, <1>5, <2>1, <2>2
    <3> QED
      BY <1>6, <3>1
  <2>5. \A j \in 1 .. i - 1 : stdout'[j].kind = "event" => stdout'[j].n < stdout'[i].n
    BY <1>1, <2>1, <2>2
  <2> QED
    BY <2>3, <2>4, <2>5
<1>8. ASSUME pi' = "up", NEW n \in dispatched' + 1 .. emitted
      PROVE  Holds(stdout', n, Len(stdout'))
  <2>1. n \in Nat /\ n > dispatched' /\ Holds(stdout, n, Len(stdout))
    BY <1>1, <1>5, <1>8 DEF Written
  <2>2. Holds(stdout', n, Len(stdout) - 1)
    BY <1>1, <1>6, <2>1
  <2> QED
    BY <1>1, <2>2
<1> QED
  BY <1>1, <1>4, <1>5, <1>7, <1>8 DEF Written

\* pi writes a record: an event is the next one.
LEMMA AppendWritten ==
    ASSUME PipeTypes, Written, NEW m \in Outputs, stdout' = Append(stdout, m),
           UNCHANGED <<dispatched, pi>>, pi = "up",
           \/ m.kind # "event" /\ emitted' = emitted
           \/ m = Event(emitted + 1) /\ emitted' = emitted + 1
    PROVE  Written'
<1>1. /\ stdout \in Seq(Outputs) /\ dispatched \in Nat /\ emitted \in Nat /\ Len(stdout) \in Nat
      /\ Len(stdout') = Len(stdout) + 1 /\ stdout'[Len(stdout) + 1] = m
      /\ \A i \in 1..Len(stdout) : stdout'[i] = stdout[i]
  BY DEF PipeTypes
<1>2. /\ dispatched <= emitted /\ emitted <= emitted' /\ emitted' \in Nat
      /\ m.kind = "event" => m.n = emitted + 1 /\ emitted' = emitted + 1
  BY <1>1, OutputRecords DEF Written
<1>3. \A n, k : k \in 0..Len(stdout) /\ Holds(stdout, n, k) => Holds(stdout', n, k)
  BY <1>1 DEF Holds
<1>4. \A i \in 1..Len(stdout) : stdout[i].kind = "event" => stdout[i].n \in dispatched + 1 .. emitted
  BY DEF Written
<1>5. \A n \in dispatched + 1 .. emitted : Holds(stdout', n, Len(stdout))
  BY <1>1, <1>3 DEF Written
<1>6. ASSUME NEW i \in 1..Len(stdout'), stdout'[i].kind = "event"
      PROVE  /\ stdout'[i].n \in dispatched + 1 .. emitted'
             /\ \A n \in dispatched + 1 .. stdout'[i].n - 1 : Holds(stdout', n, i - 1)
             /\ \A j \in 1 .. i - 1 : stdout'[j].kind = "event" => stdout'[j].n < stdout'[i].n
  <2>1. CASE i = Len(stdout) + 1
    <3>1. stdout'[i].n = emitted + 1 /\ emitted' = emitted + 1
      BY <1>1, <1>2, <1>6, <2>1
    <3>2. \A n \in dispatched + 1 .. stdout'[i].n - 1 : Holds(stdout', n, i - 1)
      BY <1>1, <1>5, <2>1, <3>1
    <3>3. \A j \in 1 .. i - 1 : stdout'[j].kind = "event" => stdout'[j].n < stdout'[i].n
      BY <1>1, <1>4, <2>1, <3>1
    <3> QED
      BY <1>1, <1>2, <3>1, <3>2, <3>3
  <2>2. CASE i # Len(stdout) + 1
    <3>1. i \in 1..Len(stdout) /\ stdout'[i] = stdout[i] /\ i - 1 \in 0..Len(stdout)
      BY <1>1, <2>2
    <3>2. /\ stdout[i].n \in dispatched + 1 .. emitted
          /\ \A n \in dispatched + 1 .. stdout[i].n - 1 : Holds(stdout, n, i - 1)
          /\ \A j \in 1 .. i - 1 : stdout[j].kind = "event" => stdout[j].n < stdout[i].n
      BY <1>6, <3>1 DEF Written
    <3>3. \A j \in 1 .. i - 1 : stdout'[j] = stdout[j]
      BY <1>1, <3>1
    <3>4. stdout'[i].n \in dispatched + 1 .. emitted'
      BY <1>1, <1>2, <3>1, <3>2
    <3>5. \A n \in dispatched + 1 .. stdout'[i].n - 1 : Holds(stdout', n, i - 1)
      BY <1>3, <3>1, <3>2
    <3> QED
      BY <3>1, <3>2, <3>3, <3>4, <3>5
  <2> QED
    BY <2>1, <2>2
<1>7. ASSUME NEW n \in dispatched + 1 .. emitted'
      PROVE  Holds(stdout', n, Len(stdout'))
  <2>1. CASE n \in dispatched + 1 .. emitted
    BY <1>1, <1>5, <2>1 DEF Holds
  <2>2. CASE n \notin dispatched + 1 .. emitted
    <3>1. m = Event(emitted + 1) /\ n = emitted + 1
      BY <1>1, <1>2, <2>2
    <3> QED
      BY <1>1, <3>1 DEF Holds
  <2> QED
    BY <2>1, <2>2
<1> QED
  BY <1>1, <1>2, <1>6, <1>7 DEF Written

\* pi is gone, and with it the record it was writing.
LEMMA FrontWritten ==
    ASSUME PipeTypes, Written, stdout' \in {stdout, Front(stdout)}, stdout' # stdout => stdout # <<>>,
           UNCHANGED <<dispatched, emitted>>, pi' = "gone"
    PROVE  Written' /\ stdout' \in Seq(Outputs)
<1>1. /\ stdout' \in Seq(Outputs) /\ Len(stdout') <= Len(stdout)
      /\ Len(stdout') \in Nat /\ Len(stdout) \in Nat
      /\ \A i \in 1..Len(stdout') : stdout'[i] = stdout[i]
  <2>1. CASE stdout' = stdout
    BY <2>1 DEF PipeTypes
  <2>2. CASE stdout' = Front(stdout) /\ stdout # <<>>
    <3>1. stdout \in Seq(Outputs) /\ Len(stdout) \in Nat \ {0} /\ stdout' = SubSeq(stdout, 1, Len(stdout) - 1)
      BY <2>2 DEF PipeTypes, Front
    <3>2. \A i \in 1..(Len(stdout) - 1) : stdout[i] \in Outputs
      BY <3>1
    <3> QED
      BY <3>1, <3>2
  <2> QED
    BY <2>1, <2>2
<1>2. \A n : \A i \in 1..Len(stdout') : Holds(stdout, n, i - 1) => Holds(stdout', n, i - 1)
  BY <1>1 DEF Holds
<1> QED
  BY <1>1, <1>2 DEF Written

-----------------------------------------------------------------------------
(* The way of an event through a subscription *)

\* The pump takes the event at the head of the queue in its hand.
LEMMA HandOver ==
    ASSUME NEW g \in Seq(Nat), NEW q \in Seq(Nat), q # <<>>
    PROVE  /\ g \o <<>> \o q = g \o <<Head(q)>> \o Tail(q)
           /\ Head(q) \in Nat /\ Tail(q) \in Seq(Nat)
<1>1. /\ Head(q) \in Nat /\ Tail(q) \in Seq(Nat) /\ <<Head(q)>> \in Seq(Nat)
      /\ g \o <<>> = g
  OBVIOUS
<1>2. <<Head(q)>> \o Tail(q) = q
  <2>1. Len(<<Head(q)>> \o Tail(q)) = Len(q)
    BY <1>1
  <2>2. \A i \in 1..Len(q) : (<<Head(q)>> \o Tail(q))[i] = q[i]
    BY <1>1
  <2> QED
    BY <1>1, <2>1, <2>2, SeqEqual
<1>3. g \o <<Head(q)>> \o Tail(q) = g \o (<<Head(q)>> \o Tail(q))
  BY <1>1, ConcatAssociative
<1> QED
  BY <1>1, <1>2, <1>3

\* The consumer takes the event from the pump's hand.
LEMMA TakeOver ==
    ASSUME NEW g \in Seq(Nat), NEW q \in Seq(Nat), NEW e \in Nat
    PROVE  Append(g, e) \o <<>> \o q = g \o <<e>> \o q
<1>1. Append(g, e) \in Seq(Nat) /\ <<>> \in Seq(Nat) /\ Append(g, e) = g \o <<e>>
  BY AppendIsConcat
<1>2. Append(g, e) \o <<>> = Append(g, e)
  BY <1>1, ConcatEmptySeq
<1> QED
  BY <1>1, <1>2

\* An event is queued behind the others.
LEMMA QueueBehind ==
    ASSUME NEW h \in Seq(Nat), NEW q \in Seq(Nat), NEW e \in Nat
    PROVE  h \o Append(q, e) = Append(h \o q, e)
<1>1. h \o q \in Seq(Nat) /\ <<e>> \in Seq(Nat)
  OBVIOUS
<1>2. Append(q, e) = q \o <<e>>
  BY AppendIsConcat
<1>3. Append(h \o q, e) = (h \o q) \o <<e>>
  BY <1>1, AppendIsConcat
<1>4. (h \o q) \o <<e>> = h \o (q \o <<e>>)
  BY <1>1, ConcatAssociative
<1> QED
  BY <1>2, <1>3, <1>4

\* What was received stays in order when the rest is discarded.
LEMMA ReceivedInOrder ==
    ASSUME NEW g \in Seq(Nat), NEW h \in Seq(Nat), NEW q \in Seq(Nat),
           NEW from \in Nat, NEW last \in Nat, InOrder(g \o h \o q, from, last)
    PROVE  InOrder(g \o <<>> \o <<>>, from, last)
<1>1. g \o <<>> \o <<>> = g /\ Len(g \o h \o q) >= Len(g)
      /\ Len(g) \in Nat /\ Len(g \o h \o q) \in Nat
  OBVIOUS
<1>2. \A i \in 1..Len(g) : (g \o h \o q)[i] = g[i] /\ i \in 1..Len(g \o h \o q)
  OBVIOUS
<1> QED
  BY <1>1, <1>2 DEF InOrder

\* One more event, the next one.
LEMMA NextInOrder ==
    ASSUME NEW h \in Seq(Nat), NEW from \in Nat, NEW last \in Nat,
           InOrder(h, from, last), Len(h) = last - from
    PROVE  InOrder(Append(h, last + 1), from, last + 1)
           /\ Len(Append(h, last + 1)) = last + 1 - from
<1>1. /\ Len(Append(h, last + 1)) = Len(h) + 1 /\ Len(h) \in Nat
      /\ \A i \in 1..Len(h) : Append(h, last + 1)[i] = h[i]
      /\ Append(h, last + 1)[Len(h) + 1] = last + 1
  OBVIOUS
<1>2. ASSUME NEW i \in 1..(Len(h) + 1)
      PROVE  Append(h, last + 1)[i] = from + i
  <2>1. CASE i = Len(h) + 1
    BY <1>1, <2>1
  <2>2. CASE i # Len(h) + 1
    BY <1>1, <2>2 DEF InOrder
  <2> QED
    BY <2>1, <2>2
<1> QED
  BY <1>1, <1>2 DEF InOrder

\* A subscription that nobody touched.
LEMMA StreamKept ==
    ASSUME NEW s \in Subs, StreamOK(s), UNCHANGED <<sub[s], got[s], dispatched>>,
           s \in subs' => s \in subs
    PROVE  StreamOK(s)'
<1>1. Here(s)' = Here(s)
  BY Zenon DEF Here
<1> QED
  BY <1>1 DEF StreamOK, InOrder

-----------------------------------------------------------------------------
(* Types *)

LEMMA NextTypes ==
    ASSUME Types, [Next]_vars
    PROVE  Types'
<1> USE DEF callVars, readVars, subVars, piVars
<1>1. ASSUME NEW c \in Calls, Register(c) \/ CallStep(c) \/ ContextEnds(c)
      PROVE  Types'
  <2>1. CallTypes'
    BY <1>1 DEF Types, CallTypes, Register, CallStep, WriteCommand, TakeAnswer, ProcessDone,
                ContextEnds, Goto
  <2>2. stdin' \in Seq(Inputs)
    BY <1>1 DEF Types, PipeTypes, Register, CallStep, WriteCommand, TakeAnswer, ProcessDone,
                ContextEnds, Inputs, Command
  <2>3. UNCHANGED <<subVars, stdout, piVars, dispatched, exitErr>>
    BY <1>1 DEF Register, CallStep, WriteCommand, TakeAnswer, ProcessDone, ContextEnds
  <2> QED
    BY <2>1, <2>2, <2>3 DEF Types, PipeTypes, SubTypes
<1>2. ASSUME NEW c \in Calls, PiAnswers(c)
      PROVE  Types'
  BY <1>2, OutputRecords DEF Types, CallTypes, SubTypes, PipeTypes, PiAnswers, PiWrites
<1>3. CASE DispatchAnswer
  <2>1. PICK c \in Calls \cup {None}, what \in Answers : DispatchTo(c, what)
    <3>1. stdout # <<>> /\ Head(stdout) \in Outputs /\ Head(stdout).kind = "answer"
      BY <1>3 DEF DispatchAnswer, DispatchTo, Next1, Types, PipeTypes
    <3>2. Next1.of \in Calls
      BY <3>1, OutputKinds DEF Next1
    <3>3. Full(Next1.of) \in Answers /\ Undecodable \in Answers
      BY <3>2 DEF Full, Undecodable, Answers
    <3> QED
      BY <1>3, <3>2, <3>3 DEF DispatchAnswer, Waiter
  <2>2. CallTypes'
    BY <2>1 DEF Types, CallTypes, DispatchTo
  <2>3. stdout' \in Seq(Outputs) /\ UNCHANGED <<subVars, stdin, piVars, dispatched, exitErr>>
    BY <2>1 DEF DispatchTo, Types, PipeTypes
  <2> QED
    BY <2>2, <2>3 DEF Types, PipeTypes, SubTypes
<1>4. CASE DispatchEvent
  <2>1. Next1.n \in Nat /\ stdout' \in Seq(Outputs)
    <3>1. stdout # <<>> /\ Head(stdout) \in Outputs /\ Head(stdout).kind = "event" /\ stdout' = Tail(stdout)
      BY <1>4 DEF DispatchEvent, Next1, Types, PipeTypes
    <3> QED
      BY <3>1, OutputKinds DEF Next1, Types, PipeTypes
  <2>2. \A s \in Subs : Pushed(sub[s], Next1.n) \in Stream
    <3> SUFFICES ASSUME NEW s \in Subs
                 PROVE  Pushed(sub[s], Next1.n) \in Stream
      OBVIOUS
    <3>1. sub[s] \in Stream /\ sub[s].queue \in Seq(Nat)
      BY DEF Types, SubTypes, Stream
    <3>2. Append(sub[s].queue, Next1.n) \in Seq(Nat)
      BY <2>1, <3>1
    <3> QED
      BY <3>1, <3>2 DEF Pushed, Stream
  <2>3. SubTypes'
    BY <1>4, <2>2 DEF DispatchEvent, Types, SubTypes
  <2> QED
    BY <1>4, <2>1, <2>3 DEF DispatchEvent, Types, CallTypes, PipeTypes
<1>5. CASE DispatchDialog
  BY <1>5 DEF DispatchDialog, Types, CallTypes, PipeTypes, SubTypes
<1>6. CASE WriteReply
  <2>1. stdin' \in Seq(Inputs)
    BY <1>6 DEF WriteReply, Types, PipeTypes, Inputs
  <2> QED
    BY <1>6, <2>1 DEF WriteReply, Types, CallTypes, PipeTypes, SubTypes
<1>7. CASE ScanEnds \/ CloseDone \/ Stop \/ Kill \/ StopReturns
  BY <1>7 DEF ScanEnds, CloseDone, Stop, Kill, StopReturns, Types, CallTypes, PipeTypes, SubTypes
<1>8. CASE FailPending
  <2>1. CallTypes'
    BY <1>8 DEF FailPending, Types, CallTypes, Answers
  <2>2. SubTypes'
    <3>1. \A s \in Subs : [sub[s] EXCEPT !.done = TRUE] \in Stream
      BY DEF Types, SubTypes, Stream
    <3> QED
      BY <1>8, <3>1 DEF FailPending, Types, SubTypes
  <2>3. PipeTypes' /\ exitErr' \in BOOLEAN
    BY <1>8 DEF FailPending, Types, PipeTypes
  <2> QED
    BY <2>1, <2>2, <2>3 DEF Types
<1>9. ASSUME NEW s \in Subs, Subscribe(s) \/ PumpStep(s) \/ Deliver(s) \/ Cancel(s)
      PROVE  Types'
  <2>1. UNCHANGED <<callVars, stdin, stdout, piVars, dispatched, exitErr>>
    BY <1>9 DEF Subscribe, PumpStep, PumpLooks, PumpWakes, PumpEnds, Deliver, Cancel, Pump
  <2>2. /\ sub[s] \in Stream /\ got[s] \in Seq(Nat) /\ dispatched \in Nat /\ exitErr \in BOOLEAN
        /\ NoSub \in Stream
    BY DEF Types, SubTypes, PipeTypes, NoSub, Stream
  <2>3. sub[s].queue \in Seq(Nat) /\ sub[s].ev \in Nat
    BY <2>2 DEF Stream
  <2>4. subs' \subseteq Subs /\ got' \in [Subs -> Seq(Nat)]
    <3>1. Append(got[s], sub[s].ev) \in Seq(Nat)
      BY <2>2, <2>3
    <3>2. got' \in {got, [got EXCEPT ![s] = Append(@, sub[s].ev)]}
      BY <1>9 DEF Subscribe, PumpStep, PumpLooks, PumpWakes, PumpEnds, Deliver, Cancel
    <3>3. subs' \subseteq subs \cup {s}
      BY <1>9 DEF Subscribe, PumpStep, PumpLooks, PumpWakes, PumpEnds, Deliver, Cancel
    <3> QED
      BY <3>1, <3>2, <3>3 DEF Types, SubTypes
  <2>5. \E new \in Stream : sub' = [sub EXCEPT ![s] = new]
    <3>1. CASE Subscribe(s)
      <4>1. [NoSub EXCEPT !.pump = "check", !.done = exitErr, !.from = dispatched] \in Stream
        BY <2>2 DEF Stream
      <4> QED
        BY <3>1, <4>1 DEF Subscribe, Pump
    <3>2. CASE PumpLooks(s)
      <4>1. [sub[s] EXCEPT !.pump = "select"] \in Stream
        BY <2>2 DEF Stream
      <4>2. ASSUME sub[s].queue # <<>>
            PROVE  [sub[s] EXCEPT !.pump = "send", !.ev = Head(sub[s].queue), !.queue = Tail(@)]
                     \in Stream
        <5>1. Head(sub[s].queue) \in Nat /\ Tail(sub[s].queue) \in Seq(Nat)
          BY <2>3, <4>2
        <5> QED
          BY <2>2, <5>1 DEF Stream
      <4> QED
        BY <3>2, <4>1, <4>2 DEF PumpLooks, Pump
    <3>3. CASE PumpWakes(s)
      <4>1. [sub[s] EXCEPT !.signal = FALSE, !.pump = "check"] \in Stream
        BY <2>2 DEF Stream
      <4> QED
        BY <3>3, <4>1 DEF PumpWakes, Pump
    <3>4. CASE PumpEnds(s)
      <4>1. \A q \in Seq(Nat) : [sub[s] EXCEPT !.pump = "end", !.ev = 0, !.queue = q] \in Stream
        BY <2>2 DEF Stream
      <4>2. <<>> \in Seq(Nat)
        OBVIOUS
      <4> QED
        BY <3>4, <4>1, <4>2 DEF PumpEnds, Pump
    <3>5. CASE Deliver(s)
      <4>1. [sub[s] EXCEPT !.pump = "check", !.ev = 0] \in Stream
        BY <2>2 DEF Stream
      <4> QED
        BY <3>5, <4>1 DEF Deliver, Pump
    <3>6. CASE Cancel(s)
      <4>1. [sub[s] EXCEPT !.done = TRUE] \in Stream
        BY <2>2 DEF Stream
      <4> QED
        BY <3>6, <4>1 DEF Cancel
    <3> QED
      BY <1>9, <3>1, <3>2, <3>3, <3>4, <3>5, <3>6 DEF PumpStep
  <2>6. sub' \in [Subs -> Stream]
    BY <2>5 DEF Types, SubTypes
  <2> QED
    BY <2>1, <2>4, <2>6 DEF Types, CallTypes, PipeTypes, SubTypes
<1>10. CASE PiReads
  <2>1. stdin' \in Seq(Inputs) /\ (Head(stdin) # Reply => Head(stdin).of \in Calls)
    <3>1. stdin # <<>> /\ Head(stdin) \in Inputs /\ stdin' = Tail(stdin)
      BY <1>10 DEF PiReads, Types, PipeTypes
    <3> QED
      BY <3>1 DEF Inputs, Types, PipeTypes
  <2> QED
    BY <1>10, <2>1 DEF PiReads, Types, CallTypes, PipeTypes, SubTypes
<1>11. CASE PiEmits \/ PiAsks \/ PiOverflows
  <2>1. PICK m \in Outputs : PiWrites(m)
    BY <1>11, OutputRecords DEF PiEmits, PiAsks, PiOverflows, Types, PipeTypes
  <2>2. stdout' \in Seq(Outputs)
    BY <2>1 DEF PiWrites, Types, PipeTypes
  <2>3. /\ emitted' \in Nat /\ UNCHANGED <<callVars, readVars, subVars, stdin, pi, todo>>
    BY <1>11 DEF PiEmits, PiAsks, PiOverflows, PiWrites, Types, PipeTypes
  <2> QED
    BY <2>2, <2>3 DEF Types, CallTypes, PipeTypes, SubTypes
<1>12. CASE Exit
  <2>1. stdout' \in Seq(Outputs)
    <3>1. stdout' \in {stdout, Front(stdout)} /\ (stdout' # stdout => stdout # <<>>)
      BY <1>12 DEF Exit, Blocked
    <3>2. ASSUME stdout # <<>>
          PROVE  Front(stdout) \in Seq(Outputs)
      <4>1. Len(stdout) \in Nat /\ \A i \in 1..(Len(stdout) - 1) : stdout[i] \in Outputs
        BY DEF Types, PipeTypes
      <4> QED
        BY <4>1 DEF Front
    <3> QED
      BY <3>1, <3>2 DEF Types, PipeTypes
  <2> QED
    BY <1>12, <2>1 DEF Exit, Types, CallTypes, PipeTypes, SubTypes
<1>13. CASE UNCHANGED vars
  BY <1>13 DEF vars, Types, CallTypes, PipeTypes, SubTypes
<1> QED
  BY <1>1, <1>2, <1>3, <1>4, <1>5, <1>6, <1>7, <1>8, <1>9, <1>10, <1>11, <1>12, <1>13
     DEF Next, ReadStep

-----------------------------------------------------------------------------
(* The end of the process, and the calls *)

LEMMA NextEnding ==
    ASSUME Ending, [Next]_vars
    PROVE  Ending'
<1> USE DEF callVars, readVars, subVars, piVars, Ending
<1>1. ASSUME NEW c \in Calls, Register(c) \/ CallStep(c) \/ ContextEnds(c) \/ PiAnswers(c)
      PROVE  Ending'
  BY <1>1 DEF Register, CallStep, WriteCommand, TakeAnswer, ProcessDone, ContextEnds,
              PiAnswers, PiWrites
<1>2. CASE ReadStep
  BY <1>2 DEF ReadStep, DispatchAnswer, DispatchTo, DispatchEvent, DispatchDialog, WriteReply,
              ScanEnds, FailPending, CloseDone
<1>3. ASSUME NEW s \in Subs, Subscribe(s) \/ PumpStep(s) \/ Deliver(s) \/ Cancel(s)
      PROVE  Ending'
  BY <1>3 DEF Subscribe, PumpStep, PumpLooks, PumpWakes, PumpEnds, Deliver, Cancel, Pump
<1>4. CASE Stop \/ Kill \/ StopReturns \/ PiReads \/ PiEmits \/ PiAsks \/ PiOverflows \/ Exit
  BY <1>4 DEF Stop, Kill, StopReturns, PiReads, PiEmits, PiAsks, PiOverflows, PiWrites, Exit
<1>5. CASE UNCHANGED vars
  BY <1>5 DEF vars
<1> QED
  BY <1>1, <1>2, <1>3, <1>4, <1>5 DEF Next

\* The records that a call's channel holds differ.
LEMMA AnswerKinds ==
    /\ Empty # Closed /\ Empty # Undecodable /\ Closed # Undecodable
    /\ \A c : Full(c) \notin {Empty, Closed, Undecodable}
  BY DEF Empty, Closed, Undecodable, Full

LEMMA NextCorrelated ==
    ASSUME Types, Ending, Correlated, [Next]_vars
    PROVE  Correlated'
<1> USE DEF callVars, readVars, subVars, piVars
<1>0. call \in [Calls -> {"new", "write", "wait", "answered", "failed", "cancelled"}]
      /\ pending \subseteq Calls /\ answer \in [Calls -> Answers] /\ pi \in {"up", "gone"}
  BY DEF Types, CallTypes, PipeTypes
<1>1. ASSUME NEW c \in Calls, Register(c)
      PROVE  Correlated'
  BY <1>0, <1>1 DEF Register, Goto, Ending, Correlated
<1>2. ASSUME NEW c \in Calls, CallStep(c)
      PROVE  Correlated'
  <2>1. CASE WriteCommand(c)
    BY <1>0, <2>1 DEF WriteCommand, Goto, Correlated
  <2>2. CASE TakeAnswer(c)
    BY <1>0, <2>2, AnswerKinds DEF TakeAnswer, Goto, Correlated
  <2>3. CASE ProcessDone(c)
    <3>1. /\ pi = "gone" /\ exitErr /\ UNCHANGED <<pi, pending, answer, exitErr>>
          /\ call' = [call EXCEPT ![c] = "failed"]
      BY <2>3 DEF ProcessDone, Goto, Ending
    <3> QED
      BY <1>0, <3>1 DEF Correlated
  <2> QED
    BY <1>2, <2>1, <2>2, <2>3 DEF CallStep
<1>3. ASSUME NEW c \in Calls, ContextEnds(c)
      PROVE  Correlated'
  BY <1>0, <1>3 DEF ContextEnds, Goto, Correlated
<1>4. CASE DispatchAnswer
  <2> DEFINE c == Waiter(Next1.of)
  <2>1. PICK what \in {Full(Next1.of), Undecodable} : DispatchTo(c, what)
    BY <1>4 DEF DispatchAnswer
  <2>2. UNCHANGED <<call, pi, exitErr>> /\ pending' = pending \ {c}
    BY <2>1 DEF DispatchTo
  <2>3. CASE c = None
    <3>1. UNCHANGED <<answer, pending>>
      BY <1>0, <2>1, <2>2, <2>3, PipeAssumption DEF DispatchTo
    <3> QED
      BY <2>2, <3>1 DEF Correlated
  <2>4. CASE c # None
    <3>1. c \in pending /\ c = Next1.of
      BY <2>1, <2>4 DEF Waiter
    <3>2. answer' = [answer EXCEPT ![c] = what] /\ what \in {Full(c), Undecodable}
      BY <2>1, <2>4, <3>1 DEF DispatchTo
    <3> QED
      BY <1>0, <2>2, <3>1, <3>2, AnswerKinds DEF Correlated
  <2> QED
    BY <2>3, <2>4
<1>5. CASE FailPending
  BY <1>0, <1>5, AnswerKinds DEF FailPending, Correlated
<1>6. ASSUME UNCHANGED <<callVars, exitErr>>, pi' \in {pi, "gone"}
      PROVE  Correlated'
  BY <1>6 DEF Correlated
<1>7. CASE \/ DispatchEvent \/ DispatchDialog \/ WriteReply \/ ScanEnds \/ CloseDone
           \/ Stop \/ Kill \/ StopReturns
           \/ PiReads \/ PiEmits \/ PiAsks \/ PiOverflows \/ Exit
           \/ UNCHANGED vars \/ \E c \in Calls : PiAnswers(c)
  <2>1. UNCHANGED <<callVars, exitErr>> /\ pi' \in {pi, "gone"}
    BY <1>7 DEF DispatchEvent, DispatchDialog, WriteReply, ScanEnds, CloseDone, Stop, Kill,
                StopReturns, PiReads, PiEmits, PiAsks, PiOverflows, PiWrites, Exit, vars, PiAnswers
  <2> QED
    BY <1>6, <2>1
<1>8. ASSUME NEW s \in Subs, Subscribe(s) \/ PumpStep(s) \/ Deliver(s) \/ Cancel(s)
      PROVE  Correlated'
  <2>1. UNCHANGED <<callVars, exitErr>> /\ pi' \in {pi, "gone"}
    BY <1>8 DEF Subscribe, PumpStep, PumpLooks, PumpWakes, PumpEnds, Deliver, Cancel, Pump
  <2> QED
    BY <1>6, <2>1
<1> QED
  BY <1>1, <1>2, <1>3, <1>4, <1>5, <1>7, <1>8 DEF Next, ReadStep

-----------------------------------------------------------------------------
(* The events on stdout *)

LEMMA NextWritten ==
    ASSUME Types, Written, [Next]_vars
    PROVE  Written'
<1> USE DEF callVars, readVars, subVars, piVars
<1>0. PipeTypes
  BY DEF Types
<1>1. ASSUME UNCHANGED <<stdout, dispatched, emitted, pi>>
      PROVE  Written'
  BY <1>1 DEF Written, Holds
<1>2. CASE \/ WriteReply \/ ScanEnds \/ FailPending \/ CloseDone \/ Stop \/ Kill \/ StopReturns
           \/ PiReads \/ UNCHANGED vars
           \/ \E c \in Calls : Register(c) \/ CallStep(c) \/ ContextEnds(c)
           \/ \E s \in Subs : Subscribe(s) \/ PumpStep(s) \/ Deliver(s) \/ Cancel(s)
  <2>1. UNCHANGED <<stdout, dispatched, emitted, pi>>
    BY <1>2 DEF WriteReply, ScanEnds, FailPending, CloseDone, Stop, Kill, StopReturns, PiReads,
                vars, Register, CallStep, WriteCommand, TakeAnswer, ProcessDone, ContextEnds,
                Subscribe, PumpStep, PumpLooks, PumpWakes, PumpEnds, Deliver, Cancel, Pump
  <2> QED
    BY <1>1, <2>1
<1>3. CASE DispatchAnswer \/ DispatchEvent \/ DispatchDialog
  <2>1. /\ stdout # <<>> /\ stdout' = Tail(stdout) /\ UNCHANGED <<emitted, pi>>
        /\ dispatched' = IF Head(stdout).kind = "event" THEN Head(stdout).n ELSE dispatched
    BY <1>3 DEF DispatchAnswer, DispatchTo, DispatchEvent, DispatchDialog, Next1
  <2> QED
    BY <1>0, <2>1, TakeWritten
<1>4. CASE PiEmits \/ PiAsks \/ PiOverflows \/ \E c \in Calls : PiAnswers(c)
  <2>1. PICK m \in Outputs :
          /\ PiWrites(m)
          /\ \/ m.kind # "event" /\ emitted' = emitted
             \/ m = Event(emitted + 1) /\ emitted' = emitted + 1
    BY <1>0, <1>4, OutputRecords DEF PiEmits, PiAsks, PiOverflows, PiAnswers, PipeTypes
  <2> QED
    BY <1>0, <2>1, AppendWritten DEF PiWrites
<1>5. CASE Exit
  <2>1. /\ stdout' \in {stdout, Front(stdout)} /\ (stdout' # stdout => stdout # <<>>)
        /\ UNCHANGED <<dispatched, emitted>> /\ pi' = "gone"
    BY <1>5 DEF Exit, Blocked
  <2> QED
    BY <1>0, <2>1, FrontWritten
<1> QED
  BY <1>2, <1>3, <1>4, <1>5 DEF Next, ReadStep

-----------------------------------------------------------------------------
(* The subscriptions *)

\* An event is pushed to the subscriptions that are open.
LEMMA DispatchStreamed ==
    ASSUME Types, Written, Streamed, DispatchEvent
    PROVE  Streamed'
<1>1. /\ dispatched' = dispatched + 1 /\ dispatched \in Nat /\ UNCHANGED <<subs, got>>
      /\ sub' = [s \in Subs |-> IF s \in subs THEN Pushed(sub[s], dispatched + 1) ELSE sub[s]]
  <2>1. /\ stdout # <<>> /\ stdout' = Tail(stdout) /\ UNCHANGED <<emitted, pi>>
        /\ Head(stdout).kind = "event" /\ dispatched' = Head(stdout).n
    BY DEF DispatchEvent, Next1, piVars
  <2>2. Head(stdout).n = dispatched + 1
    BY <2>1, TakeWritten DEF Types
  <2> QED
    BY <2>1, <2>2 DEF DispatchEvent, Next1, Types, PipeTypes
<1> SUFFICES ASSUME NEW s \in Subs
             PROVE  StreamOK(s)'
  BY DEF Streamed
<1>2. /\ StreamOK(s) /\ sub[s] \in Stream /\ sub[s].from \in Nat /\ sub[s].queue \in Seq(Nat)
      /\ got[s] \in Seq(Nat) /\ sub[s].ev \in Nat
  BY DEF Streamed, Types, SubTypes, Stream
<1>3. CASE s \notin subs
  <2>1. UNCHANGED <<sub[s], got[s]>>
    BY <1>1, <1>3
  <2>2. Here(s)' = Here(s)
    BY <2>1, Zenon DEF Here
  <2>3. InOrder(Here(s), sub[s].from, dispatched + 1)
    <3>1. Here(s) \in Seq(Nat)
      <4>1. (IF sub[s].pump = "send" THEN <<sub[s].ev>> ELSE <<>>) \in Seq(Nat)
        BY <1>2
      <4> QED
        BY <1>2, <4>1 DEF Here
    <3> QED
      BY <1>1, <1>2, <3>1 DEF StreamOK, InOrder
  <2> QED
    BY <1>1, <1>2, <1>3, <2>1, <2>2, <2>3 DEF StreamOK
<1>4. CASE s \in subs
  <2> DEFINE h == got[s] \o (IF sub[s].pump = "send" THEN <<sub[s].ev>> ELSE <<>>)
  <2>1. sub'[s] = [sub[s] EXCEPT !.queue = Append(@, dispatched + 1), !.signal = TRUE]
    BY <1>1, <1>4 DEF Pushed
  <2>2. /\ sub'[s].queue = Append(sub[s].queue, dispatched + 1)
        /\ sub'[s].pump = sub[s].pump /\ sub'[s].ev = sub[s].ev /\ sub'[s].from = sub[s].from
        /\ sub'[s].done = sub[s].done
    BY <1>2, <2>1 DEF Stream
  <2>3. h \in Seq(Nat) /\ Here(s) = h \o sub[s].queue /\ Here(s) \in Seq(Nat)
    BY <1>2 DEF Here
  <2>4. Here(s)' = h \o Append(sub[s].queue, dispatched + 1)
    BY <1>1, <2>2, Zenon DEF Here
  <2> HIDE DEF h
  <2>5. Here(s)' = Append(Here(s), dispatched + 1)
    <3>1. dispatched + 1 \in Nat
      BY <1>1
    <3>2. h \o Append(sub[s].queue, dispatched + 1) = Append(h \o sub[s].queue, dispatched + 1)
      BY <1>2, <2>3, <3>1, QueueBehind
    <3> QED
      BY <2>3, <2>4, <3>2
  <2>6. InOrder(Here(s), sub[s].from, dispatched) /\ Len(Here(s)) = dispatched - sub[s].from
    BY <1>2, <1>4 DEF StreamOK
  <2>7. /\ InOrder(Append(Here(s), dispatched + 1), sub[s].from, dispatched + 1)
        /\ Len(Append(Here(s), dispatched + 1)) = dispatched + 1 - sub[s].from
    BY <1>1, <1>2, <2>3, <2>6, NextInOrder
  <2> QED
    BY <1>1, <1>2, <1>4, <2>2, <2>5, <2>7 DEF StreamOK
<1> QED
  BY <1>3, <1>4

\* A step of one subscription, whose events stay the same.
LEMMA OneStreamed ==
    ASSUME Types, Streamed, NEW s \in Subs, NEW new \in Stream, sub' = [sub EXCEPT ![s] = new],
           StreamOK(s)', dispatched' = dispatched, \A q \in Subs : q # s => got'[q] = got[q],
           subs' \subseteq subs \cup {s}
    PROVE  Streamed'
<1>1. ASSUME NEW q \in Subs, q # s
      PROVE  StreamOK(q)'
  <2>1. UNCHANGED <<sub[q], got[q], dispatched>> /\ (q \in subs' => q \in subs)
    BY <1>1 DEF Types, SubTypes
  <2>2. StreamOK(q)
    BY DEF Streamed
  <2> QED
    BY <2>1, <2>2, StreamKept
<1> QED
  BY <1>1 DEF Streamed

LEMMA SubStreamed ==
    ASSUME Types, Streamed, NEW s \in Subs, Subscribe(s) \/ PumpStep(s) \/ Deliver(s) \/ Cancel(s)
    PROVE  Streamed'
<1> USE DEF readVars
<1>0. /\ StreamOK(s) /\ sub[s] \in Stream /\ sub[s].from \in Nat /\ sub[s].queue \in Seq(Nat)
      /\ got[s] \in Seq(Nat) /\ sub[s].ev \in Nat /\ dispatched \in Nat
      /\ sub \in [Subs -> Stream] /\ got \in [Subs -> Seq(Nat)]
  BY DEF Streamed, Types, SubTypes, PipeTypes, Stream
<1>1. ASSUME sub[s].pump # "off", NEW new \in Stream, sub' = [sub EXCEPT ![s] = new],
             new.pump # "off", new.from = sub[s].from,
             got[s] \o (IF new.pump = "send" THEN <<new.ev>> ELSE <<>>) \o new.queue = Here(s),
             new.done = sub[s].done, UNCHANGED <<dispatched, got, subs>>
      PROVE  Streamed'
  <2>1. sub'[s] = new
    BY <1>0, <1>1
  <2>2. Here(s)' = Here(s)
    BY <1>1, <2>1, Zenon DEF Here
  <2>3. StreamOK(s)'
    BY <1>0, <1>1, <2>1, <2>2 DEF StreamOK
  <2> QED
    BY <1>1, <2>3, OneStreamed
<1>2. CASE Subscribe(s)
  <2> DEFINE new == [NoSub EXCEPT !.pump = "check", !.done = exitErr, !.from = dispatched]
  <2>1. /\ sub[s].pump = "off" /\ sub' = [sub EXCEPT ![s] = new]
        /\ UNCHANGED <<dispatched, got>>
        /\ subs' = IF exitErr THEN subs ELSE subs \cup {s}
    BY <1>2 DEF Subscribe, Pump
  <2>2. /\ new.pump = "check" /\ new.done = exitErr /\ new.from = dispatched /\ new.queue = <<>>
        /\ new \in Stream
    <3>1. exitErr \in BOOLEAN /\ NoSub \in Stream
      BY DEF Types, NoSub, Stream
    <3> QED
      BY <1>0, <3>1, Zenon DEF Stream, NoSub
  <2> HIDE DEF new
  <2>3. sub'[s] = new /\ got[s] = <<>> /\ s \notin subs
    BY <1>0, <2>1 DEF StreamOK
  <2>4. Here(s)' = <<>>
    BY <2>1, <2>2, <2>3 DEF Here
  <2>5. StreamOK(s)'
    BY <1>0, <2>1, <2>2, <2>3, <2>4 DEF StreamOK, InOrder
  <2> QED
    BY <2>1, <2>2, <2>5, OneStreamed
<1>3. CASE PumpLooks(s)
  <2>1. CASE sub[s].queue = <<>>
    <3> DEFINE new == [sub[s] EXCEPT !.pump = "select"]
    <3>1. sub[s].pump = "check" /\ sub' = [sub EXCEPT ![s] = new] /\ UNCHANGED <<dispatched, got, subs>>
      BY <1>3, <2>1 DEF PumpLooks, Pump
    <3>2. /\ new \in Stream /\ new.pump = "select" /\ new.from = sub[s].from
          /\ new.done = sub[s].done /\ new.queue = sub[s].queue
      BY <1>0 DEF Stream
    <3> HIDE DEF new
    <3>3. got[s] \o (IF new.pump = "send" THEN <<new.ev>> ELSE <<>>) \o new.queue = Here(s)
      BY <3>1, <3>2 DEF Here
    <3> QED
      BY <1>1, <3>1, <3>2, <3>3
  <2>2. CASE sub[s].queue # <<>>
    <3> DEFINE new == [sub[s] EXCEPT !.pump = "send", !.ev = Head(sub[s].queue), !.queue = Tail(@)]
    <3>1. sub[s].pump = "check" /\ sub' = [sub EXCEPT ![s] = new] /\ UNCHANGED <<dispatched, got, subs>>
      BY <1>3, <2>2 DEF PumpLooks, Pump
    <3>2. /\ Head(sub[s].queue) \in Nat /\ Tail(sub[s].queue) \in Seq(Nat)
          /\ got[s] \o <<>> \o sub[s].queue = got[s] \o <<Head(sub[s].queue)>> \o Tail(sub[s].queue)
      BY <1>0, <2>2, HandOver
    <3>3. /\ new \in Stream /\ new.pump = "send" /\ new.from = sub[s].from
          /\ new.done = sub[s].done /\ new.queue = Tail(sub[s].queue) /\ new.ev = Head(sub[s].queue)
      BY <1>0, <3>2 DEF Stream
    <3> HIDE DEF new
    <3>4. got[s] \o (IF new.pump = "send" THEN <<new.ev>> ELSE <<>>) \o new.queue = Here(s)
      BY <3>1, <3>2, <3>3 DEF Here
    <3> QED
      BY <1>1, <3>1, <3>3, <3>4
  <2> QED
    BY <2>1, <2>2
<1>4. CASE PumpWakes(s)
  <2> DEFINE new == [sub[s] EXCEPT !.signal = FALSE, !.pump = "check"]
  <2>1. sub[s].pump = "select" /\ sub' = [sub EXCEPT ![s] = new] /\ UNCHANGED <<dispatched, got, subs>>
    BY <1>4 DEF PumpWakes, Pump
  <2>2. /\ new \in Stream /\ new.pump = "check" /\ new.from = sub[s].from
        /\ new.done = sub[s].done /\ new.queue = sub[s].queue
    BY <1>0 DEF Stream
  <2> HIDE DEF new
  <2>3. got[s] \o (IF new.pump = "send" THEN <<new.ev>> ELSE <<>>) \o new.queue = Here(s)
    BY <2>1, <2>2 DEF Here
  <2> QED
    BY <1>1, <2>1, <2>2, <2>3
<1>5. CASE PumpEnds(s)
  <2> DEFINE new == [sub[s] EXCEPT !.pump = "end", !.ev = 0, !.queue = <<>>]
  <2>1. /\ sub[s].done /\ sub' = [sub EXCEPT ![s] = new] /\ UNCHANGED <<dispatched, got, subs>>
    BY <1>5 DEF PumpEnds, Pump
  <2>2. /\ new.pump = "end" /\ new.from = sub[s].from /\ new.queue = <<>>
        /\ new.done = sub[s].done /\ new \in Stream
    <3>1. \A q \in Seq(Nat) : [sub[s] EXCEPT !.pump = "end", !.ev = 0, !.queue = q] \in Stream
      BY <1>0 DEF Stream
    <3>2. <<>> \in Seq(Nat)
      OBVIOUS
    <3> QED
      BY <1>0, <3>1, <3>2 DEF Stream
  <2> HIDE DEF new
  <2>3. sub'[s] = new /\ s \notin subs'
    BY <1>0, <2>1 DEF StreamOK
  <2>4. Here(s)' = got[s] \o <<>> \o <<>>
    BY <2>1, <2>2, <2>3 DEF Here
  <2>5. InOrder(Here(s)', sub[s].from, dispatched)
    <3>1. /\ (IF sub[s].pump = "send" THEN <<sub[s].ev>> ELSE <<>>) \in Seq(Nat)
      BY <1>0
    <3>2. InOrder(got[s] \o (IF sub[s].pump = "send" THEN <<sub[s].ev>> ELSE <<>>) \o sub[s].queue,
                  sub[s].from, dispatched)
      BY <1>0 DEF StreamOK, Here
    <3>3. InOrder(got[s] \o <<>> \o <<>>, sub[s].from, dispatched)
      BY <1>0, <3>1, <3>2, ReceivedInOrder
    <3> QED
      BY <2>4, <3>3
  <2>6. StreamOK(s)'
    BY <1>0, <2>1, <2>2, <2>3, <2>5 DEF StreamOK
  <2> QED
    BY <2>1, <2>2, <2>6, OneStreamed
<1>6. CASE Deliver(s)
  <2> DEFINE new == [sub[s] EXCEPT !.pump = "check", !.ev = 0]
  <2>1. /\ sub[s].pump = "send" /\ sub' = [sub EXCEPT ![s] = new] /\ UNCHANGED <<dispatched, subs>>
        /\ got' = [got EXCEPT ![s] = Append(@, sub[s].ev)]
    BY <1>6 DEF Deliver, Pump
  <2>2. /\ new.pump = "check" /\ new.from = sub[s].from /\ new.queue = sub[s].queue
        /\ new.done = sub[s].done /\ new \in Stream
    BY <1>0 DEF Stream
  <2> HIDE DEF new
  <2>3. /\ sub'[s] = new /\ got'[s] = Append(got[s], sub[s].ev)
        /\ \A q \in Subs : q # s => got'[q] = got[q]
    BY <1>0, <2>1
  <2>4. Here(s)' = Append(got[s], sub[s].ev) \o <<>> \o sub[s].queue
    BY <2>1, <2>2, <2>3 DEF Here
  <2>5. Here(s)' = Here(s)
    <3>1. Here(s) = got[s] \o <<sub[s].ev>> \o sub[s].queue
      BY <2>1 DEF Here
    <3> QED
      BY <1>0, <2>4, <3>1, TakeOver
  <2>6. StreamOK(s)'
    BY <1>0, <2>1, <2>2, <2>3, <2>5 DEF StreamOK
  <2> QED
    BY <2>1, <2>2, <2>3, <2>6, OneStreamed
<1>7. CASE Cancel(s)
  <2> DEFINE new == [sub[s] EXCEPT !.done = TRUE]
  <2>1. /\ sub[s].pump # "off" /\ sub' = [sub EXCEPT ![s] = new] /\ UNCHANGED <<dispatched, got>>
        /\ subs' = subs \ {s}
    BY <1>7 DEF Cancel
  <2>2. /\ new.pump = sub[s].pump /\ new.from = sub[s].from /\ new.queue = sub[s].queue
        /\ new.ev = sub[s].ev /\ new \in Stream
    BY <1>0 DEF Stream
  <2> HIDE DEF new
  <2>3. sub'[s] = new /\ got'[s] = got[s]
    BY <1>0, <2>1
  <2>4. Here(s)' = Here(s)
    BY <2>2, <2>3 DEF Here
  <2>5. StreamOK(s)'
    BY <1>0, <2>1, <2>2, <2>3, <2>4 DEF StreamOK
  <2> QED
    BY <2>1, <2>2, <2>5, OneStreamed
<1> QED
  BY <1>2, <1>3, <1>4, <1>5, <1>6, <1>7 DEF PumpStep

LEMMA NextStreamed ==
    ASSUME Types, Written, Streamed, [Next]_vars
    PROVE  Streamed'
<1> USE DEF callVars, readVars, subVars, piVars
<1>1. CASE DispatchEvent
  BY <1>1, DispatchStreamed
<1>2. ASSUME NEW s \in Subs, Subscribe(s) \/ PumpStep(s) \/ Deliver(s) \/ Cancel(s)
      PROVE  Streamed'
  BY <1>2, SubStreamed
<1>3. CASE FailPending
  <2> SUFFICES ASSUME NEW s \in Subs
               PROVE  StreamOK(s)'
    BY DEF Streamed
  <2>1. /\ StreamOK(s) /\ sub[s] \in Stream /\ UNCHANGED <<got, dispatched>> /\ subs' = {}
        /\ sub'[s] \in {sub[s], [sub[s] EXCEPT !.done = TRUE]}
    BY <1>3 DEF FailPending, Streamed, Types, SubTypes
  <2>2. /\ sub'[s].pump = sub[s].pump /\ sub'[s].from = sub[s].from
        /\ sub'[s].queue = sub[s].queue /\ sub'[s].ev = sub[s].ev
    BY <2>1 DEF Stream
  <2>3. Here(s)' = Here(s)
    BY <2>1, <2>2, Zenon DEF Here
  <2> QED
    BY <2>1, <2>2, <2>3 DEF StreamOK
<1>4. ASSUME UNCHANGED <<subVars, dispatched>>
      PROVE  Streamed'
  <2> SUFFICES ASSUME NEW s \in Subs
               PROVE  StreamOK(s)'
    BY DEF Streamed
  <2> QED
    BY <1>4, StreamKept DEF Streamed
<1>5. CASE \/ DispatchAnswer \/ DispatchDialog \/ WriteReply \/ ScanEnds \/ CloseDone
           \/ Stop \/ Kill \/ StopReturns
           \/ PiReads \/ PiEmits \/ PiAsks \/ PiOverflows \/ Exit \/ UNCHANGED vars
           \/ \E c \in Calls : Register(c) \/ CallStep(c) \/ ContextEnds(c) \/ PiAnswers(c)
  <2>1. UNCHANGED <<subVars, dispatched>>
    BY <1>5 DEF DispatchAnswer, DispatchTo, DispatchDialog, WriteReply, ScanEnds, CloseDone,
                Stop, Kill, StopReturns, PiReads, PiEmits, PiAsks, PiOverflows, PiWrites, Exit,
                vars, Register, CallStep, WriteCommand, TakeAnswer, ProcessDone, ContextEnds,
                PiAnswers
  <2> QED
    BY <1>4, <2>1
<1> QED
  BY <1>1, <1>2, <1>3, <1>5 DEF Next, ReadStep

-----------------------------------------------------------------------------
(* The invariant and the theorems *)

LEMMA InitIInv == Init => IInv
<1> SUFFICES ASSUME Init PROVE IInv
  OBVIOUS
<1>1. Types
  <2>1. NoSub \in Stream /\ Empty \in Answers
    BY DEF NoSub, Stream, Answers
  <2>2. stdin \in Seq(Inputs) /\ stdout \in Seq(Outputs) /\ got \in [Subs -> Seq(Nat)]
    BY DEF Init
  <2>3. exitErr \in BOOLEAN
    BY DEF Init
  <2> QED
    BY <2>1, <2>2, <2>3 DEF Init, Types, CallTypes, PipeTypes, SubTypes
<1>2. Ending
  BY DEF Init, Ending
<1>3. Correlated
  <2>1. pending = {} /\ \A c \in Calls : call[c] = "new" /\ answer[c] = Empty
    BY DEF Init
  <2> QED
    BY <2>1, AnswerKinds DEF Correlated
<1>4. Written
  BY DEF Init, Written
<1>5. Streamed
  <2> SUFFICES ASSUME NEW s \in Subs
               PROVE  StreamOK(s)
    BY DEF Streamed
  <2>1. sub[s] = NoSub /\ got[s] = <<>> /\ s \notin subs /\ dispatched = 0
    BY DEF Init
  <2>2. NoSub.pump = "off" /\ NoSub.queue = <<>> /\ NoSub.from = 0
    BY DEF NoSub
  <2>3. Here(s) = <<>>
    BY <2>1, <2>2 DEF Here
  <2> QED
    BY <2>1, <2>2, <2>3 DEF StreamOK, InOrder
<1> QED
  BY <1>1, <1>2, <1>3, <1>4, <1>5 DEF IInv

LEMMA NextIInv == IInv /\ [Next]_vars => IInv'
BY NextTypes, NextEnding, NextCorrelated, NextWritten, NextStreamed DEF IInv

LEMMA Invariant == Spec => []IInv
BY InitIInv, NextIInv, PTL DEF Spec

\* process.call: whatever other calls gave up, time out or fail, an answer of pi
\* reaches the call whose command it answers and no other; a call that waits can
\* still be answered; a call fails only because pi is gone or because the answer
\* to it did not decode.
THEOREM CallsAnswered == Spec => []CallsCorrelated
<1>1. IInv => CallsCorrelated
  BY DEF IInv, Correlated, CallsCorrelated
<1> QED
  BY <1>1, Invariant, PTL

\* subscription: what a consumer has received, its pump holds and is queued are
\* the events dispatched since it subscribed, each once and in the order of pi;
\* none is missing while it is open.
THEOREM EventsOrdered == Spec => []EventsInOrder
<1>1. IInv => EventsInOrder
  BY DEF IInv, Streamed, StreamOK, InOrder, Here, EventsInOrder
<1> QED
  BY <1>1, Invariant, PTL

\* What a call was answered never changes, and a call that returned neither
\* comes back to life nor is registered for an answer again: the answer to a
\* call that was given up is dropped.
OutcomesStay ==
    \A c \in Calls :
        /\ answer[c] # Empty => answer'[c] = answer[c]
        /\ call[c] \in {"answered", "failed", "cancelled"} =>
             call'[c] = call[c] /\ c \notin pending' /\ answer'[c] = answer[c]

\* The outcome of a call (process.call) is final: no step of the process changes
\* what a call was answered, revives one that returned, or registers it again.
THEOREM OutcomesFinal == Spec => [][OutcomesStay]_vars
<1>1. IInv /\ [Next]_vars => [OutcomesStay]_vars
  <2> SUFFICES ASSUME IInv, Next, NEW c \in Calls
               PROVE  /\ answer[c] # Empty => answer'[c] = answer[c]
                      /\ call[c] \in {"answered", "failed", "cancelled"} =>
                           call'[c] = call[c] /\ c \notin pending' /\ answer'[c] = answer[c]
    BY DEF OutcomesStay
  <2> USE DEF callVars, readVars, subVars, piVars
  <2>0. /\ call \in [Calls -> {"new", "write", "wait", "answered", "failed", "cancelled"}]
        /\ answer \in [Calls -> Answers] /\ (c \in pending => answer[c] = Empty /\ call[c] \in {"write", "wait"})
    BY DEF IInv, Types, CallTypes, Correlated
  <2>1. ASSUME NEW d \in Calls, Register(d) \/ CallStep(d) \/ ContextEnds(d)
        PROVE  /\ answer' = answer /\ (c \notin pending /\ call[c] # "new" => c \notin pending')
               /\ (call[c] \notin {"new", "write", "wait"} => call'[c] = call[c])
    BY <2>0, <2>1 DEF Register, CallStep, WriteCommand, TakeAnswer, ProcessDone, ContextEnds, Goto
  <2>2. CASE DispatchAnswer
    <3>1. PICK d, what : d = Waiter(Next1.of) /\ DispatchTo(d, what)
      BY <2>2 DEF DispatchAnswer
    <3>2. call' = call /\ pending' \subseteq pending
      BY <3>1 DEF DispatchTo
    <3>3. c \notin pending => answer'[c] = answer[c]
      BY <2>0, <3>1 DEF DispatchTo, Waiter
    <3> QED
      BY <2>0, <3>2, <3>3
  <2>3. CASE FailPending
    BY <2>0, <2>3 DEF FailPending
  <2>4. CASE \/ DispatchEvent \/ DispatchDialog \/ WriteReply \/ ScanEnds \/ CloseDone
             \/ Stop \/ Kill \/ StopReturns
             \/ PiReads \/ PiEmits \/ PiAsks \/ PiOverflows \/ Exit
             \/ (\E d \in Calls : PiAnswers(d))
             \/ (\E s \in Subs : Subscribe(s) \/ PumpStep(s) \/ Deliver(s) \/ Cancel(s))
    <3>1. call' = call /\ pending' = pending /\ answer' = answer
      BY <2>4 DEF DispatchEvent, DispatchDialog, WriteReply, ScanEnds, CloseDone, Stop, Kill,
                  StopReturns, PiReads, PiEmits, PiAsks, PiOverflows, PiWrites, Exit, PiAnswers,
                  Subscribe, PumpStep, PumpLooks, PumpWakes, PumpEnds, Deliver, Cancel, Pump
    <3>2. call[c] \in {"answered", "failed", "cancelled"} => c \notin pending
      BY <2>0
    <3> QED
      BY <3>1, <3>2
  <2>5. CASE \E d \in Calls : Register(d) \/ CallStep(d) \/ ContextEnds(d)
    BY <2>0, <2>1, <2>5
  <2> QED
    BY <2>2, <2>3, <2>4, <2>5 DEF Next, ReadStep
<1> QED
  BY <1>1, Invariant, PTL DEF Spec
=============================================================================
