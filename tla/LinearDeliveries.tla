-------------------------- MODULE LinearDeliveries --------------------------
(***************************************************************************)
(* The webhook route of the Linear integration (internal/linear/webhook.go): *)
(* which deliveries of AgentSessionEvents are handed to the runner.        *)
(*                                                                         *)
(* Time passes in steps of a unit.  Linear and the network are external:   *)
(* Linear stamps a delivery with its own clock, sends it again with a new  *)
(* stamp while it has no answer, and the network duplicates, reorders and  *)
(* delays what is sent.                                                    *)
(*                                                                         *)
(* A definition marked "Mutant" is a plausible mistake in the definition   *)
(* below it and is used by no specification.                               *)
(***************************************************************************)
EXTENDS Integers

CONSTANTS
    Deliveries,     \* events, each delivered under an id of its own
    Anonymous,      \* those without a Linear-Delivery header
    MaxSkew,        \* webhookMaxSkew
    DeliveryTTL,    \* deliveryTTL
    ResendFor,      \* how long Linear goes on sending a delivery
    MaxTime         \* bound: the clock

\* Skews are the offsets of Linear's clock; anything that Linear stamps later
\* than ResendFor after the first stamp is out of what the id is kept for.
ASSUME DeliveriesAssumption ==
    /\ Anonymous \subseteq Deliveries
    /\ {MaxSkew, DeliveryTTL, ResendFor, MaxTime} \subseteq Nat
    /\ ResendFor + 2 * MaxSkew <= DeliveryTTL

VARIABLES
    now,        \* the box's clock
    seen,       \* deliveries.seen: when an id was recorded, or NotYet
    sent,       \* the copies on the way: pairs of an event and its stamp
    firstStamp, \* external: when Linear stamped each event first, or NotYet
    handled     \* history: how often this process handed each event to the runner

deliveryVars == <<now, seen, sent, firstStamp, handled>>

NotYet == -1

-----------------------------------------------------------------------------

\* Linear sends a delivery, or sends it again.
SendDelivery(d) ==
    /\ \E stamp \in (now - MaxSkew)..(now + MaxSkew) :
         /\ stamp > 0 /\ <<d, stamp>> \notin sent
         /\ firstStamp[d] = NotYet \/ stamp \in firstStamp[d]..(firstStamp[d] + ResendFor)
         /\ sent' = sent \cup {<<d, stamp>>}
         /\ firstStamp' = [firstStamp EXCEPT ![d] = IF @ = NotYet THEN stamp ELSE @]
    /\ UNCHANGED <<now, seen, handled>>

freshTimestamp(stamp) == stamp > 0 /\ now - stamp \in -MaxSkew..MaxSkew

\* Mutant: an id is kept only as long as a stamp is fresh.
PrunedEarly == [d \in Deliveries |-> IF seen[d] # NotYet /\ now - seen[d] > MaxSkew THEN NotYet ELSE seen[d]]
\* first forgets the ids recorded longer than deliveryTTL ago ...
Pruned == [d \in Deliveries |-> IF seen[d] # NotYet /\ now - seen[d] > DeliveryTTL THEN NotYet ELSE seen[d]]

\* ... and reports whether one is new, which it records.
First(d) == Pruned[d] = NotYet

\* A signed delivery arrives, and may arrive again.
HandleWebhook(d) ==
    /\ \E stamp \in {m[2] : m \in {n \in sent : n[1] = d}} : freshTimestamp(stamp)
    /\ seen' = IF d \in Anonymous THEN seen
               ELSE IF First(d) THEN [Pruned EXCEPT ![d] = now] ELSE Pruned
    /\ handled' = IF d \in Anonymous \/ First(d) THEN [handled EXCEPT ![d] = @ + 1] ELSE handled
    /\ handled[d] <= 1      \* bound: counted up to two
    /\ UNCHANGED <<now, sent, firstStamp>>

TimePasses == now < MaxTime /\ now' = now + 1 /\ UNCHANGED <<seen, sent, firstStamp, handled>>

\* The ids live in memory.
RestartBox ==
    /\ seen' = [d \in Deliveries |-> NotYet]
    /\ handled' = [d \in Deliveries |-> 0]
    /\ UNCHANGED <<now, sent, firstStamp>>

-----------------------------------------------------------------------------

DeliveriesInit ==
    /\ now = 0 /\ sent = {}
    /\ seen = [d \in Deliveries |-> NotYet] /\ firstStamp = [d \in Deliveries |-> NotYet]
    /\ handled = [d \in Deliveries |-> 0]

DeliveriesNext ==
    \/ \E d \in Deliveries : SendDelivery(d) \/ HandleWebhook(d)
    \/ TimePasses \/ RestartBox

DeliveriesSpec == DeliveriesInit /\ [][DeliveriesNext]_deliveryVars

-----------------------------------------------------------------------------
(* Properties *)

\* deliveries: "a redelivered webhook does not start a second run": one process
\* hands an event that has an id to the runner at most once, however often it
\* arrives and whenever its copies were stamped.
DispatchedOnce == \A d \in Deliveries \ Anonymous : handled[d] <= 1
=============================================================================
