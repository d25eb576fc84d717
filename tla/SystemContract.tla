--------------------------- MODULE SystemContract ---------------------------
(***************************************************************************)
(* What the whole system promises of deliveries, replays and deletions     *)
(* included, without requests, jobs, slots, listeners or crashes.  An      *)
(* order asks for one delivery of an event to a destination: the original  *)
(* one, or a replay's.                                                     *)
(*                                                                         *)
(* An original order is placed only for an event that was stored, a replay *)
(* only after the original, each at most once.  An event leaves for a      *)
(* destination only if it was stored when it was picked up: after its      *)
(* deletion it arrives at most as often as it was then on its way.  All    *)
(* that arrives stays within a budget per order.  An order is concluded at *)
(* most once, and as delivered only if an arrival is there for it that no  *)
(* other order was concluded on.  A delivery time is on record only after  *)
(* an arrival, and goes only with the event or by a replay.                *)
(***************************************************************************)
EXTENDS Naturals, FiniteSets

CONSTANTS Events, Destinations,
          Tags, Original,  \* of the orders of a delivery
          Budget           \* [Destinations -> Nat]

VARIABLES known,      \* the stored events
          met,        \* those that were, as far as anything is left of them
          order,      \* [Orders -> stage]
          carried,    \* how often a delivery is on its way
          taken,      \* how often it arrived
          recorded    \* whether a delivery time is on record

vars == <<known, met, order, carried, taken, recorded>>

Deliveries == Events \X Destinations
Orders == [event : Events, dest : Destinations, tag : Tags]

DeliveryOf(o) == <<o.event, o.dest>>
FirstOf(o) == [o EXCEPT !.tag = Original]

OrdersOf(k, stages) == {o \in Orders : DeliveryOf(o) = k /\ order[o] \in stages}

Placed == {"owed", "delivered", "abandoned"}

Init ==
  /\ known = {} /\ met = {}
  /\ order = [o \in Orders |-> "none"]
  /\ carried = [k \in Deliveries |-> 0]
  /\ taken = [k \in Deliveries |-> 0]
  /\ recorded = [k \in Deliveries |-> FALSE]

Store(e) ==
  /\ e \notin known
  /\ known' = known \cup {e}
  /\ met' = met \cup {e}
  /\ UNCHANGED <<order, carried, taken, recorded>>

\* What is stored or was ordered is not forgotten.
Remembered == known \cup {e \in Events : \E o \in Orders : o.event = e /\ order[o] \in Placed}

\* An event that was deleted before its order was placed: the order may be lost.
Forget ==
  /\ met' \in SUBSET met
  /\ Remembered \subseteq met'
  /\ UNCHANGED <<known, order, carried, taken, recorded>>

Delete(events) ==
  /\ events \subseteq known
  /\ known' = known \ events
  /\ met' \in SUBSET met
  /\ Remembered' \subseteq met'
  /\ recorded' = [k \in Deliveries |-> recorded[k] /\ k[1] \notin events]
  /\ UNCHANGED <<order, carried, taken>>

Place(o) ==
  /\ o.event \in met
  /\ order[o] = "none"
  /\ o.tag # Original => order[FirstOf(o)] # "none"
  /\ order' = [order EXCEPT ![o] = "owed"]
  /\ UNCHANGED <<known, met, carried, taken, recorded>>

PickUp(k) ==
  /\ k[1] \in known
  /\ taken[k] + carried[k] < Budget[k[2]] * Cardinality(OrdersOf(k, Placed))
  /\ carried' = [carried EXCEPT ![k] = @ + 1]
  /\ UNCHANGED <<known, met, order, taken, recorded>>

Drop(k) ==
  /\ carried[k] > 0
  /\ carried' = [carried EXCEPT ![k] = @ - 1]
  /\ UNCHANGED <<known, met, order, taken, recorded>>

HandOver(k) ==
  /\ carried[k] > 0
  /\ carried' = [carried EXCEPT ![k] = @ - 1]
  /\ taken' = [taken EXCEPT ![k] = @ + 1]
  /\ UNCHANGED <<known, met, order, recorded>>

Record(k) ==
  /\ taken[k] > 0
  /\ recorded' = [recorded EXCEPT ![k] = TRUE]
  /\ UNCHANGED <<known, met, order, carried, taken>>

\* A replay takes the delivery times of an event's deliveries off the record.
Reopen(e, dests) ==
  /\ recorded' = [k \in Deliveries |-> recorded[k] /\ ~(k[1] = e /\ k[2] \in dests)]
  /\ UNCHANGED <<known, met, order, carried, taken>>

Conclude(o) ==
  /\ order[o] = "owed"
  /\ \/ /\ Cardinality(OrdersOf(DeliveryOf(o), {"delivered"})) < taken[DeliveryOf(o)]
        /\ order' = [order EXCEPT ![o] = "delivered"]
     \/ order' = [order EXCEPT ![o] = "abandoned"]
  /\ UNCHANGED <<known, met, carried, taken, recorded>>

Next ==
  \/ \E e \in Events : Store(e) \/ \E dests \in SUBSET Destinations : Reopen(e, dests)
  \/ Forget
  \/ \E events \in SUBSET Events : Delete(events)
  \/ \E o \in Orders : Place(o) \/ Conclude(o)
  \/ \E k \in Deliveries : PickUp(k) \/ Drop(k) \/ HandOver(k) \/ Record(k)

Spec == Init /\ [][Next]_vars
=============================================================================
