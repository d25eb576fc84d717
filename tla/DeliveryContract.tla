-------------------------- MODULE DeliveryContract --------------------------
(***************************************************************************)
(* What the pipeline promises of each (event, destination), without        *)
(* requests, queue, workers or crashes: a delivery is owed only for a      *)
(* stored event, is concluded at most once, is concluded as delivered and  *)
(* is recorded as delivered only if the destination took it, and is handed *)
(* to the destination at most Budget times.  Something owed is concluded   *)
(* in the end.  It does not promise that a stored event is ever owed.      *)
(***************************************************************************)
EXTENDS Naturals

CONSTANTS Events, Destinations,
          Budget   \* [Destinations -> Nat]

VARIABLES known,      \* the stored events
          stage,      \* of each delivery
          taken,      \* how often the destination took it
          recorded    \* whether a delivery time is on record

vars == <<known, stage, taken, recorded>>

Deliveries == Events \X Destinations

Init ==
  /\ known = {}
  /\ stage = [k \in Deliveries |-> "none"]
  /\ taken = [k \in Deliveries |-> 0]
  /\ recorded = [k \in Deliveries |-> FALSE]

Store(e) ==
  /\ e \notin known
  /\ known' = known \cup {e}
  /\ UNCHANGED <<stage, taken, recorded>>

Owe(k) ==
  /\ k[1] \in known
  /\ stage[k] = "none"
  /\ stage' = [stage EXCEPT ![k] = "owed"]
  /\ UNCHANGED <<known, taken, recorded>>

\* A processor that lost its job may still be delivering after the
\* conclusion, so a delivery is taken at any time once it is owed.
HandOver(k) ==
  /\ stage[k] # "none"
  /\ taken[k] < Budget[k[2]]
  /\ taken' = [taken EXCEPT ![k] = @ + 1]
  /\ UNCHANGED <<known, stage, recorded>>

Record(k) ==
  /\ taken[k] > 0
  /\ ~recorded[k]
  /\ recorded' = [recorded EXCEPT ![k] = TRUE]
  /\ UNCHANGED <<known, stage, taken>>

Conclude(k) ==
  /\ stage[k] = "owed"
  /\ \/ /\ taken[k] > 0
        /\ stage' = [stage EXCEPT ![k] = "delivered"]
     \/ stage' = [stage EXCEPT ![k] = "abandoned"]
  /\ UNCHANGED <<known, taken, recorded>>

Next ==
  \/ \E e \in Events : Store(e)
  \/ \E k \in Deliveries : Owe(k) \/ HandOver(k) \/ Record(k) \/ Conclude(k)

Spec ==
  /\ Init /\ [][Next]_vars
  /\ \A k \in Deliveries : WF_vars(Conclude(k))

\* The safety part, without the conclusion of what is owed.
SafeSpec == Init /\ [][Next]_vars
=============================================================================
