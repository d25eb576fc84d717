---------------------------- MODULE TrackIngest -----------------------------
(***************************************************************************)
(* POST /track in the tracking API: admission, validation, the idempotent  *)
(* insert, the fire-and-forget dispatch of one job per destination and the *)
(* ingestion counters.                                                     *)
(*                                                                         *)
(* A handler runs to its next await without interruption; it awaits the    *)
(* insert, and the adds to the queue are not awaited at all.  The process  *)
(* may stop between any two of these steps: its requests, its unfinished   *)
(* adds and its counters are gone, PostgreSQL and Redis keep what they     *)
(* have.                                                                   *)
(***************************************************************************)
EXTENDS EventDatabase, DeliveryQueue, FiniteSets

CONSTANTS
  Requests,   \* the calls clients make, the resending of an event included
  NoEvent

ASSUME NoEventAssumption == NoEvent \notin Events
ASSUME RequestsAssumption == IsFiniteSet(Requests)

VARIABLES
  req,       \* [Requests -> where the handler of the call is]
  adds,      \* queue.add calls in flight, as <<event, destination>>
  metrics    \* the counters of InMemoryIngestionMetrics

ingestVars == <<req, adds, metrics>>

Phases == {"unsent", "inserting", "continuing", "answered", "lost"}

Replies ==
  {"none", "ok", "duplicate", "unsupported_media_type", "validation_error",
   "unauthorized", "rate_limited", "internal_error"}

ReqStates == [phase : Phases, event : Events \cup {NoEvent},
              inserted : BOOLEAN, reply : Replies]

Counters ==
  {"requests", "success", "deduplicated", "validation_error",
   "internal_error", "auth_failed", "rate_limited"}

Unsent == [phase |-> "unsent", event |-> NoEvent, inserted |-> FALSE,
           reply |-> "none"]

Zeroed == [c \in Counters |-> 0]

IngestTypeOK ==
  /\ req \in [Requests -> ReqStates]
  /\ adds \in SUBSET Deliveries
  /\ metrics \in [Counters -> Nat]

IngestInit ==
  /\ req = [r \in Requests |-> Unsent]
  /\ adds = {}
  /\ metrics = Zeroed

-----------------------------------------------------------------------------
Counted(counters) ==
  metrics' = [c \in Counters |-> IF c \in counters THEN metrics[c] + 1
                                                   ELSE metrics[c]]

InHandler(r) == req[r].phase \in {"inserting", "continuing"}

\* Faulty variant: a refused credential answered with a reply of its own.
RejectionsUndeclared ==
  [forbidden    |-> "auth_failed",
   rate_limited |-> "rate_limited"]

\* The replies a call gets before the insert, and the counter each records:
\* the pre-handler's 401 and 429, then the handler's 415 and 400.
Rejections ==
  [unauthorized           |-> "auth_failed",
   rate_limited           |-> "rate_limited",
   unsupported_media_type |-> "validation_error",
   validation_error       |-> "validation_error"]

Reject(r) ==
  /\ req[r].phase = "unsent"
  /\ \E reply \in DOMAIN Rejections :
       /\ req' = [req EXCEPT ![r].phase = "answered", ![r].reply = reply]
       /\ Counted({"requests", Rejections[reply]})
  /\ UNCHANGED <<adds, dbVars, job>>

\* Faulty variant: dispatches before the insert.
AcceptDispatching(r) ==
  /\ req[r].phase = "unsent"
  /\ \E e \in Events :
       /\ req' = [req EXCEPT ![r].phase = "inserting", ![r].event = e]
       /\ adds' = adds \cup ({e} \X Destinations)
  /\ Counted({"requests"})
  /\ UNCHANGED <<dbVars, job>>

\* Admitted and normalized: the insert is sent.
Accept(r) ==
  /\ req[r].phase = "unsent"
  /\ \E e \in Events :
       req' = [req EXCEPT ![r].phase = "inserting", ![r].event = e]
  /\ Counted({"requests"})
  /\ UNCHANGED <<adds, dbVars, job>>

\* Faulty variant: every insert reports a new row.
InsertReportsNew(r) ==
  /\ req[r].phase = "inserting"
  /\ stored' = stored \cup {req[r].event}
  /\ req' = [req EXCEPT ![r].phase = "continuing", ![r].inserted = TRUE]
  /\ UNCHANGED <<row, adds, metrics, job>>

Insert(r) ==
  /\ req[r].phase = "inserting"
  /\ \E inserted \in BOOLEAN :
       /\ InsertIfNotExists(req[r].event, inserted)
       /\ req' = [req EXCEPT ![r].phase = "continuing",
                             ![r].inserted = inserted]
  /\ UNCHANGED <<adds, metrics, job>>

\* The insert rejects: refused by the database, or committed with its
\* acknowledgement lost.  Either way the client gets a 500 and no job is sent.
InsertError(r) ==
  /\ req[r].phase = "inserting"
  /\ \/ stored' = stored
     \/ stored' = stored \cup {req[r].event}
  /\ req' = [req EXCEPT ![r].phase = "answered", ![r].reply = "internal_error"]
  /\ Counted({"internal_error"})
  /\ UNCHANGED <<row, adds, job>>

\* Faulty variant: a duplicate is counted as such and not as a success.
RespondMiscounted(r) ==
  /\ req[r].phase = "continuing"
  /\ req' = [req EXCEPT ![r].phase = "answered", ![r].reply = "ok"]
  /\ Counted({IF req[r].inserted THEN "success" ELSE "deduplicated"})
  /\ UNCHANGED <<adds, dbVars, job>>

\* Faulty variant: a duplicate is never answered.
RespondOnlyNew(r) ==
  /\ req[r].phase = "continuing"
  /\ req[r].inserted
  /\ adds' = adds \cup ({req[r].event} \X Destinations)
  /\ req' = [req EXCEPT ![r].phase = "answered", ![r].reply = "ok"]
  /\ Counted({"success"})
  /\ UNCHANGED <<dbVars, job>>

\* After the insert: a new event is dispatched to every destination, nothing
\* waits for the adds, and the client is answered.
Respond(r) ==
  /\ req[r].phase = "continuing"
  /\ LET inserted == req[r].inserted
     IN /\ adds' = IF inserted
                     THEN adds \cup ({req[r].event} \X Destinations)
                     ELSE adds
        /\ req' = [req EXCEPT ![r].phase = "answered",
                              ![r].reply = IF inserted THEN "ok"
                                                       ELSE "duplicate"]
        /\ Counted({"success"} \cup
                   (IF inserted THEN {} ELSE {"deduplicated"}))
  /\ UNCHANGED <<dbVars, job>>

\* One add of the Promise.all reaches Redis.
AddLands(k) ==
  /\ k \in adds
  /\ Add([event |-> k[1], dest |-> k[2], tag |-> Original])
  /\ adds' = adds \ {k}
  /\ UNCHANGED <<req, metrics, dbVars>>

\* One add fails: dispatchDeliveryJob logs the error and that is all.
AddFails(k) ==
  /\ k \in adds
  /\ adds' = adds \ {k}
  /\ UNCHANGED <<req, metrics, dbVars, job>>

\* The API process stops and is started again.
ApiRestart ==
  /\ req' = [r \in Requests |->
               IF InHandler(r) THEN [req[r] EXCEPT !.phase = "lost"]
                               ELSE req[r]]
  /\ adds' = {}
  /\ metrics' = Zeroed
  /\ UNCHANGED <<dbVars, job>>

IngestStep ==
  \/ \E r \in Requests : \/ Reject(r) \/ Accept(r) \/ Insert(r)
                         \/ InsertError(r) \/ Respond(r)
  \/ \E k \in adds : AddLands(k) \/ AddFails(k)

IngestNext == IngestStep \/ ApiRestart

ingestAll == <<dbVars, job, ingestVars>>

IngestAloneInit == DatabaseInit /\ QueueInit /\ IngestInit

IngestSpec == IngestAloneInit /\ [][IngestNext]_ingestAll

\* A handler is resumed when its await settles.  Nothing is assumed of the
\* clients, nor that the process is left running.
Handle(r) == Insert(r) \/ InsertError(r) \/ Respond(r)

SettleAdd(k) == AddLands(k) \/ AddFails(k)

IngestFairSpec ==
  /\ IngestSpec
  /\ \A r \in Requests : WF_ingestAll(Handle(r))
  /\ \A k \in Deliveries : WF_ingestAll(SettleAdd(k))

-----------------------------------------------------------------------------
IngestAloneTypeOK == DatabaseTypeOK /\ QueueTypeOK /\ IngestTypeOK

\* Of all the calls that carry an event, concurrent or repeated, at most one
\* is the call that stored it, hence at most one dispatches its jobs.
AtMostOneInserter ==
  \A r, s \in Requests :
    req[r].inserted /\ req[s].inserted /\ req[r].event = req[s].event => r = s

\* What was acknowledged is kept, and a job or an add in flight is always of
\* an event that is in the database: dispatch comes after the insert, so a
\* worker never meets a job without its event.
JobsFollowTheEvent ==
  /\ \A r \in Requests :
       req[r].reply \in {"ok", "duplicate"} => req[r].event \in stored
  /\ \A k \in adds : k[1] \in stored
  /\ \A j \in JobIds : job[j].state # "absent" => j.event \in stored

\* The counters account for every request since the process started: each is
\* counted in exactly one outcome or still in its handler.
CountersBalance ==
  /\ metrics["requests"] =
       metrics["success"] + metrics["validation_error"]
       + metrics["internal_error"] + metrics["auth_failed"]
       + metrics["rate_limited"]
       + Cardinality({r \in Requests : InHandler(r)})
  /\ metrics["deduplicated"] <= metrics["success"]

\* A call that reached its handler is answered, or its process stops; and an
\* add never stays in flight.
CallsEnd ==
  /\ \A r \in Requests : InHandler(r) ~> ~InHandler(r)
  /\ \A k \in Deliveries : k \in adds ~> k \notin adds
=============================================================================
