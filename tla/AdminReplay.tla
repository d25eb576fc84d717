---------------------------- MODULE AdminReplay -----------------------------
(***************************************************************************)
(* POST /admin/events/:event_id/replay.  The handler checks that the event *)
(* exists, moves the selected delivery rows to 'retrying', queues one      *)
(* replay-tagged job for each of them, and answers with the event as it    *)
(* then is.  It runs in the process of the tracking API; unlike the        *)
(* ingestion it awaits its adds.                                           *)
(*                                                                         *)
(* The tag of the jobs is the time in milliseconds.  clock counts the      *)
(* milliseconds in which some replay took its tag, so two replays may      *)
(* share one.                                                              *)
(***************************************************************************)
EXTENDS EventDatabase, DeliveryQueue

CONSTANT Operators   \* the replay calls operators make

\* Tags are numbered: the original jobs', then the replays' in time order.
ASSUME ReplayTagsAssumption == Tags \subseteq Nat /\ Original = 0

VARIABLES replay, clock

replayVars == <<replay, clock>>

ReplayPhases ==
  {"unsent", "updating", "queueing", "refreshing", "answered", "lost"}

ReplayReplies == {"none", "ok", "not_found", "validation_error", "internal_error"}

\* NoReplayEvent is never an event of a call in progress.
CONSTANT NoReplayEvent

ReplayStates ==
  [phase : ReplayPhases, event : Events \cup {NoReplayEvent},
   named : SUBSET Destinations,      \* body.destinations, {} when absent
   targets : SUBSET Destinations,    \* the rows the update returned
   pending : SUBSET Destinations,    \* adds in flight
   tag : Tags, reply : ReplayReplies]

ReplayUnsent ==
  [phase |-> "unsent", event |-> NoReplayEvent, named |-> {}, targets |-> {},
   pending |-> {}, tag |-> Original, reply |-> "none"]

ReplayTypeOK ==
  /\ replay \in [Operators -> ReplayStates]
  /\ clock \in Tags

ReplayInit ==
  /\ replay = [o \in Operators |-> ReplayUnsent]
  /\ clock = Original

-----------------------------------------------------------------------------
Answer(o, reply) ==
  replay' = [replay EXCEPT ![o].phase = "answered", ![o].reply = reply]

\* getEventById finds the event and the body parses: an array of supported
\* destinations, or nothing.
BeginReplay(o) ==
  /\ replay[o].phase = "unsent"
  /\ \E e \in stored, named \in SUBSET Destinations :
       replay' = [replay EXCEPT ![o].phase = "updating", ![o].event = e,
                                ![o].named = named]
  /\ UNCHANGED <<clock, dbVars, job>>

\* 404, 400, or a failing query.
RefuseReplay(o) ==
  /\ replay[o].phase = "unsent"
  /\ \/ stored # Events /\ Answer(o, "not_found")
     \/ stored # {} /\ Answer(o, "validation_error")
     \/ Answer(o, "internal_error")
  /\ UNCHANGED <<clock, dbVars, job>>

\* Faulty variant: answers before the jobs are queued.
SelectRowsUnawaited(o) ==
  LET e       == replay[o].event
      targets == ReplayTargets(e, replay[o].named)
  IN /\ replay[o].phase = "updating"
     /\ ReplayEventDeliveries(e, targets)
     /\ \E now \in {clock, clock + 1} \cap (Tags \ {Original}) :
          /\ replay' = [replay EXCEPT
                          ![o].phase = "refreshing", ![o].tag = now,
                          ![o].targets = targets, ![o].pending = targets]
          /\ clock' = now
     /\ UNCHANGED job

\* The update; with something to replay, the tag is taken and the adds begin.
SelectRows(o) ==
  LET e       == replay[o].event
      targets == ReplayTargets(e, replay[o].named)
  IN /\ replay[o].phase = "updating"
     /\ ReplayEventDeliveries(e, targets)
     /\ IF targets = {}
          THEN /\ replay' = [replay EXCEPT ![o].phase = "refreshing"]
               /\ clock' = clock
          ELSE \E now \in {clock, clock + 1} \cap (Tags \ {Original}) :
                 /\ replay' = [replay EXCEPT
                                 ![o].phase = "queueing", ![o].tag = now,
                                 ![o].targets = targets,
                                 ![o].pending = targets]
                 /\ clock' = now
     /\ UNCHANGED job

\* The update rejects; it may have committed all the same.
SelectRowsError(o) ==
  /\ replay[o].phase = "updating"
  /\ \/ UNCHANGED dbVars
     \/ ReplayEventDeliveries(replay[o].event,
                              ReplayTargets(replay[o].event, replay[o].named))
  /\ Answer(o, "internal_error")
  /\ UNCHANGED <<clock, job>>

ReplayJob(o, d) == [event |-> replay[o].event, dest |-> d, tag |-> replay[o].tag]

\* An add lands.  The adds go on when the call was answered with an error.
QueueReplay(o, d) ==
  /\ d \in replay[o].pending
  /\ Add(ReplayJob(o, d))
  /\ replay' = [replay EXCEPT ![o].pending = @ \ {d}]
  /\ UNCHANGED <<clock, dbVars>>

\* An add fails: Promise.all rejects at the first one.
QueueReplayError(o, d) ==
  /\ d \in replay[o].pending
  /\ replay' = [replay EXCEPT ![o].pending = @ \ {d},
                              ![o].phase = "answered",
                              ![o].reply = "internal_error"]
  /\ UNCHANGED <<clock, dbVars, job>>

\* Every add has landed.
QueuedAll(o) ==
  /\ replay[o].phase = "queueing"
  /\ replay[o].pending = {}
  /\ replay' = [replay EXCEPT ![o].phase = "refreshing"]
  /\ UNCHANGED <<clock, dbVars, job>>

\* The event is read again for the answer: it may be gone by now, or the
\* query may fail.
Refresh(o) ==
  /\ replay[o].phase = "refreshing"
  /\ \/ Answer(o, IF replay[o].event \in stored THEN "ok" ELSE "not_found")
     \/ Answer(o, "internal_error")
  /\ UNCHANGED <<clock, dbVars, job>>

ReplayStep ==
  \E o \in Operators :
    \/ BeginReplay(o) \/ RefuseReplay(o) \/ SelectRows(o) \/ SelectRowsError(o)
    \/ QueuedAll(o) \/ Refresh(o)
    \/ \E d \in Destinations : QueueReplay(o, d) \/ QueueReplayError(o, d)

\* What a restart of the API process does to its replay calls.
ReplayLost ==
  replay' = [o \in Operators |->
    [replay[o] EXCEPT
       !.pending = {},
       !.phase = IF @ \in {"updating", "queueing", "refreshing"}
                   THEN "lost" ELSE @]]
=============================================================================
