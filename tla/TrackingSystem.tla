--------------------------- MODULE TrackingSystem ---------------------------
(***************************************************************************)
(* The pipeline with its two other writers: the replay of deliveries by an *)
(* operator and the deletion of a user's data.                             *)
(***************************************************************************)
EXTENDS DeliveryPipeline, AdminReplay

CONSTANTS
  Users,
  UserOf   \* [Events -> Users], the user_id of the event's payload

ASSUME UsersAssumption == UserOf \in [Events -> Users]

systemVars == <<vars, replayVars>>

SystemInit == Init /\ ReplayInit

\* deleteByUserId, run by an operator's script at any time.
DeleteUser(u) ==
  /\ DeleteByUserId({e \in Events : UserOf[e] = u})
  /\ UNCHANGED <<job, ingestVars, workerVars, replayVars>>

SystemNext ==
  \/ IngestStep /\ UNCHANGED <<workerVars, replayVars>>
  \/ WorkerNext /\ UNCHANGED <<ingestVars, replayVars>>
  \/ ReplayStep /\ UNCHANGED <<ingestVars, workerVars>>
  \/ ApiRestart /\ ReplayLost /\ UNCHANGED <<workerVars, clock>>
  \/ \E u \in Users : DeleteUser(u)

SystemSpec == SystemInit /\ [][SystemNext]_systemVars

-----------------------------------------------------------------------------
SystemTypeOK == TypeOK /\ ReplayTypeOK

\* At-least-once with replays: the destination takes a delivery once for the
\* original job, once for every replay job, once for every lost response and
\* once for every stall, never more.
EveryDuplicateExplained ==
  \A k \in Deliveries :
    accepted[k] <= unheard[k] + Cardinality(Licences(k))

\* A row, and therefore a replay of it, exists only for a delivery that once
\* had its original job: nothing the operators, the workers' late writes or a
\* deletion do lets a replay stand in for a dispatch that was lost.
ReplaysFollowTheOriginal ==
  /\ \A k \in Deliveries : Exists(row[k]) => job[OriginalJob(k)].state # "absent"
  /\ \A j \in JobIds :
       job[j].state # "absent" => job[OriginalJob(KeyOf(j))].state # "absent"

\* A replay answered with "ok" has queued every destination it names, even if
\* the process stopped or adds of other replays failed in between.
ReplayAnswerIsTrue ==
  \A o \in Operators :
    replay[o].reply = "ok" =>
      \A d \in replay[o].targets : job[ReplayJob(o, d)].state # "absent"

-----------------------------------------------------------------------------
(* The system implements the contract of SystemContract. *)

\* The events that are stored, and those deleted ones of which a call, an add
\* or a job is left.
Admitted ==
  stored \cup {k[1] : k \in adds}
         \cup {req[r].event : r \in {r \in Requests : /\ req[r].phase = "continuing"
                                                     /\ req[r].inserted}}
         \cup {j.event : j \in {j \in JobIds : job[j].state # "absent"}}

\* The slots that have loaded the event and not delivered it yet.
Carriers(k) ==
  {w \in Workers : run[w].phase = "delivering" /\ KeyOf(run[w].job) = k}

SystemPromise ==
  INSTANCE SystemContract WITH
    Budget   <- [d \in Destinations |-> Attempts[d] + MaxStalls],
    known    <- stored,
    met      <- Admitted,
    order    <- [j \in JobIds |-> StageOf(job[j].state)],
    carried  <- [k \in Deliveries |-> Cardinality(Carriers(k))],
    taken    <- accepted,
    recorded <- [k \in Deliveries |-> row[k].deliveredAt]

\* Every behaviour of the whole system is one the contract allows: replays
\* that share a moment, deletions under calls and slots at work, crashes,
\* stalls and late writes included.
KeepsSystemPromise == SystemPromise!Spec

-----------------------------------------------------------------------------
\* docs/08-security/privacy-and-gdpr.md: deletion removes the routing state
\* of the deleted events.  No delivery row outlives its event.
NoOrphanRows == \A k \in Deliveries : Exists(row[k]) => k[1] \in stored
=============================================================================
