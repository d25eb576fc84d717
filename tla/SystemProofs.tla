---------------------------- MODULE SystemProofs ----------------------------
(***************************************************************************)
(* What stays true of the pipeline when operators replay and users are     *)
(* deleted meanwhile, for any number of operators, users, events and       *)
(* restarts: the pipeline's own invariants, and what holds of replays.     *)
(***************************************************************************)
EXTENDS TrackingSystem, DeliveryPipelineProofs

Added(j) == job[j].state # "absent"

\* A step of the system, as one of the pipeline's, of the replays' or a deletion.
LEMMA SystemSteps ==
  ASSUME [SystemNext]_systemVars
  PROVE  \/ Ingest /\ (UNCHANGED replayVars \/ (ReplayLost /\ clock' = clock))
         \/ Work /\ UNCHANGED replayVars
         \/ ReplayStep /\ UNCHANGED <<ingestVars, workerVars>>
         \/ (\E u \in Users : DeleteUser(u))
         \/ UNCHANGED systemVars
BY DEF SystemNext, Ingest, Work, IngestNext, replayVars

-----------------------------------------------------------------------------
(* Types. *)

ReplayTyped(r) ==
  /\ r \in ReplayStates
  /\ r.phase \in {"updating", "queueing", "refreshing"} =>
       r.event \in Events /\ r.reply = "none"
  /\ r.phase = "unsent" => r.reply = "none"
  /\ r.phase \in {"unsent", "updating"} => r.targets = {}
  /\ r.targets # {} => r.event \in Events
  /\ r.pending \subseteq r.targets
  /\ r.phase = "refreshing" \/ r.reply = "ok" => r.pending = {}

\* A replay in its handler has its event; what it still has to queue is of what
\* it selected, and once it refreshes nothing is left to queue.
ReplayTypeInv ==
  /\ clock \in Tags
  /\ replay \in [Operators -> ReplayStates]
  /\ \A o \in Operators : ReplayTyped(replay[o])

LEMMA OneReplay ==
  ASSUME ReplayTypeInv, NEW o \in Operators, NEW r, ReplayTyped(r),
         replay' = [replay EXCEPT ![o] = r], clock' \in Tags
  PROVE  ReplayTypeInv'
BY DEF ReplayTypeInv, ReplayTyped

LEMMA TargetsTyped ==
  ASSUME NEW e, NEW named \in SUBSET Destinations
  PROVE  ReplayTargets(e, named) \in SUBSET Destinations
BY DEF ReplayTargets

LEMMA ReplayStepTyped ==
  ASSUME TypeInv, ReplayTypeInv, ReplayStep
  PROVE  ReplayTypeInv'
<1>1. PICK o \in Operators :
        \/ BeginReplay(o) \/ RefuseReplay(o) \/ SelectRows(o) \/ SelectRowsError(o)
        \/ QueuedAll(o) \/ Refresh(o)
        \/ \E d \in Destinations : QueueReplay(o, d) \/ QueueReplayError(o, d)
  BY DEF ReplayStep
<1>2. ReplayTyped(replay[o]) /\ replay[o] \in ReplayStates /\ clock \in Tags
  BY DEF ReplayTypeInv
<1>3. ASSUME NEW reply \in ReplayReplies, Answer(o, reply), clock' = clock,
             reply = "ok" => replay[o].phase = "refreshing"
      PROVE  ReplayTypeInv'
  <2> DEFINE r == [replay[o] EXCEPT !.phase = "answered", !.reply = reply]
  <2>1. replay' = [replay EXCEPT ![o] = r]
    BY <1>3 DEF Answer
  <2>2. ReplayTyped(r)
    BY <1>2, <1>3 DEF ReplayTyped, ReplayStates, ReplayPhases
  <2> QED BY <1>2, <1>3, <2>1, <2>2, OneReplay
<1>4. CASE BeginReplay(o)
  <2>1. PICK e \in stored, named \in SUBSET Destinations :
          replay' = [replay EXCEPT ![o].phase = "updating", ![o].event = e,
                                   ![o].named = named]
    BY <1>4 DEF BeginReplay
  <2> DEFINE r == [replay[o] EXCEPT !.phase = "updating", !.event = e, !.named = named]
  <2>2. replay' = [replay EXCEPT ![o] = r]
    BY <2>1
  <2>3. e \in Events
    BY DEF TypeInv, TypeOK, DatabaseTypeOK
  <2>4. ReplayTyped(r)
    BY <1>2, <1>4, <2>3 DEF BeginReplay, ReplayTyped, ReplayStates, ReplayPhases
  <2> QED BY <1>2, <1>4, <2>2, <2>4, OneReplay DEF BeginReplay
<1>5. CASE RefuseReplay(o)
  BY <1>3, <1>5 DEF RefuseReplay, ReplayReplies
<1>6. CASE SelectRows(o)
  <2> DEFINE targets == ReplayTargets(replay[o].event, replay[o].named)
  <2>1. targets \in SUBSET Destinations
    BY <1>2, TargetsTyped DEF ReplayStates
  <2>2. CASE targets = {}
    <3> DEFINE r == [replay[o] EXCEPT !.phase = "refreshing"]
    <3>1. replay' = [replay EXCEPT ![o] = r] /\ clock' = clock
      BY <1>6, <2>2 DEF SelectRows
    <3>2. ReplayTyped(r)
      BY <1>2, <1>6 DEF SelectRows, ReplayTyped, ReplayStates, ReplayPhases
    <3> QED BY <1>2, <3>1, <3>2, OneReplay
  <2>3. CASE targets # {}
    <3>1. PICK now \in Tags :
            /\ replay' = [replay EXCEPT ![o].phase = "queueing", ![o].tag = now,
                                        ![o].targets = targets, ![o].pending = targets]
            /\ clock' = now
      BY <1>6, <2>3 DEF SelectRows
    <3> HIDE DEF targets
    <3> DEFINE r == [replay[o] EXCEPT !.phase = "queueing", !.tag = now,
                                      !.targets = targets, !.pending = targets]
    <3>2. replay' = [replay EXCEPT ![o] = r]
      BY <3>1
    <3>3. ReplayTyped(r)
      BY <1>2, <1>6, <2>1 DEF SelectRows, ReplayTyped, ReplayStates, ReplayPhases
    <3> QED BY <3>1, <3>2, <3>3, OneReplay
  <2> QED BY <2>2, <2>3
<1>7. CASE SelectRowsError(o)
  BY <1>3, <1>7 DEF SelectRowsError, ReplayReplies
<1>8. CASE QueuedAll(o)
  <2> DEFINE r == [replay[o] EXCEPT !.phase = "refreshing"]
  <2>1. replay' = [replay EXCEPT ![o] = r] /\ clock' = clock
    BY <1>8 DEF QueuedAll
  <2>2. ReplayTyped(r)
    BY <1>2, <1>8 DEF QueuedAll, ReplayTyped, ReplayStates, ReplayPhases
  <2> QED BY <1>2, <2>1, <2>2, OneReplay
<1>9. CASE Refresh(o)
  <2>1. replay[o].phase = "refreshing" /\ clock' = clock
    BY <1>9 DEF Refresh
  <2>2. \E reply \in ReplayReplies : Answer(o, reply)
    BY <1>9 DEF Refresh, ReplayReplies
  <2> QED BY <1>3, <2>1, <2>2
<1>10. ASSUME NEW d \in Destinations, QueueReplay(o, d)
       PROVE  ReplayTypeInv'
  <2> DEFINE r == [replay[o] EXCEPT !.pending = @ \ {d}]
  <2>1. replay' = [replay EXCEPT ![o] = r] /\ clock' = clock
    BY <1>10 DEF QueueReplay
  <2>2. ReplayTyped(r)
    BY <1>2 DEF ReplayTyped, ReplayStates
  <2> QED BY <1>2, <2>1, <2>2, OneReplay
<1>11. ASSUME NEW d \in Destinations, QueueReplayError(o, d)
       PROVE  ReplayTypeInv'
  <2> DEFINE r == [replay[o] EXCEPT !.pending = @ \ {d}, !.phase = "answered",
                                    !.reply = "internal_error"]
  <2>1. replay' = [replay EXCEPT ![o] = r] /\ clock' = clock
    BY <1>11 DEF QueueReplayError
  <2>2. ReplayTyped(r)
    BY <1>2 DEF ReplayTyped, ReplayStates, ReplayPhases, ReplayReplies
  <2> QED BY <1>2, <2>1, <2>2, OneReplay
<1> QED BY <1>1, <1>4, <1>5, <1>6, <1>7, <1>8, <1>9, <1>10, <1>11

\* A restart of the API leaves a replay as it was, or lost, with nothing to queue.
LEMMA LostReplay ==
  ASSUME ReplayTypeInv, ReplayLost, NEW o \in Operators
  PROVE  /\ replay'[o] \in ReplayStates /\ replay'[o].pending = {}
         /\ replay'[o].phase = (IF replay[o].phase \in {"updating", "queueing", "refreshing"}
                                  THEN "lost" ELSE replay[o].phase)
         /\ replay'[o].event = replay[o].event /\ replay'[o].targets = replay[o].targets
         /\ replay'[o].tag = replay[o].tag /\ replay'[o].reply = replay[o].reply
BY DEF ReplayTypeInv, ReplayLost, ReplayStates, ReplayPhases

LEMMA LostTyped ==
  ASSUME ReplayTypeInv, ReplayLost, clock' = clock
  PROVE  ReplayTypeInv'
<1>1. \A o \in Operators : ReplayTyped(replay'[o])
  BY LostReplay DEF ReplayTypeInv, ReplayTyped
<1>2. DOMAIN replay' = Operators /\ replay' = [o \in Operators |-> replay'[o]]
  BY DEF ReplayLost
<1>3. replay' \in [Operators -> ReplayStates]
  BY <1>2, LostReplay
<1> QED BY <1>1, <1>3 DEF ReplayTypeInv, ReplayTyped

\* To the pipeline a replay only adds jobs and moves rows to 'retrying'.
LEMMA ReplayEffect ==
  ASSUME TypeInv, ReplayTypeInv, ReplayStep, UNCHANGED <<ingestVars, workerVars>>
  PROVE  /\ stored' = stored
         /\ \/ row' = row
            \/ \E e, targets : ReplayEventDeliveries(e, targets)
         /\ \/ job' = job
            \/ \E o \in Operators : \E d \in replay[o].pending :
                 ReplayJob(o, d) \in JobIds /\ Add(ReplayJob(o, d))
<1>1. PICK o \in Operators :
        \/ BeginReplay(o) \/ RefuseReplay(o) \/ SelectRows(o) \/ SelectRowsError(o)
        \/ QueuedAll(o) \/ Refresh(o)
        \/ \E d \in Destinations : QueueReplay(o, d) \/ QueueReplayError(o, d)
  BY DEF ReplayStep
<1>2. CASE SelectRows(o) \/ SelectRowsError(o)
  <2>1. \A e, targets : ReplayEventDeliveries(e, targets) => stored' = stored
    BY DEF ReplayEventDeliveries
  <2>2. (\E e, targets : ReplayEventDeliveries(e, targets)) \/ UNCHANGED dbVars
    BY <1>2 DEF SelectRows, SelectRowsError
  <2>3. job' = job
    BY <1>2 DEF SelectRows, SelectRowsError
  <2> QED BY <2>1, <2>2, <2>3 DEF dbVars
<1>3. CASE BeginReplay(o) \/ RefuseReplay(o) \/ QueuedAll(o) \/ Refresh(o)
  BY <1>3 DEF BeginReplay, RefuseReplay, QueuedAll, Refresh, dbVars
<1>4. ASSUME NEW d \in Destinations, QueueReplay(o, d)
      PROVE  /\ d \in replay[o].pending /\ ReplayJob(o, d) \in JobIds
             /\ Add(ReplayJob(o, d)) /\ UNCHANGED dbVars
  <2>1. d \in replay[o].pending /\ Add(ReplayJob(o, d)) /\ UNCHANGED dbVars
    BY <1>4 DEF QueueReplay
  <2>2. replay[o].event \in Events /\ replay[o].tag \in Tags
    BY <2>1 DEF ReplayTypeInv, ReplayTyped, ReplayStates
  <2> QED BY <2>1, <2>2 DEF ReplayJob, JobIds
<1>5. ASSUME NEW d \in Destinations, QueueReplayError(o, d)
      PROVE  UNCHANGED <<dbVars, job>>
  BY <1>5 DEF QueueReplayError
<1> QED BY <1>1, <1>2, <1>3, <1>4, <1>5 DEF dbVars

LEMMA ReplayedTyped ==
  ASSUME DatabaseTypeOK, stored' = stored, NEW e, NEW targets,
         ReplayEventDeliveries(e, targets)
  PROVE  DatabaseTypeOK'
<1>1. \A r \in Rows : Replayed(r) \in Rows
  BY DEF Rows, Replayed, Statuses
<1> QED BY <1>1 DEF DatabaseTypeOK, ReplayEventDeliveries

LEMMA PipelineTyped ==
  ASSUME TypeInv, ReplayTypeInv, [SystemNext]_systemVars
  PROVE  TypeInv'
<1> USE DEF TypeInv, TypeOK
<1>1. ASSUME UNCHANGED <<ingestVars, workerVars>>, DatabaseTypeOK', QueueTypeOK'
      PROVE  TypeInv'
  BY <1>1 DEF ingestVars, workerVars, IngestTypeOK, WorkerTypeOK, InHandler
<1>2. CASE Ingest
  BY <1>2, IngestKeepsTypes
<1>3. CASE Work
  BY <1>3, WorkKeepsTypes
<1>4. CASE ReplayStep /\ UNCHANGED <<ingestVars, workerVars>>
  <2>1. DatabaseTypeOK'
    BY <1>4, ReplayEffect, ReplayedTyped DEF DatabaseTypeOK
  <2>2. QueueTypeOK'
    BY <1>4, ReplayEffect, QueueTyped DEF QueueTypeOK
  <2> QED BY <1>1, <1>4, <2>1, <2>2
<1>5. CASE \E u \in Users : DeleteUser(u)
  <2>1. NoRow \in Rows
    BY DEF NoRow, Rows
  <2>2. DatabaseTypeOK' /\ QueueTypeOK'
    BY <1>5, <2>1 DEF DeleteUser, DeleteByUserId, DatabaseTypeOK, QueueTypeOK
  <2> QED BY <1>1, <1>5, <2>2 DEF DeleteUser
<1>6. CASE UNCHANGED systemVars
  <2>1. DatabaseTypeOK' /\ QueueTypeOK'
    BY <1>6 DEF systemVars, vars, dbVars, DatabaseTypeOK, QueueTypeOK
  <2> QED BY <1>1, <1>6, <2>1 DEF systemVars, vars
<1> QED BY <1>2, <1>3, <1>4, <1>5, <1>6, SystemSteps

LEMMA ReplaysTyped ==
  ASSUME TypeInv, ReplayTypeInv, [SystemNext]_systemVars
  PROVE  ReplayTypeInv'
<1>1. CASE UNCHANGED replayVars
  BY <1>1 DEF replayVars, ReplayTypeInv
<1> QED BY <1>1, SystemSteps, ReplayStepTyped, LostTyped
        DEF DeleteUser, systemVars

LEMMA PipelineInit == Init => TypeInv
BY TagsAssumption
   DEF Init, DatabaseInit, QueueInit, IngestInit, WorkerInit, TypeInv, TypeOK,
       DatabaseTypeOK, QueueTypeOK, IngestTypeOK, WorkerTypeOK, NoRow, Rows,
       Absent, Jobs, JobStates, Unsent, ReqStates, Phases, Replies, Zeroed,
       Idle, Runs, RunPhases, InHandler

LEMMA ReplaysInit == ReplayInit => ReplayTypeInv
BY TagsAssumption
   DEF ReplayInit, ReplayTypeInv, ReplayTyped, ReplayUnsent, ReplayStates, ReplayPhases,
       ReplayReplies

\* Every reachable state of the system is well typed.
THEOREM SystemTyped == SystemSpec => []SystemTypeOK
<1>1. TypeInv /\ ReplayTypeInv => SystemTypeOK
  BY DEF TypeInv, ReplayTypeInv, SystemTypeOK, ReplayTypeOK
<1> QED BY <1>1, PipelineInit, ReplaysInit, PipelineTyped, ReplaysTyped, PTL
        DEF SystemSpec, SystemInit

-----------------------------------------------------------------------------
(* The pipeline's invariant, in the wider system. *)

\* What the wider system does to the rows and jobs beside the pipeline.
LEMMA OthersEffect ==
  ASSUME TypeInv, ReplayTypeInv, SystemNext, ~Ingest, ~Work
  PROVE  /\ UNCHANGED workerVars
         /\ \A k \in Deliveries : row'[k] \in {row[k], Replayed(row[k]), NoRow}
         /\ \A k \in Deliveries : Exists(row'[k]) => Exists(row[k])
         /\ \A j \in JobIds :
              \/ job'[j] = job[j]
              \/ /\ ~Added(j) /\ job'[j] = [Absent EXCEPT !.state = "waiting"]
                 /\ \E o \in Operators : \E d \in replay[o].pending : j = ReplayJob(o, d)
<1>1. row \in [Deliveries -> Rows] /\ job \in [JobIds -> Jobs]
  BY DEF TypeInv, TypeOK, DatabaseTypeOK, QueueTypeOK
<1>2. ~Exists(NoRow)
  BY DEF NoRow, Exists
<1>3. ASSUME NEW e, NEW targets, ReplayEventDeliveries(e, targets)
      PROVE  \A k \in Deliveries : row'[k] = row[k] \/ row'[k] = Replayed(row[k])
  BY <1>3 DEF ReplayEventDeliveries
<1>4. CASE ReplayStep /\ UNCHANGED <<ingestVars, workerVars>>
  <2>1. \A k \in Deliveries : row'[k] = row[k] \/ row'[k] = Replayed(row[k])
    BY <1>1, <1>3, <1>4, ReplayEffect
  <2>2. \A k \in Deliveries : Exists(row'[k]) => Exists(row[k])
    <3>1. PICK o \in Operators :
            \/ BeginReplay(o) \/ RefuseReplay(o) \/ SelectRows(o) \/ SelectRowsError(o)
            \/ QueuedAll(o) \/ Refresh(o)
            \/ \E d \in Destinations : QueueReplay(o, d) \/ QueueReplayError(o, d)
      BY <1>4 DEF ReplayStep
    <3>2. ASSUME ReplayEventDeliveries(replay[o].event,
                                       ReplayTargets(replay[o].event, replay[o].named))
          PROVE  \A k \in Deliveries : Exists(row'[k]) => Exists(row[k])
      <4>1. SUFFICES ASSUME NEW k \in Deliveries, row'[k] # row[k]
                     PROVE  Exists(row[k])
        OBVIOUS
      <4>2. k[1] = replay[o].event
            /\ k[2] \in ReplayTargets(replay[o].event, replay[o].named)
        BY <3>2, <4>1 DEF ReplayEventDeliveries
      <4>3. k = <<replay[o].event, k[2]>>
        BY <4>2 DEF Deliveries
      <4> QED BY <4>2, <4>3 DEF ReplayTargets, ReplaySelects
    <3>3. CASE SelectRows(o) \/ SelectRowsError(o)
      BY <3>2, <3>3 DEF SelectRows, SelectRowsError, dbVars
    <3>4. CASE ~(SelectRows(o) \/ SelectRowsError(o))
      BY <3>1, <3>4 DEF BeginReplay, RefuseReplay, QueuedAll, Refresh, QueueReplay,
                        QueueReplayError, dbVars
    <3> QED BY <3>3, <3>4
  <2>3. \A o \in Operators : \A d \in replay[o].pending :
          Add(ReplayJob(o, d)) => \A j \in JobIds :
             \/ job'[j] = job[j]
             \/ ~Added(j) /\ job'[j] = [Absent EXCEPT !.state = "waiting"]
                /\ j = ReplayJob(o, d)
    BY <1>1 DEF Add, Added
  <2> QED BY <1>4, <2>1, <2>2, <2>3, ReplayEffect
<1>5. CASE \E u \in Users : DeleteUser(u)
  BY <1>1, <1>2, <1>5 DEF DeleteUser, DeleteByUserId
<1> QED BY <1>4, <1>5 DEF SystemNext, Ingest, Work, IngestNext

\* Neither a replay nor a deletion disturbs what the workers rely on.
LEMMA OthersKeepWorkInv ==
  ASSUME TypeInv, ReplayTypeInv, WorkInv, SystemNext, ~Ingest, ~Work
  PROVE  WorkInv'
<1>1. UNCHANGED <<run, notices, accepted, unheard, starts>>
  BY OthersEffect DEF workerVars
<1>2. \A j \in JobIds :
        job'[j] = job[j] \/ (~Added(j) /\ job'[j] = [Absent EXCEPT !.state = "waiting"])
  BY OthersEffect
<1>3. \A k \in Deliveries : row'[k] \in {row[k], Replayed(row[k]), NoRow}
  BY OthersEffect
<1>4. \A k \in Deliveries : row[k] \in Rows /\ Attempts[k[2]] \in Nat \ {0}
  BY AttemptsAssumption DEF TypeInv, TypeOK, DatabaseTypeOK, Deliveries
<1>5. \A r \in Rows : /\ Replayed(r).status = "retrying" /\ Replayed(r).deliveredAt = FALSE
                      /\ Replayed(r).attempts = r.attempts
  BY DEF Replayed, Rows
<1>6. NoRow.status = "none" /\ NoRow.deliveredAt = FALSE /\ NoRow.attempts = 0
  BY DEF NoRow
<1>7. BudgetInv'
  <2> SUFFICES ASSUME NEW j \in JobIds, ~Added(j),
                      job'[j] = [Absent EXCEPT !.state = "waiting"]
               PROVE  /\ Live(j)' => /\ job'[j].made + 1 <= Attempts[j.dest]
                                     /\ job'[j].stalls <= MaxStalls
                      /\ job'[j].state # "absent"
                      /\ starts'[j] <= job'[j].made + job'[j].stalls
                                       + (IF job'[j].state = "active" THEN 1 ELSE 0)
    BY <1>1, <1>2 DEF WorkInv, BudgetInv, Live
  <2>1. Attempts[j.dest] \in Nat \ {0}
    BY AttemptsAssumption DEF JobIds
  <2>2. starts'[j] = 0
    BY <1>1 DEF WorkInv, BudgetInv, Added
  <2> QED BY <2>1, <2>2, MaxStallsAssumption DEF Absent
<1>8. DeliveredIsTrue'
  <2>1. \A k \in Deliveries :
          row'[k].status = "delivered" \/ row'[k].deliveredAt => row'[k] = row[k]
    BY <1>3, <1>4, <1>5, <1>6
  <2> QED BY <1>1, <1>2, <2>1 DEF WorkInv, DeliveredIsTrue, Absent
<1>9. AttemptCountBounded'
  <2>1. \A k \in Deliveries : row'[k].attempts = row[k].attempts \/ row'[k].attempts = 0
    BY <1>3, <1>4, <1>5, <1>6
  <2> QED BY <1>4, <2>1 DEF WorkInv, AttemptCountBounded
<1> QED BY <1>1, <1>7, <1>8, <1>9
        DEF WorkInv, SlotsInv, NoticesInv, StartsWithinBudget

SystemInv == TypeInv /\ ReplayTypeInv /\ WorkInv

\* The pipeline's invariant of jobs, slots, listeners and rows holds with
\* replays and deletions at any moment.
THEOREM SystemInvariant == SystemSpec => []SystemInv
<1>1. SystemInit => SystemInv
  <2>1. Init => WorkInv
    <3>1. \A d \in Destinations : Attempts[d] \in Nat \ {0}
      BY AttemptsAssumption
    <3> QED
      BY <3>1, MaxStallsAssumption
         DEF Init, DatabaseInit, QueueInit, WorkerInit, WorkInv, SlotsInv, BudgetInv,
             NoticesInv, DeliveredIsTrue, StartsWithinBudget, AttemptCountBounded,
             Idle, Absent, NoRow, Live, JobIds, Deliveries
  <2> QED BY <2>1, PipelineInit, ReplaysInit DEF SystemInit, SystemInv
<1>2. SystemInv /\ [SystemNext]_systemVars => SystemInv'
  <2> SUFFICES ASSUME SystemInv, [SystemNext]_systemVars PROVE SystemInv'
    OBVIOUS
  <2>1. WorkInv /\ UNCHANGED vars => WorkInv'
    BY DEF vars, dbVars, workerVars, WorkInv, SlotsInv, BudgetInv, NoticesInv,
           DeliveredIsTrue, StartsWithinBudget, AttemptCountBounded, Live
  <2>2. WorkInv'
    BY <2>1, IngestKeepsWorkInv, WorkKeepsWorkInv, OthersKeepWorkInv
       DEF SystemInv, systemVars
  <2> QED BY <2>2, PipelineTyped, ReplaysTyped DEF SystemInv
<1> QED BY <1>1, <1>2, PTL DEF SystemSpec

\* A row that says delivered is of a delivery the destination took, replays and
\* deletions or not.
THEOREM SystemDeliversTruly == SystemSpec => []DeliveredIsTrue
<1>1. SystemInv => DeliveredIsTrue
  BY DEF SystemInv, WorkInv
<1> QED BY <1>1, SystemInvariant, PTL

\* No job, an original or a replay's, is begun beyond its attempts and stalls.
THEOREM SystemBeginsWithinBudget == SystemSpec => []StartsWithinBudget
<1>1. SystemInv => StartsWithinBudget
  BY DEF SystemInv, WorkInv
<1> QED BY <1>1, SystemInvariant, PTL

-----------------------------------------------------------------------------
(* Duplicates. *)

\* A replay adds a job at most, a deletion none, and neither delivers.
LEMMA OthersKeepTally ==
  ASSUME TypeInv, ReplayTypeInv, BudgetInv, TallyInv, SystemNext, ~Ingest, ~Work
  PROVE  TallyInv'
<1>1. UNCHANGED <<run, accepted, unheard>>
  BY OthersEffect DEF workerVars
<1>2. CASE ReplayStep /\ UNCHANGED <<ingestVars, workerVars>>
  BY <1>1, <1>2, ReplayEffect, AddKeepsTally
<1>3. CASE \E u \in Users : DeleteUser(u)
  BY <1>1, <1>3, AddKeepsTally DEF DeleteUser
<1> QED BY <1>2, <1>3 DEF SystemNext, Ingest, Work, IngestNext

\* A destination takes a delivery once for the original job, once for every
\* replay's, once for every lost response and once for every stall, and never
\* more, with any number of operators, slots, attempts and stalls.
THEOREM DuplicatesHaveReasonsStill == SystemSpec => []EveryDuplicateExplained
<1>1. SystemInit => TallyInv
  BY TallyStands DEF SystemInit
<1>2. SystemInv /\ TallyInv /\ [SystemNext]_systemVars => TallyInv'
  <2> SUFFICES ASSUME SystemInv, TallyInv, [SystemNext]_systemVars PROVE TallyInv'
    OBVIOUS
  <2>1. UNCHANGED systemVars => UNCHANGED vars
    BY DEF systemVars
  <2> QED BY <2>1, IngestKeepsTally, WorkKeepsTally, OthersKeepTally, TallyStands
          DEF SystemInv, WorkInv
<1>3. SystemInv /\ TallyInv => EveryDuplicateExplained
  BY TallyCovers DEF SystemInv, EveryDuplicateExplained
<1> QED BY <1>1, <1>2, <1>3, SystemInvariant, PTL DEF SystemSpec

-----------------------------------------------------------------------------
(* Replays and the original jobs. *)

\* Jobs stay in the queue's history.
LEMMA JobsStay ==
  ASSUME TypeInv, ReplayTypeInv, [SystemNext]_systemVars, NEW j \in JobIds, Added(j)
  PROVE  Added(j)'
<1>1. CASE Ingest
  BY <1>1, IngestAdds DEF Added
<1>2. CASE Work
  BY <1>2, WorkTouchesOneJob DEF Added
<1>3. CASE SystemNext /\ ~Ingest /\ ~Work
  BY <1>3, OthersEffect DEF Added
<1>4. CASE UNCHANGED systemVars
  BY <1>4 DEF systemVars, vars, Added
<1> QED BY <1>1, <1>2, <1>3, <1>4

\* Whoever works on a job, or reports on it, has one that was added.
WorkOfAdded ==
  /\ \A w \in Workers : run[w].phase # "idle" => Added(run[w].job)
  /\ \A n \in notices : Added(n.job)

LEMMA WorkOfAddedKept ==
  ASSUME TypeInv, WorkOfAdded, Work
  PROVE  /\ \A w \in Workers : run'[w].phase # "idle" => Added(run'[w].job)
         /\ \A n \in notices' : Added(n.job)
<1>1. run \in [Workers -> Runs] /\ \A r \in Runs, p \in RunPhases, b \in BOOLEAN :
        /\ [r EXCEPT !.phase = p].job = r.job
        /\ [r EXCEPT !.phase = p, !.retryable = b].job = r.job
  BY DEF TypeInv, TypeOK, WorkerTypeOK, Runs
<1>2. Idle.phase = "idle"
  BY DEF Idle
<1>3. ASSUME NEW w \in Workers, NEW j \in JobIds, Take(w, j)
      PROVE  /\ \A v \in Workers : run'[v].phase # "idle" => Added(run'[v].job)
             /\ notices' = notices
  <2>1. Added(j)
    BY <1>3 DEF Take, MoveToActive, Added
  <2> QED BY <1>1, <1>3, <2>1 DEF Take, WorkOfAdded
<1>4. ASSUME NEW w \in Workers, NEW j \in JobIds, GiveUpStalled(j, w)
      PROVE  run' = run /\ \A n \in notices' : Added(n.job)
  BY <1>4 DEF GiveUpStalled, StallOut, Added, WorkOfAdded
<1>5. ASSUME NEW w \in Workers, run[w].phase # "idle",
             \A v \in Workers : run'[v].job = run[v].job /\ (v # w => run'[v] = run[v])
      PROVE  \A v \in Workers : run'[v].phase # "idle" => Added(run'[v].job)
  BY <1>5 DEF WorkOfAdded
<1>6. ASSUME NEW w \in Workers, run' = [run EXCEPT ![w] = Idle]
      PROVE  \A v \in Workers : run'[v].phase # "idle" => Added(run'[v].job)
  BY <1>1, <1>2, <1>6 DEF WorkOfAdded
<1>7. ASSUME NEW w \in Workers,
             \/ LoadEvent(w) \/ DeliverAccepted(w) \/ DeliverUnheard(w)
             \/ DeliverRefused(w) \/ RecordDelivered(w)
      PROVE  /\ \A v \in Workers : run'[v].phase # "idle" => Added(run'[v].job)
             /\ notices' = notices
  <2>1. run[w].phase # "idle" /\ notices' = notices
    BY <1>7 DEF LoadEvent, DeliverAccepted, DeliverUnheard, DeliverRefused,
                RecordDelivered
  <2>2. \/ \E p \in RunPhases : run' = [run EXCEPT ![w].phase = p]
        \/ \E failure : Throw(w, failure)
    BY <1>7 DEF LoadEvent, DeliverAccepted, DeliverUnheard, DeliverRefused,
                RecordDelivered, RunPhases
  <2>3. \A v \in Workers : run'[v].job = run[v].job /\ (v # w => run'[v] = run[v])
    BY <1>1, <2>2 DEF Throw, Runs
  <2> QED BY <1>5, <2>1, <2>3
<1>8. ASSUME NEW w \in Workers, Fail(w)
      PROVE  \A n \in notices' : Added(n.job)
  BY <1>8 DEF Fail, WorkOfAdded
<1>9. ASSUME NEW w \in Workers, Complete(w) \/ Fail(w) \/ WorkerRestart(w)
      PROVE  /\ \A v \in Workers : run'[v].phase # "idle" => Added(run'[v].job)
             /\ \A n \in notices' : Added(n.job)
  BY <1>6, <1>8, <1>9 DEF Complete, Fail, WorkerRestart, WorkOfAdded
<1>10. ASSUME run' = run, notices' \subseteq notices
       PROVE  /\ \A w \in Workers : run'[w].phase # "idle" => Added(run'[w].job)
              /\ \A n \in notices' : Added(n.job)
  BY <1>10 DEF WorkOfAdded
<1>11. (\E n \in notices : RecordFailure(n)) \/ (\E j \in JobIds : LockExpires(j))
         => run' = run /\ notices' \subseteq notices
  BY DEF RecordFailure, LockExpires
<1> QED BY <1>3, <1>4, <1>7, <1>9, <1>10, <1>11 DEF Work, WorkerNext, Step, WorkOfAdded

\* A row is written only of a job that was added.
LEMMA RowsOfAdded ==
  ASSUME TypeInv, WorkOfAdded, Work, NEW k \in Deliveries
  PROVE  row'[k] = row[k] \/ \E j \in JobIds : Added(j) /\ KeyOf(j) = k
<1>1. row \in [Deliveries -> Rows] /\ run \in [Workers -> Runs] /\ notices \subseteq Notices
  BY DEF TypeInv, TypeOK, DatabaseTypeOK, WorkerTypeOK
<1>2. ASSUME NEW j \in JobIds, Added(j), NEW update, WriteDeliveryState(KeyOf(j), update)
      PROVE  row'[k] = row[k] \/ (Added(j) /\ KeyOf(j) = k)
  BY <1>1, <1>2 DEF WriteDeliveryState
<1>3. ASSUME NEW w \in Workers, RecordDelivered(w)
      PROVE  row'[k] = row[k] \/ \E j \in JobIds : Added(j) /\ KeyOf(j) = k
  <2>1. run[w].job \in JobIds /\ Added(run[w].job)
    BY <1>3 DEF RecordDelivered, TypeInv, WorkOfAdded
  <2> QED BY <1>2, <1>3, <2>1 DEF RecordDelivered, dbVars
<1>4. ASSUME NEW n \in notices, RecordFailure(n)
      PROVE  row'[k] = row[k] \/ \E j \in JobIds : Added(j) /\ KeyOf(j) = k
  <2>1. n.job \in JobIds /\ Added(n.job)
    BY <1>1 DEF Notices, WorkOfAdded
  <2> QED BY <1>2, <1>4, <2>1 DEF RecordFailure, dbVars
<1> QED BY <1>3, <1>4
        DEF Work, WorkerNext, Step, Take, LoadEvent, DeliverAccepted, DeliverUnheard,
            DeliverRefused, Complete, Fail, LockExpires, GiveUpStalled, WorkerRestart,
            dbVars

\* A destination is a replay's target because it was, or because it has a row.
LEMMA TargetsSelected ==
  ASSUME TypeInv, ReplayTypeInv, [SystemNext]_systemVars,
         NEW o \in Operators, NEW d \in replay'[o].targets
  PROVE  /\ replay'[o].event \in Events /\ d \in Destinations
         /\ \/ /\ d \in replay[o].targets
               /\ replay'[o].event = replay[o].event /\ replay'[o].tag = replay[o].tag
            \/ Exists(row[<<replay'[o].event, d>>])
<1>1. replay \in [Operators -> ReplayStates] /\ ReplayTyped(replay[o])
  BY DEF ReplayTypeInv
<1>2. replay'[o].event \in Events /\ d \in Destinations
  BY ReplaysTyped DEF ReplayTypeInv, ReplayTyped, ReplayStates
<1>3. CASE replay'[o] = replay[o]
  BY <1>2, <1>3
<1>4. CASE ReplayLost
  BY <1>2, <1>4, LostReplay
<1>5. ASSUME NEW p \in Operators,
             \/ RefuseReplay(p) \/ SelectRowsError(p) \/ QueuedAll(p) \/ Refresh(p)
             \/ \E q \in Destinations : QueueReplay(p, q) \/ QueueReplayError(p, q)
      PROVE  /\ replay'[o].targets = replay[o].targets
             /\ replay'[o].event = replay[o].event /\ replay'[o].tag = replay[o].tag
  <2>1. ASSUME NEW reply, Answer(p, reply)
        PROVE  /\ replay'[o].targets = replay[o].targets
               /\ replay'[o].event = replay[o].event /\ replay'[o].tag = replay[o].tag
    BY <1>1, <2>1 DEF Answer, ReplayStates
  <2>2. ASSUME NEW q \in Destinations, QueueReplay(p, q) \/ QueueReplayError(p, q)
        PROVE  /\ replay'[o].targets = replay[o].targets
               /\ replay'[o].event = replay[o].event /\ replay'[o].tag = replay[o].tag
    BY <1>1, <2>2 DEF QueueReplay, QueueReplayError, ReplayStates
  <2>3. CASE QueuedAll(p)
    BY <1>1, <2>3 DEF QueuedAll, ReplayStates
  <2>4. CASE RefuseReplay(p) \/ SelectRowsError(p) \/ Refresh(p)
    BY <2>1, <2>4 DEF RefuseReplay, SelectRowsError, Refresh
  <2> QED BY <1>5, <2>2, <2>3, <2>4
<1>6. ASSUME NEW p \in Operators, BeginReplay(p)
      PROVE  replay'[o] = replay[o]
  <2>1. replay[p].targets = {}
    BY <1>6 DEF BeginReplay, ReplayTypeInv, ReplayTyped
  <2>2. replay'[p].targets = replay[p].targets /\ (o # p => replay'[o] = replay[o])
    BY <1>1, <1>6 DEF BeginReplay, ReplayStates
  <2> QED BY <2>1, <2>2
<1>7. ASSUME NEW p \in Operators, SelectRows(p)
      PROVE  \/ replay'[o] = replay[o]
             \/ /\ replay'[o].event = replay[o].event
                /\ \/ replay'[o].targets = replay[o].targets
                      /\ replay'[o].tag = replay[o].tag
                   \/ replay'[o].targets = ReplayTargets(replay[o].event, replay[o].named)
  <2> DEFINE targets == ReplayTargets(replay[p].event, replay[p].named)
  <2>1. CASE targets = {}
    <3>1. replay' = [replay EXCEPT ![p].phase = "refreshing"]
      BY <1>7, <2>1 DEF SelectRows
    <3> QED BY <1>1, <3>1 DEF ReplayStates
  <2>2. CASE targets # {}
    <3>1. PICK now : replay' = [replay EXCEPT ![p].phase = "queueing", ![p].tag = now,
                                              ![p].targets = targets,
                                              ![p].pending = targets]
      BY <1>7, <2>2 DEF SelectRows
    <3> QED BY <1>1, <3>1 DEF ReplayStates
  <2> QED BY <2>1, <2>2
<1>8. d \in ReplayTargets(replay[o].event, replay[o].named)
        => Exists(row[<<replay[o].event, d>>])
  BY DEF ReplayTargets, ReplaySelects
<1>9. CASE ReplayStep
  BY <1>2, <1>3, <1>5, <1>6, <1>7, <1>8, <1>9 DEF ReplayStep
<1> QED BY <1>3, <1>4, <1>9, SystemSteps DEF replayVars, DeleteUser, systemVars

\* ReplaysFollowTheOriginal, of the slots, listeners and replays too.
OriginalInv ==
  /\ WorkOfAdded
  /\ ReplaysFollowTheOriginal
  /\ \A o \in Operators : \A d \in replay[o].targets :
       Added(OriginalJob(<<replay[o].event, d>>))

LEMMA OriginalOf ==
  ASSUME NEW e \in Events, NEW d \in Destinations
  PROVE  /\ <<e, d>> \in Deliveries /\ OriginalJob(<<e, d>>) \in JobIds
         /\ \A tag : KeyOf([event |-> e, dest |-> d, tag |-> tag]) = <<e, d>>
BY TagsAssumption DEF Deliveries, OriginalJob, JobIds, KeyOf

LEMMA OriginalKept ==
  ASSUME TypeInv, ReplayTypeInv, OriginalInv, [SystemNext]_systemVars
  PROVE  OriginalInv'
<1>1. \A k \in Deliveries : OriginalJob(k) \in JobIds
  BY TagsAssumption DEF Deliveries, OriginalJob, JobIds
<1>2. \A j \in JobIds : KeyOf(j) \in Deliveries
  BY KeyTyped
<1>3. \A j \in JobIds : Added(j) => Added(j)' /\ Added(OriginalJob(KeyOf(j)))'
  BY <1>1, <1>2, JobsStay DEF OriginalInv, ReplaysFollowTheOriginal, Added
<1>4. WorkOfAdded'
  <2>1. CASE Work
    <3>1. TypeInv'
      BY PipelineTyped
    <3>2. /\ \A w \in Workers : run'[w].phase # "idle" => run'[w].job \in JobIds
          /\ \A n \in notices' : n.job \in JobIds
      BY <3>1 DEF TypeInv, TypeOK, WorkerTypeOK, Notices
    <3> QED BY <1>3, <2>1, <3>2, WorkOfAddedKept DEF OriginalInv, WorkOfAdded, Added
  <2>2. CASE UNCHANGED workerVars
    <3>1. /\ \A w \in Workers : run[w].phase # "idle" => run[w].job \in JobIds
          /\ \A n \in notices : n.job \in JobIds
      BY DEF TypeInv, TypeOK, WorkerTypeOK, Notices
    <3> QED BY <1>3, <2>2, <3>1 DEF workerVars, OriginalInv, WorkOfAdded, Added
  <2> QED BY <2>1, <2>2, SystemSteps DEF Ingest, DeleteUser, systemVars, vars
<1>5. \A k \in Deliveries : Exists(row[k]) => Added(OriginalJob(k))'
  BY <1>1, JobsStay DEF OriginalInv, ReplaysFollowTheOriginal, Added
<1>6. ASSUME NEW k \in Deliveries, Exists(row'[k])
      PROVE  Added(OriginalJob(k))'
  <2>1. CASE Work
    BY <1>3, <1>5, <1>6, <2>1, RowsOfAdded DEF OriginalInv
  <2>2. CASE UNCHANGED row
    BY <1>5, <1>6, <2>2
  <2>3. CASE SystemNext /\ ~Ingest /\ ~Work
    BY <1>5, <1>6, <2>3, OthersEffect
  <2>4. Ingest => UNCHANGED row
    BY DEF Ingest, IngestNext, IngestStep, Reject, Accept, Insert, InsertIfNotExists,
           InsertError, Respond, AddLands, AddFails, ApiRestart, dbVars
  <2> QED BY <2>1, <2>2, <2>3, <2>4 DEF systemVars, vars, dbVars
<1>7. ASSUME NEW j \in JobIds, Added(j)', ~Added(j)
      PROVE  Added(OriginalJob(KeyOf(j)))'
  <2>1. CASE Ingest
    <3>1. PICK k \in adds : j = OriginalJob(k)
      BY <1>7, <2>1, IngestAdds DEF Added
    <3>2. k \in Deliveries
      BY DEF TypeInv, TypeOK, IngestTypeOK
    <3>3. OriginalJob(KeyOf(j)) = j
      BY <3>1, <3>2 DEF OriginalJob, KeyOf, Deliveries
    <3> QED BY <1>7, <3>3
  <2>2. CASE Work
    BY <1>7, <2>2, WorkAddsNothing DEF Added
  <2>3. CASE SystemNext /\ ~Ingest /\ ~Work
    <3>1. PICK o \in Operators : \E d \in replay[o].pending : j = ReplayJob(o, d)
      BY <1>7, <2>3, OthersEffect DEF Added
    <3>2. PICK d \in replay[o].pending : j = ReplayJob(o, d)
      BY <3>1
    <3>3. d \in replay[o].targets
      BY DEF ReplayTypeInv, ReplayTyped
    <3>4. KeyOf(j) = <<replay[o].event, d>>
      BY <3>2 DEF ReplayJob, KeyOf
    <3>5. KeyOf(j) \in Deliveries
      BY KeyTyped
    <3> QED BY <1>1, <3>3, <3>4, <3>5, JobsStay DEF OriginalInv
  <2>4. CASE UNCHANGED systemVars
    BY <1>7, <2>4 DEF systemVars, vars, Added
  <2> QED BY <2>1, <2>2, <2>3, <2>4
<1>8. ReplaysFollowTheOriginal'
  BY <1>3, <1>6, <1>7 DEF ReplaysFollowTheOriginal, Added
<1>9. ASSUME NEW o \in Operators, NEW d \in replay'[o].targets
      PROVE  job'[OriginalJob(<<replay'[o].event, d>>)].state # "absent"
  <2>1. \A j \in JobIds : Added(j) => job'[j].state # "absent"
    BY JobsStay DEF Added
  <2>2. <<replay'[o].event, d>> \in Deliveries
        /\ OriginalJob(<<replay'[o].event, d>>) \in JobIds
    BY TargetsSelected, OriginalOf
  <2>3. CASE d \in replay[o].targets /\ replay'[o].event = replay[o].event
    BY <2>1, <2>2, <2>3 DEF OriginalInv
  <2>4. CASE Exists(row[<<replay'[o].event, d>>])
    BY <2>1, <2>2, <2>4 DEF OriginalInv, ReplaysFollowTheOriginal, Added
  <2> QED BY <2>3, <2>4, TargetsSelected
<1> QED BY <1>4, <1>8, <1>9 DEF OriginalInv, Added, OriginalJob

\* The invariant that a replay never stands in for a lost dispatch rests on.
LEMMA OriginalsAlways == SystemSpec => []OriginalInv
<1>1. SystemInit => OriginalInv
  BY DEF SystemInit, Init, DatabaseInit, QueueInit, WorkerInit, ReplayInit, OriginalInv,
         WorkOfAdded, ReplaysFollowTheOriginal, ReplayUnsent, Exists, NoRow, Idle, Absent
<1>2. SystemInv /\ OriginalInv /\ [SystemNext]_systemVars => OriginalInv'
  BY OriginalKept DEF SystemInv
<1> QED BY <1>1, <1>2, SystemInvariant, PTL DEF SystemSpec

\* A replay never stands in for a dispatch that was lost: whatever has a row or
\* a replay's job had its original job.
THEOREM ReplaysAfterDispatch == SystemSpec => []ReplaysFollowTheOriginal
<1>1. OriginalInv => ReplaysFollowTheOriginal
  BY DEF OriginalInv
<1> QED BY <1>1, OriginalsAlways, PTL

-----------------------------------------------------------------------------
(* The replay's answer. *)

\* Until a replay is answered otherwise, what it selected is queued or pending.
Queued(o) ==
  replay[o].phase \in {"queueing", "refreshing"} \/ replay[o].reply = "ok" =>
    \A d \in replay[o].targets \ replay[o].pending : Added(ReplayJob(o, d))

LEMMA QueuedKept ==
  ASSUME TypeInv, ReplayTypeInv, NEW o \in Operators, Queued(o), [SystemNext]_systemVars
  PROVE  Queued(o)'
<1> DEFINE r == replay[o]
           rr == replay'[o]
<1>1. replay \in [Operators -> ReplayStates] /\ ReplayTyped(r)
  BY DEF ReplayTypeInv
<1>2. \A d \in r.targets : ReplayJob(o, d) \in JobIds
  BY <1>1 DEF ReplayTyped, ReplayStates, ReplayJob, JobIds
<1>3. \A d \in r.targets : Added(ReplayJob(o, d)) => job'[ReplayJob(o, d)].state # "absent"
  BY <1>2, JobsStay DEF Added
<1>4. ASSUME rr.targets = r.targets, rr.event = r.event, rr.tag = r.tag,
             rr.pending = r.pending \/ r.pending = {},
             rr.phase \in {"queueing", "refreshing"} \/ rr.reply = "ok" =>
               r.phase \in {"queueing", "refreshing"} \/ r.reply = "ok"
      PROVE  Queued(o)'
  BY <1>3, <1>4 DEF Queued, Added, ReplayJob
<1>5. CASE rr = r
  BY <1>4, <1>5
<1>6. CASE ReplayLost
  BY <1>1, <1>3, <1>6, LostReplay DEF Queued, Added, ReplayJob, ReplayTyped
<1>7. ASSUME NEW p \in Operators, p # o,
             \/ BeginReplay(p) \/ RefuseReplay(p) \/ SelectRows(p) \/ SelectRowsError(p)
             \/ QueuedAll(p) \/ Refresh(p)
             \/ \E d \in Destinations : QueueReplay(p, d) \/ QueueReplayError(p, d)
      PROVE  rr = r
  BY <1>1, <1>7 DEF BeginReplay, RefuseReplay, SelectRows, SelectRowsError, QueuedAll,
                    Refresh, QueueReplay, QueueReplayError, Answer
<1>8. ASSUME \/ BeginReplay(o) \/ RefuseReplay(o) \/ SelectRowsError(o)
             \/ \E d \in Destinations : QueueReplayError(o, d)
      PROVE  rr.phase \in {"updating", "answered"} /\ rr.reply # "ok"
  <2>1. ASSUME NEW reply, Answer(o, reply)
        PROVE  rr.phase = "answered" /\ rr.reply = reply
    BY <1>1, <2>1 DEF Answer, ReplayStates
  <2>2. CASE RefuseReplay(o) \/ SelectRowsError(o)
    BY <2>1, <2>2 DEF RefuseReplay, SelectRowsError
  <2>3. CASE BeginReplay(o)
    BY <1>1, <2>3 DEF BeginReplay, ReplayStates, ReplayTyped
  <2>4. CASE \E d \in Destinations : QueueReplayError(o, d)
    BY <1>1, <2>4 DEF QueueReplayError, ReplayStates
  <2> QED BY <1>8, <2>2, <2>3, <2>4
<1>9. CASE SelectRows(o)
  <2>1. CASE ReplayTargets(r.event, r.named) = {}
    <3>1. rr.targets = r.targets /\ r.targets = {}
      BY <1>1, <1>9, <2>1 DEF SelectRows, ReplayStates, ReplayTyped
    <3> QED BY <3>1 DEF Queued
  <2>2. CASE ReplayTargets(r.event, r.named) # {}
    <3> DEFINE targets == ReplayTargets(r.event, r.named)
    <3>1. PICK now : replay' = [replay EXCEPT ![o].phase = "queueing", ![o].tag = now,
                                              ![o].targets = targets,
                                              ![o].pending = targets]
      BY <1>9, <2>2 DEF SelectRows
    <3> HIDE DEF targets
    <3>2. rr.targets = rr.pending
      BY <1>1, <3>1 DEF ReplayStates
    <3> QED BY <3>2 DEF Queued
  <2> QED BY <2>1, <2>2
<1>10. CASE QueuedAll(o) \/ Refresh(o)
  BY <1>1, <1>4, <1>10 DEF QueuedAll, Refresh, Answer, ReplayStates
<1>11. ASSUME NEW d \in Destinations, QueueReplay(o, d)
       PROVE  Queued(o)'
  <2>1. /\ rr.pending = r.pending \ {d} /\ rr.targets = r.targets /\ rr.event = r.event
        /\ rr.tag = r.tag /\ rr.phase = r.phase /\ rr.reply = r.reply
    BY <1>1, <1>11 DEF QueueReplay, ReplayStates
  <2>2. d \in r.targets
    BY <1>1, <1>11 DEF QueueReplay, ReplayTyped
  <2>3. job'[ReplayJob(o, d)].state # "absent"
    BY <1>2, <1>11, <2>2 DEF QueueReplay, Add, Absent, TypeInv, TypeOK, QueueTypeOK, Jobs
  <2> QED BY <1>3, <2>1, <2>3 DEF Queued, Added, ReplayJob
<1>12. CASE ReplayStep
  <2>1. ASSUME rr.phase \in {"updating", "answered"} /\ rr.reply # "ok"
        PROVE  Queued(o)'
    BY <2>1 DEF Queued
  <2> QED BY <1>5, <1>7, <1>8, <1>9, <1>10, <1>11, <1>12, <2>1 DEF ReplayStep
<1> QED BY <1>5, <1>6, <1>12, SystemSteps DEF replayVars, DeleteUser, systemVars

\* A replay answered with "ok" has queued everything it selected.
THEOREM AnswersAreTrue == SystemSpec => []ReplayAnswerIsTrue
<1> DEFINE AllQueued == \A o \in Operators : Queued(o)
<1>1. SystemInit => AllQueued
  BY DEF SystemInit, ReplayInit, ReplayUnsent, Queued
<1>2. SystemInv /\ AllQueued /\ [SystemNext]_systemVars => AllQueued'
  BY QueuedKept DEF SystemInv
<1>3. SystemInv /\ AllQueued => ReplayAnswerIsTrue
  BY DEF SystemInv, ReplayTypeInv, ReplayTyped, Queued, ReplayAnswerIsTrue, Added
<1> QED BY <1>1, <1>2, <1>3, SystemInvariant, PTL DEF SystemSpec
=============================================================================
