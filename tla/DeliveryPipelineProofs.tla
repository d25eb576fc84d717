----------------------- MODULE DeliveryPipelineProofs -----------------------
(***************************************************************************)
(* Safety of DeliveryPipeline, for every number of events, destinations,   *)
(* requests and workers, every attempts policy and every stall limit.      *)
(*                                                                         *)
(* The argument goes in layers, each inductive relative to the ones before *)
(* it: the types; the ingestion (what an acknowledged or dispatched event  *)
(* implies of the table of events); the queue and the workers (what a job, *)
(* the slots that work on it, its listeners and its row know of each       *)
(* other); and two counts, of deliveries against the reasons for them and  *)
(* of calls against the counters.                                          *)
(***************************************************************************)
EXTENDS DeliveryPipeline, FiniteSetTheorems, TLAPS

\* The types need two facts more to be inductive: a call in its handler carries
\* an event, the insert's parameter, and a slot at work has a job.
TypeInv ==
  /\ TypeOK
  /\ \A r \in Requests : InHandler(r) => req[r].event \in Events
  /\ \A w \in Workers : run[w].phase # "idle" => run[w].job \in JobIds

\* The ingestion's strengthening: a handler that goes on after the insert, or
\* whose insert stored the event, has its event in the table, and no handler
\* claims an insert before it has made one.
IngestInv ==
  /\ \A r \in Requests :
       /\ req[r].phase = "continuing" \/ req[r].inserted
            => req[r].event \in stored
       /\ req[r].phase \in {"unsent", "inserting"} => ~req[r].inserted
  /\ AtMostOneInserter
  /\ JobsFollowTheEvent

\* A slot at work has a job that was added, with an attempt left to it when
\* the slot took it; after the vendor's answer the delivery is accepted.
SlotsInv ==
  \A w \in Workers :
    /\ run[w].phase # "idle" => run[w].made + 1 <= Attempts[run[w].job.dest]
    /\ run[w].phase \in {"recording", "completing"} =>
         accepted[KeyOf(run[w].job)] > 0

\* A job that may still run has an attempt left and a stall to spare, and it
\* was begun once per attempt counted, once per stall and once for the
\* attempt in progress.
BudgetInv ==
  \A j \in JobIds :
    /\ Live(j) => job[j].made + 1 <= Attempts[j.dest] /\ job[j].stalls <= MaxStalls
    /\ job[j].state = "absent" => starts[j] = 0 /\ job[j] = Absent
    /\ starts[j] <= job[j].made + job[j].stalls
                    + (IF job[j].state = "active" THEN 1 ELSE 0)

\* A listener never counts more attempts than the job has.
NoticesInv == \A n \in notices : n.made <= Attempts[n.job.dest]

WorkInv ==
  /\ SlotsInv
  /\ BudgetInv
  /\ NoticesInv
  /\ DeliveredIsTrue
  /\ StartsWithinBudget
  /\ AttemptCountBounded

IInv == TypeInv /\ IngestInv /\ WorkInv

-----------------------------------------------------------------------------
(* Rows, updates and job records.                                          *)

\* The worker's upsert of an update yields a row, and keeps a delivery time.
LEMMA UpsertedRow ==
  ASSUME NEW r \in Rows, NEW update \in Updates
  PROVE  /\ Upserted(r, update) \in Rows
         /\ Upserted(r, update).status = update.status
         /\ Upserted(r, update).attempts = update.attempts
         /\ Upserted(r, update).deliveredAt = (update.deliveredAt \/ r.deliveredAt)
BY DEF Rows, Updates, Upserted

\* What the processor and the listener write are updates of the table.
LEMMA UpdatesTyped ==
  ASSUME NEW made \in Nat, NEW n \in Notices
  PROVE  /\ DeliveredUpdate(AttemptOf(made)) \in Updates
         /\ FailureUpdate(n) \in Updates
         /\ FailureUpdate(n).deliveredAt = FALSE
         /\ FailureUpdate(n).attempts = n.made + 1
         /\ FailureUpdate(n).status # "delivered"
BY AttemptsAssumption
   DEF DeliveredUpdate, AttemptOf, FailureUpdate, Updates, Statuses, Notices

\* A job id names a row, and the original job of a row names it back.
LEMMA KeyTyped ==
  /\ \A j \in JobIds : KeyOf(j) \in Deliveries
  /\ \A k \in Deliveries : OriginalJob(k) \in JobIds /\ KeyOf(OriginalJob(k)) = k
BY TagsAssumption DEF JobIds, KeyOf, Deliveries, OriginalJob

\* A write of the workers leaves the database well typed.
LEMMA WriteTyped ==
  ASSUME DatabaseTypeOK, NEW k \in Deliveries, NEW update \in Updates,
         WriteDeliveryState(k, update)
  PROVE  DatabaseTypeOK'
BY UpsertedRow DEF DatabaseTypeOK, WriteDeliveryState

\* The operations of the queue keep its type.
LEMMA QueueTyped ==
  ASSUME QueueTypeOK, NEW j \in JobIds
  PROVE  /\ Add(j) => QueueTypeOK'
         /\ \A w \in Workers : MoveToActive(j, w) => QueueTypeOK'
         /\ MoveToCompleted(j) => QueueTypeOK'
         /\ MoveToFailed(j) => QueueTypeOK'
         /\ Stall(j) => QueueTypeOK'
         /\ StallOut(j) => QueueTypeOK'
<1> USE DEF QueueTypeOK, Jobs, JobStates
<1>1. Add(j) => QueueTypeOK'
  BY DEF Add, Absent
<1>2. ASSUME NEW w \in Workers, MoveToActive(j, w) PROVE QueueTypeOK'
  <2>1. job' = [job EXCEPT ![j] = [job[j] EXCEPT !.state = "active", !.holder = w]]
    BY <1>2 DEF MoveToActive
  <2>2. [job[j] EXCEPT !.state = "active", !.holder = w] \in Jobs
    OBVIOUS
  <2>. QED  BY <2>1, <2>2
<1>3. MoveToCompleted(j) => QueueTypeOK'
  BY DEF MoveToCompleted
<1>4. MoveToFailed(j) => QueueTypeOK'
  BY DEF MoveToFailed
<1>5. Stall(j) => QueueTypeOK'
  BY DEF Stall
<1>6. StallOut(j) => QueueTypeOK'
  BY DEF StallOut
<1>. QED  BY <1>1, <1>2, <1>3, <1>4, <1>5, <1>6

-----------------------------------------------------------------------------
(* Types.                                                                  *)

\* The ingestion's part of it.
IngestTypeInv ==
  /\ IngestAloneTypeOK
  /\ \A r \in Requests : InHandler(r) => req[r].event \in Events

LEMMA IngestPartTyped == TypeInv => IngestTypeInv
BY DEF TypeInv, TypeOK, IngestTypeInv, IngestAloneTypeOK

\* Every step of the ingestion keeps the types, alone or beside workers.
LEMMA IngestKeepsIngestTypes ==
  ASSUME IngestTypeInv, IngestNext
  PROVE  IngestTypeInv'
<1> USE DEF IngestTypeInv, IngestAloneTypeOK, IngestTypeOK, InHandler
<1>2. \A counters : Counted(counters) => metrics' \in [Counters -> Nat]
  BY DEF Counted
<1>3. UNCHANGED dbVars => DatabaseTypeOK'
  BY DEF dbVars, DatabaseTypeOK
<1>4. UNCHANGED job => QueueTypeOK'
  BY DEF QueueTypeOK
<1>5. ASSUME NEW r \in Requests, Reject(r) PROVE IngestTypeInv'
  <2>1. PICK reply \in DOMAIN Rejections :
          /\ req' = [req EXCEPT ![r].phase = "answered", ![r].reply = reply]
          /\ Counted({"requests", Rejections[reply]})
    BY <1>5 DEF Reject
  <2>2. reply \in Replies
    BY DEF Rejections, Replies
  <2>3. req' \in [Requests -> ReqStates]
    <3>1. req' = [req EXCEPT ![r] = [req[r] EXCEPT !.phase = "answered", !.reply = reply]]
      BY <2>1
    <3>2. [req[r] EXCEPT !.phase = "answered", !.reply = reply] \in ReqStates
      BY <2>2 DEF ReqStates, Phases
    <3>. QED  BY <3>1, <3>2
  <2>4. \A s \in Requests : req'[s].phase \in {"inserting", "continuing"}
                             => req'[s].event \in Events
    BY <2>1 DEF ReqStates
  <2>. QED  BY <1>2, <1>3, <1>4, <1>5, <2>1, <2>3, <2>4 DEF Reject
<1>6. ASSUME NEW r \in Requests, Accept(r) PROVE IngestTypeInv'
  <2>1. PICK e \in Events :
          req' = [req EXCEPT ![r].phase = "inserting", ![r].event = e]
    BY <1>6 DEF Accept
  <2>2. req' \in [Requests -> ReqStates]
    <3>1. req' = [req EXCEPT ![r] = [req[r] EXCEPT !.phase = "inserting", !.event = e]]
      BY <2>1
    <3>2. [req[r] EXCEPT !.phase = "inserting", !.event = e] \in ReqStates
      BY DEF ReqStates, Phases
    <3>. QED  BY <3>1, <3>2
  <2>3. \A s \in Requests : req'[s].event = IF s = r THEN e ELSE req[s].event
    BY <2>1 DEF ReqStates
  <2>4. \A s \in Requests : s # r => req'[s] = req[s]
    BY <2>1
  <2>. QED  BY <1>2, <1>3, <1>4, <1>6, <2>2, <2>3, <2>4 DEF Accept
<1>7. ASSUME NEW r \in Requests, Insert(r) PROVE IngestTypeInv'
  <2>1. DatabaseTypeOK'
    BY <1>7 DEF Insert, InsertIfNotExists, DatabaseTypeOK
  <2>2. PICK inserted \in BOOLEAN :
          req' = [req EXCEPT ![r].phase = "continuing", ![r].inserted = inserted]
    BY <1>7 DEF Insert
  <2>3. req' \in [Requests -> ReqStates]
    <3>1. req' = [req EXCEPT ![r] = [req[r] EXCEPT !.phase = "continuing",
                                                   !.inserted = inserted]]
      BY <2>2
    <3>2. [req[r] EXCEPT !.phase = "continuing", !.inserted = inserted] \in ReqStates
      BY DEF ReqStates, Phases
    <3>. QED  BY <3>1, <3>2
  <2>4. \A s \in Requests : req'[s].event = req[s].event
    BY <2>2 DEF ReqStates
  <2>. QED  BY <1>4, <1>7, <2>1, <2>2, <2>3, <2>4 DEF Insert
<1>8. ASSUME NEW r \in Requests, InsertError(r) PROVE IngestTypeInv'
  <2>1. DatabaseTypeOK'
    BY <1>8 DEF InsertError, DatabaseTypeOK
  <2>2. req' \in [Requests -> ReqStates]
    <3>1. req' = [req EXCEPT ![r] = [req[r] EXCEPT !.phase = "answered", !.reply = "internal_error"]]
      BY <1>8 DEF InsertError
    <3>2. [req[r] EXCEPT !.phase = "answered", !.reply = "internal_error"] \in ReqStates
      BY DEF ReqStates, Phases, Replies
    <3>. QED  BY <3>1, <3>2
  <2>. QED  BY <1>2, <1>4, <1>8, <2>1, <2>2 DEF InsertError
<1>9. ASSUME NEW r \in Requests, Respond(r) PROVE IngestTypeInv'
  <2>1. adds' \in SUBSET Deliveries
    BY <1>9 DEF Respond, Deliveries
  <2>2. PICK reply \in {"ok", "duplicate"} :
          req' = [req EXCEPT ![r].phase = "answered", ![r].reply = reply]
    BY <1>9 DEF Respond
  <2>3. req' \in [Requests -> ReqStates]
    <3>1. req' = [req EXCEPT ![r] = [req[r] EXCEPT !.phase = "answered",
                                                   !.reply = reply]]
      BY <2>2
    <3>2. [req[r] EXCEPT !.phase = "answered", !.reply = reply] \in ReqStates
      BY DEF ReqStates, Phases, Replies
    <3>. QED  BY <3>1, <3>2
  <2>4. \A s \in Requests : req'[s].event = req[s].event
    BY <2>2 DEF ReqStates
  <2>. QED  BY <1>2, <1>3, <1>4, <1>9, <2>1, <2>2, <2>3, <2>4 DEF Respond
<1>10. ASSUME NEW k \in adds, AddLands(k) PROVE IngestTypeInv'
  <2>1. [event |-> k[1], dest |-> k[2], tag |-> Original] \in JobIds
    BY TagsAssumption DEF Deliveries, JobIds
  <2>2. QueueTypeOK'
    BY <1>10, <2>1, QueueTyped DEF AddLands
  <2>. QED  BY <1>3, <1>10, <2>2 DEF AddLands
<1>11. ASSUME NEW k \in adds, AddFails(k) PROVE IngestTypeInv'
  BY <1>3, <1>4, <1>11 DEF AddFails
<1>12. ASSUME ApiRestart PROVE IngestTypeInv'
  <2>1. req' \in [Requests -> ReqStates]
    BY <1>12 DEF ApiRestart, ReqStates, Phases
  <2>2. metrics' \in [Counters -> Nat]
    BY <1>12 DEF ApiRestart, Zeroed
  <2>. QED  BY <1>3, <1>4, <1>12, <2>1, <2>2 DEF ApiRestart
<1>. QED
  BY <1>5, <1>6, <1>7, <1>8, <1>9, <1>10, <1>11, <1>12
     DEF IngestNext, IngestStep

LEMMA IngestKeepsTypes ==
  ASSUME TypeInv, Ingest
  PROVE  TypeInv'
<1>1. TypeInv <=>
        /\ IngestTypeInv /\ WorkerTypeOK
        /\ \A w \in Workers : run[w].phase # "idle" => run[w].job \in JobIds
  BY DEF TypeInv, TypeOK, IngestTypeInv, IngestAloneTypeOK
<1>2. TypeInv' <=>
        /\ IngestTypeInv' /\ WorkerTypeOK'
        /\ \A w \in Workers : run'[w].phase # "idle" => run'[w].job \in JobIds
  BY DEF TypeInv, TypeOK, IngestTypeInv, IngestAloneTypeOK
<1>3. IngestTypeInv'
  BY <1>1, IngestKeepsIngestTypes DEF Ingest
<1> QED BY <1>1, <1>2, <1>3 DEF Ingest, workerVars, WorkerTypeOK

\* Every step of the workers keeps the types.
LEMMA WorkKeepsTypes ==
  ASSUME TypeInv, Work
  PROVE  TypeInv'
<1> USE DEF TypeInv, TypeOK, WorkerTypeOK
<1>1. IngestTypeOK' /\ \A r \in Requests : InHandler(r)' => req'[r].event \in Events
  BY DEF Work, ingestVars, IngestTypeOK, InHandler
<1>2. UNCHANGED dbVars => DatabaseTypeOK'
  BY DEF dbVars, DatabaseTypeOK
<1>3. UNCHANGED job => QueueTypeOK'
  BY DEF QueueTypeOK
<1>4. UNCHANGED history => /\ accepted' \in [Deliveries -> Nat]
                          /\ unheard' \in [Deliveries -> Nat]
                          /\ starts' \in [JobIds -> Nat]
  BY DEF history
<1> DEFINE RunOK(r) == r \in Runs /\ (r.phase # "idle" => r.job \in JobIds)
           RunsOK == /\ run' \in [Workers -> Runs]
                     /\ \A w \in Workers : run'[w].phase # "idle" => run'[w].job \in JobIds
<1>5. ASSUME NEW w \in Workers, NEW r, RunOK(r), run' = [run EXCEPT ![w] = r]
      PROVE  RunsOK
  BY <1>5
<1>6. ASSUME NEW w \in Workers, NEW p \in RunPhases, run[w].phase # "idle",
             run' = [run EXCEPT ![w].phase = p]
      PROVE  RunsOK
  <2>1. RunOK([run[w] EXCEPT !.phase = p])
    BY <1>6 DEF Runs
  <2>2. run' = [run EXCEPT ![w] = [run[w] EXCEPT !.phase = p]]
    BY <1>6
  <2>. QED  BY <1>5, <2>1, <2>2
<1>7. ASSUME NEW w \in Workers, NEW failure, run[w].phase # "idle", Throw(w, failure)
      PROVE  RunsOK
  <2> DEFINE r == [run[w] EXCEPT !.phase = "throwing", !.retryable = IsRetryable(failure)]
  <2>1. IsRetryable(failure) \in BOOLEAN
    BY DEF IsRetryable
  <2>2. RunOK(r)
    BY <1>7, <2>1 DEF Runs, RunPhases
  <2>3. run' = [run EXCEPT ![w] = r]
    BY <1>7 DEF Throw
  <2>. QED  BY <1>5, <2>2, <2>3
<1>8. ASSUME NEW w \in Workers, run' = [run EXCEPT ![w] = Idle] PROVE RunsOK
  BY <1>5, <1>8 DEF Idle, Runs, RunPhases
<1>9. ASSUME UNCHANGED run PROVE RunsOK
  BY <1>9
<1> HIDE DEF RunsOK
<1>10. RunsOK => /\ run' \in [Workers -> Runs]
                 /\ \A w \in Workers : run'[w].phase # "idle" => run'[w].job \in JobIds
  BY DEF RunsOK
<1>11. ASSUME NEW w \in Workers, NEW j \in JobIds, Take(w, j) PROVE TypeInv'
  <2>1. RunOK([phase |-> "loading", job |-> j, made |-> job[j].made, retryable |-> FALSE])
    BY DEF Runs, RunPhases, QueueTypeOK, Jobs
  <2>2. RunsOK
    BY <1>5, <1>11, <2>1 DEF Take
  <2>3. QueueTypeOK'
    BY <1>11, QueueTyped DEF Take
  <2>4. starts' \in [JobIds -> Nat]
    BY <1>11 DEF Take
  <2>. QED  BY <1>1, <1>2, <1>10, <1>11, <2>2, <2>3, <2>4 DEF Take
<1>12. ASSUME NEW w \in Workers, LoadEvent(w) PROVE TypeInv'
  <2>1. RunsOK
    BY <1>6, <1>7, <1>12 DEF LoadEvent, RunPhases
  <2>. QED  BY <1>1, <1>2, <1>3, <1>4, <1>10, <1>12, <2>1 DEF LoadEvent
<1>13. ASSUME NEW w \in Workers, DeliverAccepted(w) PROVE TypeInv'
  <2>1. RunsOK
    BY <1>6, <1>13 DEF DeliverAccepted, RunPhases
  <2>2. accepted' \in [Deliveries -> Nat]
    <3>1. KeyOf(run[w].job) \in Deliveries
      BY <1>13, KeyTyped DEF DeliverAccepted
    <3>. QED  BY <1>13, <3>1 DEF DeliverAccepted
  <2>. QED  BY <1>1, <1>2, <1>3, <1>10, <1>13, <2>1, <2>2 DEF DeliverAccepted
<1>14. ASSUME NEW w \in Workers, DeliverUnheard(w) PROVE TypeInv'
  <2>1. RunsOK
    BY <1>7, <1>14 DEF DeliverUnheard
  <2>2. accepted' \in [Deliveries -> Nat] /\ unheard' \in [Deliveries -> Nat]
    <3>1. KeyOf(run[w].job) \in Deliveries
      BY <1>14, KeyTyped DEF DeliverUnheard
    <3>. QED  BY <1>14, <3>1 DEF DeliverUnheard
  <2>. QED  BY <1>1, <1>2, <1>3, <1>10, <1>14, <2>1, <2>2 DEF DeliverUnheard
<1>15. ASSUME NEW w \in Workers, DeliverRefused(w) PROVE TypeInv'
  <2>1. RunsOK
    BY <1>7, <1>15 DEF DeliverRefused
  <2>. QED  BY <1>1, <1>2, <1>3, <1>4, <1>10, <1>15, <2>1 DEF DeliverRefused
<1>16. ASSUME NEW w \in Workers, RecordDelivered(w) PROVE TypeInv'
  <2>1. RunsOK
    BY <1>6, <1>16 DEF RecordDelivered, RunPhases
  <2>2. run[w].job \in JobIds /\ run[w].made \in Nat
    BY <1>16 DEF RecordDelivered, Runs
  <2>3. DeliveredUpdate(AttemptOf(run[w].made)) \in Updates
    BY <2>2 DEF DeliveredUpdate, AttemptOf, Updates, Statuses
  <2>4. DatabaseTypeOK'
    BY <1>2, <1>16, <2>2, <2>3, KeyTyped, WriteTyped DEF RecordDelivered
  <2>. QED  BY <1>1, <1>3, <1>4, <1>10, <1>16, <2>1, <2>4 DEF RecordDelivered
<1>17. ASSUME NEW w \in Workers, Complete(w) PROVE TypeInv'
  <2>1. RunsOK
    BY <1>8, <1>17 DEF Complete
  <2>2. QueueTypeOK'
    BY <1>3, <1>17, QueueTyped DEF Complete
  <2>. QED  BY <1>1, <1>2, <1>4, <1>10, <1>17, <2>1, <2>2 DEF Complete
<1>18. ASSUME NEW w \in Workers, Fail(w) PROVE TypeInv'
  <2>1. RunsOK
    BY <1>8, <1>18 DEF Fail
  <2>2. run[w].job \in JobIds /\ run[w] \in Runs
    BY <1>18 DEF Fail
  <2>3. QueueTypeOK'
    BY <1>3, <1>18, <2>2, QueueTyped DEF Fail
  <2>4. [worker |-> w, job |-> run[w].job, made |-> run[w].made + 1,
         retryable |-> run[w].retryable] \in Notices
    BY <2>2 DEF Notices, Runs
  <2>5. notices' \in SUBSET Notices
    BY <1>18, <2>4 DEF Fail
  <2>. QED  BY <1>1, <1>2, <1>4, <1>10, <1>18, <2>1, <2>3, <2>5 DEF Fail
<1>19. ASSUME NEW n \in notices, RecordFailure(n) PROVE TypeInv'
  <2>1. n.job \in JobIds
    BY DEF Notices
  <2>2. DatabaseTypeOK'
    BY <1>2, <1>19, <2>1, KeyTyped, UpdatesTyped, WriteTyped DEF RecordFailure
  <2>. QED  BY <1>1, <1>3, <1>4, <1>9, <1>10, <1>19, <2>2 DEF RecordFailure
<1>20. ASSUME NEW j \in JobIds, LockExpires(j) PROVE TypeInv'
  <2>1. QueueTypeOK'
    BY <1>20, QueueTyped DEF LockExpires
  <2>. QED  BY <1>1, <1>2, <1>4, <1>9, <1>10, <1>20, <2>1 DEF LockExpires
<1>21. ASSUME NEW w \in Workers, NEW j \in JobIds, GiveUpStalled(j, w) PROVE TypeInv'
  <2>1. QueueTypeOK'
    BY <1>21, QueueTyped DEF GiveUpStalled
  <2>2. [worker |-> w, job |-> j, made |-> job[j].made + 1, retryable |-> TRUE] \in Notices
    BY DEF Notices, QueueTypeOK, Jobs
  <2>. QED  BY <1>1, <1>2, <1>4, <1>9, <1>10, <1>21, <2>1, <2>2 DEF GiveUpStalled
<1>22. ASSUME NEW w \in Workers, WorkerRestart(w) PROVE TypeInv'
  <2>1. RunsOK
    BY <1>8, <1>22 DEF WorkerRestart
  <2>. QED  BY <1>1, <1>2, <1>3, <1>4, <1>10, <1>22, <2>1 DEF WorkerRestart
<1>. QED
  BY <1>11, <1>12, <1>13, <1>14, <1>15, <1>16, <1>17, <1>18, <1>19, <1>20, <1>21, <1>22
     DEF Work, WorkerNext, Step

\* The types hold of every reachable state of the pipeline: of its tables, its
\* queue, its calls, its slots and its listeners.
LEMMA TypesAlways == Spec => []TypeInv
<1>1. Init => TypeInv
  BY TagsAssumption
     DEF Init, DatabaseInit, QueueInit, IngestInit, WorkerInit, TypeInv, TypeOK,
         DatabaseTypeOK, QueueTypeOK, IngestTypeOK, WorkerTypeOK, NoRow, Rows,
         Absent, Jobs, JobStates, Unsent, ReqStates, Phases, Replies, Zeroed,
         Idle, Runs, RunPhases, InHandler
<1>2. TypeInv /\ [Next]_vars => TypeInv'
  <2>1. TypeInv /\ UNCHANGED vars => TypeInv'
    BY DEF vars, dbVars, ingestVars, workerVars, TypeInv, TypeOK, DatabaseTypeOK,
           QueueTypeOK, IngestTypeOK, WorkerTypeOK, InHandler
  <2>. QED  BY <2>1, IngestKeepsTypes, WorkKeepsTypes DEF Next
<1>. QED  BY <1>1, <1>2, PTL DEF Spec

\* Every reachable state of the pipeline is well typed: handlers, adds,
\* counters, rows, jobs, slots and listeners, whatever order they run in.
THEOREM TypeCorrect == Spec => []TypeOK
<1>1. TypeInv => TypeOK
  BY DEF TypeInv
<1>. QED  BY <1>1, TypesAlways, PTL

-----------------------------------------------------------------------------
(* The ingestion.                                                          *)

\* The workers neither add jobs nor touch the table of events.
LEMMA WorkAddsNothing ==
  ASSUME TypeInv, Work
  PROVE  /\ stored' = stored
         /\ \A j \in JobIds : job[j].state = "absent" => job'[j] = job[j]
<1>1. stored' = stored
  BY DEF Work, WorkerNext, Step, Take, LoadEvent, DeliverAccepted, DeliverUnheard,
         DeliverRefused, RecordDelivered, Complete, Fail, RecordFailure,
         LockExpires, GiveUpStalled, WorkerRestart, WriteDeliveryState, dbVars
<1>2. ASSUME NEW j \in JobIds, job[j].state = "absent" PROVE job'[j] = job[j]
  <2> USE <1>2
  <2>0. job \in [JobIds -> Jobs]
    BY DEF TypeInv, TypeOK, QueueTypeOK
  <2>1. ASSUME NEW w \in Workers, NEW i \in JobIds, Take(w, i)
        PROVE  job'[j] = job[j]
    BY <2>0, <2>1 DEF Take, MoveToActive
  <2>2. ASSUME NEW w \in Workers, Complete(w) PROVE job'[j] = job[j]
    BY <2>0, <2>2 DEF Complete, MoveToCompleted, Holds
  <2>3. ASSUME NEW w \in Workers, Fail(w) PROVE job'[j] = job[j]
    BY <2>0, <2>3 DEF Fail, MoveToFailed, Holds
  <2>4. ASSUME NEW i \in JobIds, LockExpires(i) PROVE job'[j] = job[j]
    BY <2>0, <2>4 DEF LockExpires, Stall
  <2>5. ASSUME NEW w \in Workers, NEW i \in JobIds, GiveUpStalled(i, w)
        PROVE  job'[j] = job[j]
    BY <2>0, <2>5 DEF GiveUpStalled, StallOut
  <2>6. ASSUME NEW w \in Workers,
               \/ LoadEvent(w) \/ DeliverAccepted(w) \/ DeliverUnheard(w)
               \/ DeliverRefused(w) \/ RecordDelivered(w) \/ WorkerRestart(w)
        PROVE  job' = job
    BY <2>6 DEF LoadEvent, DeliverAccepted, DeliverUnheard, DeliverRefused,
                RecordDelivered, WorkerRestart
  <2>7. ASSUME NEW n \in notices, RecordFailure(n) PROVE job' = job
    BY <2>7 DEF RecordFailure
  <2>. QED  BY <2>1, <2>2, <2>3, <2>4, <2>5, <2>6, <2>7 DEF Work, WorkerNext, Step
<1>. QED  BY <1>1, <1>2

\* The workers keep what the ingestion relies on.
LEMMA WorkKeepsIngestInv ==
  ASSUME TypeInv, IngestInv, Work
  PROVE  IngestInv'
BY WorkAddsNothing
   DEF Work, ingestVars, IngestInv, AtMostOneInserter, JobsFollowTheEvent

\* Every step of the ingestion keeps what it relies on.
LEMMA IngestKeepsIngestInv ==
  ASSUME IngestTypeInv, IngestInv, IngestNext
  PROVE  IngestInv'
<1> USE DEF IngestInv, AtMostOneInserter, JobsFollowTheEvent
<1>1. req \in [Requests -> ReqStates]
  BY DEF IngestTypeInv, IngestAloneTypeOK, IngestTypeOK
<1>2. ASSUME NEW r \in Requests, Reject(r) PROVE IngestInv'
  <2>1. PICK reply \in DOMAIN Rejections :
          req' = [req EXCEPT ![r].phase = "answered", ![r].reply = reply]
    BY <1>2 DEF Reject
  <2>2. reply \notin {"ok", "duplicate"}
    BY DEF Rejections
  <2>. QED  BY <1>1, <1>2, <2>1, <2>2 DEF Reject, ReqStates, dbVars
<1>3. ASSUME NEW r \in Requests, Accept(r) PROVE IngestInv'
  <2>1. PICK e \in Events :
          req' = [req EXCEPT ![r].phase = "inserting", ![r].event = e]
    BY <1>3 DEF Accept
  <2>. QED  BY <1>1, <1>3, <2>1 DEF Accept, ReqStates, dbVars
<1>4. ASSUME NEW r \in Requests, Insert(r) PROVE IngestInv'
  <2>1. PICK inserted \in BOOLEAN :
          /\ inserted = (req[r].event \notin stored)
          /\ stored' = stored \cup {req[r].event}
          /\ req' = [req EXCEPT ![r].phase = "continuing", ![r].inserted = inserted]
    BY <1>4 DEF Insert, InsertIfNotExists
  <2>. QED  BY <1>1, <1>4, <2>1 DEF Insert, ReqStates
<1>5. ASSUME NEW r \in Requests, InsertError(r) PROVE IngestInv'
  BY <1>1, <1>5 DEF InsertError, ReqStates
<1>6. ASSUME NEW r \in Requests, Respond(r) PROVE IngestInv'
  BY <1>1, <1>6 DEF Respond, ReqStates, dbVars, Deliveries
<1>7. ASSUME NEW k \in adds, AddLands(k) PROVE IngestInv'
  BY <1>7
     DEF AddLands, Add, Absent, dbVars, IngestTypeInv, IngestAloneTypeOK, QueueTypeOK
<1>8. ASSUME NEW k \in adds, AddFails(k) PROVE IngestInv'
  BY <1>8 DEF AddFails, dbVars
<1>9. ASSUME ApiRestart PROVE IngestInv'
  BY <1>1, <1>9 DEF ApiRestart, ReqStates, InHandler, dbVars
<1>. QED
  BY <1>2, <1>3, <1>4, <1>5, <1>6, <1>7, <1>8, <1>9 DEF IngestNext, IngestStep

LEMMA IngestInvAlways == Spec => []IngestInv
<1>1. Init => IngestInv
  BY DEF Init, DatabaseInit, QueueInit, IngestInit, IngestInv, AtMostOneInserter,
         JobsFollowTheEvent, Unsent, Absent
<1>2. TypeInv /\ IngestInv /\ [Next]_vars => IngestInv'
  <2>1. IngestInv /\ UNCHANGED vars => IngestInv'
    BY DEF vars, dbVars, ingestVars, IngestInv, AtMostOneInserter, JobsFollowTheEvent
  <2>2. TypeInv => IngestTypeInv
    BY IngestPartTyped
  <2>. QED  BY <2>1, <2>2, IngestKeepsIngestInv, WorkKeepsIngestInv DEF Next, Ingest
<1>. QED  BY <1>1, <1>2, TypesAlways, PTL DEF Spec

\* Dispatch follows the insert: an acknowledged event is in the database, and
\* so is the event of every add in flight and of every job, so that a worker
\* never meets a job whose event was not stored.
THEOREM DispatchFollowsInsert == Spec => []JobsFollowTheEvent
<1>1. IngestInv => JobsFollowTheEvent
  BY DEF IngestInv
<1>. QED  BY <1>1, IngestInvAlways, PTL

\* However many calls carry an event, at once or one after the other, at most
\* one of them is told that it stored it, and only that one dispatches.
THEOREM OneInserter == Spec => []AtMostOneInserter
<1>1. IngestInv => AtMostOneInserter
  BY DEF IngestInv
<1>. QED  BY <1>1, IngestInvAlways, PTL

-----------------------------------------------------------------------------
(* The queue and the workers.                                              *)

\* To the queue the ingestion does no more than add jobs.
LEMMA IngestAdds ==
  ASSUME TypeInv, Ingest
  PROVE  \A j \in JobIds :
           \/ job'[j] = job[j]
           \/ /\ job[j].state = "absent" /\ job'[j] = [Absent EXCEPT !.state = "waiting"]
              /\ \E k \in adds : j = OriginalJob(k)
BY DEF Ingest, IngestNext, IngestStep, Reject, Accept, Insert, InsertError, Respond,
       AddLands, AddFails, ApiRestart, Add, OriginalJob, TypeInv, TypeOK, QueueTypeOK

\* The ingestion leaves the workers' bookkeeping alone; a job it adds starts
\* with all its attempts and has not been begun.
LEMMA IngestKeepsWorkInv ==
  ASSUME TypeInv, WorkInv, Ingest
  PROVE  WorkInv'
<1>1. UNCHANGED <<row, run, notices, accepted, unheard, starts>>
  BY DEF Ingest, IngestNext, IngestStep, Reject, Accept, Insert, InsertIfNotExists,
         InsertError, Respond, AddLands, AddFails, ApiRestart, workerVars, dbVars
<1>2. \A j \in JobIds :
        \/ job'[j] = job[j]
        \/ job[j].state = "absent" /\ job'[j] = [Absent EXCEPT !.state = "waiting"]
  BY IngestAdds
<1>3. BudgetInv'
  <2> SUFFICES ASSUME NEW j \in JobIds, job[j].state = "absent",
                      job'[j] = [Absent EXCEPT !.state = "waiting"]
               PROVE  /\ Live(j)' => /\ job'[j].made + 1 <= Attempts[j.dest]
                                     /\ job'[j].stalls <= MaxStalls
                      /\ job'[j].state # "absent"
                      /\ starts'[j] <= job'[j].made + job'[j].stalls
                                       + (IF job'[j].state = "active" THEN 1 ELSE 0)
    BY <1>1, <1>2 DEF WorkInv, BudgetInv, Live
  <2>1. Attempts[j.dest] \in Nat \ {0}
    BY AttemptsAssumption DEF JobIds
  <2>2. starts'[j] = 0
    BY <1>1 DEF WorkInv, BudgetInv
  <2>. QED  BY <2>1, <2>2, MaxStallsAssumption DEF Absent
<1>4. DeliveredIsTrue'
  BY <1>1, <1>2 DEF WorkInv, DeliveredIsTrue, Absent
<1>. QED
  BY <1>1, <1>3, <1>4
     DEF WorkInv, SlotsInv, NoticesInv, StartsWithinBudget, AttemptCountBounded

\* What a write of the workers does to the rows.
LEMMA WriteEffect ==
  ASSUME TypeInv, NEW k \in Deliveries, NEW update \in Updates,
         WriteDeliveryState(k, update)
  PROVE  \A l \in Deliveries :
           \/ row'[l] = row[l]
           \/ /\ l = k
              /\ row'[l].status = update.status
              /\ row'[l].attempts = update.attempts
              /\ row'[l].deliveredAt = (update.deliveredAt \/ row[l].deliveredAt)
BY UpsertedRow DEF WriteDeliveryState, TypeInv, TypeOK, DatabaseTypeOK

\* Whatever the workers do, no job is begun beyond its budget and no slot or
\* listener counts more attempts than the job has.
LEMMA WorkKeepsBudget ==
  ASSUME TypeInv, SlotsInv, BudgetInv, NoticesInv, StartsWithinBudget, Work
  PROVE  /\ BudgetInv' /\ NoticesInv' /\ StartsWithinBudget'
         /\ \A w \in Workers : run'[w].phase # "idle"
                               => run'[w].made + 1 <= Attempts[run'[w].job.dest]
<1> DEFINE Counts == \A w \in Workers : run'[w].phase # "idle"
                       => run'[w].made + 1 <= Attempts[run'[w].job.dest]
           Goal == BudgetInv' /\ NoticesInv' /\ StartsWithinBudget' /\ Counts
<1>1. /\ \A j \in JobIds : /\ job[j] \in Jobs
                            /\ starts[j] \in Nat
                            /\ Attempts[j.dest] \in Nat \ {0}
      /\ MaxStalls \in Nat
      /\ job \in [JobIds -> Jobs] /\ starts \in [JobIds -> Nat]
      /\ run \in [Workers -> Runs] /\ notices \in SUBSET Notices
  BY AttemptsAssumption, MaxStallsAssumption
     DEF JobIds, TypeInv, TypeOK, QueueTypeOK, WorkerTypeOK
<1>2. ASSUME UNCHANGED <<job, starts, notices>>, Counts PROVE Goal
  BY <1>2 DEF BudgetInv, NoticesInv, StartsWithinBudget, Live
<1>3. ASSUME NEW w \in Workers, NEW p, run' = [run EXCEPT ![w].phase = p],
             run[w].phase # "idle"
      PROVE  Counts
  BY <1>1, <1>3 DEF SlotsInv, Runs
<1>4. ASSUME NEW w \in Workers, run' = [run EXCEPT ![w] = Idle] PROVE Counts
  BY <1>1, <1>4 DEF SlotsInv, Idle
<1>5. ASSUME NEW w \in Workers, NEW f, Throw(w, f), run[w].phase # "idle" PROVE Counts
  BY <1>1, <1>5 DEF SlotsInv, Runs, Throw
<1>6. ASSUME UNCHANGED run PROVE Counts
  BY <1>6 DEF SlotsInv
<1> HIDE DEF Counts
<1>7. ASSUME NEW j \in JobIds, UNCHANGED starts,
             \A i \in JobIds : i # j => job'[i] = job[i],
             job[j].state = "active",
             job'[j].state \in {"waiting", "completed", "failed"},
             \/ job'[j].made = job[j].made + 1 /\ job'[j].stalls = job[j].stalls
             \/ job'[j].made = job[j].made /\ job'[j].stalls = job[j].stalls + 1
             \/ job'[j].made = job[j].made + 1 /\ job'[j].stalls = job[j].stalls + 1,
             job'[j].state = "waiting" => /\ job'[j].made + 1 <= Attempts[j.dest]
                                          /\ job'[j].stalls <= MaxStalls
      PROVE  BudgetInv' /\ StartsWithinBudget'
  BY <1>1, <1>7 DEF BudgetInv, StartsWithinBudget, Live, Jobs
<1>8. ASSUME NEW w \in Workers, NEW j \in JobIds, Take(w, j) PROVE Goal
  <2>1. /\ job[j].state = "waiting"
        /\ job' = [job EXCEPT ![j].state = "active", ![j].holder = w]
        /\ starts' = [starts EXCEPT ![j] = @ + 1]
        /\ notices' = notices
        /\ run' = [run EXCEPT ![w] = [phase |-> "loading", job |-> j,
                                      made |-> job[j].made, retryable |-> FALSE]]
    BY <1>8 DEF Take, MoveToActive
  <2>2. Counts
    BY <1>1, <2>1 DEF Counts, SlotsInv, BudgetInv, Live
  <2>3. /\ job'[j].state = "active" /\ job'[j].made = job[j].made
        /\ job'[j].stalls = job[j].stalls /\ starts'[j] = starts[j] + 1
        /\ \A i \in JobIds : i # j => job'[i] = job[i] /\ starts'[i] = starts[i]
    BY <1>1, <2>1 DEF Jobs
  <2>4. BudgetInv' /\ StartsWithinBudget'
    BY <1>1, <2>1, <2>3 DEF BudgetInv, StartsWithinBudget, Live, Jobs
  <2>. QED  BY <2>1, <2>2, <2>4 DEF NoticesInv
<1>9. ASSUME NEW w \in Workers, LoadEvent(w) PROVE Goal
  BY <1>2, <1>3, <1>5, <1>9 DEF LoadEvent, history
<1>10. ASSUME NEW w \in Workers, DeliverAccepted(w) PROVE Goal
  BY <1>2, <1>3, <1>10 DEF DeliverAccepted
<1>11. ASSUME NEW w \in Workers, DeliverUnheard(w) PROVE Goal
  BY <1>2, <1>5, <1>11 DEF DeliverUnheard
<1>12. ASSUME NEW w \in Workers, DeliverRefused(w) PROVE Goal
  BY <1>2, <1>5, <1>12 DEF DeliverRefused, history
<1>13. ASSUME NEW w \in Workers, RecordDelivered(w) PROVE Goal
  BY <1>2, <1>3, <1>13 DEF RecordDelivered, history
<1>14. ASSUME NEW w \in Workers, Complete(w) PROVE Goal
  <2>1. CASE ~Holds(w, run[w].job)
    BY <1>2, <1>4, <1>14, <2>1 DEF Complete, history
  <2>2. CASE Holds(w, run[w].job)
    <3>1. run[w].job \in JobIds
      BY <1>14 DEF Complete, TypeInv
    <3>2. BudgetInv' /\ StartsWithinBudget'
      BY <1>1, <1>7, <1>14, <2>2, <3>1 DEF Complete, MoveToCompleted, Holds, Jobs, history
    <3>. QED  BY <1>4, <1>14, <3>2 DEF Complete, NoticesInv
  <2>. QED  BY <2>1, <2>2
<1>15. ASSUME NEW w \in Workers, Fail(w) PROVE Goal
  <2>1. CASE ~Holds(w, run[w].job)
    BY <1>2, <1>4, <1>15, <2>1 DEF Fail, history
  <2>2. CASE Holds(w, run[w].job)
    <3>1. run[w].job \in JobIds
      BY <1>15 DEF Fail, TypeInv
    <3>2. BudgetInv' /\ StartsWithinBudget'
      BY <1>1, <1>7, <1>15, <2>2, <3>1
         DEF Fail, MoveToFailed, Holds, Jobs, history, BudgetInv, Live
    <3>3. NoticesInv'
      BY <1>15, <2>2 DEF Fail, NoticesInv, SlotsInv
    <3>. QED  BY <1>4, <1>15, <3>2, <3>3 DEF Fail
  <2>. QED  BY <2>1, <2>2
<1>16. ASSUME NEW n \in notices, RecordFailure(n) PROVE Goal
  <2>1. BudgetInv' /\ StartsWithinBudget'
    BY <1>16 DEF RecordFailure, history, BudgetInv, StartsWithinBudget, Live
  <2>. QED  BY <1>6, <1>16, <2>1 DEF RecordFailure, NoticesInv
<1>17. ASSUME NEW j \in JobIds, LockExpires(j) PROVE Goal
  <2>1. BudgetInv' /\ StartsWithinBudget'
    <3>1. /\ job' = [job EXCEPT ![j].state = "waiting", ![j].stalls = @ + 1,
                                ![j].holder = NoWorker]
          /\ job[j].state = "active" /\ job[j].stalls < MaxStalls
          /\ starts' = starts
      BY <1>17 DEF LockExpires, Stall, history
    <3>2. /\ \A i \in JobIds : i # j => job'[i] = job[i]
          /\ job'[j].state = "waiting" /\ job'[j].made = job[j].made
          /\ job'[j].stalls = job[j].stalls + 1
      BY <1>1, <3>1 DEF Jobs
    <3>3. job[j].stalls \in Nat /\ job[j].stalls + 1 <= MaxStalls
      BY <1>1, <3>1, MaxStallsAssumption DEF Jobs
    <3>4. job[j].made + 1 <= Attempts[j.dest]
      BY <3>1 DEF BudgetInv, Live
    <3>. QED  BY <1>7, <3>1, <3>2, <3>3, <3>4
  <2>. QED  BY <1>6, <1>17, <2>1 DEF LockExpires, NoticesInv
<1>18. ASSUME NEW w \in Workers, NEW j \in JobIds, GiveUpStalled(j, w) PROVE Goal
  <2>1. BudgetInv' /\ StartsWithinBudget'
    BY <1>1, <1>7, <1>18 DEF GiveUpStalled, StallOut, Jobs, history
  <2>2. NoticesInv'
    BY <1>1, <1>18 DEF GiveUpStalled, StallOut, NoticesInv, BudgetInv, Live
  <2>. QED  BY <1>6, <1>18, <2>1, <2>2 DEF GiveUpStalled
<1>19. ASSUME NEW w \in Workers, WorkerRestart(w) PROVE Goal
  <2>1. BudgetInv' /\ StartsWithinBudget'
    BY <1>19 DEF WorkerRestart, history, BudgetInv, StartsWithinBudget, Live
  <2>. QED  BY <1>4, <1>19, <2>1 DEF WorkerRestart, NoticesInv
<1>20. Goal
  BY <1>8, <1>9, <1>10, <1>11, <1>12, <1>13, <1>14, <1>15, <1>16, <1>17, <1>18, <1>19
     DEF Work, WorkerNext, Step
<1>. QED  BY <1>20 DEF Counts

\* What the destination took stays taken.
LEMMA AcceptedGrows ==
  ASSUME TypeInv, Work
  PROVE  \A k \in Deliveries : accepted[k] > 0 => accepted'[k] > 0
<1>1. accepted \in [Deliveries -> Nat]
  BY DEF TypeInv, TypeOK, WorkerTypeOK
<1>2. \/ accepted' = accepted
      \/ \E k \in Deliveries : accepted' = [accepted EXCEPT ![k] = @ + 1]
  BY KeyTyped
     DEF Work, WorkerNext, Step, Take, LoadEvent, DeliverAccepted, DeliverUnheard,
         DeliverRefused, RecordDelivered, Complete, Fail, RecordFailure, LockExpires,
         GiveUpStalled, WorkerRestart, history, TypeInv
<1>. QED  BY <1>1, <1>2

\* A slot that goes on to record or complete a delivery has seen the
\* destination take it.
LEMMA WorkKeepsSlots ==
  ASSUME TypeInv, WorkInv, Work
  PROVE  SlotsInv'
<1>1. run \in [Workers -> Runs] /\ accepted \in [Deliveries -> Nat]
  BY DEF TypeInv, TypeOK, WorkerTypeOK
<1>2. \A w \in Workers : run[w].phase \in {"recording", "completing"} =>
        KeyOf(run[w].job) \in Deliveries /\ accepted'[KeyOf(run[w].job)] > 0
  BY AcceptedGrows, KeyTyped DEF TypeInv, WorkInv, SlotsInv
<1>3. ASSUME NEW w \in Workers, run'[w].phase \in {"recording", "completing"}
      PROVE  accepted'[KeyOf(run'[w].job)] > 0
  <2>1. CASE run[w].phase \in {"recording", "completing"} /\ run'[w].job = run[w].job
    BY <1>2, <2>1
  <2>2. CASE DeliverAccepted(w)
    <3>1. KeyOf(run[w].job) \in Deliveries /\ run'[w].job = run[w].job
      BY <1>1, <2>2, KeyTyped DEF DeliverAccepted, TypeInv, Runs
    <3>. QED  BY <1>1, <2>2, <3>1 DEF DeliverAccepted
  <2>3. \/ run[w].phase \in {"recording", "completing"} /\ run'[w].job = run[w].job
        \/ DeliverAccepted(w)
    <3>1. ASSUME NEW v \in Workers, DeliverAccepted(v), v # w
          PROVE  run'[w] = run[w]
      BY <1>1, <3>1 DEF DeliverAccepted
    <3>2. ASSUME NEW v \in Workers,
                 \/ \E j \in JobIds : Take(v, j)
                 \/ LoadEvent(v) \/ DeliverUnheard(v) \/ DeliverRefused(v)
                 \/ Complete(v) \/ Fail(v) \/ WorkerRestart(v)
          PROVE  run'[w] = run[w]
      BY <1>1, <1>3, <3>2
         DEF Take, LoadEvent, DeliverUnheard, DeliverRefused, Complete, Fail,
             WorkerRestart, Throw, Idle, Runs
    <3>3. ASSUME NEW v \in Workers, RecordDelivered(v)
          PROVE  run[w].phase \in {"recording", "completing"} /\ run'[w].job = run[w].job
      BY <1>1, <1>3, <3>3 DEF RecordDelivered, Runs
    <3>. QED
      BY <1>3, <3>1, <3>2, <3>3
         DEF Work, WorkerNext, Step, RecordFailure, LockExpires, GiveUpStalled
  <2>. QED  BY <2>1, <2>2, <2>3
<1>. QED  BY <1>3, WorkKeepsBudget DEF SlotsInv, WorkInv

\* Rows change only by a write: of a delivered row by a slot that recorded a
\* delivery, of another one by a listener.
LEMMA WorkWrites ==
  ASSUME TypeInv, WorkInv, Work, NEW k \in Deliveries
  PROVE  \/ row'[k] = row[k]
         \/ /\ accepted[k] > 0
            /\ row'[k].status = "delivered" /\ row'[k].deliveredAt
            /\ row'[k].attempts <= Attempts[k[2]] + 1
         \/ /\ row'[k].status # "delivered"
            /\ row'[k].deliveredAt = row[k].deliveredAt
            /\ row'[k].attempts <= Attempts[k[2]] + 1
<1>1. run \in [Workers -> Runs] /\ notices \in SUBSET Notices
  BY DEF TypeInv, TypeOK, WorkerTypeOK
<1>2. \A d \in Destinations : Attempts[d] \in Nat \ {0}
  BY AttemptsAssumption
<1>3. \A j \in JobIds : KeyOf(j)[2] = j.dest /\ j.dest \in Destinations
  BY DEF JobIds, KeyOf
<1>4. row[k] \in Rows
  BY DEF TypeInv, TypeOK, DatabaseTypeOK
<1>5. ASSUME NEW w \in Workers, RecordDelivered(w), row'[k] # row[k]
      PROVE  /\ accepted[k] > 0
             /\ row'[k].status = "delivered" /\ row'[k].deliveredAt
             /\ row'[k].attempts <= Attempts[k[2]] + 1
  <2> DEFINE j == run[w].job
             update == DeliveredUpdate(AttemptOf(run[w].made))
  <2>1. /\ j \in JobIds /\ KeyOf(j) \in Deliveries
        /\ run[w].made \in Nat /\ run[w].made + 1 <= Attempts[j.dest]
        /\ accepted[KeyOf(j)] > 0
    BY <1>1, <1>5, KeyTyped DEF RecordDelivered, TypeInv, WorkInv, SlotsInv, Runs
  <2>2. update \in Updates
    BY <2>1 DEF DeliveredUpdate, AttemptOf, Updates, Statuses
  <2>3. /\ k = KeyOf(j)
        /\ row'[k].status = update.status
        /\ row'[k].attempts = update.attempts
        /\ row'[k].deliveredAt = (update.deliveredAt \/ row[k].deliveredAt)
    BY <1>5, <2>1, <2>2, WriteEffect DEF RecordDelivered, dbVars
  <2>4. /\ update.status = "delivered" /\ update.deliveredAt = TRUE
        /\ update.attempts = run[w].made + 1
    BY DEF DeliveredUpdate, AttemptOf
  <2>5. k[2] = j.dest /\ Attempts[k[2]] \in Nat
    BY <1>2, <1>3, <2>1, <2>3
  <2> HIDE DEF j, update
  <2>6. row'[k].attempts <= Attempts[k[2]] + 1
    BY <2>1, <2>3, <2>4, <2>5
  <2>. QED  BY <2>1, <2>3, <2>4, <2>6
<1>6. ASSUME NEW n \in notices, RecordFailure(n), row'[k] # row[k]
      PROVE  /\ row'[k].status # "delivered"
             /\ row'[k].deliveredAt = row[k].deliveredAt
             /\ row'[k].attempts <= Attempts[k[2]] + 1
  <2>1. /\ n \in Notices /\ n.job \in JobIds /\ KeyOf(n.job) \in Deliveries
        /\ n.made \in Nat /\ n.made <= Attempts[n.job.dest]
    BY <1>1, KeyTyped DEF Notices, WorkInv, NoticesInv
  <2>2. /\ k = KeyOf(n.job)
        /\ row'[k].status = FailureUpdate(n).status
        /\ row'[k].attempts = FailureUpdate(n).attempts
        /\ row'[k].deliveredAt = (FailureUpdate(n).deliveredAt \/ row[k].deliveredAt)
    BY <1>6, <2>1, UpdatesTyped, WriteEffect DEF RecordFailure, dbVars
  <2>3. row[k].deliveredAt \in BOOLEAN
    BY <1>4 DEF Rows
  <2>4. FailureUpdate(n).status # "delivered"
    BY <2>1, UpdatesTyped, 1 \in Nat
  <2>5. FailureUpdate(n).deliveredAt = FALSE
    BY <2>1, UpdatesTyped, 1 \in Nat
  <2>6. FailureUpdate(n).attempts = n.made + 1
    BY <2>1, UpdatesTyped, 1 \in Nat
  <2>7. k[2] = n.job.dest /\ Attempts[k[2]] \in Nat
    BY <1>2, <1>3, <2>1, <2>2
  <2>8. row'[k].attempts <= Attempts[k[2]] + 1
    BY <2>1, <2>2, <2>6, <2>7
  <2>. QED  BY <2>2, <2>3, <2>4, <2>5, <2>8
<1>. QED
  BY <1>5, <1>6
     DEF Work, WorkerNext, Step, Take, LoadEvent, DeliverAccepted, DeliverUnheard,
         DeliverRefused, Complete, Fail, LockExpires, GiveUpStalled, WorkerRestart, dbVars

\* A job completes only in the hands of a slot that saw its delivery taken.
LEMMA CompletionIsTrue ==
  ASSUME TypeInv, WorkInv, Work, NEW j \in JobIds, job'[j].state = "completed"
  PROVE  accepted[KeyOf(j)] > 0
<1>1. CASE job[j].state = "completed"
  BY <1>1 DEF WorkInv, DeliveredIsTrue
<1>2. ASSUME NEW w \in Workers, Complete(w), job[j].state # "completed"
      PROVE  accepted[KeyOf(j)] > 0
  <2>1. j = run[w].job
    BY <1>2 DEF Complete, MoveToCompleted, TypeInv, TypeOK, QueueTypeOK
  <2>. QED  BY <1>2, <2>1 DEF Complete, WorkInv, SlotsInv
<1>3. job[j].state = "completed" \/ \E w \in Workers : Complete(w)
  <2>1. job \in [JobIds -> Jobs]
    BY DEF TypeInv, TypeOK, QueueTypeOK
  <2>2. \A i \in JobIds : MoveToFailed(i) \/ Stall(i) \/ StallOut(i)
                         => (job'[j].state = "completed" => job[j].state = "completed")
    BY <2>1 DEF MoveToFailed, Stall, StallOut, Jobs
  <2>3. \A i \in JobIds, w \in Workers : MoveToActive(i, w)
                         => (job'[j].state = "completed" => job[j].state = "completed")
    BY <2>1 DEF MoveToActive, Jobs
  <2>4. ASSUME NEW w \in Workers, Fail(w) PROVE job[j].state = "completed"
    BY <2>2, <2>4 DEF Fail, TypeInv
  <2>. QED
    BY <2>2, <2>3, <2>4
       DEF Work, WorkerNext, Step, Take, LoadEvent, DeliverAccepted, DeliverUnheard,
           DeliverRefused, RecordDelivered, RecordFailure, LockExpires,
           GiveUpStalled, WorkerRestart
<1>. QED  BY <1>1, <1>2, <1>3

\* The workers keep the whole of what they rely on.
LEMMA WorkKeepsWorkInv ==
  ASSUME TypeInv, WorkInv, Work
  PROVE  WorkInv'
<1>1. DeliveredIsTrue'
  BY AcceptedGrows, WorkWrites, CompletionIsTrue, KeyTyped DEF WorkInv, DeliveredIsTrue
<1>2. AttemptCountBounded'
  BY WorkWrites DEF WorkInv, AttemptCountBounded
<1>. QED  BY <1>1, <1>2, WorkKeepsBudget, WorkKeepsSlots DEF WorkInv

\* The strengthened invariant of the pipeline.
THEOREM InvariantAlways == Spec => []IInv
<1>1. Init => WorkInv
  <2>1. \A d \in Destinations : Attempts[d] \in Nat \ {0}
    BY AttemptsAssumption
  <2>. QED
    BY <2>1, MaxStallsAssumption
       DEF Init, DatabaseInit, QueueInit, WorkerInit, WorkInv, SlotsInv, BudgetInv,
           NoticesInv, DeliveredIsTrue, StartsWithinBudget, AttemptCountBounded,
           Idle, Absent, NoRow, Live, JobIds, Deliveries
<1>2. TypeInv /\ WorkInv /\ [Next]_vars => WorkInv'
  <2>1. WorkInv /\ UNCHANGED vars => WorkInv'
    BY DEF vars, dbVars, workerVars, WorkInv, SlotsInv, BudgetInv, NoticesInv,
           DeliveredIsTrue, StartsWithinBudget, AttemptCountBounded, Live
  <2>. QED  BY <2>1, IngestKeepsWorkInv, WorkKeepsWorkInv DEF Next
<1>. QED  BY <1>1, <1>2, TypesAlways, IngestInvAlways, PTL DEF Spec, IInv

\* A 'delivered' row, a delivery time and a completed job are of deliveries the
\* destination took, in every interleaving of slots that lost their lock,
\* crashes, lost responses and late writes.
THEOREM DeliveredTruly == Spec => []DeliveredIsTrue
<1>1. IInv => DeliveredIsTrue
  BY DEF IInv, WorkInv
<1>. QED  BY <1>1, InvariantAlways, PTL

\* No job is begun more often than its attempts and stalls allow, for every
\* attempts policy and every stall limit.
THEOREM BeginsWithinBudget == Spec => []StartsWithinBudget
<1>1. IInv => StartsWithinBudget
  BY DEF IInv, WorkInv
<1>. QED  BY <1>1, InvariantAlways, PTL

\* The attempt number on record exceeds the job's attempts by at most one,
\* which is the one the failed listener adds twice.
THEOREM AttemptNumberBounded == Spec => []AttemptCountBounded
<1>1. IInv => AttemptCountBounded
  BY DEF IInv, WorkInv
<1>. QED  BY <1>1, InvariantAlways, PTL

\* No write of the pipeline takes a delivery time off the record.
THEOREM DeliveryTimeStays == Spec => DeliveryTimeKept
<1> DEFINE Kept == \A k \in Deliveries : row[k].deliveredAt => row'[k].deliveredAt
<1>1. IInv /\ [Next]_vars => [Kept]_vars
  <2> SUFFICES ASSUME IInv, Next PROVE Kept
    OBVIOUS
  <2>1. CASE Ingest
    BY <2>1 DEF Ingest, IngestNext, IngestStep, Reject, Accept, Insert,
                InsertIfNotExists, InsertError, Respond, AddLands, AddFails,
                ApiRestart, dbVars
  <2>2. CASE Work
    BY <2>2, WorkWrites DEF IInv
  <2>. QED  BY <2>1, <2>2 DEF Next
<1>. QED  BY <1>1, InvariantAlways, PTL DEF Spec, DeliveryTimeKept

-----------------------------------------------------------------------------
(* Counting slots and licences.                                            *)

\* How the sizes of two finite sets compare when they differ by one slot.
LEMMA Counting ==
  ASSUME NEW S, IsFiniteSet(S), NEW T
  PROVE  /\ Cardinality(S) \in Nat
         /\ T \subseteq S =>
              Cardinality(T) \in Nat /\ Cardinality(T) <= Cardinality(S)
         /\ \A x : T \subseteq S \cup {x} =>
              Cardinality(T) \in Nat /\ Cardinality(T) <= Cardinality(S) + 1
         /\ \A x : x \in S /\ T \subseteq S \ {x} =>
              Cardinality(T) \in Nat /\ Cardinality(T) + 1 <= Cardinality(S)
<1>1. Cardinality(S) \in Nat
  BY FS_CardinalityType
<1>2. ASSUME T \subseteq S PROVE Cardinality(T) \in Nat /\ Cardinality(T) <= Cardinality(S)
  BY <1>2, FS_Subset, FS_CardinalityType
<1>3. ASSUME NEW x, T \subseteq S \cup {x}
      PROVE  Cardinality(T) \in Nat /\ Cardinality(T) <= Cardinality(S) + 1
  <2>1. IsFiniteSet(S \cup {x}) /\ Cardinality(S \cup {x}) \in Nat
        /\ Cardinality(S \cup {x}) <= Cardinality(S) + 1
    BY <1>1, FS_AddElement, FS_CardinalityType
  <2>2. IsFiniteSet(T) /\ Cardinality(T) <= Cardinality(S \cup {x})
    BY <1>3, <2>1, FS_Subset
  <2>. QED  BY <1>1, <2>1, <2>2, FS_CardinalityType
<1>4. ASSUME NEW x, x \in S, T \subseteq S \ {x}
      PROVE  Cardinality(T) \in Nat /\ Cardinality(T) + 1 <= Cardinality(S)
  <2>1. IsFiniteSet(S \ {x}) /\ Cardinality(S \ {x}) = Cardinality(S) - 1
    BY <1>4, FS_RemoveElement
  <2>2. IsFiniteSet(T) /\ Cardinality(T) <= Cardinality(S \ {x})
    BY <1>4, <2>1, FS_Subset
  <2>. QED  BY <1>1, <2>1, <2>2, FS_CardinalityType
<1>. QED  BY <1>1, <1>2, <1>3, <1>4

-----------------------------------------------------------------------------
(* The moves of a slot.                                                    *)

\* Slot w goes on with its job, from one of the phases to another.
Moves(w, before, after) ==
  /\ run[w].phase \in before /\ run'[w].phase \in after
  /\ run'[w].job = run[w].job
  /\ \A v \in Workers : v # w => run'[v] = run[v]

\* Slot w is rid of its job.
LetsGo(w) ==
  /\ run'[w] = Idle
  /\ \A v \in Workers : v # w => run'[v] = run[v]

\* What each action of a slot is to the slots.
LEMMA SlotMoves ==
  ASSUME TypeInv, NEW w \in Workers
  PROVE  /\ LoadEvent(w) => Moves(w, {"loading"}, {"delivering", "throwing"})
         /\ DeliverAccepted(w) => Moves(w, {"delivering"}, {"recording"})
         /\ DeliverUnheard(w) => Moves(w, {"delivering"}, {"throwing"})
         /\ DeliverRefused(w) => Moves(w, {"delivering"}, {"throwing"})
         /\ RecordDelivered(w) => Moves(w, {"recording"}, {"completing"})
         /\ Complete(w) => LetsGo(w) /\ run[w].phase = "completing"
         /\ Fail(w) => LetsGo(w) /\ run[w].phase = "throwing"
         /\ WorkerRestart(w) => LetsGo(w)
<1>1. run \in [Workers -> Runs]
  BY DEF TypeInv, TypeOK, WorkerTypeOK
<1>2. ASSUME NEW p, run' = [run EXCEPT ![w].phase = p] PROVE Moves(w, {run[w].phase}, {p})
  BY <1>1, <1>2 DEF Moves, Runs
<1>3. ASSUME NEW f, Throw(w, f) PROVE Moves(w, {run[w].phase}, {"throwing"})
  BY <1>1, <1>3 DEF Moves, Throw, Runs
<1>4. ASSUME run' = [run EXCEPT ![w] = Idle] PROVE LetsGo(w)
  BY <1>1, <1>4 DEF LetsGo
<1>5. LoadEvent(w) => Moves(w, {"loading"}, {"delivering", "throwing"})
  BY <1>2, <1>3 DEF LoadEvent, Moves
<1>6. DeliverAccepted(w) => Moves(w, {"delivering"}, {"recording"})
  BY <1>2 DEF DeliverAccepted, Moves
<1>7. DeliverUnheard(w) => Moves(w, {"delivering"}, {"throwing"})
  BY <1>3 DEF DeliverUnheard, Moves
<1>8. DeliverRefused(w) => Moves(w, {"delivering"}, {"throwing"})
  BY <1>3 DEF DeliverRefused, Moves
<1>9. RecordDelivered(w) => Moves(w, {"recording"}, {"completing"})
  BY <1>2 DEF RecordDelivered, Moves
<1>10. /\ Complete(w) => LetsGo(w) /\ run[w].phase = "completing"
       /\ Fail(w) => LetsGo(w) /\ run[w].phase = "throwing"
       /\ WorkerRestart(w) => LetsGo(w)
  BY <1>4 DEF Complete, Fail, WorkerRestart
<1>. QED  BY <1>5, <1>6, <1>7, <1>8, <1>9, <1>10

\* What a slot does when it takes a job.
LEMMA TakeMoves ==
  ASSUME TypeInv, NEW w \in Workers, NEW i \in JobIds, Take(w, i)
  PROVE  /\ run[w].phase = "idle" /\ run'[w].job = i /\ run'[w].phase = "loading"
         /\ \A v \in Workers : v # w => run'[v] = run[v]
         /\ job[i].state = "waiting"
<1>1. run \in [Workers -> Runs]
  BY DEF TypeInv, TypeOK, WorkerTypeOK
<1>. QED  BY <1>1 DEF Take, MoveToActive

\* A failed attempt leaves its job waiting or failed, and the others alone.
LEMMA FailedJob ==
  ASSUME job \in [JobIds -> Jobs], NEW i \in JobIds, MoveToFailed(i)
  PROVE  /\ job'[i].state \in {"waiting", "failed"}
         /\ job'[i].stalls = job[i].stalls
         /\ \A j \in JobIds : j # i => job'[j] = job[j]
<1> DEFINE left == IF job[i].made + 1 < Attempts[i.dest] THEN "waiting" ELSE "failed"
<1>1. job' = [job EXCEPT ![i].state = left, ![i].made = @ + 1, ![i].holder = NoWorker]
  BY DEF MoveToFailed
<1>2. left \in {"waiting", "failed"}
  OBVIOUS
<1> HIDE DEF left
<1>. QED  BY <1>1, <1>2 DEF Jobs

\* A step of the workers touches at most one job, which is there and stays.
LEMMA WorkTouchesOneJob ==
  ASSUME TypeInv, Work
  PROVE  \/ job' = job
         \/ \E i \in JobIds :
              /\ job[i].state # "absent" /\ job'[i].state # "absent"
              /\ job'[i].stalls \in {job[i].stalls, job[i].stalls + 1}
              /\ \A j \in JobIds : j # i => job'[j] = job[j]
<1> DEFINE Touched(i) ==
      /\ job[i].state # "absent" /\ job'[i].state # "absent"
      /\ job'[i].stalls \in {job[i].stalls, job[i].stalls + 1}
      /\ \A j \in JobIds : j # i => job'[j] = job[j]
<1>1. job \in [JobIds -> Jobs]
  BY DEF TypeInv, TypeOK, QueueTypeOK
<1>2. ASSUME NEW w \in Workers, NEW i \in JobIds, Take(w, i) PROVE Touched(i)
  BY <1>1, <1>2 DEF Take, MoveToActive, Jobs
<1>3. ASSUME NEW w \in Workers, Complete(w), Holds(w, run[w].job)
      PROVE  run[w].job \in JobIds /\ Touched(run[w].job)
  <2>1. run[w].job \in JobIds
    BY <1>3 DEF Complete, TypeInv
  <2>. QED  BY <1>1, <1>3, <2>1 DEF Complete, MoveToCompleted, Jobs, Holds
<1>4. ASSUME NEW w \in Workers, Fail(w), Holds(w, run[w].job)
      PROVE  run[w].job \in JobIds /\ Touched(run[w].job)
  <2>1. run[w].job \in JobIds
    BY <1>4 DEF Fail, TypeInv
  <2>. QED  BY <1>1, <1>4, <2>1, FailedJob DEF Fail, Holds
<1>5. ASSUME NEW i \in JobIds, Stall(i) \/ StallOut(i) PROVE Touched(i)
  BY <1>1, <1>5 DEF Stall, StallOut, Jobs
<1> HIDE DEF Touched
<1>6. \/ job' = job
      \/ \E w \in Workers : Complete(w) /\ Holds(w, run[w].job)
      \/ \E w \in Workers : Fail(w) /\ Holds(w, run[w].job)
      \/ \E w \in Workers, i \in JobIds : Take(w, i)
      \/ \E i \in JobIds : Stall(i) \/ StallOut(i)
  BY DEF Work, WorkerNext, Step, LoadEvent, DeliverAccepted, DeliverUnheard,
         DeliverRefused, RecordDelivered, RecordFailure, Complete, Fail,
         WorkerRestart, LockExpires, GiveUpStalled
<1>7. job' = job \/ \E i \in JobIds : Touched(i)
  BY <1>2, <1>3, <1>4, <1>5, <1>6
<1>. QED  BY <1>7 DEF Touched

\* A slot that may still deliver a job whose lock it lost.
Stray(w) ==
  run[w].phase \in {"loading", "delivering"} /\ ~Holds(w, run[w].job)

Strays(k) == {w \in Workers : Stray(w) /\ KeyOf(run[w].job) = k}

\* The holder of the job's lock may have delivered it and been heard: it is
\* past the answer, or it is gone.
Heard(j) ==
  \/ job[j].state = "completed"
  \/ /\ job[j].state = "active"
     /\ \A w \in Workers :
          job[j].holder = w =>
            ~(run[w].job = j /\ run[w].phase \in {"loading", "delivering", "throwing"})

\* The licences that are used up: one for every stall, and the one of a job
\* whose holder may have been heard.
Paid(k) == {x \in Licences(k) : x[2] > 0 \/ Heard(x[1])}

\* Every delivery the destination took, or may still take from a stray slot,
\* was not heard or has a licence of its own.
TallyInv ==
  \A k \in Deliveries :
    /\ IsFiniteSet(Licences(k))
    /\ accepted[k] + Cardinality(Strays(k)) <= unheard[k] + Cardinality(Paid(k))

\* What a licence is, before and after a step.
LEMMA LicencesAre ==
  ASSUME NEW k
  PROVE  /\ \A j, n : <<j, n>> \in Licences(k) <=>
              j \in JobIds /\ KeyOf(j) = k /\ job[j].state # "absent"
              /\ n \in 0 .. job[j].stalls
         /\ \A x \in Licences(k) : x = <<x[1], x[2]>>
         /\ \A j, n : <<j, n>> \in Licences(k)' <=>
              j \in JobIds /\ KeyOf(j) = k /\ job'[j].state # "absent"
              /\ n \in 0 .. job'[j].stalls
         /\ \A x \in Licences(k)' : x = <<x[1], x[2]>>
<1>1. ASSUME NEW q, NEW J, NEW L, L = UNION {{j} \X (0 .. q[j].stalls) : j \in J}
      PROVE  /\ \A j, n : <<j, n>> \in L <=> j \in J /\ n \in 0 .. q[j].stalls
             /\ \A x \in L : x = <<x[1], x[2]>>
  <2>1. \A x : x \in L <=> \E j \in J : x \in {j} \X (0 .. q[j].stalls)
    BY <1>1
  <2>. QED  BY <2>1
<1>2. Licences(k) = UNION {{j} \X (0 .. job[j].stalls) : j \in JobsOf(k)}
  BY DEF Licences
<1>3. Licences(k)' = UNION {{j} \X (0 .. job'[j].stalls) : j \in JobsOf(k)'}
  BY DEF Licences
<1>4. /\ \A j, n : <<j, n>> \in Licences(k) <=> j \in JobsOf(k) /\ n \in 0 .. job[j].stalls
      /\ \A x \in Licences(k) : x = <<x[1], x[2]>>
  BY <1>1, <1>2
<1>5. /\ \A j, n : <<j, n>> \in Licences(k)' <=> j \in JobsOf(k)' /\ n \in 0 .. job'[j].stalls
      /\ \A x \in Licences(k)' : x = <<x[1], x[2]>>
  BY <1>1, <1>3
<1>. QED  BY <1>4, <1>5 DEF JobsOf

\* The stray slots of a delivery are finitely many, and so are the licences
\* that are used up.
LEMMA FewStrays ==
  ASSUME NEW k
  PROVE  IsFiniteSet(Strays(k)) /\ (IsFiniteSet(Licences(k)) => IsFiniteSet(Paid(k)))
<1>1. Strays(k) \in SUBSET Workers /\ Paid(k) \in SUBSET Licences(k)
  BY DEF Strays, Paid
<1>. QED  BY <1>1, WorkersAssumption, FS_Subset

\* A set that gains an element, whichever it may lose, is no smaller.
LEMMA Swap ==
  ASSUME NEW P, NEW Q, IsFiniteSet(P), IsFiniteSet(Q),
         NEW x, NEW y, y \notin P, (P \ {x}) \cup {y} \subseteq Q
  PROVE  Cardinality(P) <= Cardinality(Q)
<1>1. /\ IsFiniteSet(Q \ {y}) /\ Cardinality(Q \ {y}) = Cardinality(Q) - 1
      /\ Cardinality(Q) \in Nat /\ Cardinality(P) \in Nat
  BY FS_RemoveElement, FS_CardinalityType
<1>2. P \subseteq (Q \ {y}) \cup {x}
  OBVIOUS
<1>3. Cardinality(P) <= Cardinality(Q \ {y}) + 1
  BY <1>1, <1>2, Counting
<1>. QED  BY <1>1, <1>3

\* How the balance of two finite sets fares when each changes by an element.
LEMMA Balance ==
  ASSUME NEW S, NEW T, NEW P, NEW Q, IsFiniteSet(S), IsFiniteSet(P), IsFiniteSet(Q),
         NEW a \in Nat, NEW b \in Nat, NEW u \in Nat, NEW v \in Nat, NEW x, NEW y,
         a + Cardinality(S) <= u + Cardinality(P),
         \/ T \subseteq S /\ P \subseteq Q /\ b = a /\ v = u
         \/ T \subseteq S /\ P \subseteq Q /\ b = a + 1 /\ v = u + 1
         \/ x \in S /\ T \subseteq S \ {x} /\ P \subseteq Q /\ b = a + 1 /\ v = u
         \/ T \subseteq S /\ y \notin P /\ P \cup {y} \subseteq Q /\ b = a + 1 /\ v = u
         \/ /\ T \subseteq S \cup {x} /\ y \notin P /\ P \cup {y} \subseteq Q
            /\ b = a /\ v = u
  PROVE  b + Cardinality(T) <= v + Cardinality(Q)
<1>1. /\ Cardinality(S) \in Nat /\ Cardinality(P) \in Nat /\ Cardinality(Q) \in Nat
      /\ T \subseteq S => Cardinality(T) \in Nat /\ Cardinality(T) <= Cardinality(S)
      /\ \A z : T \subseteq S \cup {z} =>
           Cardinality(T) \in Nat /\ Cardinality(T) <= Cardinality(S) + 1
      /\ \A z : z \in S /\ T \subseteq S \ {z} =>
           Cardinality(T) \in Nat /\ Cardinality(T) + 1 <= Cardinality(S)
  BY Counting, FS_CardinalityType
<1>2. /\ P \subseteq Q => Cardinality(P) <= Cardinality(Q)
      /\ y \notin P /\ P \cup {y} \subseteq Q => Cardinality(P) + 1 <= Cardinality(Q)
  BY Counting
<1>. QED  BY <1>1, <1>2

\* A step that leaves the licences in place, and what is heard, uses up as many.
LEMMA PaidStays ==
  ASSUME NEW k, Licences(k) \subseteq Licences(k)',
         \A j \in JobIds : KeyOf(j) = k /\ Heard(j) => Heard(j)'
  PROVE  Paid(k) \subseteq Paid(k)'
<1>1. \A x \in Licences(k) : x[1] \in JobIds /\ KeyOf(x[1]) = k
  BY LicencesAre
<1>. QED  BY <1>1 DEF Paid

\* An added job brings a licence that nothing has used up yet.
LEMMA AddKeepsTally ==
  ASSUME TypeInv, BudgetInv, TallyInv, UNCHANGED <<run, accepted, unheard>>,
         job' = job \/ \E j \in JobIds : Add(j)
  PROVE  TallyInv'
<1> SUFFICES ASSUME NEW k \in Deliveries
             PROVE  /\ IsFiniteSet(Licences(k)')
                    /\ accepted'[k] + Cardinality(Strays(k)')
                         <= unheard'[k] + Cardinality(Paid(k)')
  BY DEF TallyInv
<1>1. job \in [JobIds -> Jobs]
  BY DEF TypeInv, TypeOK, QueueTypeOK
<1>2. CASE job' = job
  <2>1. /\ Licences(k)' = Licences(k) /\ Strays(k)' = Strays(k)
        /\ \A j : Heard(j)' <=> Heard(j)
    BY <1>2 DEF Licences, JobsOf, Strays, Stray, Holds, Heard
  <2>2. Paid(k)' = Paid(k)
    BY <2>1 DEF Paid
  <2>. QED  BY <2>1, <2>2 DEF TallyInv
<1>3. ASSUME NEW i \in JobIds, job' # job, Add(i)
      PROVE  /\ IsFiniteSet(Licences(k)')
             /\ accepted'[k] + Cardinality(Strays(k)')
                  <= unheard'[k] + Cardinality(Paid(k)')
  <2>1. /\ job[i] = Absent /\ job'[i] = [Absent EXCEPT !.state = "waiting"]
        /\ \A j \in JobIds : j # i => job'[j] = job[j]
    BY <1>1, <1>3 DEF Add, BudgetInv
  <2>2. /\ \A j \in JobIds : j # i => (Heard(j)' <=> Heard(j))
        /\ \A j \in JobIds, w \in Workers : Holds(w, j)' <=> Holds(w, j)
        /\ ~Heard(i)'
    BY <2>1 DEF Heard, Holds, Absent
  <2>3. Strays(k)' = Strays(k)
    BY <2>2 DEF Strays, Stray, TypeInv
  <2>4. Licences(k) \subseteq Licences(k)' /\ Licences(k)' \subseteq Licences(k) \cup {<<i, 0>>}
    <3>1. \A j, n : <<j, n>> \in Licences(k) => <<j, n>> \in Licences(k)'
      BY <2>1, LicencesAre DEF Absent
    <3>2. \A j, n : <<j, n>> \in Licences(k)' => <<j, n>> \in Licences(k) \cup {<<i, 0>>}
      BY <2>1, LicencesAre DEF Absent
    <3>. QED  BY <3>1, <3>2, LicencesAre
  <2>5. IsFiniteSet(Licences(k)')
    BY <2>4, FS_AddElement, FS_Subset DEF TallyInv
  <2>6. Paid(k)' = Paid(k)
    <3>1. \A x \in Licences(k) : x[1] # i
      BY <2>1, LicencesAre DEF Absent
    <3>2. \A x \in Licences(k) : x[1] \in JobIds
      BY LicencesAre
    <3>3. <<i, 0>> \notin Paid(k)'
      BY <2>2 DEF Paid
    <3>. QED  BY <2>2, <2>4, <3>1, <3>2, <3>3 DEF Paid
  <2>. QED  BY <2>3, <2>5, <2>6 DEF TallyInv
<1>. QED  BY <1>2, <1>3

\* The workers' steps add a licence at a time and take none away.
LEMMA LicencesStay ==
  ASSUME TypeInv, Work, NEW k, IsFiniteSet(Licences(k))
  PROVE  Licences(k) \subseteq Licences(k)' /\ IsFiniteSet(Licences(k)')
<1>1. \A j \in JobIds : job[j].stalls \in Nat
  BY DEF TypeInv, TypeOK, QueueTypeOK, Jobs
<1>2. CASE job' = job
  BY <1>2 DEF Licences, JobsOf
<1>3. ASSUME NEW i \in JobIds,
             job[i].state # "absent", job'[i].state # "absent",
             job'[i].stalls \in {job[i].stalls, job[i].stalls + 1},
             \A j \in JobIds : j # i => job'[j] = job[j]
      PROVE  Licences(k) \subseteq Licences(k)' /\ IsFiniteSet(Licences(k)')
  <2> DEFINE x == <<i, job[i].stalls + 1>>
  <2>1. \A j, n : <<j, n>> \in Licences(k) => <<j, n>> \in Licences(k)'
    BY <1>1, <1>3, LicencesAre
  <2>2. \A j, n : <<j, n>> \in Licences(k)' => <<j, n>> \in Licences(k) \cup {x}
    BY <1>1, <1>3, LicencesAre
  <2>3. /\ Licences(k) \subseteq Licences(k)'
        /\ Licences(k)' \subseteq Licences(k) \cup {x}
    BY <2>1, <2>2, LicencesAre
  <2> HIDE DEF x
  <2>. QED  BY <2>3, FS_AddElement, FS_Subset
<1>. QED  BY <1>2, <1>3, WorkTouchesOneJob

\* A job nobody touches, and whose holder does not start to try, is heard of
\* as before; and a slot becomes a stray only as it takes a job.
LEMMA StandingKept ==
  ASSUME NEW j, NEW w \in Workers, job'[j] = job[j],
         \A v \in Workers : v # w => run'[v] = run[v],
         \/ run'[w].job # j
         \/ run'[w].phase \notin {"loading", "delivering", "throwing"}
         \/ /\ run'[w].job = run[w].job
            /\ run[w].phase \in {"loading", "delivering"}
  PROVE  Heard(j) => Heard(j)'
<1>1. ASSUME NEW v \in Workers, run'[v].job = j,
             run'[v].phase \in {"loading", "delivering", "throwing"}
      PROVE  run[v].job = j /\ run[v].phase \in {"loading", "delivering", "throwing"}
  BY <1>1
<1>. QED  BY <1>1 DEF Heard

\* A step of slot w on its own job: where it goes, and who is a stray then.
LEMMA StraysMove ==
  ASSUME TypeInv, NEW w \in Workers, NEW k, job' = job,
         \/ LetsGo(w)
         \/ Moves(w, {"loading"}, {"delivering", "throwing"})
         \/ Moves(w, {"delivering"}, {"throwing"})
         \/ Moves(w, {"delivering"}, {"recording"})
         \/ Moves(w, {"recording"}, {"completing"})
  PROVE  /\ Strays(k)' \subseteq Strays(k)
         /\ run'[w].phase \notin {"loading", "delivering"} => w \notin Strays(k)'
         /\ \A j \in JobIds : Heard(j) => Heard(j)'
<1>1. \A v \in Workers : v # w => run'[v] = run[v]
  BY DEF LetsGo, Moves
<1>2. \/ run'[w].phase \notin {"loading", "delivering", "throwing"}
      \/ run'[w].job = run[w].job /\ run[w].phase \in {"loading", "delivering"}
  BY DEF LetsGo, Moves, Idle
<1>3. \A j \in JobIds : Heard(j) => Heard(j)'
  BY <1>1, <1>2, StandingKept
<1>4. \A v \in Workers : Stray(v)' => Stray(v) /\ run'[v].job = run[v].job
  BY <1>1, <1>2 DEF Stray, Holds
<1>. QED  BY <1>3, <1>4 DEF Strays, Stray

\* The workers keep the tally: what each of their steps does to it.
LEMMA WorkKeepsTally ==
  ASSUME TypeInv, TallyInv, Work
  PROVE  TallyInv'
<1> SUFFICES ASSUME NEW k \in Deliveries
             PROVE  accepted'[k] + Cardinality(Strays(k)')
                      <= unheard'[k] + Cardinality(Paid(k)')
  BY LicencesStay DEF TallyInv
<1> DEFINE S == Strays(k)
           T == Strays(k)'
           P == Paid(k)
           Q == Paid(k)'
           Goal == accepted'[k] + Cardinality(T) <= unheard'[k] + Cardinality(Q)
<1>1. /\ job \in [JobIds -> Jobs] /\ run \in [Workers -> Runs]
      /\ accepted \in [Deliveries -> Nat] /\ unheard \in [Deliveries -> Nat]
      /\ \A j \in JobIds : job[j].stalls \in Nat
  BY DEF TypeInv, TypeOK, WorkerTypeOK, QueueTypeOK, Jobs
<1>2. /\ Licences(k) \subseteq Licences(k)'
      /\ IsFiniteSet(S) /\ IsFiniteSet(P) /\ IsFiniteSet(Q)
  <2>1. Licences(k) \subseteq Licences(k)' /\ IsFiniteSet(Licences(k)')
    BY LicencesStay DEF TallyInv
  <2>2. Paid(k)' \subseteq Licences(k)'
    BY DEF Paid
  <2>. QED  BY <2>1, <2>2, FewStrays, FS_Subset DEF TallyInv
<1>3. /\ accepted[k] \in Nat /\ unheard[k] \in Nat
      /\ accepted[k] + Cardinality(S) <= unheard[k] + Cardinality(P)
  BY <1>1 DEF TallyInv
<1>4. (\A j \in JobIds : KeyOf(j) = k /\ Heard(j) => Heard(j)') => P \subseteq Q
  BY <1>2, PaidStays
<1> HIDE DEF S, T, P, Q
\* Ways in which a step keeps the balance.
<1>5. ASSUME T \subseteq S, P \subseteq Q,
             accepted'[k] = accepted[k], unheard'[k] = unheard[k]
      PROVE  Goal
  BY <1>2, <1>3, <1>5, Balance
<1>6. ASSUME T \subseteq S, P \subseteq Q,
             accepted'[k] = accepted[k] + 1, unheard'[k] = unheard[k] + 1
      PROVE  Goal
  <2>1. accepted'[k] \in Nat /\ unheard'[k] \in Nat
    BY <1>3, <1>6
  <2>. QED  BY <1>2, <1>3, <1>6, <2>1, Balance DEF Goal
<1>7. ASSUME NEW x \in S, T \subseteq S \ {x}, P \subseteq Q,
             accepted'[k] = accepted[k] + 1, unheard'[k] = unheard[k]
      PROVE  Goal
  <2>1. accepted'[k] \in Nat /\ unheard'[k] \in Nat
    BY <1>3, <1>7
  <2>. QED  BY <1>2, <1>3, <1>7, <2>1, Balance DEF Goal
<1>8. ASSUME NEW y, y \notin P, P \cup {y} \subseteq Q, T \subseteq S,
             accepted'[k] = accepted[k] + 1, unheard'[k] = unheard[k]
      PROVE  Goal
  <2>1. accepted'[k] \in Nat /\ unheard'[k] \in Nat
    BY <1>3, <1>8
  <2>. QED  BY <1>2, <1>3, <1>8, <2>1, Balance DEF Goal
<1>9. ASSUME NEW x, NEW y, y \notin P, T \subseteq S \cup {x}, P \cup {y} \subseteq Q,
             accepted'[k] = accepted[k], unheard'[k] = unheard[k]
      PROVE  Goal
  BY <1>2, <1>3, <1>9, Balance
<1>10. ASSUME NEW x, NEW y, y \notin P, T \subseteq S, (P \ {x}) \cup {y} \subseteq Q,
              accepted'[k] = accepted[k], unheard'[k] = unheard[k]
       PROVE  Goal
  <2>1. Cardinality(P) <= Cardinality(Q)
    BY <1>2, <1>10, Swap
  <2>2. Cardinality(T) \in Nat /\ Cardinality(T) <= Cardinality(S)
    BY <1>2, <1>10, Counting
  <2>. QED  BY <1>2, <1>3, <1>10, <2>1, <2>2, FS_CardinalityType DEF Goal
<1> HIDE DEF Goal
\* The steps.
<1>11. ASSUME NEW w \in Workers, NEW i \in JobIds, Take(w, i) PROVE Goal
  <2>1. /\ accepted' = accepted /\ unheard' = unheard
        /\ job[i].state = "waiting"
        /\ job' = [job EXCEPT ![i].state = "active", ![i].holder = w]
    BY <1>11 DEF Take, MoveToActive
  <2>2. /\ run'[w].job = i /\ \A v \in Workers : v # w => run'[v] = run[v]
        /\ Holds(w, i)'
    BY <1>1, <1>11, <2>1, TakeMoves DEF Holds, Jobs
  <2>3. ASSUME NEW j \in JobIds, Heard(j) PROVE Heard(j)'
    <3>1. j # i
      BY <2>1, <2>3 DEF Heard
    <3>. QED  BY <1>1, <2>1, <2>2, <2>3, <3>1, StandingKept
  <2>4. ASSUME NEW v \in Workers, Stray(v)' PROVE Stray(v) /\ run'[v] = run[v]
    <3>1. v # w
      BY <2>2, <2>4 DEF Stray
    <3>2. run[v].phase # "idle"
      BY <2>2, <2>4, <3>1 DEF Stray
    <3>3. run[v].job \in JobIds
      BY <3>2 DEF TypeInv
    <3>. QED  BY <1>1, <2>1, <2>2, <2>4, <3>1, <3>3 DEF Stray, Holds
  <2>5. T \subseteq S
    BY <2>4 DEF S, T, Strays
  <2>. QED  BY <1>4, <1>5, <2>1, <2>3, <2>5
<1>12. ASSUME NEW w \in Workers, DeliverAccepted(w) \/ DeliverUnheard(w) PROVE Goal
  <2> PICK j : j = run[w].job
    OBVIOUS
  <2>1. /\ job' = job
        /\ accepted' = [accepted EXCEPT ![KeyOf(j)] = @ + 1]
        /\ run[w].phase = "delivering"
    BY <1>12 DEF DeliverAccepted, DeliverUnheard
  <2>2. j \in JobIds
    BY <2>1 DEF TypeInv
  <2>3. \/ Moves(w, {"delivering"}, {"recording"})
        \/ Moves(w, {"delivering"}, {"throwing"})
    BY <1>12, SlotMoves
  <2>4. /\ T \subseteq S /\ w \notin T
        /\ \A i \in JobIds : Heard(i) => Heard(i)'
    BY <2>1, <2>3, StraysMove DEF S, T, Moves
  <2>5. P \subseteq Q
    BY <1>4, <2>4
  <2>6. CASE KeyOf(j) # k
    <3>1. accepted'[k] = accepted[k] /\ unheard'[k] = unheard[k]
      BY <1>1, <1>12, <2>1, <2>6 DEF DeliverAccepted, DeliverUnheard
    <3>. QED  BY <1>5, <2>4, <2>5, <3>1
  <2>7. CASE KeyOf(j) = k /\ DeliverUnheard(w)
    <3>1. accepted'[k] = accepted[k] + 1 /\ unheard'[k] = unheard[k] + 1
      BY <1>1, <2>1, <2>7 DEF DeliverUnheard
    <3>. QED  BY <1>6, <2>4, <2>5, <3>1
  <2>8. CASE KeyOf(j) = k /\ DeliverAccepted(w)
    <3>1. accepted'[k] = accepted[k] + 1 /\ unheard'[k] = unheard[k]
      BY <1>1, <2>1, <2>8 DEF DeliverAccepted
    <3>2. run'[w].phase = "recording"
      BY <2>8, SlotMoves DEF Moves
    <3>3. CASE Holds(w, j)
      <4>1. ~Heard(j)
        BY <2>1, <3>3 DEF Heard, Holds
      <4>2. Heard(j)'
        BY <2>1, <3>2, <3>3 DEF Heard, Holds
      <4>3. <<j, 0>> \in Licences(k)
        BY <1>1, <2>2, <2>8, <3>3, LicencesAre DEF Holds
      <4>4. <<j, 0>> \notin P /\ <<j, 0>> \in Q
        BY <1>2, <4>1, <4>2, <4>3 DEF P, Q, Paid
      <4>. QED  BY <1>8, <2>4, <2>5, <3>1, <4>4
    <3>4. CASE ~Holds(w, j)
      <4>1. w \in S
        BY <2>1, <2>8, <3>4 DEF S, Strays, Stray
      <4>. QED  BY <1>7, <2>4, <2>5, <3>1, <4>1
    <3>. QED  BY <3>3, <3>4
  <2>. QED  BY <1>12, <2>6, <2>7, <2>8
<1>13. ASSUME NEW w \in Workers, \/ LoadEvent(w) \/ DeliverRefused(w)
                                 \/ RecordDelivered(w) \/ WorkerRestart(w)
       PROVE  Goal
  <2>1. job' = job /\ accepted' = accepted /\ unheard' = unheard
    BY <1>13 DEF LoadEvent, DeliverRefused, RecordDelivered, WorkerRestart, history
  <2>2. T \subseteq S /\ \A j \in JobIds : Heard(j) => Heard(j)'
    BY <1>13, <2>1, SlotMoves, StraysMove DEF S, T
  <2>. QED  BY <1>4, <1>5, <2>1, <2>2
<1>14. ASSUME NEW w \in Workers, Complete(w) \/ Fail(w) PROVE Goal
  <2> DEFINE i == run[w].job
  <2>1. /\ accepted' = accepted /\ unheard' = unheard
        /\ run[w].phase \in {"completing", "throwing"} /\ LetsGo(w)
    BY <1>14, SlotMoves DEF Complete, Fail, history
  <2>2. i \in JobIds
    BY <2>1 DEF TypeInv
  <2>3. CASE job' = job
    BY <1>4, <1>5, <2>1, <2>3, StraysMove DEF S, T
  <2>4. CASE job' # job
    <3>1. Holds(w, i)
      BY <1>14, <2>4 DEF Complete, Fail
    <3>2. \A j \in JobIds : j # i => job'[j] = job[j]
      BY <1>1, <1>14, <2>2, <3>1, FailedJob DEF Complete, Fail, MoveToCompleted
    <3>3. ASSUME NEW v \in Workers, Stray(v)' PROVE Stray(v) /\ run'[v] = run[v]
      <4>1. v # w /\ run'[v] = run[v]
        BY <2>1, <3>3 DEF Stray, LetsGo, Idle
      <4>2. run[v].job \in JobIds /\ ~Holds(v, i)
        BY <3>1, <3>3, <4>1 DEF Stray, TypeInv, Holds
      <4>. QED  BY <3>2, <3>3, <4>1, <4>2 DEF Stray, Holds
    <3>4. T \subseteq S
      BY <3>3 DEF S, T, Strays
    <3>5. ASSUME NEW j \in JobIds, Heard(j) PROVE Heard(j)'
      <4>1. CASE j # i
        BY <2>1, <3>2, <3>5, <4>1, StandingKept DEF LetsGo, Idle
      <4>2. CASE j = i /\ Complete(w)
        BY <1>1, <2>2, <3>1, <4>2 DEF Complete, MoveToCompleted, Jobs, Heard
      <4>3. CASE j = i /\ Fail(w)
        BY <3>1, <3>5, <4>3 DEF Fail, Heard, Holds
      <4>. QED  BY <1>14, <4>1, <4>2, <4>3
    <3>. QED  BY <1>4, <1>5, <2>1, <3>4, <3>5
  <2>. QED  BY <2>3, <2>4
<1>15. ASSUME NEW i \in JobIds, LockExpires(i) \/ \E w \in Workers : GiveUpStalled(i, w)
       PROVE  Goal
  <2> DEFINE y == <<i, job[i].stalls + 1>>
  <2>1. /\ accepted' = accepted /\ unheard' = unheard /\ run' = run
        /\ Stall(i) \/ StallOut(i)
    BY <1>15 DEF LockExpires, GiveUpStalled, history
  <2>2. /\ \A j \in JobIds : j # i => job'[j] = job[j]
        /\ job'[i].stalls = job[i].stalls + 1 /\ job[i].state = "active"
        /\ job'[i].state # "absent"
    BY <1>1, <2>1 DEF Stall, StallOut, Jobs
  <2>3. \A j \in JobIds : j # i /\ Heard(j) => Heard(j)'
    BY <2>1, <2>2 DEF Heard
  <2>4. ASSUME NEW v \in Workers, Stray(v)' PROVE Stray(v) \/ (Holds(v, i) /\ run[v].job = i)
    <3>1. run[v].job \in JobIds
      BY <2>1, <2>4 DEF Stray, TypeInv
    <3>2. CASE run[v].job # i
      BY <2>1, <2>2, <2>4, <3>1, <3>2 DEF Stray, Holds
    <3>3. CASE run[v].job = i
      BY <2>1, <2>4, <3>3 DEF Stray
    <3>. QED  BY <3>2, <3>3
  <2>5. CASE KeyOf(i) # k
    <3>1. T \subseteq S
      BY <2>1, <2>4, <2>5 DEF S, T, Strays
    <3>. QED  BY <1>4, <1>5, <2>1, <2>3, <2>5, <3>1
  <2>6. CASE KeyOf(i) = k
    <3>1. y \notin P /\ y \in Q
      <4>1. y \notin Licences(k) /\ y \in Licences(k)'
        BY <1>1, <2>2, <2>6, LicencesAre
      <4>. QED  BY <1>1, <4>1 DEF P, Q, Paid
    <3>2. \A x \in P : x # <<i, 0>> => x \in Q
      <4>1. SUFFICES ASSUME NEW x \in P, x # <<i, 0>> PROVE x \in Q
        OBVIOUS
      <4>2. /\ x \in Licences(k) /\ x = <<x[1], x[2]>>
            /\ x[1] \in JobIds /\ x[2] \in Nat
            /\ x[2] > 0 \/ Heard(x[1])
        BY <1>1, LicencesAre DEF P, Paid
      <4>3. x[2] > 0 \/ x[1] # i
        BY <4>1, <4>2
      <4>. QED  BY <1>2, <2>3, <4>2, <4>3 DEF Q, Paid
    <3> HIDE DEF y
    <3>3. CASE \E h \in Workers : Stray(h)' /\ ~Stray(h)
      <4>1. PICK h \in Workers : Stray(h)' /\ ~Stray(h)
        BY <3>3
      <4>2. Holds(h, i) /\ run[h].job = i /\ run[h].phase \in {"loading", "delivering"}
        BY <2>1, <2>4, <4>1 DEF Stray
      <4>3. \A v \in Workers : Stray(v)' /\ v # h => Stray(v)
        BY <2>4, <4>2 DEF Holds
      <4>4. T \subseteq S \cup {h}
        BY <2>1, <4>3 DEF S, T, Strays
      <4>5. <<i, 0>> \notin P
        BY <4>2 DEF P, Paid, Heard, Holds
      <4>. QED  BY <1>9, <2>1, <3>1, <3>2, <4>4, <4>5
    <3>4. CASE \A h \in Workers : Stray(h)' => Stray(h)
      <4>1. T \subseteq S
        BY <2>1, <3>4 DEF S, T, Strays
      <4>2. (P \ {<<i, 0>>}) \cup {y} \subseteq Q
        BY <3>1, <3>2
      <4>. QED  BY <1>10, <2>1, <3>1, <4>1, <4>2
    <3>. QED  BY <3>3, <3>4
  <2>. QED  BY <2>5, <2>6
<1>16. ASSUME NEW n \in notices, RecordFailure(n) PROVE Goal
  <2>1. /\ accepted' = accepted /\ unheard' = unheard /\ run' = run /\ job' = job
    BY <1>16 DEF RecordFailure, history
  <2>2. T \subseteq S /\ \A j \in JobIds : Heard(j) => Heard(j)'
    BY <2>1 DEF S, T, Strays, Stray, Heard, Holds
  <2>. QED  BY <1>4, <1>5, <2>1, <2>2
<1>17. Goal
  BY <1>11, <1>12, <1>13, <1>14, <1>15, <1>16 DEF Work, WorkerNext, Step
<1>. QED  BY <1>17 DEF Goal, S, T, P, Q

\* What the ingestion does beside: it adds a job at most.
LEMMA IngestKeepsTally ==
  ASSUME TypeInv, BudgetInv, TallyInv, Ingest
  PROVE  TallyInv'
<1>1. UNCHANGED <<run, accepted, unheard>>
  BY DEF Ingest, workerVars
<1>2. job' = job \/ \E k \in adds : Add(OriginalJob(k))
  BY DEF Ingest, IngestNext, IngestStep, Reject, Accept, Insert, InsertError, Respond,
         AddLands, AddFails, ApiRestart, OriginalJob
<1>3. \A k \in adds : OriginalJob(k) \in JobIds
  BY KeyTyped DEF TypeInv, TypeOK, IngestTypeOK
<1>. QED  BY <1>1, <1>2, <1>3, AddKeepsTally

\* Nothing is delivered, owed or licensed at first, nor lost by doing nothing.
LEMMA TallyStands ==
  /\ Init => TallyInv
  /\ TallyInv /\ UNCHANGED vars => TallyInv'
<1>1. ASSUME Init PROVE TallyInv
  <2>1. \A k : Strays(k) = {} /\ Licences(k) = {} /\ Paid(k) = {}
    BY <1>1 DEF Init, WorkerInit, QueueInit, Idle, Absent, Strays, Stray, Licences,
                JobsOf, Paid
  <2>2. IsFiniteSet({}) /\ Cardinality({}) = 0
    BY FS_EmptySet
  <2>. QED  BY <1>1, <2>1, <2>2 DEF Init, WorkerInit, TallyInv
<1>2. ASSUME TallyInv, UNCHANGED vars PROVE TallyInv'
  <2>1. UNCHANGED <<job, run, accepted, unheard>>
    BY <1>2 DEF vars, workerVars
  <2>2. \A k : Strays(k)' = Strays(k) /\ Licences(k)' = Licences(k)
    BY <2>1 DEF Strays, Stray, Holds, Licences, JobsOf
  <2>3. \A k : Paid(k)' = Paid(k)
    BY <2>1, <2>2 DEF Paid, Heard
  <2>. QED  BY <1>2, <2>1, <2>2, <2>3 DEF TallyInv
<1>. QED  BY <1>1, <1>2

\* What the destination took is covered by what was not heard and by licences.
LEMMA TallyCovers ==
  ASSUME TypeInv, TallyInv, NEW k \in Deliveries
  PROVE  /\ IsFiniteSet(Licences(k))
         /\ accepted[k] <= unheard[k] + Cardinality(Licences(k))
<1>1. IsFiniteSet(Licences(k)) /\ Paid(k) \subseteq Licences(k)
  BY DEF TallyInv, Paid
<1>2. /\ Cardinality(Paid(k)) <= Cardinality(Licences(k))
      /\ Cardinality(Paid(k)) \in Nat /\ Cardinality(Licences(k)) \in Nat
      /\ Cardinality(Strays(k)) \in Nat
  BY <1>1, FewStrays, FS_Subset, FS_CardinalityType
<1>3. /\ accepted[k] \in Nat /\ unheard[k] \in Nat
      /\ accepted[k] + Cardinality(Strays(k)) <= unheard[k] + Cardinality(Paid(k))
  BY DEF TallyInv, TypeInv, TypeOK, WorkerTypeOK
<1>. QED  BY <1>1, <1>2, <1>3

-----------------------------------------------------------------------------
(* The ingestion counters: the calls in their handler are counted as they  *)
(* enter and leave it.                                                     *)

Handlers == {r \in Requests : InHandler(r)}

LEMMA HandlersFinite ==
  /\ IsFiniteSet(Handlers) /\ Cardinality(Handlers) \in Nat
  /\ IsFiniteSet(Handlers') /\ Cardinality(Handlers') \in Nat
BY FS_Subset, FS_CardinalityType, RequestsAssumption DEF Handlers

\* A call that enters its handler is one more, one that leaves it one less.
LEMMA HandlersMove ==
  ASSUME NEW r \in Requests,
         \A s \in Requests \ {r} : req'[s] = req[s]
  PROVE  /\ ~InHandler(r) /\ InHandler(r)' =>
              Cardinality(Handlers') = Cardinality(Handlers) + 1
         /\ InHandler(r) /\ ~InHandler(r)' =>
              Cardinality(Handlers') = Cardinality(Handlers) - 1
         /\ (InHandler(r) <=> InHandler(r)') =>
              Cardinality(Handlers') = Cardinality(Handlers)
<1>1. \A s \in Requests \ {r} : InHandler(s)' <=> InHandler(s)
  BY DEF InHandler
<1>2. CASE ~InHandler(r) /\ InHandler(r)'
  <2>1. Handlers' = Handlers \cup {r} /\ r \notin Handlers
    BY <1>1, <1>2 DEF Handlers
  <2> QED BY <1>2, <2>1, HandlersFinite, FS_AddElement
<1>3. CASE InHandler(r) /\ ~InHandler(r)'
  <2>1. Handlers' = Handlers \ {r} /\ r \in Handlers
    BY <1>1, <1>3 DEF Handlers
  <2> QED BY <1>3, <2>1, HandlersFinite, FS_RemoveElement
<1>4. CASE InHandler(r) <=> InHandler(r)'
  <2>1. Handlers' = Handlers
    BY <1>1, <1>4 DEF Handlers
  <2> QED BY <1>4, <2>1
<1> QED BY <1>2, <1>3, <1>4

LEMMA CountedOnce ==
  ASSUME metrics \in [Counters -> Nat], NEW counters, Counted(counters)
  PROVE  \A c \in Counters :
           metrics'[c] = metrics[c] + (IF c \in counters THEN 1 ELSE 0)
BY DEF Counted

LEMMA IngestBalances ==
  ASSUME IngestTypeInv, CountersBalance, IngestNext
  PROVE  CountersBalance'
<1>1. req \in [Requests -> ReqStates] /\ metrics \in [Counters -> Nat]
  BY DEF IngestTypeInv, IngestAloneTypeOK, IngestTypeOK
<1>2. CountersBalance <=>
        /\ metrics["requests"] =
             metrics["success"] + metrics["validation_error"]
             + metrics["internal_error"] + metrics["auth_failed"]
             + metrics["rate_limited"] + Cardinality(Handlers)
        /\ metrics["deduplicated"] <= metrics["success"]
  BY DEF CountersBalance, Handlers
<1>3. CountersBalance' <=>
        /\ metrics'["requests"] =
             metrics'["success"] + metrics'["validation_error"]
             + metrics'["internal_error"] + metrics'["auth_failed"]
             + metrics'["rate_limited"] + Cardinality(Handlers')
        /\ metrics'["deduplicated"] <= metrics'["success"]
  BY DEF CountersBalance, Handlers
<1>4. /\ metrics["requests"] \in Nat /\ metrics["success"] \in Nat
      /\ metrics["validation_error"] \in Nat /\ metrics["internal_error"] \in Nat
      /\ metrics["auth_failed"] \in Nat /\ metrics["rate_limited"] \in Nat
      /\ metrics["deduplicated"] \in Nat /\ Cardinality(Handlers) \in Nat
  BY <1>1, HandlersFinite DEF Counters
<1>5. CASE UNCHANGED <<req, metrics>>
  <2>1. Handlers' = Handlers
    BY <1>5 DEF Handlers, InHandler
  <2> QED BY <1>2, <1>3, <1>5, <2>1
<1>6. ASSUME NEW r \in Requests, Reject(r)
      PROVE  CountersBalance'
  <2>1. PICK reply \in DOMAIN Rejections :
          /\ req' = [req EXCEPT ![r].phase = "answered", ![r].reply = reply]
          /\ Counted({"requests", Rejections[reply]})
    BY <1>6 DEF Reject
  <2>2. Rejections[reply] \in {"auth_failed", "rate_limited", "validation_error"}
    BY DEF Rejections
  <2>3. Cardinality(Handlers') = Cardinality(Handlers)
    <3>1. ~InHandler(r) /\ ~InHandler(r)'
      BY <1>1, <1>6, <2>1 DEF Reject, InHandler, ReqStates
    <3> QED BY <1>1, <2>1, <3>1, HandlersMove
  <2> QED BY <1>1, <1>2, <1>3, <1>4, <2>1, <2>2, <2>3, CountedOnce DEF Counters
<1>7. ASSUME NEW r \in Requests, Accept(r)
      PROVE  CountersBalance'
  <2>1. Cardinality(Handlers') = Cardinality(Handlers) + 1
    <3>1. ~InHandler(r) /\ InHandler(r)'
      BY <1>1, <1>7 DEF Accept, InHandler, ReqStates
    <3> QED BY <1>1, <1>7, <3>1, HandlersMove DEF Accept
  <2>2. Counted({"requests"})
    BY <1>7 DEF Accept
  <2> QED BY <1>1, <1>2, <1>3, <1>4, <2>1, <2>2, CountedOnce DEF Counters
<1>8. ASSUME NEW r \in Requests, Insert(r)
      PROVE  CountersBalance'
  <2>1. Cardinality(Handlers') = Cardinality(Handlers)
    <3>1. InHandler(r) /\ InHandler(r)'
      BY <1>1, <1>8 DEF Insert, InHandler, ReqStates
    <3> QED BY <1>1, <1>8, <3>1, HandlersMove DEF Insert
  <2> QED BY <1>2, <1>3, <1>8, <2>1 DEF Insert
<1>9. ASSUME NEW r \in Requests, InsertError(r)
      PROVE  CountersBalance'
  <2>1. Cardinality(Handlers') = Cardinality(Handlers) - 1
    <3>1. InHandler(r) /\ ~InHandler(r)'
      BY <1>1, <1>9 DEF InsertError, InHandler, ReqStates
    <3> QED BY <1>1, <1>9, <3>1, HandlersMove DEF InsertError
  <2>2. Counted({"internal_error"})
    BY <1>9 DEF InsertError
  <2> QED BY <1>1, <1>2, <1>3, <1>4, <2>1, <2>2, CountedOnce DEF Counters
<1>10. ASSUME NEW r \in Requests, Respond(r)
       PROVE  CountersBalance'
  <2>1. Cardinality(Handlers') = Cardinality(Handlers) - 1
    <3>1. InHandler(r) /\ ~InHandler(r)'
      BY <1>1, <1>10 DEF Respond, InHandler, ReqStates
    <3> QED BY <1>1, <1>10, <3>1, HandlersMove DEF Respond
  <2>2. PICK counters \in {{"success"}, {"success", "deduplicated"}} : Counted(counters)
    <3>1. Counted({"success"} \cup (IF req[r].inserted THEN {} ELSE {"deduplicated"}))
      BY <1>10 DEF Respond
    <3>2. {"success"} \cup (IF req[r].inserted THEN {} ELSE {"deduplicated"})
            \in {{"success"}, {"success", "deduplicated"}}
      OBVIOUS
    <3> QED BY <3>1, <3>2
  <2>3. "success" \in counters
        /\ \A c \in counters : c = "success" \/ c = "deduplicated"
    OBVIOUS
  <2> QED BY <1>1, <1>2, <1>3, <1>4, <2>1, <2>2, <2>3, CountedOnce DEF Counters
<1>11. CASE \E k \in adds : AddLands(k) \/ AddFails(k)
  BY <1>5, <1>11 DEF AddLands, AddFails
<1>12. CASE ApiRestart
  <2>1. Handlers' = {}
    BY <1>1, <1>12 DEF ApiRestart, Handlers, InHandler, ReqStates
  <2>2. \A c \in Counters : metrics'[c] = 0
    BY <1>12 DEF ApiRestart, Zeroed
  <2> QED BY <1>3, <2>1, <2>2, FS_EmptySet DEF Counters
<1> QED BY <1>6, <1>7, <1>8, <1>9, <1>10, <1>11, <1>12 DEF IngestNext, IngestStep

\* The counters account for every call since the process started: each is
\* counted in one outcome or still in its handler.
THEOREM CountersAddUp == Spec => []CountersBalance
<1>1. Init => CountersBalance
  <2> SUFFICES ASSUME Init PROVE CountersBalance
    OBVIOUS
  <2>1. {r \in Requests : InHandler(r)} = {} /\ \A c \in Counters : metrics[c] = 0
    BY DEF Init, IngestInit, Unsent, Zeroed, InHandler
  <2> QED BY <2>1, FS_EmptySet DEF CountersBalance, Counters
<1>2. TypeInv /\ CountersBalance /\ [Next]_vars => CountersBalance'
  <2> SUFFICES ASSUME TypeInv, CountersBalance, [Next]_vars PROVE CountersBalance'
    OBVIOUS
  <2>1. CASE Ingest
    BY <2>1, IngestPartTyped, IngestBalances DEF Ingest
  <2>2. CASE UNCHANGED ingestVars
    BY <2>2 DEF ingestVars, CountersBalance, InHandler
  <2> QED BY <2>1, <2>2 DEF Next, Work, vars, ingestVars
<1> QED BY <1>1, <1>2, TypesAlways, PTL DEF Spec

-----------------------------------------------------------------------------
(* The ingestion alone, without workers. *)

IngestAloneInv == IngestTypeInv /\ IngestInv /\ CountersBalance

LEMMA IngestAloneInvariant == IngestSpec => []IngestAloneInv
<1>1. IngestAloneInit => IngestAloneInv
  <2> SUFFICES ASSUME IngestAloneInit PROVE IngestAloneInv
    OBVIOUS
  <2> USE DEF IngestAloneInit, DatabaseInit, QueueInit, IngestInit
  <2>1. IngestTypeInv
    BY DEF IngestTypeInv, IngestAloneTypeOK, DatabaseTypeOK, QueueTypeOK, IngestTypeOK,
           Rows, NoRow, Jobs, JobStates, Absent, ReqStates, Unsent, Phases, Replies,
           Counters, Zeroed, InHandler
  <2>2. IngestInv
    BY DEF IngestInv, AtMostOneInserter, JobsFollowTheEvent, Unsent, Absent
  <2>3. {r \in Requests : InHandler(r)} = {} /\ \A c \in Counters : metrics[c] = 0
    BY DEF Unsent, Zeroed, InHandler
  <2>4. CountersBalance
    BY <2>3, FS_EmptySet DEF CountersBalance, Counters
  <2> QED BY <2>1, <2>2, <2>4 DEF IngestAloneInv
<1>2. IngestAloneInv /\ [IngestNext]_ingestAll => IngestAloneInv'
  <2>1. IngestAloneInv /\ UNCHANGED ingestAll => IngestAloneInv'
    BY DEF ingestAll, dbVars, ingestVars, IngestAloneInv, IngestTypeInv,
           IngestAloneTypeOK, DatabaseTypeOK, QueueTypeOK, IngestTypeOK, IngestInv,
           AtMostOneInserter, JobsFollowTheEvent, CountersBalance, InHandler
  <2> QED BY <2>1, IngestKeepsIngestTypes, IngestKeepsIngestInv, IngestBalances
          DEF IngestAloneInv
<1> QED BY <1>1, <1>2, PTL DEF IngestSpec

\* Every reachable state of the API's part of POST /track is well typed.
THEOREM IngestAloneTyped == IngestFairSpec => []IngestAloneTypeOK
<1>1. IngestAloneInv => IngestAloneTypeOK
  BY DEF IngestAloneInv, IngestTypeInv
<1> QED BY <1>1, IngestAloneInvariant, PTL DEF IngestFairSpec

\* Without a worker, too, an event has one inserter, its jobs follow it and the
\* counters account for every call.
THEOREM IngestAloneSafe ==
  IngestFairSpec => [](AtMostOneInserter /\ JobsFollowTheEvent /\ CountersBalance)
<1>1. IngestAloneInv => AtMostOneInserter /\ JobsFollowTheEvent /\ CountersBalance
  BY DEF IngestAloneInv, IngestInv
<1> QED BY <1>1, IngestAloneInvariant, PTL DEF IngestFairSpec
=============================================================================
