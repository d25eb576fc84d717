---------------------------- MODULE RouterWorker ----------------------------
(***************************************************************************)
(* The router worker: the BullMQ processor of a delivery job (load the     *)
(* canonical event, deliver through the destination's adapter, record the  *)
(* delivery) and the listener of the worker's 'failed' event, which        *)
(* records failed attempts and which BullMQ does not wait for.             *)
(*                                                                         *)
(* run[w]   what processor slot w is doing.  made is job.attemptsMade as   *)
(*          it was when the slot took the job.                             *)
(* notices  'failed' listeners whose write is still in flight.             *)
(*                                                                         *)
(* accepted, unheard and starts are history: per (event, destination) the  *)
(* deliveries the vendor took, those among them whose response was lost,   *)
(* and per job the times a processor began it.                             *)
(***************************************************************************)
EXTENDS EventDatabase, DeliveryQueue

CONSTANT NoJob
ASSUME NoJobAssumption == NoJob \notin JobIds

VARIABLES run, notices, accepted, unheard, starts

history == <<accepted, unheard, starts>>
workerVars == <<run, notices, accepted, unheard, starts>>

RunPhases ==
  {"idle", "loading", "delivering", "recording", "completing", "throwing"}

Runs == [phase : RunPhases, job : JobIds \cup {NoJob}, made : Nat,
         retryable : BOOLEAN]

Idle == [phase |-> "idle", job |-> NoJob, made |-> 0, retryable |-> FALSE]

\* A 'failed' event: the job object carries attemptsMade, already incremented.
Notices == [worker : Workers, job : JobIds, made : Nat, retryable : BOOLEAN]

WorkerTypeOK ==
  /\ run \in [Workers -> Runs]
  /\ notices \in SUBSET Notices
  /\ accepted \in [Deliveries -> Nat]
  /\ unheard \in [Deliveries -> Nat]
  /\ starts \in [JobIds -> Nat]

WorkerInit ==
  /\ run = [w \in Workers |-> Idle]
  /\ notices = {}
  /\ accepted = [k \in Deliveries |-> 0]
  /\ unheard = [k \in Deliveries |-> 0]
  /\ starts = [j \in JobIds |-> 0]

-----------------------------------------------------------------------------
\* The row a job reports to.
KeyOf(j) == <<j.event, j.dest>>

\* attempt = max(1, attemptsMade + 1) of the processor.
AttemptOf(made) == made + 1

\* Why an attempt fails: in the processor, in the adapter before or after its
\* request, or by the vendor's answer.
TerminalFailures == {"no_event", "no_adapter", "invalid_event", "other_status"}
RetryableFailures == {"query_error", "network_error", "status_429", "status_5xx"}

\* isRetryableDeliveryError of what is thrown: a TerminalDeliveryError is not,
\* a RetryableDeliveryError and any error of another kind is.
IsRetryable(failure) == failure \notin TerminalFailures

Throw(w, failure) ==
  run' = [run EXCEPT ![w].phase = "throwing",
                     ![w].retryable = IsRetryable(failure)]

\* Faulty variant: a job that was attempted before is left alone.
TakeFresh(w, j) ==
  /\ run[w].phase = "idle"
  /\ job[j].made = 0
  /\ MoveToActive(j, w)
  /\ run' = [run EXCEPT ![w] = [phase |-> "loading", job |-> j,
                                made |-> job[j].made, retryable |-> FALSE]]
  /\ starts' = [starts EXCEPT ![j] = @ + 1]
  /\ UNCHANGED <<notices, accepted, unheard, dbVars>>

\* Slot w takes a waiting job.
Take(w, j) ==
  /\ run[w].phase = "idle"
  /\ MoveToActive(j, w)
  /\ run' = [run EXCEPT ![w] = [phase |-> "loading", job |-> j,
                                made |-> job[j].made, retryable |-> FALSE]]
  /\ starts' = [starts EXCEPT ![j] = @ + 1]
  /\ UNCHANGED <<notices, accepted, unheard, dbVars>>

\* Faulty variant: delivers what the job names, stored or not.
LoadEventTrusting(w) ==
  /\ run[w].phase = "loading"
  /\ run' = [run EXCEPT ![w].phase = "delivering"]
  /\ UNCHANGED <<notices, history, dbVars, job>>

\* getByEventId: the event is there, or it is missing, or the query fails.
LoadEvent(w) ==
  /\ run[w].phase = "loading"
  /\ \/ /\ run[w].job.event \in stored
        /\ run' = [run EXCEPT ![w].phase = "delivering"]
     \/ /\ run[w].job.event \notin stored
        /\ Throw(w, "no_event")
     \/ Throw(w, "query_error")
  /\ UNCHANGED <<notices, history, dbVars, job>>

\* The adapter's request.  The vendor takes the delivery and says so; or takes
\* it and the response is lost; or does not take it.  The noop adapter of a
\* destination that is not configured takes every delivery.
DeliverAccepted(w) ==
  /\ run[w].phase = "delivering"
  /\ run' = [run EXCEPT ![w].phase = "recording"]
  /\ accepted' = [accepted EXCEPT ![KeyOf(run[w].job)] = @ + 1]
  /\ UNCHANGED <<unheard, starts, notices, dbVars, job>>

DeliverUnheard(w) ==
  /\ run[w].phase = "delivering"
  /\ Throw(w, "network_error")
  /\ accepted' = [accepted EXCEPT ![KeyOf(run[w].job)] = @ + 1]
  /\ unheard' = [unheard EXCEPT ![KeyOf(run[w].job)] = @ + 1]
  /\ UNCHANGED <<starts, notices, dbVars, job>>

\* Faulty variant: a refused delivery passes for a delivered one.
DeliverRefusedSilently(w) ==
  /\ run[w].phase = "delivering"
  /\ run' = [run EXCEPT ![w].phase = "recording"]
  /\ UNCHANGED <<history, notices, dbVars, job>>

DeliverRefused(w) ==
  /\ run[w].phase = "delivering"
  /\ \E failure \in (TerminalFailures \ {"no_event"})
                   \cup (RetryableFailures \ {"query_error"}) :
       Throw(w, failure)
  /\ UNCHANGED <<history, notices, dbVars, job>>

\* The 'delivered' row, written before the job completes; an error of the
\* writer is logged and swallowed.
RecordDelivered(w) ==
  /\ run[w].phase = "recording"
  /\ \/ WriteDeliveryState(KeyOf(run[w].job),
                           DeliveredUpdate(AttemptOf(run[w].made)))
     \/ UNCHANGED dbVars
  /\ run' = [run EXCEPT ![w].phase = "completing"]
  /\ UNCHANGED <<notices, history, job>>

\* The processor returned.  A slot that lost the lock to a stall changes
\* nothing: the library reports an error and goes on.
Complete(w) ==
  /\ run[w].phase = "completing"
  /\ IF Holds(w, run[w].job) THEN MoveToCompleted(run[w].job) ELSE job' = job
  /\ run' = [run EXCEPT ![w] = Idle]
  /\ UNCHANGED <<notices, history, dbVars>>

\* The processor threw.  The attempt is counted in the queue first, then the
\* 'failed' event is emitted and its listener starts.
Fail(w) ==
  LET j == run[w].job
  IN /\ run[w].phase = "throwing"
     /\ IF Holds(w, j)
          THEN /\ MoveToFailed(j)
               /\ notices' = notices \cup
                    {[worker |-> w, job |-> j, made |-> run[w].made + 1,
                      retryable |-> run[w].retryable]}
          ELSE UNCHANGED <<job, notices>>
     /\ run' = [run EXCEPT ![w] = Idle]
     /\ UNCHANGED <<history, dbVars>>

\* Faulty variant: the failed attempt is counted a third time.
FailureUpdateThrice(n) ==
  [status |-> IF n.retryable /\ n.made + 2 < Attempts[n.job.dest]
                THEN "retrying" ELSE "failed",
   attempts |-> n.made + 2, deliveredAt |-> FALSE]

\* What the 'failed' listener records.  It adds one to an attemptsMade that
\* already counts the failed attempt.
FailureUpdate(n) ==
  LET attemptsMade == n.made + 1
      shouldRetry  == n.retryable /\ attemptsMade < Attempts[n.job.dest]
  IN [status |-> IF shouldRetry THEN "retrying" ELSE "failed",
      attempts |-> attemptsMade, deliveredAt |-> FALSE]

\* The listener's write lands, or fails and is logged.
RecordFailure(n) ==
  /\ n \in notices
  /\ \/ WriteDeliveryState(KeyOf(n.job), FailureUpdate(n))
     \/ UNCHANGED dbVars
  /\ notices' = notices \ {n}
  /\ UNCHANGED <<run, history, job>>

\* A job whose lock expired goes back to the queue.  Its slot may be gone, or
\* may only have been unable to renew the lock: it then goes on with the job.
LockExpires(j) ==
  /\ Stall(j)
  /\ UNCHANGED <<run, notices, history, dbVars>>

\* Stalled once too often: a worker fails the job with an error of the
\* library, which counts as retryable, and emits 'failed' for it.
GiveUpStalled(j, w) ==
  /\ StallOut(j)
  /\ notices' = notices \cup {[worker |-> w, job |-> j,
                               made |-> job[j].made + 1, retryable |-> TRUE]}
  /\ UNCHANGED <<run, history, dbVars>>

\* Faulty variant: a worker that shuts down hands its job back by itself.
WorkerRestartRequeues(w) ==
  /\ run' = [run EXCEPT ![w] = Idle]
  /\ notices' = {n \in notices : n.worker # w}
  /\ job' = [j \in JobIds |->
               IF Holds(w, j) THEN [job[j] EXCEPT !.state = "waiting",
                                                  !.holder = NoWorker]
                              ELSE job[j]]
  /\ UNCHANGED <<history, dbVars>>

\* The process of slot w stops and is started again.
WorkerRestart(w) ==
  /\ run' = [run EXCEPT ![w] = Idle]
  /\ notices' = {n \in notices : n.worker # w}
  /\ UNCHANGED <<history, dbVars, job>>

Step(w) ==
  \/ LoadEvent(w)
  \/ DeliverAccepted(w) \/ DeliverUnheard(w) \/ DeliverRefused(w)
  \/ RecordDelivered(w)
  \/ Complete(w) \/ Fail(w)

WorkerNext ==
  \/ \E w \in Workers, j \in JobIds : Take(w, j) \/ GiveUpStalled(j, w)
  \/ \E w \in Workers : Step(w) \/ WorkerRestart(w)
  \/ \E n \in notices : RecordFailure(n)
  \/ \E j \in JobIds : LockExpires(j)
=============================================================================
