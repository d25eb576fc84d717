--------------------------- MODULE DeliveryQueue ----------------------------
(***************************************************************************)
(* The BullMQ queue between the tracking API and the router workers, as    *)
(* the code uses it: deterministic job ids, a number of attempts per       *)
(* destination, and a worker that completes or fails the jobs it holds.    *)
(*                                                                         *)
(* BullMQ is a library outside src/.  Assumed of it: adding a job whose id *)
(* is known does nothing; every error thrown by a processor is retried     *)
(* until attemptsMade reaches opts.attempts (only BullMQ's own             *)
(* UnrecoverableError ends a job early, and the code never throws it); a   *)
(* job whose lock expires is stalled: it goes back to the queue, once, and *)
(* the next time it fails.  The back-off before a retry is only time: a    *)
(* delayed job is "waiting" here.                                          *)
(* A finished job stays known: removeOnComplete and removeOnFail, which    *)
(* drop the oldest of thousands, are left out.                             *)
(***************************************************************************)
EXTENDS DeliveryRows, FiniteSets

CONSTANTS
  Tags,         \* the replay tags, and Original for a job of the ingestion
  Original,
  Attempts,     \* [Destinations -> attempts option of the job]
  MaxStalls,    \* BullMQ's maxStalledCount (the code keeps the default, 1)
  Workers,      \* processor slots, each of a process of its own
  NoWorker

ASSUME TagsAssumption == Original \in Tags
ASSUME AttemptsAssumption == Attempts \in [Destinations -> Nat \ {0}]
ASSUME MaxStallsAssumption == MaxStalls \in Nat
ASSUME WorkersAssumption == NoWorker \notin Workers /\ IsFiniteSet(Workers)

VARIABLE job

\* buildJobId: an id per event, destination and replay tag.
JobIds == [event : Events, dest : Destinations, tag : Tags]

JobStates == {"absent", "waiting", "active", "completed", "failed"}

Jobs == [state : JobStates, made : Nat, stalls : Nat,
         holder : Workers \cup {NoWorker}]

Absent == [state |-> "absent", made |-> 0, stalls |-> 0, holder |-> NoWorker]

QueueTypeOK == job \in [JobIds -> Jobs]

QueueInit == job = [j \in JobIds |-> Absent]

Live(j) == job[j].state \in {"waiting", "active"}
Finished(j) == job[j].state \in {"completed", "failed"}

\* Faulty variant: ids are not unique to a job, a known one starts afresh.
AddAfresh(j) == job' = [job EXCEPT ![j] = [Absent EXCEPT !.state = "waiting"]]

\* queue.add with a jobId: a no-op when the id is known.
Add(j) ==
  job' = IF job[j].state = "absent"
           THEN [job EXCEPT ![j] = [Absent EXCEPT !.state = "waiting"]]
           ELSE job

\* A worker takes the lock of a waiting job.
MoveToActive(j, w) ==
  /\ job[j].state = "waiting"
  /\ job' = [job EXCEPT ![j].state = "active", ![j].holder = w]

Holds(w, j) == job[j].state = "active" /\ job[j].holder = w

MoveToCompleted(j) ==
  job' = [job EXCEPT ![j].state = "completed", ![j].made = @ + 1,
                     ![j].holder = NoWorker]

\* The processor threw: retried while attempts are left, whatever the error.
MoveToFailed(j) ==
  job' = [job EXCEPT
            ![j].state = IF job[j].made + 1 < Attempts[j.dest]
                           THEN "waiting" ELSE "failed",
            ![j].made = @ + 1,
            ![j].holder = NoWorker]

\* The lock of an active job expired: its worker died or could not renew it.
Stall(j) ==
  /\ job[j].state = "active"
  /\ job[j].stalls < MaxStalls
  /\ job' = [job EXCEPT ![j].state = "waiting", ![j].stalls = @ + 1,
                        ![j].holder = NoWorker]

\* The same once too often: the job fails for good.
StallOut(j) ==
  /\ job[j].state = "active"
  /\ job[j].stalls = MaxStalls
  /\ job' = [job EXCEPT ![j].state = "failed", ![j].made = @ + 1,
                        ![j].stalls = @ + 1, ![j].holder = NoWorker]
=============================================================================
