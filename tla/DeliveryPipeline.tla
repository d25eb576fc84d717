-------------------------- MODULE DeliveryPipeline --------------------------
(***************************************************************************)
(* The tracking API's ingestion and the router workers, over the shared    *)
(* database and queue.  Admin replay and deletion are composed on top of   *)
(* it elsewhere; here every job is a job of the ingestion.                 *)
(***************************************************************************)
EXTENDS TrackIngest, RouterWorker

vars == <<dbVars, job, ingestVars, workerVars>>

Init == DatabaseInit /\ QueueInit /\ IngestInit /\ WorkerInit

Ingest == IngestNext /\ UNCHANGED workerVars
Work == WorkerNext /\ UNCHANGED ingestVars

Next == Ingest \/ Work

Spec == Init /\ [][Next]_vars

-----------------------------------------------------------------------------
(***************************************************************************)
(* Fairness.  A handler is resumed when its await settles, an add settles, *)
(* a slot goes on with its job, a waiting job is taken by some slot, a     *)
(* listener's write settles.  A lock expires for certain only when no slot *)
(* works on the job any more: a healthy slot renews it.  Nothing is        *)
(* assumed of restarts, of the vendor or of clients.                       *)
(***************************************************************************)
Orphaned(j) == \A w \in Workers : run[w].job # j

Reclaim(j) ==
  /\ Orphaned(j)
  /\ LockExpires(j) \/ \E w \in Workers : GiveUpStalled(j, w)
  /\ UNCHANGED ingestVars

TakeSome(j) == (\E w \in Workers : Take(w, j)) /\ UNCHANGED ingestVars

GoOn(w) == Step(w) /\ UNCHANGED ingestVars

Fairness ==
  /\ \A r \in Requests : WF_vars(Handle(r) /\ UNCHANGED workerVars)
  /\ \A k \in Deliveries : WF_vars(SettleAdd(k) /\ UNCHANGED workerVars)
  /\ \A w \in Workers : WF_vars(GoOn(w))
  /\ \A j \in JobIds : WF_vars(TakeSome(j)) /\ WF_vars(Reclaim(j))

FairSpec == Spec /\ Fairness

-----------------------------------------------------------------------------
TypeOK == DatabaseTypeOK /\ QueueTypeOK /\ IngestTypeOK /\ WorkerTypeOK

\* The job the ingestion makes for a row, and the job of a delivery.
OriginalJob(k) == [event |-> k[1], dest |-> k[2], tag |-> Original]

\* A row that says 'delivered' or carries a delivery time, and a job that
\* completed, are of a delivery the destination really took, whichever
\* worker wrote them, and however stale its view.
DeliveredIsTrue ==
  /\ \A k \in Deliveries :
       row[k].status = "delivered" \/ row[k].deliveredAt => accepted[k] > 0
  /\ \A j \in JobIds : job[j].state = "completed" => accepted[KeyOf(j)] > 0

\* A job is begun at most once per attempt the policy grants it and once per
\* stall, whatever the workers do.
StartsWithinBudget ==
  \A j \in JobIds : starts[j] <= Attempts[j.dest] + MaxStalls

\* The jobs of a delivery, and what it may be delivered for: once for each of
\* its jobs, and once more for each stall of one.
JobsOf(k) == {j \in JobIds : KeyOf(j) = k /\ job[j].state # "absent"}

Licences(k) == UNION {{j} \X (0 .. job[j].stalls) : j \in JobsOf(k)}

\* At-least-once, and no worse: every delivery beyond the first that the
\* destination took is owed to a lost response or to a stalled lock.
DuplicatesExplained ==
  \A k \in Deliveries :
    accepted[k] <= 1 + unheard[k] + job[OriginalJob(k)].stalls

\* A delivery time, once on record, is never taken back, not even by the
\* late write of an earlier attempt's failure.
DeliveryTimeKept ==
  [][\A k \in Deliveries : row[k].deliveredAt => row'[k].deliveredAt]_vars

\* The attempt number a failed job is left with on record exceeds the job's
\* attempts by at most one.
AttemptCountBounded ==
  \A k \in Deliveries : row[k].attempts <= Attempts[k[2]] + 1

-----------------------------------------------------------------------------
(* The pipeline implements the contract of DeliveryContract.               *)
StageOf(state) ==
  CASE state = "absent"               -> "none"
    [] state \in {"waiting", "active"} -> "owed"
    [] state = "completed"            -> "delivered"
    [] state = "failed"               -> "abandoned"

Contract ==
  INSTANCE DeliveryContract WITH
    Budget   <- [d \in Destinations |-> Attempts[d] + MaxStalls],
    known    <- stored,
    stage    <- [k \in Deliveries |-> StageOf(job[OriginalJob(k)].state)],
    taken    <- accepted,
    recorded <- [k \in Deliveries |-> row[k].deliveredAt]

\* Every behaviour of the pipeline, its crashes, stalls, lost responses and
\* late writes included, is one the contract allows.
ImplementsContract == Contract!SafeSpec

\* The same, and what is owed is concluded, under the fairness above.
FulfilsContract == Contract!Spec

-----------------------------------------------------------------------------
(* What the documentation says and the code does not keep.                 *)

\* docs/02-architecture/event-flow.md: the final failure moves the job to the
\* failed status.  A row is 'failed' only when no attempt is to come.
FailedRowIsFinal ==
  \A k \in Deliveries : row[k].status = "failed" => ~Live(OriginalJob(k))

\* docs/02-architecture/event-flow.md: a stored event remains replayable.
\* Once nothing is under way for it, a delivery of a stored event is on
\* record as delivered or a replay that names it selects it.
NothingUnderWay(k) ==
  /\ \A r \in Requests : InHandler(r) => req[r].event # k[1]
  /\ k \notin adds
  /\ ~Live(OriginalJob(k))
  /\ \A w \in Workers : run[w].job # OriginalJob(k)
  /\ \A n \in notices : n.job # OriginalJob(k)

StoredEventIsReplayable ==
  \A k \in Deliveries :
    k[1] \in stored /\ NothingUnderWay(k)
      => row[k].status = "delivered" \/ ReplaySelects(row[k], TRUE)

\* docs/09-testing/integration-tests.md: after a transient failure the eventual
\* success is recorded.  Without a replay and without a stall, a row does not
\* leave 'delivered'.
DeliveredRowStays ==
  [][\A k \in Deliveries :
       row[k].status = "delivered" /\ job[OriginalJob(k)].stalls = 0
         => row'[k].status = "delivered"]_vars
=============================================================================
