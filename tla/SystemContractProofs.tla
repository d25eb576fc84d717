------------------------ MODULE SystemContractProofs ------------------------
(***************************************************************************)
(* The whole system, replays and deletions included, implements the        *)
(* contract of SystemContract, for every number of events, destinations,   *)
(* calls, operators, slots and crashes, every attempts policy and every    *)
(* stall limit.                                                            *)
(*                                                                         *)
(* Two facts beyond the invariants of SystemProofs carry it.  Every        *)
(* delivery, made or still ahead of a slot, has a start of its own of one  *)
(* of the delivery's jobs; and every job that was seen delivered has a     *)
(* delivery of its own.  The first bounds what arrives, the second keeps   *)
(* two jobs from completing on one arrival.                                *)
(***************************************************************************)
EXTENDS SystemProofs

-----------------------------------------------------------------------------
(* Starts and receipts.                                                    *)

\* The slots that may still deliver k, whichever of its jobs they have.
AheadOf(k) ==
  {w \in Workers : run[w].phase \in {"loading", "delivering"} /\ KeyOf(run[w].job) = k}

\* The starts of k's jobs, numbered job by job.
Begun(k) == {x \in JobIds \X Nat : KeyOf(x[1]) = k /\ x[2] \in 1 .. starts[x[1]]}

\* The jobs of k that completed, or that a slot has seen delivered.
Received(k) ==
  {j \in JobIds : /\ KeyOf(j) = k
                  /\ \/ job[j].state = "completed"
                     \/ \E w \in Workers : /\ run[w].job = j
                                           /\ run[w].phase \in {"recording", "completing"}}

\* What was delivered and what still may be has a start of its own, and every
\* job that was seen delivered has a delivery of its own.
ShareInv ==
  \A k \in Deliveries :
    /\ IsFiniteSet(Begun(k))
    /\ accepted[k] + Cardinality(AheadOf(k)) <= Cardinality(Begun(k))
    /\ IsFiniteSet(Received(k))
    /\ Cardinality(Received(k)) <= accepted[k]
    /\ IsFiniteSet(JobsOf(k))

\* There are finitely many slots, hence finitely many ahead of a delivery.
LEMMA FewAhead ==
  ASSUME NEW k
  PROVE  /\ IsFiniteSet(AheadOf(k)) /\ Cardinality(AheadOf(k)) \in Nat
         /\ IsFiniteSet(Carriers(k)) /\ Cardinality(Carriers(k)) \in Nat
<1>1. AheadOf(k) \in SUBSET Workers /\ Carriers(k) \in SUBSET Workers
  BY DEF AheadOf, Carriers
<1> QED BY <1>1, WorkersAssumption, FS_Subset, FS_CardinalityType

\* Every start of a job is good for one delivery, and none is used twice.
LEMMA WorkKeepsStarts ==
  ASSUME TypeInv, ShareInv, Work, NEW k \in Deliveries
  PROVE  /\ IsFiniteSet(Begun(k)')
         /\ accepted'[k] + Cardinality(AheadOf(k)') <= Cardinality(Begun(k)')
<1> DEFINE S == AheadOf(k)
           T == AheadOf(k)'
           P == Begun(k)
           Q == Begun(k)'
           Goal == IsFiniteSet(Q) /\ accepted'[k] + Cardinality(T) <= Cardinality(Q)
<1>1. /\ accepted \in [Deliveries -> Nat] /\ starts \in [JobIds -> Nat]
      /\ accepted[k] \in Nat /\ run \in [Workers -> Runs]
  BY DEF TypeInv, TypeOK, WorkerTypeOK
<1>2. /\ IsFiniteSet(S) /\ IsFiniteSet(P)
      /\ accepted[k] + Cardinality(S) <= 0 + Cardinality(P)
      /\ Cardinality(S) \in Nat /\ Cardinality(P) \in Nat
  BY FewAhead, FS_CardinalityType DEF ShareInv
<1>3. starts' = starts => Q = P
  BY DEF Begun
<1> HIDE DEF S, T, P, Q
<1>4. ASSUME T \subseteq S, accepted'[k] = accepted[k], starts' = starts
      PROVE  Goal
  <2>1. accepted'[k] + Cardinality(T) <= 0 + Cardinality(Q)
    BY <1>1, <1>2, <1>3, <1>4, Balance
  <2> QED BY <1>2, <1>3, <1>4, <2>1
<1>5. ASSUME NEW x \in S, T \subseteq S \ {x}, accepted'[k] = accepted[k] + 1,
             starts' = starts
      PROVE  Goal
  <2>1. Cardinality(T) \in Nat /\ Cardinality(T) + 1 <= Cardinality(S)
    BY <1>2, <1>5, Counting
  <2> QED BY <1>1, <1>2, <1>3, <1>5, <2>1
<1>6. ASSUME NEW x, NEW y, T \subseteq S \cup {x}, y \notin P, Q = P \cup {y},
             accepted'[k] = accepted[k]
      PROVE  Goal
  <2>1. IsFiniteSet(Q) /\ Cardinality(Q) \in Nat
    BY <1>2, <1>6, FS_AddElement, FS_CardinalityType
  <2>2. accepted'[k] + Cardinality(T) <= 0 + Cardinality(Q)
    BY <1>1, <1>2, <1>6, <2>1, Balance
  <2> QED BY <2>1, <2>2
<1> HIDE DEF Goal
<1>7. ASSUME NEW w \in Workers, \A v \in Workers : v # w => run'[v] = run[v],
             run'[w].phase \in {"loading", "delivering"} =>
               /\ run[w].phase \in {"loading", "delivering"}
               /\ run'[w].job = run[w].job
      PROVE  T \subseteq S
  BY <1>7 DEF S, T, AheadOf
<1>8. ASSUME NEW w \in Workers, NEW i \in JobIds, Take(w, i) PROVE Goal
  <2> DEFINE y == <<i, starts[i] + 1>>
  <2>1. /\ accepted' = accepted /\ starts' = [starts EXCEPT ![i] = @ + 1]
        /\ run'[w].job = i /\ \A v \in Workers : v # w => run'[v] = run[v]
    BY <1>8, TakeMoves DEF Take
  <2>2. T \subseteq S \cup {w}
    BY <2>1 DEF S, T, AheadOf
  <2>3. CASE KeyOf(i) = k
    <3>1. y \notin P
      BY <1>1 DEF P, Begun
    <3>2. ASSUME NEW j, NEW n
          PROVE  <<j, n>> \in Q <=> <<j, n>> \in P \/ <<j, n>> = y
      <4>1. <<j, n>> \in P <=> j \in JobIds /\ n \in Nat /\ KeyOf(j) = k /\ n \in 1 .. starts[j]
        BY DEF P, Begun
      <4>2. <<j, n>> \in Q <=> j \in JobIds /\ n \in Nat /\ KeyOf(j) = k /\ n \in 1 .. starts'[j]
        BY DEF Q, Begun
      <4>3. CASE j = i
        <5>1. starts[i] \in Nat /\ starts'[i] = starts[i] + 1
          BY <1>1, <2>1
        <5> QED BY <2>3, <4>1, <4>2, <4>3, <5>1
      <4>4. CASE j # i
        BY <1>1, <2>1, <4>1, <4>2, <4>4
      <4> QED BY <4>3, <4>4
    <3>3. \A x \in P \cup Q : x = <<x[1], x[2]>>
      BY DEF P, Q, Begun
    <3>4. y = <<y[1], y[2]>>
      OBVIOUS
    <3> HIDE DEF y
    <3>5. Q = P \cup {y}
      BY <3>2, <3>3, <3>4
    <3> QED BY <1>1, <1>6, <2>1, <2>2, <3>1, <3>5
  <2>4. CASE KeyOf(i) # k
    <3>1. T \subseteq S
      BY <2>1, <2>4 DEF S, T, AheadOf
    <3>2. Q = P
      BY <1>1, <2>1, <2>4 DEF P, Q, Begun
    <3>3. accepted'[k] + Cardinality(T) <= 0 + Cardinality(Q)
      BY <1>1, <1>2, <2>1, <3>1, <3>2, Balance
    <3> QED BY <1>2, <3>2, <3>3 DEF Goal
  <2> QED BY <2>3, <2>4
<1>9. ASSUME NEW w \in Workers, DeliverAccepted(w) \/ DeliverUnheard(w) PROVE Goal
  <2>1. /\ starts' = starts
        /\ accepted' = [accepted EXCEPT ![KeyOf(run[w].job)] = @ + 1]
    BY <1>9 DEF DeliverAccepted, DeliverUnheard
  <2>2. /\ run[w].phase = "delivering" /\ run'[w].phase \in {"recording", "throwing"}
        /\ \A v \in Workers : v # w => run'[v] = run[v]
    BY <1>9, SlotMoves DEF Moves
  <2>3. T \subseteq S \ {w}
    BY <2>2 DEF S, T, AheadOf
  <2>4. KeyOf(run[w].job) = k <=> w \in S
    BY <2>2 DEF S, AheadOf
  <2>5. accepted'[k] = IF KeyOf(run[w].job) = k THEN accepted[k] + 1 ELSE accepted[k]
    BY <1>1, <2>1
  <2> QED BY <1>4, <1>5, <2>1, <2>3, <2>4, <2>5
<1>10. ASSUME NEW w \in Workers, \/ LoadEvent(w) \/ DeliverRefused(w) \/ RecordDelivered(w)
                                 \/ Complete(w) \/ Fail(w) \/ WorkerRestart(w)
       PROVE  Goal
  <2>1. accepted' = accepted /\ starts' = starts
    BY <1>10 DEF LoadEvent, DeliverRefused, RecordDelivered, Complete, Fail,
                 WorkerRestart, history
  <2>2. LetsGo(w) \/ Moves(w, {"loading"}, {"delivering", "throwing"})
        \/ Moves(w, {"delivering"}, {"throwing"}) \/ Moves(w, {"recording"}, {"completing"})
    BY <1>10, SlotMoves
  <2>3. T \subseteq S
    BY <1>7, <2>2 DEF LetsGo, Moves, Idle
  <2> QED BY <1>4, <2>1, <2>3
<1>11. ASSUME UNCHANGED <<run, accepted, starts>> PROVE Goal
  <2>1. T \subseteq S
    BY <1>11 DEF S, T, AheadOf
  <2> QED BY <1>4, <1>11, <2>1
<1>12. Goal
  BY <1>8, <1>9, <1>10, <1>11
     DEF Work, WorkerNext, Step, RecordFailure, LockExpires, GiveUpStalled, history
<1> QED BY <1>12 DEF Goal, T, Q

\* A job enters the received ones with the delivery its slot was told of.
LEMMA WorkKeepsReceived ==
  ASSUME TypeInv, ShareInv, Work, NEW k \in Deliveries
  PROVE  IsFiniteSet(Received(k)') /\ Cardinality(Received(k)') <= accepted'[k]
<1> DEFINE S == Received(k)
           T == Received(k)'
           Goal == IsFiniteSet(T) /\ Cardinality(T) <= accepted'[k]
<1>1. /\ accepted \in [Deliveries -> Nat] /\ accepted[k] \in Nat
      /\ run \in [Workers -> Runs] /\ job \in [JobIds -> Jobs]
  BY DEF TypeInv, TypeOK, WorkerTypeOK, QueueTypeOK
<1>2. IsFiniteSet(S) /\ Cardinality(S) \in Nat /\ Cardinality(S) <= accepted[k]
  BY FS_CardinalityType DEF ShareInv
<1> HIDE DEF S, T
<1>3. ASSUME T \subseteq S, accepted'[k] \in {accepted[k], accepted[k] + 1}
      PROVE  Goal
  <2>1. IsFiniteSet(T) /\ Cardinality(T) \in Nat /\ Cardinality(T) <= Cardinality(S)
    BY <1>2, <1>3, FS_Subset, Counting
  <2> QED BY <1>1, <1>2, <1>3, <2>1
<1>4. ASSUME NEW x, T \subseteq S \cup {x}, accepted'[k] = accepted[k] + 1
      PROVE  Goal
  <2>1. IsFiniteSet(T)
    BY <1>2, <1>4, FS_AddElement, FS_Subset
  <2>2. Cardinality(T) \in Nat /\ Cardinality(T) <= Cardinality(S) + 1
    BY <1>2, <1>4, Counting
  <2> QED BY <1>1, <1>2, <1>4, <2>1, <2>2
<1> HIDE DEF Goal
<1>5. ASSUME NEW w \in Workers, \A v \in Workers : v # w => run'[v] = run[v],
             run'[w].phase \in {"recording", "completing"} =>
               /\ run[w].phase \in {"recording", "completing"}
               /\ run'[w].job = run[w].job,
             \A j \in JobIds : job'[j].state = "completed" =>
               \/ job[j].state = "completed"
               \/ run[w].job = j /\ run[w].phase \in {"recording", "completing"}
      PROVE  T \subseteq S
  BY <1>5 DEF S, T, Received
<1>6. ASSUME NEW w \in Workers, NEW i \in JobIds, Take(w, i) PROVE Goal
  <2>1. job' = [job EXCEPT ![i].state = "active", ![i].holder = w] /\ accepted' = accepted
    BY <1>6 DEF Take, MoveToActive
  <2>2. \A j \in JobIds : job'[j].state = "completed" => job[j].state = "completed"
    BY <1>1, <2>1 DEF Jobs
  <2>3. /\ run'[w].phase = "loading" /\ \A v \in Workers : v # w => run'[v] = run[v]
    BY <1>6, TakeMoves
  <2> QED BY <1>3, <1>5, <2>1, <2>2, <2>3
<1>7. ASSUME NEW w \in Workers, DeliverAccepted(w) PROVE Goal
  <2>1. accepted' = [accepted EXCEPT ![KeyOf(run[w].job)] = @ + 1] /\ job' = job
    BY <1>7 DEF DeliverAccepted
  <2>2. run'[w].job = run[w].job /\ \A v \in Workers : v # w => run'[v] = run[v]
    BY <1>7, SlotMoves DEF Moves
  <2>3. T \subseteq S \cup {run[w].job}
    BY <2>1, <2>2 DEF S, T, Received
  <2>4. KeyOf(run[w].job) # k => T \subseteq S
    BY <2>1, <2>2 DEF S, T, Received
  <2>5. accepted'[k] = IF KeyOf(run[w].job) = k THEN accepted[k] + 1 ELSE accepted[k]
    BY <1>1, <2>1
  <2> QED BY <1>3, <1>4, <2>3, <2>4, <2>5
<1>8. ASSUME NEW w \in Workers, DeliverUnheard(w) PROVE Goal
  <2>1. accepted' = [accepted EXCEPT ![KeyOf(run[w].job)] = @ + 1] /\ job' = job
    BY <1>8 DEF DeliverUnheard
  <2>2. T \subseteq S
    BY <1>5, <1>8, <2>1, SlotMoves DEF Moves
  <2>3. accepted'[k] = IF KeyOf(run[w].job) = k THEN accepted[k] + 1 ELSE accepted[k]
    BY <1>1, <2>1
  <2> QED BY <1>3, <2>2, <2>3
<1>9. ASSUME NEW w \in Workers, \/ LoadEvent(w) \/ DeliverRefused(w) \/ RecordDelivered(w)
                                \/ WorkerRestart(w)
      PROVE  Goal
  <2>1. accepted' = accepted /\ job' = job
    BY <1>9 DEF LoadEvent, DeliverRefused, RecordDelivered, WorkerRestart, history
  <2>2. LetsGo(w) \/ Moves(w, {"loading"}, {"delivering", "throwing"})
        \/ Moves(w, {"delivering"}, {"throwing"}) \/ Moves(w, {"recording"}, {"completing"})
    BY <1>9, SlotMoves
  <2>3. T \subseteq S
    BY <1>5, <2>1, <2>2 DEF LetsGo, Moves, Idle
  <2> QED BY <1>3, <2>1, <2>3
<1>10. ASSUME NEW w \in Workers, Complete(w) PROVE Goal
  <2>1. accepted' = accepted /\ run[w].phase = "completing" /\ run[w].job \in JobIds
        /\ LetsGo(w)
    BY <1>10, SlotMoves DEF Complete, history, TypeInv
  <2>2. \A j \in JobIds : job'[j].state = "completed" =>
          job[j].state = "completed" \/ run[w].job = j
    BY <1>1, <1>10 DEF Complete, MoveToCompleted
  <2>3. T \subseteq S
    BY <1>5, <2>1, <2>2 DEF LetsGo, Idle
  <2> QED BY <1>3, <2>1, <2>3
<1>11. ASSUME NEW w \in Workers, Fail(w) PROVE Goal
  <2>1. accepted' = accepted /\ run[w].job \in JobIds /\ LetsGo(w)
    BY <1>11, SlotMoves DEF Fail, history, TypeInv
  <2>2. \A j \in JobIds : job'[j].state = "completed" => job[j].state = "completed"
    BY <1>1, <1>11, <2>1, FailedJob DEF Fail
  <2>3. T \subseteq S
    BY <1>5, <2>1, <2>2 DEF LetsGo, Idle
  <2> QED BY <1>3, <2>1, <2>3
<1>12. ASSUME run' = run, accepted' = accepted,
              \A j \in JobIds : job'[j].state = "completed" => job[j].state = "completed"
       PROVE  Goal
  <2>1. T \subseteq S
    BY <1>12 DEF S, T, Received
  <2> QED BY <1>3, <1>12, <2>1
<1>13. ASSUME NEW i \in JobIds, LockExpires(i) \/ \E w \in Workers : GiveUpStalled(i, w)
       PROVE  Goal
  <2>1. Stall(i) \/ StallOut(i)
    BY <1>13 DEF LockExpires, GiveUpStalled
  <2>2. \A j \in JobIds : job'[j].state = "completed" => job[j].state = "completed"
    BY <1>1, <2>1 DEF Stall, StallOut, Jobs
  <2>3. run' = run /\ accepted' = accepted
    BY <1>13 DEF LockExpires, GiveUpStalled, history
  <2> QED BY <1>12, <2>2, <2>3
<1>14. (\E n \in notices : RecordFailure(n)) => Goal
  BY <1>12 DEF RecordFailure, history
<1>15. Goal
  BY <1>6, <1>7, <1>8, <1>9, <1>10, <1>11, <1>13, <1>14 DEF Work, WorkerNext, Step
<1> QED BY <1>15 DEF Goal, T

\* A step brings a delivery one more job at most.
LEMMA JobsGrow ==
  ASSUME TypeInv, ReplayTypeInv, [SystemNext]_systemVars, NEW k
  PROVE  \E x : JobsOf(k)' \subseteq JobsOf(k) \cup {x}
<1>1. job \in [JobIds -> Jobs]
  BY DEF TypeInv, TypeOK, QueueTypeOK
<1>2. CASE job' = job
  BY <1>2 DEF JobsOf
<1>3. CASE Ingest
  <2>1. \A j \in JobIds : Added(j)' => Added(j) \/ \E l \in adds : j = OriginalJob(l)
    BY <1>3, IngestAdds DEF Added
  <2>2. \A l \in adds : KeyOf(OriginalJob(l)) = l
    BY KeyTyped DEF TypeInv, TypeOK, IngestTypeOK
  <2>3. JobsOf(k)' \subseteq JobsOf(k) \cup {OriginalJob(k)}
    BY <2>1, <2>2 DEF JobsOf, Added
  <2> QED BY <2>3
<1>4. CASE Work
  BY <1>4, WorkAddsNothing DEF JobsOf
<1>5. ASSUME NEW i \in JobIds, Add(i)
      PROVE  JobsOf(k)' \subseteq JobsOf(k) \cup {i}
  BY <1>1, <1>5 DEF Add, JobsOf
<1>6. CASE ReplayStep /\ UNCHANGED <<ingestVars, workerVars>>
  BY <1>2, <1>5, <1>6, ReplayEffect
<1> QED BY <1>2, <1>3, <1>4, <1>6, SystemSteps DEF DeleteUser, systemVars, vars

\* Every step of the system keeps both shares: only the workers start jobs or
\* deliver, and a delivery has finitely many jobs.
LEMMA ShareKept ==
  ASSUME SystemInv, ShareInv, [SystemNext]_systemVars
  PROVE  ShareInv'
<1> SUFFICES ASSUME NEW k \in Deliveries
             PROVE  /\ IsFiniteSet(Begun(k)')
                    /\ accepted'[k] + Cardinality(AheadOf(k)') <= Cardinality(Begun(k)')
                    /\ IsFiniteSet(Received(k)')
                    /\ Cardinality(Received(k)') <= accepted'[k]
                    /\ IsFiniteSet(JobsOf(k)')
  BY DEF ShareInv
<1>1. IsFiniteSet(JobsOf(k)')
  <2>1. PICK x : JobsOf(k)' \subseteq JobsOf(k) \cup {x}
    BY JobsGrow DEF SystemInv
  <2> QED BY <2>1, FS_AddElement, FS_Subset DEF ShareInv
<1>2. CASE Work
  BY <1>1, <1>2, WorkKeepsStarts, WorkKeepsReceived DEF SystemInv
<1>3. ASSUME UNCHANGED workerVars,
             \A j \in JobIds : job'[j].state = "completed" <=> job[j].state = "completed"
      PROVE  /\ Begun(k)' = Begun(k) /\ AheadOf(k)' = AheadOf(k)
             /\ Received(k)' = Received(k) /\ accepted' = accepted
  BY <1>3 DEF workerVars, Begun, AheadOf, Received
<1>4. CASE ~Work
  <2>1. UNCHANGED workerVars
    BY <1>4, OthersEffect DEF SystemInv, Ingest, systemVars, vars
  <2>2. \A j \in JobIds : job'[j].state = "completed" <=> job[j].state = "completed"
    BY <1>4, IngestAdds, OthersEffect DEF SystemInv, Added, Absent, systemVars, vars
  <2> QED BY <1>1, <1>3, <2>1, <2>2 DEF ShareInv
<1> QED BY <1>2, <1>4

\* In every reachable state deliveries have starts, and receipts deliveries,
\* of their own.
LEMMA SharesAlways == SystemSpec => []ShareInv
<1>1. SystemInit => ShareInv
  <2> SUFFICES ASSUME SystemInit, NEW k \in Deliveries
               PROVE  /\ AheadOf(k) = {} /\ Begun(k) = {} /\ Received(k) = {}
                      /\ JobsOf(k) = {} /\ accepted[k] = 0
    BY FS_EmptySet DEF ShareInv
  <2> QED
    BY DEF SystemInit, Init, QueueInit, WorkerInit, Idle, Absent, AheadOf, Begun, Received,
           JobsOf
<1>2. SystemInv /\ ShareInv /\ [SystemNext]_systemVars => ShareInv'
  BY ShareKept
<1> QED BY <1>1, <1>2, SystemInvariant, PTL DEF SystemSpec

-----------------------------------------------------------------------------
(* The state of the contract.                                              *)

Stage == [j \in JobIds |-> StageOf(job[j].state)]

Carried == [k \in Deliveries |-> Cardinality(Carriers(k))]

Recorded == [k \in Deliveries |-> row[k].deliveredAt]

\* The contract counts as the system does.
LEMMA SameCount == \A S : SystemPromise!Cardinality(S) = Cardinality(S)
BY DEF SystemPromise!Cardinality, Cardinality

\* The contract's orders are the jobs.
LEMMA OrdersAre ==
  ASSUME TypeInv
  PROVE  /\ SystemPromise!Orders = JobIds /\ SystemPromise!Deliveries = Deliveries
         /\ \A j \in JobIds :
              /\ Stage[j] = "none" <=> ~Added(j)
              /\ Stage[j] \in SystemPromise!Placed <=> Added(j)
              /\ Stage[j] = "delivered" <=> job[j].state = "completed"
              /\ Stage[j] = "owed" <=> Live(j)
              /\ Stage[j] = "abandoned" <=> job[j].state = "failed"
<1>1. \A j \in JobIds : job[j].state \in JobStates
  BY DEF TypeInv, TypeOK, QueueTypeOK, Jobs
<1> QED BY <1>1 DEF SystemPromise!Orders, SystemPromise!Deliveries, SystemPromise!Placed,
                    JobIds, Deliveries, Stage, StageOf, Added, Live, JobStates

\* Why an event is admitted, before and after a step.
LEMMA AdmittedAre ==
  /\ \A e : e \in Admitted <=>
       \/ e \in stored
       \/ \E k \in adds : e = k[1]
       \/ \E r \in Requests :
            req[r].phase = "continuing" /\ req[r].inserted /\ e = req[r].event
       \/ \E j \in JobIds : Added(j) /\ e = j.event
  /\ \A e : e \in Admitted' <=>
       \/ e \in stored'
       \/ \E k \in adds' : e = k[1]
       \/ \E r \in Requests :
            req'[r].phase = "continuing" /\ req'[r].inserted /\ e = req'[r].event
       \/ \E j \in JobIds : job'[j].state # "absent" /\ e = j.event
BY DEF Admitted, Added

\* What is stored or has a job is admitted.
LEMMA Admits ==
  ASSUME TypeInv, TypeInv'
  PROVE  /\ SystemPromise!Remembered \subseteq Admitted
         /\ SystemPromise!Remembered' \subseteq Admitted'
<1>1. ASSUME NEW e, e \in SystemPromise!Remembered
      PROVE  e \in Admitted
  <2>1. e \in stored \/ \E j \in JobIds : j.event = e /\ Stage[j] \in SystemPromise!Placed
    BY <1>1, OrdersAre DEF SystemPromise!Remembered, Stage
  <2> QED BY <2>1, OrdersAre, AdmittedAre
<1>2. \A j \in JobIds : Stage'[j] \in SystemPromise!Placed => job'[j].state # "absent"
  BY DEF Stage, StageOf, SystemPromise!Placed
<1>3. ASSUME NEW e, e \in SystemPromise!Remembered'
      PROVE  e \in Admitted'
  <2>1. e \in stored' \/ \E j \in JobIds : j.event = e /\ Stage'[j] \in SystemPromise!Placed
    BY <1>3, OrdersAre DEF SystemPromise!Remembered, Stage, SystemPromise!Orders,
                           JobIds, SystemPromise!Placed
  <2> QED BY <1>2, <2>1, AdmittedAre
<1> QED BY <1>1, <1>3

\* What the contract sees of the jobs, slots, deliveries and rows is unchanged.
Unseen == UNCHANGED <<Stage, Carried, accepted, Recorded>>

\* A step that shows in none of the contract's variables but Admitted, which
\* it may empty of events nothing is left of.
LEMMA PromiseForgets ==
  ASSUME TypeInv, TypeInv', Unseen, stored' = stored, Admitted' \subseteq Admitted
  PROVE  SystemPromise!Next
<1>1. SystemPromise!Remembered \subseteq Admitted'
  <2>1. SystemPromise!Remembered' = SystemPromise!Remembered
    BY DEF SystemPromise!Remembered, Unseen, Stage
  <2> QED BY <2>1, Admits
<1>2. SystemPromise!Forget
  BY <1>1 DEF SystemPromise!Forget, Unseen, Stage, Carried, Recorded
<1> QED BY <1>2 DEF SystemPromise!Next

\* A step that stores an event is the contract's.
LEMMA PromiseStores ==
  ASSUME NEW e \in Events, e \notin stored, stored' = stored \cup {e},
         Admitted' = Admitted \cup {e}, Unseen
  PROVE  SystemPromise!Next
<1>1. SystemPromise!Store(e)
  BY DEF SystemPromise!Store, Unseen, Stage, Carried, Recorded
<1> QED BY <1>1 DEF SystemPromise!Next

\* A step that deletes stored events, and their delivery times with them.
LEMMA PromiseDeletes ==
  ASSUME TypeInv, TypeInv', NEW events \in SUBSET stored, stored' = stored \ events,
         Admitted' \subseteq Admitted,
         Recorded' = [k \in Deliveries |-> Recorded[k] /\ k[1] \notin events],
         UNCHANGED <<Stage, Carried, accepted>>
  PROVE  SystemPromise!Next
<1>1. SystemPromise!Delete(events)
  BY Admits, OrdersAre DEF SystemPromise!Delete, Stage, Carried, Recorded
<1>2. events \in SUBSET Events
  BY DEF TypeInv, TypeOK, DatabaseTypeOK
<1> QED BY <1>1, <1>2 DEF SystemPromise!Next

\* A step that adds a job of an admitted event, a replay's after the original.
LEMMA PromisePlaces ==
  ASSUME TypeInv, NEW j \in JobIds, j.event \in Admitted, ~Added(j),
         j.tag # Original => Added(OriginalJob(KeyOf(j))),
         Stage' = [Stage EXCEPT ![j] = "owed"],
         stored' = stored, Admitted' = Admitted, UNCHANGED <<Carried, accepted, Recorded>>
  PROVE  SystemPromise!Next
<1>1. SystemPromise!FirstOf(j) = OriginalJob(KeyOf(j)) /\ OriginalJob(KeyOf(j)) \in JobIds
  <2>1. [j EXCEPT !.tag = Original] = [event |-> j.event, dest |-> j.dest, tag |-> Original]
    BY DEF JobIds
  <2>2. KeyOf(j) = <<j.event, j.dest>>
    BY DEF KeyOf
  <2>3. OriginalJob(KeyOf(j)) = [event |-> j.event, dest |-> j.dest, tag |-> Original]
    BY <2>2 DEF OriginalJob
  <2> QED BY <2>1, <2>3, KeyTyped DEF SystemPromise!FirstOf
<1>2. Stage[j] = "none" /\ (j.tag # Original => Stage[SystemPromise!FirstOf(j)] # "none")
  BY <1>1, OrdersAre
<1>3. SystemPromise!Place(j)
  BY <1>2 DEF SystemPromise!Place, Stage, Carried, Recorded
<1> QED BY <1>3, OrdersAre DEF SystemPromise!Next

\* A step that ends a job: completed while an arrival is left for it, or failed.
LEMMA PromiseConcludes ==
  ASSUME TypeInv, NEW j \in JobIds, Live(j),
         \/ /\ Cardinality({i \in JobIds : KeyOf(i) = KeyOf(j) /\ job[i].state = "completed"})
                 < accepted[KeyOf(j)]
            /\ Stage' = [Stage EXCEPT ![j] = "delivered"]
         \/ Stage' = [Stage EXCEPT ![j] = "abandoned"],
         stored' = stored, Admitted' = Admitted, UNCHANGED <<Carried, accepted, Recorded>>
  PROVE  SystemPromise!Next
<1>1. Stage[j] = "owed" /\ SystemPromise!DeliveryOf(j) = KeyOf(j)
  BY OrdersAre DEF SystemPromise!DeliveryOf, KeyOf
<1>2. SystemPromise!OrdersOf(KeyOf(j), {"delivered"})
        = {i \in JobIds : KeyOf(i) = KeyOf(j) /\ job[i].state = "completed"}
  BY OrdersAre DEF SystemPromise!OrdersOf, SystemPromise!DeliveryOf, KeyOf, Stage
<1>3. SystemPromise!Conclude(j)
  BY <1>1, <1>2, SameCount DEF SystemPromise!Conclude, Stage, Carried, Recorded
<1> QED BY <1>3, OrdersAre DEF SystemPromise!Next

\* A step that picks a delivery of a stored event up, or ends its way.
LEMMA PromiseCarries ==
  ASSUME TypeInv, NEW k \in Deliveries,
         \/ /\ k[1] \in stored
            /\ accepted[k] + Carried[k]
                 < (Attempts[k[2]] + MaxStalls) * Cardinality(JobsOf(k))
            /\ Carried' = [Carried EXCEPT ![k] = @ + 1] /\ accepted' = accepted
         \/ /\ Carried[k] > 0
            /\ Carried' = [Carried EXCEPT ![k] = @ - 1]
            /\ accepted' \in {accepted, [accepted EXCEPT ![k] = @ + 1]},
         stored' = stored, Admitted' = Admitted, UNCHANGED <<Stage, Recorded>>
  PROVE  SystemPromise!Next
<1>1. k[2] \in Destinations
  BY DEF Deliveries
<1>2. SystemPromise!OrdersOf(k, SystemPromise!Placed) = JobsOf(k)
  BY OrdersAre DEF SystemPromise!OrdersOf, SystemPromise!DeliveryOf, JobsOf, KeyOf, Stage,
                   Added
<1>3. SystemPromise!PickUp(k) \/ SystemPromise!Drop(k) \/ SystemPromise!HandOver(k)
  BY <1>1, <1>2, SameCount DEF SystemPromise!PickUp, SystemPromise!Drop,
                               SystemPromise!HandOver, Stage, Carried, Recorded
<1> QED BY <1>3, OrdersAre DEF SystemPromise!Next

\* A step on the delivery times alone: one recorded, or some taken off the
\* record by a replay.
LEMMA PromiseRecords ==
  ASSUME TypeInv, stored' = stored, Admitted' = Admitted,
         UNCHANGED <<Stage, Carried, accepted>>,
         \/ \E k \in Deliveries :
              accepted[k] > 0 /\ Recorded' = [Recorded EXCEPT ![k] = TRUE]
         \/ \E e \in Events, dests \in SUBSET Destinations :
              Recorded' = [k \in Deliveries |->
                             Recorded[k] /\ ~(k[1] = e /\ k[2] \in dests)]
  PROVE  SystemPromise!Next
<1>1. ASSUME NEW k \in Deliveries, accepted[k] > 0,
             Recorded' = [Recorded EXCEPT ![k] = TRUE]
      PROVE  SystemPromise!Record(k)
  BY <1>1 DEF SystemPromise!Record, Stage, Carried, Recorded
<1>2. ASSUME NEW e, NEW dests,
             Recorded' = [k \in Deliveries |->
                            Recorded[k] /\ ~(k[1] = e /\ k[2] \in dests)]
      PROVE  SystemPromise!Reopen(e, dests)
  BY <1>2, OrdersAre DEF SystemPromise!Reopen, Stage, Carried, Recorded
<1> QED BY <1>1, <1>2, OrdersAre DEF SystemPromise!Next

-----------------------------------------------------------------------------
(* The steps.                                                              *)

\* A step on one job moves its order alone.
LEMMA OrderMoves ==
  ASSUME NEW j \in JobIds, \A i \in JobIds : i # j => job'[i] = job[i]
  PROVE  Stage' = [Stage EXCEPT ![j] = StageOf(job'[j].state)]
BY DEF Stage

\* A slot that starts to deliver, ends it, or does neither.
LEMMA CarriersMove ==
  ASSUME NEW w \in Workers, \A v \in Workers : v # w => run'[v] = run[v],
         NEW k \in Deliveries
  PROVE  /\ /\ run[w].phase # "delivering" /\ run'[w].phase = "delivering"
            /\ KeyOf(run'[w].job) = k
            => Carried' = [Carried EXCEPT ![k] = @ + 1]
         /\ /\ run[w].phase = "delivering" /\ run'[w].phase # "delivering"
            /\ KeyOf(run[w].job) = k
            => Carried[k] > 0 /\ Carried' = [Carried EXCEPT ![k] = @ - 1]
         /\ run[w].phase # "delivering" /\ run'[w].phase # "delivering"
            => Carried' = Carried
<1>1. \A l : IsFiniteSet(Carriers(l)) /\ Cardinality(Carriers(l)) \in Nat
  BY FewAhead
<1>2. CASE /\ run[w].phase # "delivering" /\ run'[w].phase = "delivering"
           /\ KeyOf(run'[w].job) = k
  <2>1. Carriers(k)' = Carriers(k) \cup {w} /\ w \notin Carriers(k)
    BY <1>2 DEF Carriers
  <2>2. \A l \in Deliveries : l # k => Carriers(l)' = Carriers(l)
    BY <1>2 DEF Carriers
  <2>3. Cardinality(Carriers(k)') = Cardinality(Carriers(k)) + 1
    BY <1>1, <2>1, FS_AddElement
  <2> QED BY <1>2, <2>2, <2>3 DEF Carried
<1>3. CASE /\ run[w].phase = "delivering" /\ run'[w].phase # "delivering"
           /\ KeyOf(run[w].job) = k
  <2>1. Carriers(k)' = Carriers(k) \ {w} /\ w \in Carriers(k)
    BY <1>3 DEF Carriers
  <2>2. \A l \in Deliveries : l # k => Carriers(l)' = Carriers(l)
    BY <1>3 DEF Carriers
  <2>3. Cardinality(Carriers(k)') = Cardinality(Carriers(k)) - 1
    BY <1>1, <2>1, FS_RemoveElement
  <2>4. Cardinality(Carriers(k)) > 0
    <3>1. Cardinality(Carriers(k)') \in Nat
      BY <1>1, <2>1, FS_RemoveElement, FS_CardinalityType
    <3> QED BY <1>1, <2>3, <3>1
  <2> QED BY <1>3, <2>2, <2>3, <2>4 DEF Carried
<1>4. CASE run[w].phase # "delivering" /\ run'[w].phase # "delivering"
  <2>1. \A l \in Deliveries : Carriers(l)' = Carriers(l)
    BY <1>4 DEF Carriers
  <2> QED BY <1>4, <2>1 DEF Carried
<1> QED BY <1>2, <1>3, <1>4

\* A slot that loads its event has a start left for it.
LEMMA RoomToCarry ==
  ASSUME SystemInv, ShareInv, NEW w \in Workers, run[w].phase = "loading",
         NEW k \in Deliveries, k = KeyOf(run[w].job)
  PROVE  accepted[k] + Carried[k] < (Attempts[k[2]] + MaxStalls) * Cardinality(JobsOf(k))
<1> DEFINE budget == Attempts[k[2]] + MaxStalls
           grants == JobsOf(k) \X (1 .. budget)
<1>1. /\ accepted[k] \in Nat /\ Attempts[k[2]] \in Nat /\ MaxStalls \in Nat
      /\ \A j \in JobIds : starts[j] \in Nat
  BY AttemptsAssumption, MaxStallsAssumption
     DEF SystemInv, TypeInv, TypeOK, WorkerTypeOK, Deliveries
<1>2. Cardinality(Carriers(k)) \in Nat
      /\ Cardinality(Carriers(k)) + 1 <= Cardinality(AheadOf(k))
  <2>1. w \in AheadOf(k) /\ Carriers(k) \subseteq AheadOf(k) \ {w}
    BY DEF AheadOf, Carriers
  <2> QED BY <2>1, FewAhead, Counting
<1>3. Begun(k) \subseteq grants
  <2>1. ASSUME NEW x, x \in Begun(k) PROVE x \in grants
    <3>1. /\ x = <<x[1], x[2]>> /\ x[1] \in JobIds /\ x[2] \in Nat /\ KeyOf(x[1]) = k
          /\ x[2] \in 1 .. starts[x[1]]
      BY <2>1 DEF Begun
    <3>2. job[x[1]].state # "absent"
      BY <1>1, <3>1 DEF SystemInv, WorkInv, BudgetInv
    <3>3. starts[x[1]] <= Attempts[x[1].dest] + MaxStalls /\ x[1].dest = k[2]
      BY <3>1 DEF SystemInv, WorkInv, StartsWithinBudget, KeyOf
    <3>4. x[2] \in 1 .. budget
      BY <1>1, <3>1, <3>3
    <3>5. x[1] \in JobsOf(k)
      BY <3>1, <3>2 DEF JobsOf
    <3> HIDE DEF budget
    <3> QED BY <3>1, <3>4, <3>5
  <2> QED BY <2>1
<1>4. IsFiniteSet(JobsOf(k)) /\ Cardinality(JobsOf(k)) \in Nat
  BY FS_CardinalityType DEF ShareInv
<1>5. IsFiniteSet(1 .. budget) /\ Cardinality(1 .. budget) = budget
  <2>1. budget \in Nat
    BY <1>1
  <2> HIDE DEF budget
  <2>2. 1 \in Int /\ budget \in Int
    BY <2>1
  <2>3. IsFiniteSet(1 .. budget)
        /\ Cardinality(1 .. budget) = (IF 1 > budget THEN 0 ELSE budget - 1 + 1)
    BY <2>2, FS_Interval
  <2> QED BY <2>1, <2>3
<1>6. /\ IsFiniteSet(grants) /\ Cardinality(grants) \in Nat
      /\ Cardinality(grants) = Cardinality(JobsOf(k)) * budget
  <2>1. IsFiniteSet(grants)
        /\ Cardinality(grants) = Cardinality(JobsOf(k)) * Cardinality(1 .. budget)
    BY <1>4, <1>5, FS_Product
  <2> QED BY <1>5, <2>1, FS_CardinalityType
<1>7. Cardinality(Begun(k)) \in Nat /\ Cardinality(Begun(k)) <= Cardinality(grants)
  BY <1>3, <1>6, Counting
<1>8. Cardinality(AheadOf(k)) \in Nat
      /\ accepted[k] + Cardinality(AheadOf(k)) <= Cardinality(Begun(k))
  BY FewAhead DEF ShareInv
<1>9. accepted[k] + Cardinality(Carriers(k)) < Cardinality(grants)
  BY <1>1, <1>2, <1>6, <1>7, <1>8
<1>10. Cardinality(grants) = budget * Cardinality(JobsOf(k))
  BY <1>1, <1>4, <1>6
<1>11. Carried[k] = Cardinality(Carriers(k))
  BY DEF Carried
<1> QED BY <1>9, <1>10, <1>11

\* A slot that saw its job delivered has a delivery for it that no other job
\* completed on.
LEMMA RoomToComplete ==
  ASSUME SystemInv, ShareInv, NEW w \in Workers, run[w].phase = "completing",
         Holds(w, run[w].job)
  PROVE  Cardinality({i \in JobIds : /\ KeyOf(i) = KeyOf(run[w].job)
                                     /\ job[i].state = "completed"})
           < accepted[KeyOf(run[w].job)]
<1> DEFINE k == KeyOf(run[w].job)
           done == {i \in JobIds : KeyOf(i) = k /\ job[i].state = "completed"}
<1>1. run[w].job \in JobIds /\ k \in Deliveries /\ accepted[k] \in Nat
  BY KeyTyped DEF SystemInv, TypeInv, TypeOK, WorkerTypeOK
<1>2. run[w].job \in Received(k) /\ done \subseteq Received(k) \ {run[w].job}
  BY <1>1 DEF Received, Holds
<1>3. IsFiniteSet(Received(k)) /\ Cardinality(Received(k)) \in Nat
      /\ Cardinality(Received(k)) <= accepted[k]
  BY <1>1, FS_CardinalityType DEF ShareInv
<1> HIDE DEF done, k
<1>4. Cardinality(done) \in Nat /\ Cardinality(done) + 1 <= Cardinality(Received(k))
  BY <1>2, <1>3, Counting
<1>5. Cardinality(done) < accepted[k]
  BY <1>1, <1>3, <1>4
<1> QED BY <1>5 DEF done, k

\* What a step shows the contract when it leaves the jobs, slots or rows alone.
LEMMA Quiet ==
  /\ job' = job => Stage' = Stage
  /\ run' = run => Carried' = Carried
  /\ row' = row => Recorded' = Recorded
BY DEF Stage, Carried, Carriers, Recorded

\* Every step of the ingestion is a step of the contract, or none.
LEMMA IngestPromises ==
  ASSUME SystemInv, TypeInv', Ingest
  PROVE  SystemPromise!Next
<1>1. /\ row' = row /\ run' = run /\ accepted' = accepted
      /\ Carried' = Carried /\ Recorded' = Recorded
  <2>1. row' = row
    BY DEF Ingest, IngestNext, IngestStep, Reject, Accept, Insert, InsertIfNotExists,
           InsertError, Respond, AddLands, AddFails, ApiRestart, dbVars
  <2> QED BY <2>1, Quiet DEF Ingest, workerVars
<1>2. TypeInv /\ req \in [Requests -> ReqStates] /\ job \in [JobIds -> Jobs]
      /\ adds \in SUBSET Deliveries
  BY DEF SystemInv, TypeInv, TypeOK, IngestTypeOK, QueueTypeOK
<1>3. ASSUME stored' = stored, job' = job, Admitted' \subseteq Admitted
      PROVE  SystemPromise!Next
  BY <1>1, <1>2, <1>3, Quiet, PromiseForgets DEF Unseen
<1>4. ASSUME NEW r \in Requests, job' = job, adds' = adds,
             req[r].phase = "inserting",
             \A s \in Requests : s # r => req'[s] = req[s],
             req'[r].event = req[r].event,
             \/ stored' = stored /\ ~(req'[r].phase = "continuing" /\ req'[r].inserted)
             \/ stored' = stored \cup {req[r].event}
      PROVE  SystemPromise!Next
  <2> DEFINE e == req[r].event
  <2>1. e \in Events
    BY <1>4 DEF SystemInv, TypeInv, InHandler
  <2>2. CASE stored' = stored
    <3>1. Admitted' \subseteq Admitted
      BY <1>4, <2>2, AdmittedAre DEF Added
    <3> QED BY <1>3, <1>4, <2>2, <3>1
  <2>3. CASE e \notin stored /\ stored' = stored \cup {e}
    <3>1. \A x : x \in Admitted' <=> x \in Admitted \/ x = e
      BY <1>4, <2>3, AdmittedAre DEF Added
    <3>2. Admitted' = Admitted \cup {e}
      BY <3>1
    <3> QED BY <1>1, <1>4, <2>1, <2>3, <3>2, Quiet, PromiseStores DEF Unseen
  <2> QED BY <1>4, <2>2, <2>3
<1>5. ASSUME NEW r \in Requests, Insert(r) PROVE SystemPromise!Next
  <2>1. PICK inserted \in BOOLEAN :
          /\ InsertIfNotExists(req[r].event, inserted)
          /\ req' = [req EXCEPT ![r].phase = "continuing", ![r].inserted = inserted]
    BY <1>5 DEF Insert
  <2>2. /\ req'[r].event = req[r].event /\ req'[r].inserted = inserted
        /\ \A s \in Requests : s # r => req'[s] = req[s]
    BY <1>2, <2>1 DEF ReqStates
  <2> QED BY <1>4, <1>5, <2>1, <2>2 DEF Insert, InsertIfNotExists
<1>6. ASSUME NEW r \in Requests, InsertError(r) PROVE SystemPromise!Next
  <2>1. req' = [req EXCEPT ![r].phase = "answered", ![r].reply = "internal_error"]
    BY <1>6 DEF InsertError
  <2>2. /\ req'[r].event = req[r].event /\ req'[r].phase = "answered"
        /\ \A s \in Requests : s # r => req'[s] = req[s]
    BY <1>2, <2>1 DEF ReqStates
  <2> QED BY <1>4, <1>6, <2>2 DEF InsertError
<1>7. ASSUME NEW r \in Requests, Reject(r) \/ Accept(r) PROVE SystemPromise!Next
  <2>1. /\ stored' = stored /\ job' = job /\ adds' = adds
        /\ req'[r].phase # "continuing"
        /\ \A s \in Requests : s # r => req'[s] = req[s]
    BY <1>2, <1>7 DEF Reject, Accept, dbVars, ReqStates
  <2>2. Admitted' \subseteq Admitted
    BY <2>1, AdmittedAre DEF Added
  <2> QED BY <1>3, <2>1, <2>2
<1>8. ASSUME NEW r \in Requests, Respond(r) PROVE SystemPromise!Next
  <2>1. /\ stored' = stored /\ job' = job /\ req[r].phase = "continuing"
        /\ adds' = (IF req[r].inserted THEN adds \cup ({req[r].event} \X Destinations)
                                       ELSE adds)
    BY <1>8 DEF Respond, dbVars
  <2>2. /\ req'[r].phase # "continuing"
        /\ \A s \in Requests : s # r => req'[s] = req[s]
    BY <1>2, <1>8 DEF Respond, ReqStates
  <2>3. \A k \in adds' : k \in adds \/ (req[r].inserted /\ k[1] = req[r].event)
    BY <2>1
  <2>4. Admitted' \subseteq Admitted
    BY <2>1, <2>2, <2>3, AdmittedAre DEF Added
  <2> QED BY <1>3, <2>1, <2>4
<1>9. ASSUME NEW k \in adds, AddLands(k) PROVE SystemPromise!Next
  <2> DEFINE j == OriginalJob(k)
  <2>1. /\ stored' = stored /\ req' = req /\ adds' = adds \ {k} /\ Add(j)
    BY <1>9 DEF AddLands, dbVars, OriginalJob
  <2>2. k \in Deliveries /\ j \in JobIds /\ j.event = k[1] /\ j.tag = Original
    BY <1>2, KeyTyped DEF OriginalJob
  <2> HIDE DEF j
  <2>3. CASE job' = job
    <3>1. Admitted' \subseteq Admitted
      BY <2>1, <2>3, AdmittedAre DEF Added
    <3> QED BY <1>3, <2>1, <2>3, <3>1
  <2>4. CASE ~Added(j) /\ job' = [job EXCEPT ![j] = [Absent EXCEPT !.state = "waiting"]]
    <3>1. job'[j].state = "waiting" /\ \A i \in JobIds : i # j => job'[i] = job[i]
      BY <1>2, <2>2, <2>4 DEF Absent
    <3>2. Stage' = [Stage EXCEPT ![j] = "owed"]
      BY <2>2, <3>1, OrderMoves DEF StageOf
    <3>3. k[1] \in Admitted
      BY AdmittedAre
    <3>4. \A x : x \in Admitted' <=> x \in Admitted
      BY <2>1, <2>2, <3>1, <3>3, AdmittedAre DEF Added
    <3>5. Admitted' = Admitted
      BY <3>4 DEF Admitted
    <3> QED BY <1>1, <1>2, <2>1, <2>2, <2>4, <3>2, <3>3, <3>5, PromisePlaces
  <2> QED BY <2>1, <2>3, <2>4 DEF Add, Added
<1>10. ASSUME NEW k \in adds, AddFails(k) PROVE SystemPromise!Next
  <2>1. stored' = stored /\ job' = job /\ req' = req /\ adds' \subseteq adds
    BY <1>10 DEF AddFails, dbVars
  <2>2. Admitted' \subseteq Admitted
    BY <2>1, AdmittedAre DEF Added
  <2> QED BY <1>3, <2>1, <2>2
<1>11. CASE ApiRestart
  <2>1. /\ stored' = stored /\ job' = job /\ adds' = {}
        /\ \A r \in Requests : req'[r].phase # "continuing"
    BY <1>2, <1>11 DEF ApiRestart, dbVars, InHandler, ReqStates
  <2>2. Admitted' \subseteq Admitted
    BY <2>1, AdmittedAre DEF Added
  <2> QED BY <1>3, <2>1, <2>2
<1> QED BY <1>5, <1>6, <1>7, <1>8, <1>9, <1>10, <1>11 DEF Ingest, IngestNext, IngestStep

\* The workers leave the admitted events as they are.
LEMMA WorkAdmits ==
  ASSUME TypeInv, Work
  PROVE  stored' = stored /\ Admitted' = Admitted
<1>1. stored' = stored /\ UNCHANGED <<req, adds>>
  BY WorkAddsNothing DEF Work, ingestVars
<1>2. \A j \in JobIds : job'[j].state # "absent" <=> Added(j)
  BY WorkAddsNothing, WorkTouchesOneJob DEF Added
<1>3. \A x : x \in Admitted' <=> x \in Admitted
  BY <1>1, <1>2, AdmittedAre
<1> QED BY <1>1, <1>3 DEF Admitted

\* Every step of the workers is a step of the contract, or none.
LEMMA WorkPromises ==
  ASSUME SystemInv, TypeInv', ShareInv, Work
  PROVE  SystemPromise!Next
<1>1. /\ TypeInv /\ job \in [JobIds -> Jobs] /\ run \in [Workers -> Runs]
      /\ stored' = stored /\ Admitted' = Admitted /\ Admitted' \subseteq Admitted
  BY WorkAdmits DEF SystemInv, TypeInv, TypeOK, QueueTypeOK, WorkerTypeOK
<1>2. ASSUME NEW w \in Workers, run[w].phase # "idle"
      PROVE  run[w].job \in JobIds /\ KeyOf(run[w].job) \in Deliveries
  BY <1>2, KeyTyped DEF SystemInv, TypeInv
<1>3. ASSUME UNCHANGED <<Stage, Carried, accepted, Recorded>> PROVE SystemPromise!Next
  BY <1>1, <1>3, PromiseForgets DEF Unseen
<1>4. ASSUME NEW j \in JobIds, Live(j), \A i \in JobIds : i # j => job'[i] = job[i],
             job'[j].state \in {"waiting", "active", "failed"},
             Carried' = Carried, accepted' = accepted, row' = row
      PROVE  SystemPromise!Next
  <2>1. Stage' = [Stage EXCEPT ![j] = StageOf(job'[j].state)] /\ Recorded' = Recorded
    BY <1>4, OrderMoves, Quiet
  <2>2. CASE job'[j].state = "failed"
    <3>1. Stage' = [Stage EXCEPT ![j] = "abandoned"]
      BY <2>1, <2>2 DEF StageOf
    <3> QED BY <1>1, <1>4, <2>1, <3>1, PromiseConcludes
  <2>3. CASE job'[j].state \in {"waiting", "active"}
    <3>1. Stage[j] = "owed" /\ StageOf(job'[j].state) = "owed"
      BY <1>1, <1>4, <2>3, OrdersAre DEF StageOf
    <3>2. Stage' = Stage
      BY <2>1, <3>1 DEF Stage
    <3> QED BY <1>3, <1>4, <2>1, <3>2
  <2> QED BY <1>4, <2>2, <2>3
<1>5. ASSUME NEW w \in Workers, NEW i \in JobIds, Take(w, i) PROVE SystemPromise!Next
  <2>1. /\ row' = row /\ accepted' = accepted /\ Live(i)
        /\ job' = [job EXCEPT ![i].state = "active", ![i].holder = w]
    BY <1>5 DEF Take, MoveToActive, dbVars, Live
  <2>2. job'[i].state = "active" /\ \A j \in JobIds : j # i => job'[j] = job[j]
    BY <1>1, <2>1 DEF Jobs
  <2>3. /\ run[w].phase # "delivering" /\ run'[w].phase # "delivering"
        /\ \A v \in Workers : v # w => run'[v] = run[v]
    BY <1>1, <1>5, TakeMoves
  <2>4. Carried' = Carried
    <3>1. \A k : Carriers(k)' = Carriers(k)
      BY <2>3 DEF Carriers
    <3> QED BY <3>1 DEF Carried
  <2> QED BY <1>4, <2>1, <2>2, <2>4
<1>6. ASSUME NEW w \in Workers, LoadEvent(w) PROVE SystemPromise!Next
  <2> DEFINE k == KeyOf(run[w].job)
  <2>1. /\ row' = row /\ job' = job /\ accepted' = accepted /\ run[w].phase = "loading"
        /\ \/ run[w].job.event \in stored
           \/ run'[w].phase = "throwing"
    BY <1>1, <1>6 DEF LoadEvent, history, dbVars, Throw, Runs
  <2>2. /\ run'[w].phase \in {"delivering", "throwing"} /\ run'[w].job = run[w].job
        /\ \A v \in Workers : v # w => run'[v] = run[v]
    BY <1>1, <1>6, SlotMoves DEF Moves
  <2>3. k \in Deliveries /\ k[1] = run[w].job.event
    BY <1>2, <2>1 DEF KeyOf
  <2>4. Stage' = Stage /\ Recorded' = Recorded
    BY <2>1, Quiet
  <2>5. CASE run'[w].phase = "throwing"
    <3>1. Carried' = Carried
      BY <2>1, <2>2, <2>3, <2>5, CarriersMove
    <3> QED BY <1>3, <2>1, <2>4, <3>1
  <2>6. CASE run'[w].phase = "delivering"
    <3>1. Carried' = [Carried EXCEPT ![k] = @ + 1]
      BY <2>1, <2>2, <2>3, <2>6, CarriersMove
    <3>2. accepted[k] + Carried[k] < (Attempts[k[2]] + MaxStalls) * Cardinality(JobsOf(k))
      BY <2>1, <2>3, RoomToCarry
    <3>3. k[1] \in stored
      BY <2>1, <2>3, <2>6
    <3> HIDE DEF k
    <3> QED BY <1>1, <2>1, <2>3, <2>4, <3>1, <3>2, <3>3, PromiseCarries
  <2> QED BY <2>2, <2>5, <2>6
<1>7. ASSUME NEW w \in Workers, run[w].phase = "delivering", run'[w].phase # "delivering",
             \A v \in Workers : v # w => run'[v] = run[v], row' = row, job' = job,
             accepted' \in {accepted, [accepted EXCEPT ![KeyOf(run[w].job)] = @ + 1]}
      PROVE  SystemPromise!Next
  <2> DEFINE k == KeyOf(run[w].job)
  <2>1. k \in Deliveries
    BY <1>2, <1>7
  <2>2. Carried[k] > 0 /\ Carried' = [Carried EXCEPT ![k] = @ - 1]
    BY <1>7, <2>1, CarriersMove
  <2>3. Stage' = Stage /\ Recorded' = Recorded
    BY <1>7, Quiet
  <2>4. accepted' \in {accepted, [accepted EXCEPT ![k] = @ + 1]}
    BY <1>7
  <2> HIDE DEF k
  <2> QED BY <1>1, <2>1, <2>2, <2>3, <2>4, PromiseCarries
<1>8. ASSUME NEW w \in Workers, DeliverAccepted(w) \/ DeliverUnheard(w) \/ DeliverRefused(w)
      PROVE  SystemPromise!Next
  <2>1. /\ row' = row /\ job' = job
        /\ accepted' \in {accepted, [accepted EXCEPT ![KeyOf(run[w].job)] = @ + 1]}
    BY <1>8 DEF DeliverAccepted, DeliverUnheard, DeliverRefused, history, dbVars
  <2>2. /\ run[w].phase = "delivering" /\ run'[w].phase # "delivering"
        /\ \A v \in Workers : v # w => run'[v] = run[v]
    BY <1>1, <1>8, SlotMoves DEF Moves
  <2> QED BY <1>7, <2>1, <2>2
<1>9. ASSUME NEW w \in Workers, run[w].phase # "delivering", run'[w].phase # "delivering",
             \A v \in Workers : v # w => run'[v] = run[v]
      PROVE  Carried' = Carried
  <2>1. \A k : Carriers(k)' = Carriers(k)
    BY <1>9 DEF Carriers
  <2> QED BY <2>1 DEF Carried
<1>10. ASSUME NEW w \in Workers, RecordDelivered(w) PROVE SystemPromise!Next
  <2> DEFINE k == KeyOf(run[w].job)
             update == DeliveredUpdate(AttemptOf(run[w].made))
  <2>1. /\ job' = job /\ accepted' = accepted /\ run[w].phase = "recording"
        /\ WriteDeliveryState(k, update) \/ row' = row
    BY <1>10 DEF RecordDelivered, history, dbVars
  <2>2. Carried' = Carried
    BY <1>1, <1>9, <1>10, SlotMoves DEF Moves
  <2>3. Stage' = Stage
    BY <2>1, Quiet
  <2>4. CASE row' = row
    BY <1>3, <2>1, <2>2, <2>3, <2>4, Quiet
  <2>5. CASE WriteDeliveryState(k, update)
    <3>1. run[w].made \in Nat /\ k \in Deliveries /\ accepted[k] > 0
      BY <1>1, <1>2, <2>1 DEF Runs, SystemInv, WorkInv, SlotsInv
    <3>2. update \in Updates /\ update.deliveredAt = TRUE
      BY <3>1 DEF DeliveredUpdate, AttemptOf, Updates, Statuses
    <3> HIDE DEF k, update
    <3>3. row \in [Deliveries -> Rows] /\ row' = [row EXCEPT ![k] = Upserted(row[k], update)]
      BY <1>1, <2>5 DEF WriteDeliveryState, TypeInv, TypeOK, DatabaseTypeOK
    <3>4. Upserted(row[k], update).deliveredAt = TRUE
      BY <3>1, <3>2, <3>3, UpsertedRow
    <3>5. Recorded' = [Recorded EXCEPT ![k] = TRUE]
      BY <3>1, <3>3, <3>4 DEF Recorded
    <3> QED BY <1>1, <2>1, <2>2, <2>3, <3>1, <3>5, PromiseRecords
  <2> QED BY <2>1, <2>4, <2>5
<1>11. ASSUME NEW w \in Workers, Complete(w) PROVE SystemPromise!Next
  <2> DEFINE j == run[w].job
  <2>1. /\ row' = row /\ accepted' = accepted /\ run[w].phase = "completing"
        /\ j \in JobIds
    BY <1>2, <1>11 DEF Complete, history, dbVars
  <2>2. Carried' = Carried /\ Recorded' = Recorded
    BY <1>1, <1>9, <1>11, <2>1, SlotMoves, Quiet DEF LetsGo, Idle
  <2>3. CASE ~Holds(w, j)
    BY <1>3, <1>11, <2>1, <2>2, <2>3, Quiet DEF Complete
  <2>4. CASE Holds(w, j)
    <3>1. /\ Live(j) /\ job'[j].state = "completed"
          /\ \A i \in JobIds : i # j => job'[i] = job[i]
      BY <1>1, <1>11, <2>1, <2>4 DEF Complete, MoveToCompleted, Holds, Live, Jobs
    <3>2. Stage' = [Stage EXCEPT ![j] = "delivered"]
      BY <2>1, <3>1, OrderMoves DEF StageOf
    <3>3. Cardinality({i \in JobIds : KeyOf(i) = KeyOf(j) /\ job[i].state = "completed"})
            < accepted[KeyOf(j)]
      BY <2>1, <2>4, RoomToComplete
    <3> HIDE DEF j
    <3> QED BY <1>1, <2>1, <2>2, <3>1, <3>2, <3>3, PromiseConcludes
  <2> QED BY <2>3, <2>4
<1>12. ASSUME NEW w \in Workers, Fail(w) PROVE SystemPromise!Next
  <2>1. /\ row' = row /\ accepted' = accepted /\ run[w].phase = "throwing"
        /\ run[w].job \in JobIds
    BY <1>2, <1>12 DEF Fail, history, dbVars
  <2>2. Carried' = Carried /\ Recorded' = Recorded
    BY <1>1, <1>9, <1>12, <2>1, SlotMoves, Quiet DEF LetsGo, Idle
  <2>3. CASE ~Holds(w, run[w].job)
    BY <1>3, <1>12, <2>1, <2>2, <2>3, Quiet DEF Fail
  <2>4. CASE Holds(w, run[w].job)
    <3>1. /\ Live(run[w].job) /\ job'[run[w].job].state \in {"waiting", "failed"}
          /\ \A i \in JobIds : i # run[w].job => job'[i] = job[i]
      BY <1>1, <1>12, <2>1, <2>4, FailedJob DEF Fail, Holds, Live
    <3> QED BY <1>4, <2>1, <2>2, <3>1
  <2> QED BY <2>3, <2>4
<1>13. ASSUME NEW n \in notices, RecordFailure(n) PROVE SystemPromise!Next
  <2> DEFINE k == KeyOf(n.job)   update == FailureUpdate(n)
  <2>1. /\ job' = job /\ accepted' = accepted /\ run' = run
        /\ WriteDeliveryState(k, update) \/ row' = row
    BY <1>13 DEF RecordFailure, history, dbVars
  <2>2. k \in Deliveries /\ update \in Updates /\ update.deliveredAt = FALSE
    BY <1>1, KeyTyped, UpdatesTyped DEF TypeInv, TypeOK, WorkerTypeOK, Notices
  <2> HIDE DEF k, update
  <2>3. \A l \in Deliveries : row'[l].deliveredAt = row[l].deliveredAt
    <3>1. row \in [Deliveries -> Rows]
      BY <1>1 DEF TypeInv, TypeOK, DatabaseTypeOK
    <3>2. \A l \in Deliveries : row[l].deliveredAt \in BOOLEAN
      BY <3>1 DEF Rows
    <3> QED BY <1>1, <2>1, <2>2, <3>2, WriteEffect
  <2>4. Recorded' = Recorded
    BY <2>3 DEF Recorded
  <2> QED BY <1>3, <2>1, <2>4, Quiet
<1>14. ASSUME NEW i \in JobIds, LockExpires(i) \/ \E w \in Workers : GiveUpStalled(i, w)
       PROVE  SystemPromise!Next
  <2>1. /\ Stall(i) \/ StallOut(i)
        /\ row' = row /\ accepted' = accepted /\ run' = run
    BY <1>14 DEF LockExpires, GiveUpStalled, history, dbVars
  <2>2. /\ Live(i) /\ job'[i].state \in {"waiting", "failed"}
        /\ \A j \in JobIds : j # i => job'[j] = job[j]
    BY <1>1, <2>1 DEF Stall, StallOut, Live, Jobs
  <2> QED BY <1>4, <2>1, <2>2, Quiet
<1>15. ASSUME NEW w \in Workers, WorkerRestart(w) PROVE SystemPromise!Next
  <2>1. row' = row /\ job' = job /\ accepted' = accepted
    BY <1>15 DEF WorkerRestart, history, dbVars
  <2>2. run'[w].phase # "delivering" /\ \A v \in Workers : v # w => run'[v] = run[v]
    BY <1>1, <1>15, SlotMoves DEF LetsGo, Idle
  <2>3. CASE run[w].phase = "delivering"
    BY <1>7, <2>1, <2>2, <2>3
  <2>4. CASE run[w].phase # "delivering"
    BY <1>3, <1>9, <2>1, <2>2, <2>4, Quiet
  <2> QED BY <2>3, <2>4
<1> QED BY <1>5, <1>6, <1>8, <1>10, <1>11, <1>12, <1>13, <1>14, <1>15
        DEF Work, WorkerNext, Step

\* A replay's update and its jobs are steps of the contract, the rest none.
LEMMA ReplayPromises ==
  ASSUME SystemInv, TypeInv', OriginalInv,
         ReplayStep, UNCHANGED <<ingestVars, workerVars>>
  PROVE  SystemPromise!Next
<1>1. /\ TypeInv /\ ReplayTypeInv /\ job \in [JobIds -> Jobs]
      /\ UNCHANGED <<req, adds, run, accepted>>
      /\ Carried' = Carried /\ stored' = stored
  BY Quiet, ReplayEffect
     DEF SystemInv, TypeInv, TypeOK, QueueTypeOK, ingestVars, workerVars
<1>2. ASSUME job' = job PROVE Admitted' = Admitted
  <2>1. \A x : x \in Admitted' <=> x \in Admitted
    BY <1>1, <1>2, AdmittedAre DEF Added
  <2> QED BY <2>1 DEF Admitted
<1>3. ASSUME job' = job, row' = row PROVE SystemPromise!Next
  <2>1. Admitted' \subseteq Admitted
    BY <1>2, <1>3
  <2> QED BY <1>1, <1>3, <2>1, Quiet, PromiseForgets DEF Unseen
<1>4. ASSUME NEW o \in Operators, replay[o].phase = "updating", job' = job,
             ReplayEventDeliveries(replay[o].event,
                                   ReplayTargets(replay[o].event, replay[o].named))
      PROVE  SystemPromise!Next
  <2> DEFINE e == replay[o].event
             targets == ReplayTargets(e, replay[o].named)
  <2>1. e \in Events /\ targets \in SUBSET Destinations
    BY <1>1, <1>4, TargetsTyped DEF ReplayTypeInv, ReplayTyped, ReplayStates
  <2>2. row \in [Deliveries -> Rows] /\ \A r \in Rows : Replayed(r).deliveredAt = FALSE
    BY <1>1 DEF TypeInv, TypeOK, DatabaseTypeOK, Replayed, Rows
  <2>3. row' = [k \in Deliveries |->
                  IF k[1] = e /\ k[2] \in targets THEN Replayed(row[k]) ELSE row[k]]
    BY <1>4 DEF ReplayEventDeliveries
  <2> HIDE DEF e, targets
  <2>4. \A k \in Deliveries : row'[k].deliveredAt
          = (IF k[1] = e /\ k[2] \in targets THEN FALSE ELSE row[k].deliveredAt)
    BY <2>2, <2>3
  <2>5. \A k \in Deliveries : row[k].deliveredAt \in BOOLEAN
    BY <2>2 DEF Rows
  <2>6. Recorded' = [k \in Deliveries |->
                       Recorded[k] /\ ~(k[1] = e /\ k[2] \in targets)]
    BY <2>4, <2>5 DEF Recorded
  <2> QED BY <1>1, <1>2, <1>4, <2>1, <2>6, Quiet, PromiseRecords
<1>5. ASSUME NEW o \in Operators, SelectRows(o) \/ SelectRowsError(o)
      PROVE  SystemPromise!Next
  BY <1>3, <1>4, <1>5 DEF SelectRows, SelectRowsError, dbVars
<1>6. ASSUME NEW o \in Operators, NEW d \in Destinations, QueueReplay(o, d)
      PROVE  SystemPromise!Next
  <2> DEFINE j == ReplayJob(o, d)
  <2>1. row' = row /\ d \in replay[o].pending /\ Add(j)
    BY <1>6 DEF QueueReplay, dbVars
  <2>2. /\ d \in replay[o].targets /\ j \in JobIds
        /\ KeyOf(j) = <<replay[o].event, d>> /\ j.event = replay[o].event
    BY <1>1, <2>1 DEF ReplayTypeInv, ReplayTyped, ReplayStates, ReplayJob, JobIds, KeyOf
  <2>3. Added(OriginalJob(KeyOf(j)))
    BY <2>2 DEF OriginalInv
  <2>4. OriginalJob(KeyOf(j)) \in JobIds /\ OriginalJob(KeyOf(j)).event = j.event
    BY <2>2, KeyTyped DEF OriginalJob
  <2>5. j.event \in Admitted
    BY <2>3, <2>4, AdmittedAre
  <2> HIDE DEF j
  <2>6. CASE job' = job
    BY <1>3, <2>1, <2>6
  <2>7. CASE ~Added(j) /\ job' = [job EXCEPT ![j] = [Absent EXCEPT !.state = "waiting"]]
    <3>1. job'[j].state = "waiting" /\ \A i \in JobIds : i # j => job'[i] = job[i]
      BY <1>1, <2>2, <2>7 DEF Absent
    <3>2. Stage' = [Stage EXCEPT ![j] = "owed"]
      BY <2>2, <3>1, OrderMoves DEF StageOf
    <3>3. \A x : x \in Admitted' <=> x \in Admitted
      BY <1>1, <2>2, <2>5, <3>1, AdmittedAre DEF Added
    <3>4. Admitted' = Admitted
      BY <3>3 DEF Admitted
    <3> QED BY <1>1, <2>1, <2>2, <2>3, <2>5, <2>7, <3>2, <3>4, Quiet, PromisePlaces
  <2> QED BY <2>1, <2>6, <2>7 DEF Add, Added
<1>7. ASSUME NEW o \in Operators,
             \/ BeginReplay(o) \/ RefuseReplay(o) \/ QueuedAll(o) \/ Refresh(o)
             \/ \E d \in Destinations : QueueReplayError(o, d)
      PROVE  SystemPromise!Next
  BY <1>3, <1>7 DEF BeginReplay, RefuseReplay, QueuedAll, Refresh, QueueReplayError, dbVars
<1> QED BY <1>5, <1>6, <1>7 DEF ReplayStep

\* A deletion is one of the contract's, of the user's stored events.
LEMMA DeletePromises ==
  ASSUME SystemInv, TypeInv', NEW u \in Users, DeleteUser(u)
  PROVE  SystemPromise!Next
<1> DEFINE events == {e \in Events : UserOf[e] = u} \cap stored
<1>1. TypeInv /\ row \in [Deliveries -> Rows]
  BY DEF SystemInv, TypeInv, TypeOK, DatabaseTypeOK
<1>2. /\ UNCHANGED <<job, req, adds, run, accepted>> /\ stored' = stored \ events
      /\ row' = [k \in Deliveries |-> IF k[1] \in events THEN NoRow ELSE row[k]]
  BY DEF DeleteUser, DeleteByUserId, ingestVars, workerVars
<1>3. Stage' = Stage /\ Carried' = Carried /\ events \in SUBSET stored
  BY <1>2, Quiet
<1> HIDE DEF events
<1>4. Admitted' \subseteq Admitted
  BY <1>2, AdmittedAre DEF Added
<1>5. \A k \in Deliveries : /\ row[k].deliveredAt \in BOOLEAN
                            /\ row'[k].deliveredAt = (row[k].deliveredAt /\ k[1] \notin events)
  BY <1>1, <1>2 DEF NoRow, Rows
<1>6. Recorded' = [k \in Deliveries |-> Recorded[k] /\ k[1] \notin events]
  BY <1>5 DEF Recorded
<1> QED BY <1>1, <1>2, <1>3, <1>4, <1>6, PromiseDeletes

\* The whole system implements the contract: in every behaviour, an event
\* leaves for a destination only if it was stored when a slot picked it up,
\* all that arrives stays within the attempts and stalls of the delivery's
\* jobs, no two jobs complete on one arrival, no replay precedes the original
\* job, and a delivery time goes only with the event or by a replay.
THEOREM SystemKeepsPromise == SystemSpec => KeepsSystemPromise
<1>1. SystemInit => SystemPromise!Init
  <2> SUFFICES ASSUME SystemInit PROVE SystemPromise!Init
    OBVIOUS
  <2>1. /\ stored = {} /\ adds = {} /\ \A r \in Requests : req[r].phase = "unsent"
        /\ \A j \in JobIds : job[j].state = "absent"
        /\ \A w \in Workers : run[w].phase = "idle"
        /\ \A k \in Deliveries : row[k].deliveredAt = FALSE
        /\ accepted = [k \in Deliveries |-> 0]
    BY DEF SystemInit, Init, DatabaseInit, QueueInit, IngestInit, WorkerInit, Unsent,
           Absent, Idle, NoRow
  <2>2. Admitted = {}
    <3>1. \A x : x \notin Admitted
      BY <2>1, AdmittedAre DEF Added
    <3> QED BY <3>1
  <2>3. Stage = [j \in JobIds |-> "none"]
    BY <2>1 DEF Stage, StageOf
  <2>4. Carried = [k \in Deliveries |-> 0]
    <3>1. \A k : Carriers(k) = {}
      BY <2>1 DEF Carriers
    <3> QED BY <3>1, FS_EmptySet DEF Carried
  <2>5. Recorded = [k \in Deliveries |-> FALSE]
    BY <2>1 DEF Recorded
  <2> QED BY <2>1, <2>2, <2>3, <2>4, <2>5
          DEF SystemPromise!Init, SystemPromise!Orders, SystemPromise!Deliveries, JobIds,
              Deliveries, Stage, Carried, Recorded
<1>2. SystemInv /\ ShareInv /\ OriginalInv /\ [SystemNext]_systemVars
        => [SystemPromise!Next]_(SystemPromise!vars)
  <2> SUFFICES ASSUME SystemInv, ShareInv, OriginalInv, [SystemNext]_systemVars
               PROVE  SystemPromise!Next
    OBVIOUS
  <2>1. TypeInv /\ TypeInv'
    BY PipelineTyped DEF SystemInv
  <2>2. CASE UNCHANGED systemVars
    <3>1. UNCHANGED <<stored, row, job, run, accepted, req, adds>>
      BY <2>2 DEF systemVars, vars, dbVars, ingestVars, workerVars
    <3>2. Admitted' \subseteq Admitted
      BY <3>1, AdmittedAre DEF Added
    <3> QED BY <2>1, <3>1, <3>2, Quiet, PromiseForgets DEF Unseen
  <2> QED BY <2>1, <2>2, SystemSteps, IngestPromises, WorkPromises, ReplayPromises,
             DeletePromises
<1> QED BY <1>1, <1>2, SystemInvariant, SharesAlways, OriginalsAlways, PTL
        DEF SystemSpec, KeepsSystemPromise, SystemPromise!Spec
=============================================================================
