----------------------- MODULE DeliveryContractProofs -----------------------
(***************************************************************************)
(* That DeliveryPipeline implements the safety part of DeliveryContract,   *)
(* and that every duplicate delivery has a reason, for every value of the  *)
(* constants.                                                              *)
(*                                                                         *)
(* The contract's bound on deliveries counts slots.  A slot that may still *)
(* deliver a job was started for it and has not delivered yet; so what was *)
(* delivered and what still may be stay within the starts.  The duplicates *)
(* are the tally of DeliveryPipelineProofs, where every delivery has one   *)
(* job.                                                                    *)
(***************************************************************************)
EXTENDS DeliveryPipelineProofs

\* Only jobs of the ingestion are ever added here, and a slot at work has a
\* job that was added.
OriginalsInv ==
  /\ \A j \in JobIds : job[j].state # "absent" => j.tag = Original
  /\ \A w \in Workers : run[w].phase # "idle" => job[run[w].job].state # "absent"

\* The slots that may still deliver job j, whether they hold it or not.
Ahead(j) ==
  {w \in Workers : run[w].job = j /\ run[w].phase \in {"loading", "delivering"}}

\* Every start of a job is good for one delivery.
TakenInv ==
  \A k \in Deliveries :
    accepted[k] + Cardinality(Ahead(OriginalJob(k))) <= starts[OriginalJob(k)]

CInv == OriginalsInv /\ TakenInv

-----------------------------------------------------------------------------
(* Only jobs of the ingestion.                                             *)

\* The ingestion adds original jobs and takes none away.
LEMMA IngestKeepsOriginals ==
  ASSUME TypeInv, OriginalsInv, Ingest
  PROVE  OriginalsInv'
<1>1. run' = run
  BY DEF Ingest, workerVars
<1>2. \/ job' = job
      \/ \E k \in adds : AddLands(k)
  BY DEF Ingest, IngestNext, IngestStep, Reject, Accept, Insert, InsertError,
         Respond, AddFails, ApiRestart
<1>3. CASE job' = job
  BY <1>1, <1>3 DEF OriginalsInv
<1>4. ASSUME NEW k \in adds, AddLands(k) PROVE OriginalsInv'
  <2>1. k \in Deliveries
    BY DEF TypeInv, TypeOK, IngestTypeOK
  <2>2. job \in [JobIds -> Jobs] /\ OriginalJob(k) \in JobIds
    BY <2>1, KeyTyped DEF TypeInv, TypeOK, QueueTypeOK
  <2>3. /\ \A j \in JobIds : j # OriginalJob(k) => job'[j] = job[j]
        /\ job'[OriginalJob(k)].state # "absent"
    BY <1>4, <2>2 DEF AddLands, Add, OriginalJob, Absent
  <2>4. OriginalJob(k).tag = Original
    BY DEF OriginalJob
  <2>5. \A w \in Workers : run[w].phase # "idle" => run[w].job \in JobIds
    BY DEF TypeInv
  <2>. QED  BY <1>1, <2>3, <2>4, <2>5 DEF OriginalsInv
<1>. QED  BY <1>2, <1>3, <1>4

\* The workers work on jobs that are there.
LEMMA WorkKeepsOriginals ==
  ASSUME TypeInv, OriginalsInv, Work
  PROVE  OriginalsInv'
<1>1. \A w \in Workers :
        \/ run'[w].phase = "idle"
        \/ run[w].phase # "idle" /\ run'[w].job = run[w].job
        \/ run'[w].job \in JobIds /\ job[run'[w].job].state # "absent"
  <2>1. ASSUME NEW w \in Workers, NEW i \in JobIds, Take(w, i)
        PROVE  /\ \A v \in Workers : v # w => run'[v] = run[v]
               /\ run'[w].job = i /\ job[i].state # "absent"
    BY <2>1, TakeMoves
  <2>2. ASSUME NEW w \in Workers, Step(w) \/ WorkerRestart(w)
        PROVE  /\ \A v \in Workers : v # w => run'[v] = run[v]
               /\ \/ run'[w].phase = "idle"
                  \/ run[w].phase # "idle" /\ run'[w].job = run[w].job
    <3>1. LetsGo(w) \/ Moves(w, {"loading", "delivering", "recording"}, RunPhases)
      <4>1. \A before, after :
              /\ before \subseteq {"loading", "delivering", "recording"}
              /\ after \subseteq RunPhases
              /\ Moves(w, before, after)
              => Moves(w, {"loading", "delivering", "recording"}, RunPhases)
        BY DEF Moves
      <4>. QED  BY <2>2, <4>1, SlotMoves DEF Step, RunPhases
    <3>2. LetsGo(w) => run'[w].phase = "idle"
      BY DEF LetsGo, Idle
    <3>3. Moves(w, {"loading", "delivering", "recording"}, RunPhases)
            => run[w].phase # "idle" /\ run'[w].job = run[w].job
      BY DEF Moves
    <3>4. \A v \in Workers : v # w => run'[v] = run[v]
      BY <3>1 DEF Moves, LetsGo
    <3>. QED  BY <3>1, <3>2, <3>3, <3>4
  <2>3. \/ run' = run
        \/ \E w \in Workers, i \in JobIds : Take(w, i)
        \/ \E w \in Workers : Step(w) \/ WorkerRestart(w)
    BY DEF Work, WorkerNext, RecordFailure, LockExpires, GiveUpStalled
  <2>. QED  BY <2>1, <2>2, <2>3
<1>2. \A w \in Workers : run[w].phase # "idle" => run[w].job \in JobIds
  BY DEF TypeInv
<1>3. \A j \in JobIds : job'[j].state = "absent" <=> job[j].state = "absent"
  BY WorkTouchesOneJob
<1>. QED  BY <1>1, <1>2, <1>3 DEF OriginalsInv

-----------------------------------------------------------------------------
(* Every start is good for one delivery.                                   *)

\* The slots ahead of a delivery are finitely many.
LEMMA FewSlots ==
  ASSUME NEW j
  PROVE  IsFiniteSet(Ahead(j))
<1>1. Ahead(j) \in SUBSET Workers
  BY DEF Ahead
<1>. QED  BY <1>1, WorkersAssumption, FS_Subset

\* An original job is the job of its row and of no other.
LEMMA OneJobPerRow ==
  ASSUME TypeInv, OriginalsInv, NEW w \in Workers, run[w].phase # "idle",
         NEW k \in Deliveries
  PROVE  KeyOf(run[w].job) = k <=> run[w].job = OriginalJob(k)
<1>1. run[w].job \in JobIds /\ run[w].job.tag = Original
  BY DEF TypeInv, OriginalsInv
<1>2. OriginalJob(KeyOf(run[w].job)) = run[w].job
  BY <1>1 DEF JobIds, KeyOf, OriginalJob
<1>. QED  BY <1>2, KeyTyped

\* When one slot moves, the slots ahead of a delivery change by at most it.
LEMMA AheadMoves ==
  ASSUME NEW j, NEW w \in Workers, \A v \in Workers : v # w => run'[v] = run[v]
  PROVE  /\ Ahead(j)' \subseteq Ahead(j) \cup {w}
         /\ w \in Ahead(j) => Ahead(j)' \subseteq Ahead(j)
         /\ w \notin Ahead(j)' => Ahead(j)' \subseteq Ahead(j) \ {w}
BY DEF Ahead

\* The workers spend a start on a delivery, and no start twice.
LEMMA WorkKeepsTaken ==
  ASSUME TypeInv, OriginalsInv, TakenInv, Work, NEW k \in Deliveries
  PROVE  (accepted[k] + Cardinality(Ahead(OriginalJob(k))) <= starts[OriginalJob(k)])'
<1> DEFINE j == OriginalJob(k)
           Goal == accepted'[k] + Cardinality(Ahead(j)') <= starts'[j]
<1>1. /\ accepted \in [Deliveries -> Nat] /\ starts \in [JobIds -> Nat] /\ j \in JobIds
      /\ accepted[k] \in Nat /\ starts[j] \in Nat
      /\ accepted[k] + Cardinality(Ahead(j)) <= starts[j]
  BY KeyTyped DEF TypeInv, TypeOK, WorkerTypeOK, TakenInv
<1>2. IsFiniteSet(Ahead(j))
  BY FewSlots
<1> HIDE DEF j
<1>3. ASSUME Ahead(j)' \subseteq Ahead(j), accepted'[k] = accepted[k], starts'[j] = starts[j]
      PROVE  Goal
  <2>. DEFINE S == Ahead(j)   T == Ahead(j)'
  <2>1. Cardinality(S) \in Nat /\ Cardinality(T) \in Nat /\ Cardinality(T) <= Cardinality(S)
    BY <1>2, <1>3, Counting
  <2>. HIDE DEF S, T
  <2>2. accepted'[k] + Cardinality(T) <= starts'[j]
    BY <1>1, <1>3, <2>1 DEF S
  <2>. QED  BY <2>2 DEF T
<1>4. ASSUME NEW x, Ahead(j)' \subseteq Ahead(j) \cup {x},
             accepted'[k] = accepted[k], starts'[j] = starts[j] + 1
      PROVE  Goal
  <2>. DEFINE S == Ahead(j)   T == Ahead(j)'
  <2>1. Cardinality(S) \in Nat /\ Cardinality(T) \in Nat
        /\ Cardinality(T) <= Cardinality(S) + 1
    BY <1>2, <1>4, Counting
  <2>. HIDE DEF S, T
  <2>2. accepted'[k] + Cardinality(T) <= starts'[j]
    BY <1>1, <1>4, <2>1 DEF S
  <2>. QED  BY <2>2 DEF T
<1>5. ASSUME NEW x, x \in Ahead(j), Ahead(j)' \subseteq Ahead(j) \ {x},
             accepted'[k] = accepted[k] + 1, starts'[j] = starts[j]
      PROVE  Goal
  <2>. DEFINE S == Ahead(j)   T == Ahead(j)'
  <2>1. Cardinality(S) \in Nat /\ Cardinality(T) \in Nat
        /\ Cardinality(T) + 1 <= Cardinality(S)
    BY <1>2, <1>5, Counting
  <2>. HIDE DEF S, T
  <2>2. accepted'[k] + Cardinality(T) <= starts'[j]
    BY <1>1, <1>5, <2>1 DEF S
  <2>. QED  BY <2>2 DEF T
<1> HIDE DEF Goal
<1>6. ASSUME NEW w \in Workers, NEW i \in JobIds, Take(w, i) PROVE Goal
  <2>1. /\ accepted' = accepted /\ starts'[i] = starts[i] + 1
        /\ \A l \in JobIds : l # i => starts'[l] = starts[l]
    BY <1>1, <1>6 DEF Take
  <2>2. Ahead(j)' \subseteq Ahead(j) \cup {w}
    BY <1>6, TakeMoves, AheadMoves
  <2>3. i # j => Ahead(j)' \subseteq Ahead(j)
    BY <1>6, TakeMoves, AheadMoves DEF Ahead
  <2>. QED  BY <1>1, <1>3, <1>4, <2>1, <2>2, <2>3
<1>7. ASSUME NEW w \in Workers, DeliverAccepted(w) \/ DeliverUnheard(w) PROVE Goal
  <2>1. /\ starts' = starts
        /\ accepted' = [accepted EXCEPT ![KeyOf(run[w].job)] = @ + 1]
    BY <1>7 DEF DeliverAccepted, DeliverUnheard
  <2>2. /\ run[w].phase = "delivering" /\ run'[w].phase \in {"recording", "throwing"}
        /\ \A v \in Workers : v # w => run'[v] = run[v]
    BY <1>7, SlotMoves DEF Moves
  <2>3. w \notin Ahead(j)'
    BY <2>2 DEF Ahead
  <2>4. Ahead(j)' \subseteq Ahead(j) \ {w}
    BY <2>2, <2>3, AheadMoves
  <2>5. KeyOf(run[w].job) = k <=> w \in Ahead(j)
    BY <2>2, OneJobPerRow DEF Ahead, j
  <2>6. accepted'[k] = IF KeyOf(run[w].job) = k THEN accepted[k] + 1 ELSE accepted[k]
    BY <1>1, <2>1
  <2>. QED  BY <1>3, <1>5, <2>1, <2>4, <2>5, <2>6
<1>8. ASSUME NEW w \in Workers, \/ LoadEvent(w) \/ DeliverRefused(w) \/ RecordDelivered(w)
                                \/ Complete(w) \/ Fail(w) \/ WorkerRestart(w)
      PROVE  Goal
  <2>1. accepted' = accepted /\ starts' = starts
    BY <1>8 DEF LoadEvent, DeliverRefused, RecordDelivered, Complete, Fail,
                WorkerRestart, history
  <2>2. LetsGo(w) \/ Moves(w, {"loading"}, {"delivering", "throwing"})
        \/ Moves(w, {"delivering"}, {"throwing"}) \/ Moves(w, {"recording"}, {"completing"})
    BY <1>8, SlotMoves
  <2>3. Ahead(j)' \subseteq Ahead(j)
    BY <2>2 DEF Ahead, LetsGo, Moves, Idle
  <2>. QED  BY <1>3, <2>1, <2>3
<1>9. ASSUME UNCHANGED <<run, accepted, starts>> PROVE Goal
  <2>1. Ahead(j)' \subseteq Ahead(j)
    BY <1>9 DEF Ahead
  <2>. QED  BY <1>3, <1>9, <2>1
<1>10. Goal
  BY <1>6, <1>7, <1>8, <1>9
     DEF Work, WorkerNext, Step, RecordFailure, LockExpires, GiveUpStalled, history
<1>. QED  BY <1>10 DEF Goal, j

-----------------------------------------------------------------------------
(* The counting invariants hold, and what follows from them.               *)

\* The counting invariant of the pipeline.
LEMMA CountsAlways == Spec => []CInv
<1>1. Init => CInv
  <2> SUFFICES ASSUME Init PROVE CInv
    OBVIOUS
  <2>1. \A j : Ahead(j) = {}
    BY DEF Init, WorkerInit, Idle, Ahead
  <2>2. Cardinality({}) = 0
    BY FS_EmptySet
  <2>3. OriginalsInv
    BY DEF Init, QueueInit, WorkerInit, Idle, Absent, OriginalsInv
  <2>. QED
    BY <2>1, <2>2, <2>3, KeyTyped DEF Init, WorkerInit, CInv, TakenInv
<1>2. IInv /\ CInv /\ [Next]_vars => CInv'
  <2> SUFFICES ASSUME IInv, CInv, [Next]_vars PROVE CInv'
    OBVIOUS
  <2> USE DEF IInv, CInv
  <2>1. CASE UNCHANGED vars
    BY <2>1 DEF vars, workerVars, OriginalsInv, TakenInv, Ahead
  <2>2. CASE Ingest
    <3>1. TakenInv'
      BY <2>2 DEF Ingest, workerVars, TakenInv, Ahead
    <3>. QED  BY <2>2, <3>1, IngestKeepsOriginals
  <2>3. CASE Work
    <3>1. TakenInv'
      BY <2>3, WorkKeepsTaken DEF TakenInv
    <3>. QED  BY <2>3, <3>1, WorkKeepsOriginals
  <2>. QED  BY <2>1, <2>2, <2>3 DEF Next
<1>. QED  BY <1>1, <1>2, InvariantAlways, PTL DEF Spec

\* The tally of the pipeline.
LEMMA TallyAlways == Spec => []TallyInv
<1>1. IInv /\ TallyInv /\ [Next]_vars => TallyInv'
  BY IngestKeepsTally, WorkKeepsTally, TallyStands DEF IInv, WorkInv, Next
<1>2. Init => TallyInv
  BY TallyStands
<1>. QED  BY <1>1, <1>2, InvariantAlways, PTL DEF Spec

\* At-least-once and no worse, with any number of slots, attempts and stalls:
\* every delivery beyond the first that a destination took is owed to a
\* response that was lost or to a lock that expired.
THEOREM DuplicatesHaveReasons == Spec => []DuplicatesExplained
<1>1. IInv /\ CInv /\ TallyInv => DuplicatesExplained
  <2> SUFFICES ASSUME IInv, CInv, TallyInv, NEW k \in Deliveries
               PROVE  accepted[k] <= 1 + unheard[k] + job[OriginalJob(k)].stalls
    BY DEF DuplicatesExplained
  <2> DEFINE n == job[OriginalJob(k)].stalls
             L == {OriginalJob(k)} \X (0 .. n)
  <2>1. /\ accepted[k] \in Nat /\ unheard[k] \in Nat /\ n \in Nat
        /\ accepted[k] <= unheard[k] + Cardinality(Licences(k))
    BY KeyTyped, TallyCovers
       DEF IInv, TypeInv, TypeOK, WorkerTypeOK, QueueTypeOK, Jobs
  <2>2. Licences(k) \subseteq L
    <3>1. \A j \in JobsOf(k) : j = OriginalJob(k)
      BY DEF JobsOf, CInv, OriginalsInv, JobIds, KeyOf, OriginalJob
    <3>. QED  BY <3>1 DEF Licences
  <2> HIDE DEF n
  <2>3. /\ IsFiniteSet({OriginalJob(k)}) /\ Cardinality({OriginalJob(k)}) = 1
        /\ IsFiniteSet(0 .. n) /\ Cardinality(0 .. n) = n + 1
    <3>1. IsFiniteSet(0 .. n) /\ Cardinality(0 .. n) = n + 1
      <4>1. 0 \in Int /\ n \in Int /\ n >= 0
        BY <2>1
      <4>. QED  BY <4>1, FS_Interval
    <3>. QED  BY <3>1, FS_Singleton
  <2>4. IsFiniteSet(L) /\ Cardinality(L) = Cardinality({OriginalJob(k)}) * Cardinality(0 .. n)
    BY <2>3, FS_Product
  <2>5. Cardinality(L) = n + 1
    BY <2>1, <2>3, <2>4
  <2>6. Cardinality(Licences(k)) <= Cardinality(L) /\ Cardinality(Licences(k)) \in Nat
    BY <2>2, <2>4, FS_Subset, FS_CardinalityType
  <2> HIDE DEF L
  <2>. QED  BY <2>1, <2>5, <2>6 DEF n
<1>. QED  BY <1>1, InvariantAlways, CountsAlways, TallyAlways, PTL

-----------------------------------------------------------------------------
(* The refinement.                                                         *)

\* What the contract sees of the jobs and of the rows.
Stage == [k \in Deliveries |-> StageOf(job[OriginalJob(k)].state)]
Recorded == [k \in Deliveries |-> row[k].deliveredAt]

\* The contract's steps, in terms of what it sees.
LEMMA ContractSteps ==
  /\ UNCHANGED <<stored, Stage, accepted, Recorded>> => UNCHANGED Contract!vars
  /\ \A e \in Events :
       /\ e \notin stored /\ stored' = stored \cup {e}
       /\ UNCHANGED <<Stage, accepted, Recorded>>
       => Contract!Store(e)
  /\ \A k \in Deliveries :
       /\ k[1] \in stored /\ Stage[k] = "none"
       /\ Stage' = [Stage EXCEPT ![k] = "owed"]
       /\ UNCHANGED <<stored, accepted, Recorded>>
       => Contract!Owe(k)
  /\ \A k \in Deliveries :
       /\ Stage[k] # "none" /\ accepted[k] < Attempts[k[2]] + MaxStalls
       /\ accepted' = [accepted EXCEPT ![k] = @ + 1]
       /\ UNCHANGED <<stored, Stage, Recorded>>
       => Contract!HandOver(k)
  /\ \A k \in Deliveries :
       /\ accepted[k] > 0 /\ ~Recorded[k]
       /\ Recorded' = [Recorded EXCEPT ![k] = TRUE]
       /\ UNCHANGED <<stored, Stage, accepted>>
       => Contract!Record(k)
  /\ \A k \in Deliveries :
       /\ Stage[k] = "owed"
       /\ \/ accepted[k] > 0 /\ Stage' = [Stage EXCEPT ![k] = "delivered"]
          \/ Stage' = [Stage EXCEPT ![k] = "abandoned"]
       /\ UNCHANGED <<stored, accepted, Recorded>>
       => Contract!Conclude(k)
<1> USE DEF Stage, Recorded
<1>1. UNCHANGED <<stored, Stage, accepted, Recorded>> => UNCHANGED Contract!vars
  BY DEF Contract!vars
<1>2. ASSUME NEW e \in Events, e \notin stored, stored' = stored \cup {e},
             UNCHANGED <<Stage, accepted, Recorded>>
      PROVE  Contract!Store(e)
  BY <1>2 DEF Contract!Store
<1>3. ASSUME NEW k \in Deliveries, k[1] \in stored, Stage[k] = "none",
             Stage' = [Stage EXCEPT ![k] = "owed"],
             UNCHANGED <<stored, accepted, Recorded>>
      PROVE  Contract!Owe(k)
  BY <1>3 DEF Contract!Owe
<1>4. ASSUME NEW k \in Deliveries,
             Stage[k] # "none", accepted[k] < Attempts[k[2]] + MaxStalls,
             accepted' = [accepted EXCEPT ![k] = @ + 1],
             UNCHANGED <<stored, Stage, Recorded>>
      PROVE  Contract!HandOver(k)
  <2>1. k[2] \in Destinations
    BY DEF Deliveries
  <2>. QED  BY <1>4, <2>1 DEF Contract!HandOver
<1>5. ASSUME NEW k \in Deliveries, accepted[k] > 0, ~Recorded[k],
             Recorded' = [Recorded EXCEPT ![k] = TRUE],
             UNCHANGED <<stored, Stage, accepted>>
      PROVE  Contract!Record(k)
  BY <1>5 DEF Contract!Record
<1>6. ASSUME NEW k \in Deliveries, Stage[k] = "owed",
             \/ accepted[k] > 0 /\ Stage' = [Stage EXCEPT ![k] = "delivered"]
             \/ Stage' = [Stage EXCEPT ![k] = "abandoned"],
             UNCHANGED <<stored, accepted, Recorded>>
      PROVE  Contract!Conclude(k)
  BY <1>6 DEF Contract!Conclude
<1>. QED  BY <1>1, <1>2, <1>3, <1>4, <1>5, <1>6

\* A step on one original job is a step of its delivery's stage alone.
LEMMA StageMoves ==
  ASSUME NEW k \in Deliveries,
         \A i \in JobIds : i # OriginalJob(k) => job'[i] = job[i]
  PROVE  Stage' = [Stage EXCEPT ![k] = StageOf(job'[OriginalJob(k)].state)]
<1>1. \A l \in Deliveries : l # k => OriginalJob(l) # OriginalJob(k)
  BY KeyTyped
<1>. QED  BY <1>1, KeyTyped DEF Stage

\* An original job is the job of its own row.
LEMMA OriginalNamed ==
  ASSUME NEW j \in JobIds, j.tag = Original
  PROVE  KeyOf(j) \in Deliveries /\ OriginalJob(KeyOf(j)) = j
BY DEF JobIds, KeyOf, OriginalJob, Deliveries

\* Every step of the ingestion stores an event, makes a delivery owed, or is
\* nothing to the contract.
LEMMA IngestImplements ==
  ASSUME IInv, CInv, Ingest
  PROVE  Contract!Next \/ UNCHANGED Contract!vars
<1>1. UNCHANGED <<row, accepted>>
  BY DEF Ingest, IngestNext, IngestStep, Reject, Accept, Insert, InsertIfNotExists,
         InsertError, Respond, AddLands, AddFails, ApiRestart, workerVars, dbVars
<1>2. Recorded' = Recorded
  BY <1>1 DEF Recorded
<1>3. CASE \E r \in Requests : Insert(r) \/ InsertError(r)
  <2>1. PICK r \in Requests : Insert(r) \/ InsertError(r)
    BY <1>3
  <2>2. req[r].event \in Events
    BY <2>1 DEF IInv, TypeInv, InHandler, Insert, InsertError
  <2>3. /\ job' = job
        /\ stored' = stored \/ stored' = stored \cup {req[r].event}
    BY <2>1 DEF Insert, InsertIfNotExists, InsertError
  <2>4. Stage' = Stage
    BY <2>3 DEF Stage
  <2>5. CASE stored' = stored
    BY <1>1, <1>2, <2>4, <2>5, ContractSteps
  <2>6. CASE stored' # stored
    <3>1. req[r].event \notin stored /\ stored' = stored \cup {req[r].event}
      BY <2>3, <2>6
    <3>2. Contract!Store(req[r].event)
      BY <1>1, <1>2, <2>2, <2>4, <3>1, ContractSteps
    <3>. QED  BY <2>2, <3>2 DEF Contract!Next
  <2>. QED  BY <2>5, <2>6
<1>4. CASE \E k \in adds : AddLands(k)
  <2>1. PICK k \in adds : AddLands(k)
    BY <1>4
  <2>2. k \in Deliveries /\ k[1] \in stored /\ job \in [JobIds -> Jobs]
        /\ OriginalJob(k) \in JobIds
    BY KeyTyped DEF IInv, IngestInv, JobsFollowTheEvent, TypeInv, TypeOK, IngestTypeOK,
                    QueueTypeOK
  <2>3. stored' = stored
    BY <2>1 DEF AddLands, dbVars
  <2>4. CASE job' = job
    <3>1. Stage' = Stage
      BY <2>4 DEF Stage
    <3>. QED  BY <1>1, <1>2, <2>3, <3>1, ContractSteps
  <2>5. CASE job' # job
    <3>1. /\ job[OriginalJob(k)].state = "absent"
          /\ job' = [job EXCEPT ![OriginalJob(k)] = [Absent EXCEPT !.state = "waiting"]]
      BY <2>1, <2>5 DEF AddLands, Add, OriginalJob
    <3>2. /\ job'[OriginalJob(k)].state = "waiting"
          /\ \A i \in JobIds : i # OriginalJob(k) => job'[i] = job[i]
      BY <2>2, <3>1 DEF Absent
    <3>3. Stage[k] = "none" /\ Stage' = [Stage EXCEPT ![k] = "owed"]
      BY <2>2, <3>1, <3>2, StageMoves DEF Stage, StageOf
    <3>4. Contract!Owe(k)
      BY <1>1, <1>2, <2>2, <2>3, <3>3, ContractSteps
    <3>. QED  BY <2>2, <3>4 DEF Contract!Next, Contract!Deliveries, Deliveries
  <2>. QED  BY <2>4, <2>5
<1>5. CASE UNCHANGED <<stored, job>>
  <2>1. Stage' = Stage
    BY <1>5 DEF Stage
  <2>. QED  BY <1>1, <1>2, <1>5, <2>1, ContractSteps
<1>. QED
  BY <1>3, <1>4, <1>5
     DEF Ingest, IngestNext, IngestStep, Reject, Accept, Respond, AddFails, ApiRestart,
         dbVars

\* A slot at work, its job and the row of its job.
LEMMA SlotAtWork ==
  ASSUME IInv, CInv, NEW w \in Workers, run[w].phase # "idle"
  PROVE  /\ run[w].job \in JobIds /\ job[run[w].job].state # "absent"
         /\ KeyOf(run[w].job) \in Deliveries
         /\ OriginalJob(KeyOf(run[w].job)) = run[w].job
         /\ run[w].made \in Nat
BY OriginalNamed
   DEF IInv, CInv, TypeInv, TypeOK, WorkerTypeOK, Runs, OriginalsInv

\* A job that goes from one state to another moves its delivery's stage.
LEMMA JobStep ==
  ASSUME IInv, CInv, NEW j \in JobIds, job[j].state # "absent",
         \A i \in JobIds : i # j => job'[i] = job[i]
  PROVE  /\ KeyOf(j) \in Deliveries
         /\ Stage[KeyOf(j)] = StageOf(job[j].state)
         /\ Stage' = [Stage EXCEPT ![KeyOf(j)] = StageOf(job'[j].state)]
         /\ StageOf(job'[j].state) = StageOf(job[j].state) => Stage' = Stage
<1>1. j.tag = Original
  BY DEF CInv, OriginalsInv
<1>2. KeyOf(j) \in Deliveries /\ OriginalJob(KeyOf(j)) = j
  BY <1>1, OriginalNamed
<1>3. Stage[KeyOf(j)] = StageOf(job[j].state)
  BY <1>2 DEF Stage
<1>4. Stage' = [Stage EXCEPT ![KeyOf(j)] = StageOf(job'[j].state)]
  BY <1>2, StageMoves
<1>. QED  BY <1>2, <1>3, <1>4 DEF Stage

\* Every step of the workers hands a delivery over, records or concludes it,
\* or is nothing to the contract.
LEMMA WorkImplements ==
  ASSUME IInv, CInv, Work
  PROVE  Contract!Next \/ UNCHANGED Contract!vars
<1> DEFINE Goal == Contract!Next \/ UNCHANGED Contract!vars
<1>1. stored' = stored
  BY WorkAddsNothing DEF IInv
<1>2. job \in [JobIds -> Jobs]
  BY DEF IInv, TypeInv, TypeOK, QueueTypeOK
<1>3. ASSUME row' = row, accepted' = accepted, NEW j \in JobIds,
             job[j].state # "absent", \A i \in JobIds : i # j => job'[i] = job[i],
             StageOf(job'[j].state) = StageOf(job[j].state)
      PROVE  Goal
  <2>1. Stage' = Stage /\ Recorded' = Recorded
    BY <1>3, JobStep DEF Recorded
  <2>. QED  BY <1>1, <1>3, <2>1, ContractSteps
<1>4. ASSUME row' = row, accepted' = accepted, NEW j \in JobIds,
             job[j].state = "active", \A i \in JobIds : i # j => job'[i] = job[i],
             \/ job'[j].state = "failed"
             \/ job'[j].state = "completed" /\ accepted[KeyOf(j)] > 0
      PROVE  Goal
  <2>1. /\ KeyOf(j) \in Deliveries /\ Stage[KeyOf(j)] = "owed"
        /\ Stage' = [Stage EXCEPT ![KeyOf(j)] = StageOf(job'[j].state)]
        /\ StageOf(job'[j].state) = IF job'[j].state = "failed" THEN "abandoned"
                                                               ELSE "delivered"
    BY <1>4, JobStep DEF StageOf
  <2>2. Contract!Conclude(KeyOf(j))
    BY <1>1, <1>4, <2>1, ContractSteps DEF Recorded
  <2>. QED  BY <2>1, <2>2 DEF Contract!Next, Contract!Deliveries, Deliveries
<1>5. ASSUME row' = row, accepted' = accepted, job' = job PROVE Goal
  <2>1. Stage' = Stage /\ Recorded' = Recorded
    BY <1>5 DEF Stage, Recorded
  <2>. QED  BY <1>1, <1>5, <2>1, ContractSteps
<1>6. ASSUME job' = job, accepted' = accepted, NEW k \in Deliveries, accepted[k] > 0,
             Recorded' = [Recorded EXCEPT ![k] = TRUE]
      PROVE  Goal
  <2>1. Stage' = Stage
    BY <1>6 DEF Stage
  <2>2. CASE Recorded[k]
    <3>1. Recorded' = Recorded
      BY <1>6, <2>2 DEF Recorded
    <3>. QED  BY <1>1, <1>6, <2>1, <3>1, ContractSteps
  <2>3. CASE ~Recorded[k]
    <3>1. Contract!Record(k)
      BY <1>1, <1>6, <2>1, <2>3, ContractSteps
    <3>. QED  BY <1>6, <3>1 DEF Contract!Next, Contract!Deliveries, Deliveries
  <2>. QED  BY <2>2, <2>3
<1> HIDE DEF Goal
<1>7. ASSUME NEW w \in Workers, NEW i \in JobIds, Take(w, i) PROVE Goal
  <2>1. /\ row' = row /\ accepted' = accepted /\ job[i].state = "waiting"
        /\ job' = [job EXCEPT ![i].state = "active", ![i].holder = w]
    BY <1>7 DEF Take, MoveToActive, dbVars
  <2>2. job'[i].state = "active" /\ \A j \in JobIds : j # i => job'[j] = job[j]
    BY <1>2, <2>1 DEF Jobs
  <2>. QED  BY <1>3, <2>1, <2>2 DEF StageOf
<1>8. ASSUME NEW w \in Workers, DeliverAccepted(w) \/ DeliverUnheard(w) PROVE Goal
  <2>. DEFINE k == KeyOf(run[w].job)
  <2>1. /\ row' = row /\ job' = job /\ run[w].phase = "delivering"
        /\ accepted' = [accepted EXCEPT ![k] = @ + 1]
    BY <1>8 DEF DeliverAccepted, DeliverUnheard, dbVars
  <2>2. k \in Deliveries /\ OriginalJob(k) = run[w].job /\ run[w].job \in JobIds
        /\ job[run[w].job].state \in {"waiting", "active", "completed", "failed"}
    BY <1>2, <2>1, SlotAtWork DEF Jobs, JobStates
  <2>3. Stage[k] # "none"
    BY <2>2 DEF Stage, StageOf
  <2>4. accepted[k] < Attempts[k[2]] + MaxStalls
    <3>1. w \in Ahead(OriginalJob(k))
      BY <2>1, <2>2 DEF Ahead
    <3>2. Cardinality({}) + 1 <= Cardinality(Ahead(OriginalJob(k)))
      BY <3>1, FewSlots, Counting
    <3>3. Cardinality({}) = 0 /\ Cardinality(Ahead(OriginalJob(k))) \in Nat
      BY FS_EmptySet, FewSlots, FS_CardinalityType
    <3>4. accepted[k] + Cardinality(Ahead(OriginalJob(k))) <= starts[OriginalJob(k)]
      BY <2>2 DEF CInv, TakenInv
    <3>5. starts[OriginalJob(k)] <= Attempts[run[w].job.dest] + MaxStalls
      BY <2>2 DEF IInv, WorkInv, StartsWithinBudget
    <3>6. k[2] = run[w].job.dest
      BY DEF KeyOf
    <3>7. /\ accepted[k] \in Nat /\ starts[OriginalJob(k)] \in Nat
          /\ Attempts[k[2]] \in Nat /\ MaxStalls \in Nat
      BY <2>2, AttemptsAssumption, MaxStallsAssumption
         DEF IInv, TypeInv, TypeOK, WorkerTypeOK, Deliveries
    <3>. QED  BY <3>2, <3>3, <3>4, <3>5, <3>6, <3>7
  <2>5. Contract!HandOver(k)
    BY <1>1, <2>1, <2>2, <2>3, <2>4, ContractSteps DEF Stage, Recorded
  <2>. QED  BY <2>2, <2>5 DEF Goal, Contract!Next, Contract!Deliveries, Deliveries
<1>9. ASSUME NEW w \in Workers, LoadEvent(w) \/ DeliverRefused(w) \/ WorkerRestart(w)
      PROVE  Goal
  BY <1>5, <1>9 DEF LoadEvent, DeliverRefused, WorkerRestart, history, dbVars
<1>10. ASSUME NEW w \in Workers, RecordDelivered(w) PROVE Goal
  <2>. DEFINE k == KeyOf(run[w].job)
              update == DeliveredUpdate(AttemptOf(run[w].made))
  <2>1. /\ job' = job /\ accepted' = accepted /\ run[w].phase = "recording"
        /\ WriteDeliveryState(k, update) \/ row' = row
    BY <1>10 DEF RecordDelivered, history, dbVars
  <2>2. CASE row' = row
    BY <1>5, <2>1, <2>2
  <2>3. CASE WriteDeliveryState(k, update)
    <3>1. /\ k \in Deliveries /\ accepted[k] > 0 /\ update \in Updates
          /\ update.deliveredAt = TRUE
      BY <2>1, SlotAtWork DEF IInv, WorkInv, SlotsInv, DeliveredUpdate, AttemptOf,
                               Updates, Statuses
    <3>2. \A l \in Deliveries :
            row'[l].deliveredAt = IF l = k THEN TRUE ELSE row[l].deliveredAt
      <4>. HIDE DEF k, update
      <4>1. row \in [Deliveries -> Rows] /\ row' = [row EXCEPT ![k] = Upserted(row[k], update)]
        BY <2>3 DEF WriteDeliveryState, IInv, TypeInv, TypeOK, DatabaseTypeOK
      <4>2. Upserted(row[k], update).deliveredAt = TRUE
        BY <3>1, <4>1, UpsertedRow
      <4>. QED  BY <3>1, <4>1, <4>2
    <3>3. Recorded' = [Recorded EXCEPT ![k] = TRUE]
      BY <3>1, <3>2 DEF Recorded
    <3>. QED  BY <1>6, <2>1, <3>1, <3>3
  <2>. QED  BY <2>1, <2>2, <2>3
<1>11. ASSUME NEW w \in Workers, Complete(w) PROVE Goal
  <2>1. /\ row' = row /\ accepted' = accepted /\ run[w].phase = "completing"
        /\ run[w].job \in JobIds
    BY <1>11, SlotAtWork DEF Complete, history, dbVars
  <2>2. CASE ~Holds(w, run[w].job)
    BY <1>5, <1>11, <2>1, <2>2 DEF Complete
  <2>3. CASE Holds(w, run[w].job)
    <3>1. /\ job[run[w].job].state = "active"
          /\ job'[run[w].job].state = "completed"
          /\ \A i \in JobIds : i # run[w].job => job'[i] = job[i]
      BY <1>2, <1>11, <2>1, <2>3 DEF Complete, MoveToCompleted, Holds, Jobs
    <3>2. accepted[KeyOf(run[w].job)] > 0
      BY <2>1 DEF IInv, WorkInv, SlotsInv
    <3>. QED  BY <1>4, <2>1, <3>1, <3>2
  <2>. QED  BY <2>2, <2>3
<1>12. ASSUME NEW w \in Workers, Fail(w) PROVE Goal
  <2>1. /\ row' = row /\ accepted' = accepted /\ run[w].job \in JobIds
    BY <1>12, SlotAtWork DEF Fail, history, dbVars
  <2>2. CASE ~Holds(w, run[w].job)
    BY <1>5, <1>12, <2>1, <2>2 DEF Fail
  <2>3. CASE Holds(w, run[w].job)
    <3>1. /\ job[run[w].job].state = "active"
          /\ job'[run[w].job].state \in {"waiting", "failed"}
          /\ \A i \in JobIds : i # run[w].job => job'[i] = job[i]
      BY <1>2, <1>12, <2>1, <2>3, FailedJob DEF Fail, Holds
    <3>. QED  BY <1>3, <1>4, <2>1, <3>1 DEF StageOf
  <2>. QED  BY <2>2, <2>3
<1>13. ASSUME NEW n \in notices, RecordFailure(n) PROVE Goal
  <2>1. /\ job' = job /\ accepted' = accepted
        /\ WriteDeliveryState(KeyOf(n.job), FailureUpdate(n)) \/ row' = row
    BY <1>13 DEF RecordFailure, history, dbVars
  <2>2. n \in Notices /\ n.job \in JobIds
    BY DEF IInv, TypeInv, TypeOK, WorkerTypeOK, Notices
  <2>3. Recorded' = Recorded
    <3>. DEFINE k == KeyOf(n.job)   update == FailureUpdate(n)
    <3>1. k \in Deliveries /\ update \in Updates /\ update.deliveredAt = FALSE
      BY <2>2, KeyTyped, UpdatesTyped
    <3>. HIDE DEF k, update
    <3>2. row \in [Deliveries -> Rows]
      BY DEF IInv, TypeInv, TypeOK, DatabaseTypeOK
    <3>3. \A r \in Rows : Upserted(r, update).deliveredAt = r.deliveredAt
      BY <3>1, UpsertedRow DEF Rows
    <3>4. row' = row \/ row' = [row EXCEPT ![k] = Upserted(row[k], update)]
      BY <2>1 DEF WriteDeliveryState, k, update
    <3>. QED  BY <3>1, <3>2, <3>3, <3>4 DEF Recorded
  <2>4. Stage' = Stage
    BY <2>1 DEF Stage
  <2>. QED  BY <1>1, <2>1, <2>3, <2>4, ContractSteps DEF Goal
<1>14. ASSUME NEW i \in JobIds, LockExpires(i) PROVE Goal
  <2>1. /\ row' = row /\ accepted' = accepted
        /\ job[i].state = "active" /\ job'[i].state = "waiting"
        /\ \A j \in JobIds : j # i => job'[j] = job[j]
    BY <1>2, <1>14 DEF LockExpires, Stall, Jobs, history, dbVars
  <2>. QED  BY <1>3, <2>1 DEF StageOf
<1>15. ASSUME NEW w \in Workers, NEW i \in JobIds, GiveUpStalled(i, w) PROVE Goal
  <2>1. /\ row' = row /\ accepted' = accepted
        /\ job[i].state = "active" /\ job'[i].state = "failed"
        /\ \A j \in JobIds : j # i => job'[j] = job[j]
    BY <1>2, <1>15 DEF GiveUpStalled, StallOut, Jobs, history, dbVars
  <2>. QED  BY <1>4, <2>1
<1>16. Goal
  BY <1>7, <1>8, <1>9, <1>10, <1>11, <1>12, <1>13, <1>14, <1>15
     DEF Work, WorkerNext, Step
<1>. QED  BY <1>16 DEF Goal

\* Whatever the requests, slots, crashes, stalls, lost responses and late
\* writes do, the pipeline behaves as the contract says: it owes deliveries of
\* stored events only, concludes each at most once and truthfully, and hands
\* none over more often than its budget.
THEOREM PipelineImplementsContract == Spec => ImplementsContract
<1>1. Init => Contract!Init
  <2>1. Init => \A k \in Deliveries :
                  StageOf(job[OriginalJob(k)].state) = "none" /\ row[k] = NoRow
    BY KeyTyped DEF Init, QueueInit, DatabaseInit, Absent, StageOf
  <2>. QED
    BY <2>1 DEF Init, DatabaseInit, WorkerInit, Contract!Init, Contract!Deliveries,
                Deliveries, NoRow
<1>2. IInv /\ CInv /\ [Next]_vars => [Contract!Next]_(Contract!vars)
  <2>1. UNCHANGED vars => UNCHANGED Contract!vars
    BY DEF vars, dbVars, workerVars, Contract!vars
  <2>. QED  BY <2>1, IngestImplements, WorkImplements DEF Next
<1>. QED
  BY <1>1, <1>2, InvariantAlways, CountsAlways, PTL
     DEF Spec, ImplementsContract, Contract!SafeSpec
=============================================================================
