-------------------------- MODULE AdmissionProofs ---------------------------
(***************************************************************************)
(* The rate limiter keeps its promises for every number of callers, every  *)
(* window, limit and clock, and however often the clock is set back.       *)
(***************************************************************************)
EXTENDS Admission, TLAPS

\* A later reading of the clock is not of an earlier window.
LEMMA WindowMonotone ==
  ASSUME NEW s \in Int, NEW t \in Int, s <= t
  PROVE  WindowOf(s) <= WindowOf(t)
BY WindowAssumption DEF WindowOf

LEMMA WindowType ==
  ASSUME NEW t \in Times
  PROVE  WindowOf(t) \in Windows /\ WindowOf(t) \in Int
BY WindowAssumption, TimesAssumption DEF WindowOf, Windows

LEMMA WindowsAreIntegers == Windows \subseteq Int
BY WindowAssumption, TimesAssumption DEF WindowOf, Windows

-----------------------------------------------------------------------------
\* What the limiter knows of the calls it has admitted: those of the window
\* that the caller's bucket is of are in the bucket, the clock has reached no
\* later window, and what the process had was lost when it stopped.

OfThisWindow(k) == buckets[k] # NoBucket /\ buckets[k].window = ThisWindow

CountedInBucket ==
  \A k \in Callers :
    IF OfThisWindow(k) THEN admitted[k][ThisWindow] <= buckets[k].consumed
                       ELSE admitted[k][ThisWindow] = 0

LaterWindowsEmpty ==
  \A k \in Callers, w \in Windows : w > ThisWindow => admitted[k][w] = 0

\* While the clock was never set back the bucket holds nothing else, and is
\* not of a later window.
BucketsExact ==
  steady =>
    \A k \in Callers :
      buckets[k] # NoBucket =>
        /\ buckets[k].window <= ThisWindow
        /\ buckets[k].window = ThisWindow =>
             buckets[k].consumed = admitted[k][ThisWindow]

StoppedEmpty ==
  ~Running => /\ admitted = NoneAdmitted
              /\ \A k \in Callers : buckets[k] = NoBucket

LimiterInv ==
  /\ AdmissionTypeOK
  /\ CountedInBucket
  /\ LaterWindowsEmpty
  /\ BudgetKept
  /\ BucketsExact
  /\ StoppedEmpty

-----------------------------------------------------------------------------
LEMMA NoneAdmittedType ==
  /\ NoneAdmitted \in [Callers -> [Windows -> Nat]]
  /\ \A k \in Callers, w \in Windows : NoneAdmitted[k][w] = 0
BY DEF NoneAdmitted

\* The bucket a call meets is of this window and within the limit.
LEMMA BucketOfType ==
  ASSUME AdmissionTypeOK, NEW k \in Callers
  PROVE  /\ BucketOf(k) \in Buckets
         /\ BucketOf(k).window = ThisWindow
         /\ BucketOf(k) # NoBucket
<1>1. ThisWindow \in Windows
  BY WindowType DEF AdmissionTypeOK, ThisWindow
<1>2. buckets[k] \in Buckets \cup {NoBucket}
  BY DEF AdmissionTypeOK
<1>3. [window |-> ThisWindow, consumed |-> 0] \in Buckets
  BY <1>1, MaxRequestsAssumption DEF Buckets
<1>4. BucketOf(k) \in Buckets /\ BucketOf(k).window = ThisWindow
  BY <1>2, <1>3 DEF BucketOf
<1> QED BY <1>4, NoBucketAssumption

LEMMA LimiterInit == AdmissionInit => LimiterInv
<1> SUFFICES ASSUME AdmissionInit PROVE LimiterInv
  OBVIOUS
<1>1. AdmissionTypeOK
  <2>1. config \in Configs \cup {NoConfig} /\ clock \in Times
    BY DEF AdmissionInit
  <2>2. buckets \in [Callers -> Buckets \cup {NoBucket}]
    BY DEF AdmissionInit
  <2>3. admitted \in [Callers -> [Windows -> Nat]]
    BY NoneAdmittedType DEF AdmissionInit
  <2>4. setbacks \in 0..MaxSetbacks
    BY SetbacksAssumption, SMT DEF AdmissionInit
  <2>5. answer \in Answers
    BY DEF AdmissionInit, Answers
  <2>6. warned \in BOOLEAN /\ steady \in BOOLEAN
    BY Zenon DEF AdmissionInit
  <2> QED BY <2>1, <2>2, <2>3, <2>4, <2>5, <2>6 DEF AdmissionTypeOK
<1>2. ThisWindow \in Windows
  BY <1>1, WindowType DEF AdmissionTypeOK, ThisWindow
<1>3. CountedInBucket /\ LaterWindowsEmpty /\ BudgetKept
  BY <1>2, NoneAdmittedType, MaxRequestsAssumption
     DEF AdmissionInit, CountedInBucket, OfThisWindow, LaterWindowsEmpty, BudgetKept
<1>4. BucketsExact /\ StoppedEmpty
  BY DEF AdmissionInit, BucketsExact, StoppedEmpty
<1> QED BY <1>1, <1>3, <1>4 DEF LimiterInv

-----------------------------------------------------------------------------
\* A step that changes neither the clock nor a count keeps the invariant.
LEMMA LimiterUntouched ==
  ASSUME LimiterInv, AdmissionTypeOK',
         UNCHANGED <<config, clock, buckets, admitted, steady>>,
         Running
  PROVE  LimiterInv'
<1>1. CountedInBucket' /\ LaterWindowsEmpty' /\ BudgetKept' /\ BucketsExact'
  BY DEF LimiterInv, CountedInBucket, OfThisWindow, LaterWindowsEmpty,
         BudgetKept, BucketsExact, ThisWindow
<1>2. StoppedEmpty'
  BY DEF StoppedEmpty, Running
<1> QED BY <1>1, <1>2 DEF LimiterInv

LEMMA AdmitKeeps ==
  ASSUME LimiterInv, NEW k \in Callers, Admit(k)
  PROVE  LimiterInv'
<1>0. LimiterInv /\ AdmissionTypeOK /\ Running
  BY DEF LimiterInv, Admit
<1>1. CASE ~config.limited
  <2>1. UNCHANGED <<config, clock, buckets, admitted, steady>>
    BY <1>1 DEF Admit
  <2>2. AdmissionTypeOK'
    BY <1>0, <2>1 DEF Admit, AdmissionTypeOK, Answers
  <2> QED BY <1>0, <2>1, <2>2, LimiterUntouched
<1>2. CASE config.limited
  <2> DEFINE B == BucketOf(k)
             W == ThisWindow
  <2>1. B \in Buckets /\ B.window = W /\ B # NoBucket
    BY <1>0, BucketOfType
  <2>2. W \in Windows /\ W \in Int
    BY <1>0, WindowType DEF AdmissionTypeOK, ThisWindow
  <2>3. B.consumed \in Nat /\ B.consumed < MaxRequests
    BY <1>0, <1>2, <2>1, MaxRequestsAssumption DEF Admit, HasBudget, Buckets
  <2>4. buckets' = [buckets EXCEPT ![k] = [B EXCEPT !.consumed = @ + 1]]
    BY <1>2 DEF Admit
  <2>5. admitted' = [admitted EXCEPT ![k][W] = @ + 1]
    BY <1>2 DEF Admit
  <2>6. UNCHANGED <<config, clock, warned, steady, setbacks>> /\ W' = W
    BY DEF Admit, ThisWindow
  <2>7. [B EXCEPT !.consumed = @ + 1] = [window |-> W, consumed |-> B.consumed + 1]
    BY <2>1 DEF Buckets
  <2>8. [window |-> W, consumed |-> B.consumed + 1] \in Buckets
    BY <2>2, <2>3, MaxRequestsAssumption DEF Buckets
  <2>9. AdmissionTypeOK'
    <3>1. buckets' \in [Callers -> Buckets \cup {NoBucket}]
      BY <1>0, <2>4, <2>7, <2>8 DEF AdmissionTypeOK
    <3>2. admitted' \in [Callers -> [Windows -> Nat]]
      BY <1>0, <2>2, <2>5 DEF AdmissionTypeOK
    <3>3. answer' \in Answers
      BY DEF Admit, Answers
    <3> QED BY <1>0, <2>6, <3>1, <3>2, <3>3 DEF AdmissionTypeOK
  <2>10. admitted[k][W] <= B.consumed /\ admitted[k][W] \in Nat
    <3>1. admitted[k][W] \in Nat
      BY <1>0, <2>2 DEF AdmissionTypeOK
    <3>2. CASE OfThisWindow(k)
      <4>1. B = buckets[k]
        BY <3>2 DEF OfThisWindow, BucketOf
      <4>2. admitted[k][ThisWindow] <= buckets[k].consumed
        BY <1>0, <3>2 DEF LimiterInv, CountedInBucket
      <4> QED BY <3>1, <4>1, <4>2
    <3>3. CASE ~OfThisWindow(k)
      BY <1>0, <2>3, <3>3 DEF LimiterInv, CountedInBucket
    <3> QED BY <3>1, <3>2, <3>3
  <2>11. /\ admitted'[k][W] = admitted[k][W] + 1
         /\ \A w \in Windows \ {W} : admitted'[k][w] = admitted[k][w]
         /\ \A j \in Callers \ {k} : admitted'[j] = admitted[j]
    BY <1>0, <2>2, <2>5 DEF AdmissionTypeOK
  <2>12. /\ buckets'[k] = [window |-> W, consumed |-> B.consumed + 1]
         /\ buckets'[k] # NoBucket
         /\ \A j \in Callers \ {k} : buckets'[j] = buckets[j]
    BY <1>0, <2>4, <2>7, <2>8, NoBucketAssumption DEF AdmissionTypeOK
  <2>13. CountedInBucket'
    <3> SUFFICES ASSUME NEW j \in Callers
                 PROVE  (IF OfThisWindow(j) THEN admitted[j][ThisWindow] <= buckets[j].consumed
                                            ELSE admitted[j][ThisWindow] = 0)'
      BY DEF CountedInBucket
    <3>1. CASE j = k
      BY <2>3, <2>6, <2>10, <2>11, <2>12, <3>1 DEF OfThisWindow
    <3>2. CASE j # k
      BY <1>0, <2>6, <2>11, <2>12, <3>2 DEF OfThisWindow, LimiterInv, CountedInBucket
    <3> QED BY <3>1, <3>2
  <2>14. LaterWindowsEmpty'
    <3> SUFFICES ASSUME NEW j \in Callers, NEW w \in Windows, w > W
                 PROVE  admitted'[j][w] = 0
      BY <2>6 DEF LaterWindowsEmpty
    <3>1. w # W
      BY <2>2, WindowsAreIntegers
    <3>2. admitted'[j][w] = admitted[j][w]
      BY <2>11, <3>1
    <3> QED BY <1>0, <3>2 DEF LimiterInv, LaterWindowsEmpty
  <2>15. BudgetKept'
    <3> SUFFICES ASSUME NEW j \in Callers, NEW w \in Windows
                 PROVE  admitted'[j][w] <= MaxRequests
      BY DEF BudgetKept
    <3>1. CASE j = k /\ w = W
      BY <2>3, <2>10, <2>11, <3>1, MaxRequestsAssumption
    <3>2. CASE ~(j = k /\ w = W)
      BY <1>0, <2>11, <3>2 DEF LimiterInv, BudgetKept
    <3> QED BY <3>1, <3>2
  <2>16. BucketsExact'
    <3> SUFFICES ASSUME steady, NEW j \in Callers, buckets'[j] # NoBucket
                 PROVE  /\ buckets'[j].window <= W
                        /\ buckets'[j].window = W =>
                             buckets'[j].consumed = admitted'[j][W]
      BY <2>6 DEF BucketsExact
    <3>1. CASE j = k
      <4>1. B.consumed = admitted[k][W]
        <5>1. CASE OfThisWindow(k)
          BY <1>0, <5>1 DEF OfThisWindow, LimiterInv, BucketsExact, BucketOf
        <5>2. CASE ~OfThisWindow(k)
          BY <1>0, <5>2 DEF OfThisWindow, LimiterInv, CountedInBucket, BucketOf
        <5> QED BY <5>1, <5>2
      <4> QED BY <2>2, <2>11, <2>12, <3>1, <4>1
    <3>2. CASE j # k
      BY <1>0, <2>11, <2>12, <3>2 DEF LimiterInv, BucketsExact
    <3> QED BY <3>1, <3>2
  <2>17. StoppedEmpty'
    BY <1>0, <2>6 DEF StoppedEmpty, Running
  <2> QED BY <2>9, <2>13, <2>14, <2>15, <2>16, <2>17 DEF LimiterInv
<1> QED BY <1>1, <1>2

LEMMA RefuseKeeps ==
  ASSUME LimiterInv, NEW k \in Callers, Refuse(k)
  PROVE  LimiterInv'
<1> DEFINE B == BucketOf(k)
<1>0. LimiterInv /\ AdmissionTypeOK /\ Running
  BY DEF LimiterInv, Refuse
<1>1. B \in Buckets /\ B.window = ThisWindow /\ B # NoBucket
  BY <1>0, BucketOfType
<1>2. /\ buckets' = [buckets EXCEPT ![k] = B]
      /\ UNCHANGED <<config, clock, warned, admitted, steady, setbacks>>
      /\ ThisWindow' = ThisWindow
  BY DEF Refuse, ThisWindow
<1>3. /\ buckets'[k] = B
      /\ \A j \in Callers \ {k} : buckets'[j] = buckets[j]
  BY <1>0, <1>2 DEF AdmissionTypeOK
<1>4. ThisWindow \in Windows /\ ThisWindow \in Int
  BY <1>0, WindowType DEF AdmissionTypeOK, ThisWindow
<1>5. AdmissionTypeOK'
  <2>1. buckets' \in [Callers -> Buckets \cup {NoBucket}]
    BY <1>0, <1>1, <1>2 DEF AdmissionTypeOK
  <2>2. answer' \in Answers
    BY DEF Refuse, Answers
  <2> QED BY <1>0, <1>2, <2>1, <2>2 DEF AdmissionTypeOK
<1>6. admitted[k][ThisWindow] <= B.consumed /\ (steady => B.consumed = admitted[k][ThisWindow])
  <2>1. CASE OfThisWindow(k)
    <3>1. B = buckets[k]
      BY <2>1 DEF OfThisWindow, BucketOf
    <3> QED BY <1>0, <2>1, <3>1 DEF OfThisWindow, LimiterInv, CountedInBucket, BucketsExact
  <2>2. CASE ~OfThisWindow(k)
    <3>1. B.consumed = 0
      BY <2>2 DEF OfThisWindow, BucketOf
    <3> QED BY <1>0, <2>2, <3>1 DEF LimiterInv, CountedInBucket
  <2> QED BY <2>1, <2>2
<1>7. CountedInBucket'
  <2> SUFFICES ASSUME NEW j \in Callers
               PROVE  (IF OfThisWindow(j) THEN admitted[j][ThisWindow] <= buckets[j].consumed
                                          ELSE admitted[j][ThisWindow] = 0)'
    BY DEF CountedInBucket
  <2>1. CASE j = k
    BY <1>1, <1>2, <1>3, <1>6, <2>1 DEF OfThisWindow
  <2>2. CASE j # k
    BY <1>0, <1>2, <1>3, <2>2 DEF OfThisWindow, LimiterInv, CountedInBucket
  <2> QED BY <2>1, <2>2
<1>8. BucketsExact'
  <2> SUFFICES ASSUME steady, NEW j \in Callers, buckets'[j] # NoBucket
               PROVE  /\ buckets'[j].window <= ThisWindow
                      /\ buckets'[j].window = ThisWindow =>
                           buckets'[j].consumed = admitted[j][ThisWindow]
    BY <1>2 DEF BucketsExact
  <2>1. CASE j = k
    BY <1>1, <1>3, <1>4, <1>6, <2>1
  <2>2. CASE j # k
    BY <1>0, <1>3, <2>2 DEF LimiterInv, BucketsExact
  <2> QED BY <2>1, <2>2
<1>9. LaterWindowsEmpty' /\ BudgetKept'
  BY <1>0, <1>2 DEF LimiterInv, LaterWindowsEmpty, BudgetKept
<1>10. StoppedEmpty'
  BY <1>0, <1>2 DEF StoppedEmpty, Running
<1> QED BY <1>5, <1>7, <1>8, <1>9, <1>10 DEF LimiterInv

-----------------------------------------------------------------------------
\* The clock goes on: the counts of a window it enters are still empty.
LEMMA TickKeeps ==
  ASSUME LimiterInv, Tick
  PROVE  LimiterInv'
<1>0. LimiterInv /\ AdmissionTypeOK
  BY DEF LimiterInv
<1>1. /\ clock' \in Times /\ clock' > clock
      /\ UNCHANGED <<config, buckets, warned, answer, admitted, steady, setbacks>>
  BY DEF Tick
<1>2. /\ ThisWindow \in Windows /\ ThisWindow' \in Windows
      /\ ThisWindow <= ThisWindow' /\ Windows \subseteq Int
  <2>1. clock \in Times /\ clock \in Int /\ clock' \in Int /\ clock <= clock'
    BY <1>0, <1>1, TimesAssumption DEF AdmissionTypeOK
  <2>2. WindowOf(clock) <= WindowOf(clock')
    BY <2>1, WindowMonotone
  <2> QED BY <1>1, <2>1, <2>2, WindowType, WindowsAreIntegers DEF ThisWindow
<1>3. AdmissionTypeOK'
  BY <1>0, <1>1 DEF AdmissionTypeOK
<1>4. CASE ThisWindow' = ThisWindow
  <2>1. CountedInBucket' /\ LaterWindowsEmpty' /\ BudgetKept' /\ BucketsExact'
    BY <1>0, <1>1, <1>4
       DEF LimiterInv, CountedInBucket, OfThisWindow, LaterWindowsEmpty,
           BudgetKept, BucketsExact
  <2>2. StoppedEmpty'
    BY <1>0, <1>1 DEF LimiterInv, StoppedEmpty, Running
  <2> QED BY <1>3, <2>1, <2>2 DEF LimiterInv
<1>5. CASE ThisWindow' > ThisWindow
  <2>1. \A k \in Callers : admitted[k][ThisWindow'] = 0
    BY <1>0, <1>2, <1>5 DEF LimiterInv, LaterWindowsEmpty
  <2>2. CountedInBucket'
    <3> SUFFICES ASSUME NEW k \in Callers
                 PROVE  (IF OfThisWindow(k) THEN admitted[k][ThisWindow] <= buckets[k].consumed
                                            ELSE admitted[k][ThisWindow] = 0)'
      BY DEF CountedInBucket
    <3>1. OfThisWindow(k)' => buckets[k].consumed \in Nat
      BY <1>0, <1>1, MaxRequestsAssumption DEF OfThisWindow, AdmissionTypeOK, Buckets
    <3> QED BY <1>1, <2>1, <3>1 DEF OfThisWindow
  <2>3. LaterWindowsEmpty'
    <3> SUFFICES ASSUME NEW k \in Callers, NEW w \in Windows, w > ThisWindow'
                 PROVE  admitted[k][w] = 0
      BY <1>1 DEF LaterWindowsEmpty
    <3>1. w > ThisWindow
      BY <1>2
    <3> QED BY <1>0, <3>1 DEF LimiterInv, LaterWindowsEmpty
  <2>4. BucketsExact'
    <3> SUFFICES ASSUME steady, NEW k \in Callers, buckets[k] # NoBucket
                 PROVE  /\ buckets[k].window <= ThisWindow'
                        /\ buckets[k].window # ThisWindow'
      BY <1>1 DEF BucketsExact
    <3>1. buckets[k].window <= ThisWindow
      BY <1>0 DEF LimiterInv, BucketsExact
    <3>2. buckets[k].window \in Int
      BY <1>0, <1>2 DEF AdmissionTypeOK, Buckets
    <3>3. ThisWindow \in Int /\ ThisWindow' \in Int
      BY <1>2
    <3> QED BY <1>5, <3>1, <3>2, <3>3
  <2>5. BudgetKept' /\ StoppedEmpty'
    BY <1>0, <1>1 DEF LimiterInv, BudgetKept, StoppedEmpty, Running
  <2> QED BY <1>3, <2>2, <2>3, <2>4, <2>5 DEF LimiterInv
<1> QED BY <1>2, <1>4, <1>5

\* A count that starts over when the clock is set back is below any bucket.
LEMMA SetBackKeeps ==
  ASSUME LimiterInv, SetBack
  PROVE  LimiterInv'
<1>0. LimiterInv /\ AdmissionTypeOK
  BY DEF LimiterInv
<1>1. /\ clock' \in Times
      /\ admitted' = NoneAdmitted
      /\ steady' = ~Running
      /\ setbacks < MaxSetbacks /\ setbacks' = setbacks + 1
      /\ UNCHANGED <<config, buckets, warned, answer>>
  BY DEF SetBack
<1>2. ThisWindow' \in Windows
  BY <1>1, WindowType DEF ThisWindow
<1>3. /\ admitted' \in [Callers -> [Windows -> Nat]]
      /\ \A k \in Callers, w \in Windows : admitted'[k][w] = 0
  BY <1>1, NoneAdmittedType
<1>4. AdmissionTypeOK'
  <2>1. setbacks' \in 0..MaxSetbacks
    BY <1>0, <1>1, SetbacksAssumption, SMT DEF AdmissionTypeOK
  <2>2. steady' \in BOOLEAN
    BY <1>1 DEF Running
  <2> QED BY <1>0, <1>1, <1>3, <2>1, <2>2 DEF AdmissionTypeOK
<1>5. CountedInBucket'
  <2> SUFFICES ASSUME NEW k \in Callers
               PROVE  (IF OfThisWindow(k) THEN admitted[k][ThisWindow] <= buckets[k].consumed
                                          ELSE admitted[k][ThisWindow] = 0)'
    BY DEF CountedInBucket
  <2>1. OfThisWindow(k)' => buckets[k].consumed \in Nat
    BY <1>0, <1>1, MaxRequestsAssumption DEF OfThisWindow, AdmissionTypeOK, Buckets
  <2> QED BY <1>1, <1>2, <1>3, <2>1 DEF OfThisWindow
<1>6. LaterWindowsEmpty' /\ BudgetKept'
  BY <1>3, MaxRequestsAssumption DEF LaterWindowsEmpty, BudgetKept
<1>7. StoppedEmpty'
  BY <1>0, <1>1 DEF LimiterInv, StoppedEmpty, Running
<1>8. BucketsExact'
  <2> SUFFICES ASSUME ~Running PROVE BucketsExact'
    BY <1>1 DEF BucketsExact
  <2> QED BY <1>0, <1>1 DEF LimiterInv, StoppedEmpty, BucketsExact
<1> QED BY <1>4, <1>5, <1>6, <1>7, <1>8 DEF LimiterInv

-----------------------------------------------------------------------------
LEMMA StartServerKeeps ==
  ASSUME LimiterInv, NEW c \in Configs, StartServer(c)
  PROVE  LimiterInv'
<1>0. LimiterInv /\ AdmissionTypeOK
  BY DEF LimiterInv
<1>1. /\ ~Running /\ config' = c
      /\ UNCHANGED <<clock, buckets, warned, answer, admitted, steady, setbacks>>
      /\ ThisWindow' = ThisWindow
  BY DEF StartServer, ThisWindow
<1>2. AdmissionTypeOK'
  BY <1>0, <1>1 DEF AdmissionTypeOK
<1>3. CountedInBucket' /\ LaterWindowsEmpty' /\ BudgetKept' /\ BucketsExact'
  BY <1>0, <1>1
     DEF LimiterInv, CountedInBucket, OfThisWindow, LaterWindowsEmpty,
         BudgetKept, BucketsExact
<1>4. StoppedEmpty'
  <2>1. c # NoConfig
    BY ConfigsAssumption, NoneAssumption
  <2> QED BY <1>1, <2>1 DEF StoppedEmpty, Running
<1> QED BY <1>2, <1>3, <1>4 DEF LimiterInv

LEMMA StopServerKeeps ==
  ASSUME LimiterInv, StopServer
  PROVE  LimiterInv'
<1>0. AdmissionTypeOK
  BY DEF LimiterInv
<1>1. /\ config' = NoConfig /\ warned' = FALSE /\ answer' = "none"
      /\ admitted' = NoneAdmitted /\ steady' = TRUE
      /\ buckets' = [k \in Callers |-> NoBucket]
      /\ UNCHANGED <<clock, setbacks>> /\ ThisWindow' = ThisWindow
  BY DEF StopServer, ThisWindow
<1>2. ThisWindow' \in Windows
  BY <1>0, <1>1, WindowType DEF AdmissionTypeOK, ThisWindow
<1>3. AdmissionTypeOK'
  <2>1. buckets' \in [Callers -> Buckets \cup {NoBucket}]
    BY <1>1
  <2>2. admitted' \in [Callers -> [Windows -> Nat]]
    BY <1>1, NoneAdmittedType
  <2>3. answer' \in Answers
    BY <1>1 DEF Answers
  <2> QED BY <1>0, <1>1, <2>1, <2>2, <2>3 DEF AdmissionTypeOK
<1>4. CountedInBucket' /\ LaterWindowsEmpty' /\ BudgetKept'
  BY <1>1, <1>2, NoneAdmittedType, MaxRequestsAssumption
     DEF CountedInBucket, OfThisWindow, LaterWindowsEmpty, BudgetKept
<1>5. BucketsExact' /\ StoppedEmpty'
  BY <1>1 DEF BucketsExact, StoppedEmpty
<1> QED BY <1>3, <1>4, <1>5 DEF LimiterInv

\* Calls that never reach the limiter, and steps that change nothing.
LEMMA OtherCallsKeep ==
  ASSUME LimiterInv, (\E k \in Callers : Unauthorized(k)) \/ AdminOpen \/ AdminGuarded
  PROVE  LimiterInv'
<1>1. /\ UNCHANGED <<config, clock, buckets, admitted, steady, setbacks>>
      /\ Running
  BY DEF Unauthorized, AdminOpen, AdminGuarded
<1>2. answer' \in Answers
  BY DEF Unauthorized, AdminOpen, AdminGuarded, AdminVerdict, Answers
<1>3. warned' \in BOOLEAN
  BY DEF LimiterInv, AdmissionTypeOK, Unauthorized, AdminOpen, AdminGuarded
<1>4. AdmissionTypeOK'
  BY <1>1, <1>2, <1>3 DEF LimiterInv, AdmissionTypeOK
<1> QED BY <1>1, <1>4, LimiterUntouched

LEMMA LimiterStutters ==
  ASSUME LimiterInv, UNCHANGED admissionVars
  PROVE  LimiterInv'
BY DEF LimiterInv, AdmissionTypeOK, CountedInBucket, OfThisWindow, LaterWindowsEmpty,
       BudgetKept, BucketsExact, StoppedEmpty, Running, ThisWindow, admissionVars

-----------------------------------------------------------------------------
THEOREM LimiterInvariant == AdmissionSpec => []LimiterInv
<1>1. AdmissionInit => LimiterInv
  BY LimiterInit
<1>2. LimiterInv /\ [AdmissionNext]_admissionVars => LimiterInv'
  <2> SUFFICES ASSUME LimiterInv, [AdmissionNext]_admissionVars
               PROVE  LimiterInv'
    OBVIOUS
  <2>1. CASE \E k \in Callers : Admit(k)
    BY <2>1, AdmitKeeps
  <2>2. CASE \E k \in Callers : Refuse(k)
    BY <2>2, RefuseKeeps
  <2>3. CASE (\E k \in Callers : Unauthorized(k)) \/ AdminOpen \/ AdminGuarded
    BY <2>3, OtherCallsKeep
  <2>4. CASE \E c \in Configs : StartServer(c)
    BY <2>4, StartServerKeeps
  <2>5. CASE StopServer
    BY <2>5, StopServerKeeps
  <2>6. CASE Tick
    BY <2>6, TickKeeps
  <2>7. CASE SetBack
    BY <2>7, SetBackKeeps
  <2>8. CASE UNCHANGED admissionVars
    BY <2>8, LimiterStutters
  <2> QED BY <2>1, <2>2, <2>3, <2>4, <2>5, <2>6, <2>7, <2>8 DEF AdmissionNext, Call
<1> QED BY <1>1, <1>2, PTL DEF AdmissionSpec

\* Every variable of the pre-handler keeps its type.
THEOREM AdmissionTypeCorrect == AdmissionSpec => []AdmissionTypeOK
<1>1. LimiterInv => AdmissionTypeOK
  BY DEF LimiterInv
<1> QED BY <1>1, LimiterInvariant, PTL

\* The limiter of rate-limit.ts admits no caller more often than the limit in
\* one window of a clock that goes forward.
THEOREM LimiterKeepsBudget == AdmissionSpec => []BudgetKept
<1>1. LimiterInv => BudgetKept
  BY DEF LimiterInv
<1> QED BY <1>1, LimiterInvariant, PTL

\* A 429 is answered only to a caller whose budget of this very window has
\* all been admitted, as long as the clock was not set back.
THEOREM RefusalsAreDue == AdmissionSpec => RefusedOnlyWhenSpent
<1>1. LimiterInv /\ [AdmissionNext]_admissionVars =>
        [\A k \in Callers :
           Refuse(k) /\ steady => admitted[k][ThisWindow] = MaxRequests]_admissionVars
  <2> SUFFICES ASSUME LimiterInv, NEW k \in Callers, Refuse(k), steady
               PROVE  admitted[k][ThisWindow] = MaxRequests
    OBVIOUS
  <2> DEFINE B == BucketOf(k)
  <2>1. B \in Buckets
    BY BucketOfType DEF LimiterInv
  <2>2. B.consumed = MaxRequests
    BY <2>1, MaxRequestsAssumption DEF Refuse, HasBudget, Buckets
  <2>3. OfThisWindow(k) /\ B = buckets[k]
    BY <2>2, MaxRequestsAssumption DEF BucketOf, OfThisWindow
  <2> QED BY <2>2, <2>3 DEF OfThisWindow, LimiterInv, BucketsExact
<1> QED BY <1>1, LimiterInvariant, PTL DEF AdmissionSpec, RefusedOnlyWhenSpent

\* Waiting as long as retry-after says always reaches a later window.
LEMMA RetryAfterCovers ==
  ASSUME NEW resetAt \in Int, NEW now \in Int
  PROVE  /\ RetryAfter(resetAt, now) \in Int
         /\ now + RetryAfter(resetAt, now) * SecondMs >= resetAt
<1> DEFINE d == resetAt - now + SecondMs - 1
           q == d \div SecondMs
<1>1. SecondMs \in Nat /\ SecondMs > 0
  BY SecondAssumption
<1>2. d \in Int /\ q \in Int
  BY <1>1
<1>3. d = SecondMs * q + (d % SecondMs) /\ d % SecondMs \in 0..(SecondMs - 1)
  BY <1>1, <1>2
<1>4. q * SecondMs >= resetAt - now
  <2> HIDE DEF q
  <2>1. SecondMs * q = q * SecondMs
    BY <1>1, <1>2
  <2> QED BY <1>1, <1>2, <1>3, <2>1
<1>5. CASE q < 1
  <2>1. RetryAfter(resetAt, now) = 1
    BY <1>5 DEF RetryAfter
  <2>2. q * SecondMs <= 0
    <3> HIDE DEF q
    <3> QED BY <1>1, <1>2, <1>5
  <2> QED BY <1>1, <1>2, <1>4, <2>1, <2>2
<1>6. CASE ~(q < 1)
  <2>1. RetryAfter(resetAt, now) = q
    BY <1>6 DEF RetryAfter
  <2> HIDE DEF q
  <2>2. now + q * SecondMs >= resetAt
    <3>1. q * SecondMs \in Int
      BY <1>1, <1>2
    <3> QED BY <1>4, <3>1
  <2> QED BY <1>2, <2>1, <2>2
<1> QED BY <1>5, <1>6

\* A caller refused with a retry-after finds a new window when it comes back,
\* even when the clock moved between the handler's two readings.
THEOREM RetryAfterIsEnough == AdmissionSpec => []RetryAfterReachesNextWindow
<1>1. AdmissionTypeOK => RetryAfterReachesNextWindow
  <2> SUFFICES ASSUME AdmissionTypeOK, NEW later \in Times
               PROVE  WindowOf(later + RetryAfter(ResetAt(clock), later) * SecondMs) > ThisWindow
    BY DEF RetryAfterReachesNextWindow
  <2> DEFINE W == ThisWindow
             back == later + RetryAfter(ResetAt(clock), later) * SecondMs
  <2>1. clock \in Int /\ later \in Int /\ W \in Int
    BY TimesAssumption, WindowType DEF AdmissionTypeOK, ThisWindow
  <2>2. WindowMs \in Nat /\ WindowMs > 0 /\ SecondMs \in Nat
    BY WindowAssumption, SecondAssumption
  <2>3. ResetAt(clock) = (W + 1) * WindowMs /\ ResetAt(clock) \in Int
    <3> HIDE DEF W
    <3>1. ResetAt(clock) = W * WindowMs + WindowMs
      BY DEF W, ResetAt, ThisWindow
    <3> QED BY <2>1, <2>2, <3>1
  <2>4. back \in Int /\ back >= (W + 1) * WindowMs
    BY <2>1, <2>2, <2>3, RetryAfterCovers
  <2>5. WindowOf(back) >= WindowOf((W + 1) * WindowMs)
    <3>1. (W + 1) * WindowMs \in Int
      BY <2>3
    <3> HIDE DEF back
    <3> QED BY <2>4, <3>1, WindowMonotone
  <2>6. WindowOf((W + 1) * WindowMs) = W + 1
    <3> HIDE DEF W
    <3> QED BY <2>1, <2>2, Z3 DEF WindowOf
  <2>7. WindowOf(back) \in Int
    BY <2>2, <2>4 DEF WindowOf
  <2> QED BY <2>1, <2>5, <2>6, <2>7
<1> QED BY <1>1, AdmissionTypeCorrect, PTL

-----------------------------------------------------------------------------
(* The signing timestamp. *)

\* What the server makes of a caller's timestamp is off by less than a second.
LEMMA StampIsUnderstood ==
  ASSUME NEW sent \in Times, NEW unit \in Units
  PROVE  LET parsed == ParseTimestampMillis(Stamp(sent, unit))
         IN /\ parsed \in Int /\ parsed <= sent
            /\ sent - parsed <= IF unit = "s" THEN SecondMs - 1 ELSE 0
<1>1. /\ sent \in Int /\ SecondMs \in Nat \ {0} /\ SecondsLimit \in Nat
      /\ SecondsLimit <= sent /\ sent \div SecondMs < SecondsLimit
  BY TimesAssumption, SecondAssumption, UnitsAssumption
<1>2. CASE unit = "ms"
  BY <1>1, <1>2 DEF Stamp, ParseTimestampMillis, Distance
<1>3. CASE unit = "s"
  <2> DEFINE q == sent \div SecondMs
  <2>1. /\ q \in Int /\ 0 <= q /\ q < SecondsLimit
        /\ q * SecondMs <= sent /\ sent - q * SecondMs <= SecondMs - 1
    BY <1>1
  <2>2. Stamp(sent, unit) = q
    BY <1>3 DEF Stamp
  <2> HIDE DEF q
  <2>3. ParseTimestampMillis(q) = q * SecondMs
    BY <1>1, <2>1 DEF ParseTimestampMillis, Distance
  <2>4. q * SecondMs \in Int
    BY <1>1, <2>1
  <2> QED BY <1>3, <2>1, <2>2, <2>3, <2>4
<1> QED BY <1>2, <1>3 DEF Units

\* A correctly signed call is judged by its age, in either unit, up to the
\* second that rounding down takes.
THEOREM SkewIsRespected == AdmissionSpec => []SkewHoldsInBothUnits
<1>1. AdmissionTypeOK => SkewHoldsInBothUnits
  <2> SUFFICES ASSUME AdmissionTypeOK, NEW sent \in Times, NEW unit \in Units
        PROVE  LET rounding == IF unit = "s" THEN SecondMs - 1 ELSE 0
                   allowed  == SkewSeconds * SecondMs
                   verdict  == VerifySignedRequest(Stamp(sent, unit), "right")
               IN /\ Distance(clock, sent) + rounding <= allowed => verdict = "ok"
                  /\ verdict = "ok" => Distance(clock, sent) <= allowed + rounding
    BY DEF SkewHoldsInBothUnits
  <2> DEFINE rounding == IF unit = "s" THEN SecondMs - 1 ELSE 0
             allowed == SkewSeconds * SecondMs
             parsed == ParseTimestampMillis(Stamp(sent, unit))
  <2>1. parsed \in Int /\ parsed <= sent /\ sent - parsed <= rounding
    BY StampIsUnderstood
  <2>2. clock \in Int /\ sent \in Int /\ rounding \in Nat /\ allowed \in Nat
    BY TimesAssumption, SecondAssumption DEF AdmissionTypeOK
  <2>3. VerifySignedRequest(Stamp(sent, unit), "right") = "ok"
          <=> ~(Distance(clock, parsed) > allowed)
    BY DEF VerifySignedRequest
  <2> HIDE DEF rounding, allowed, parsed
  <2>4. /\ Distance(clock, parsed) <= Distance(clock, sent) + rounding
        /\ Distance(clock, sent) <= Distance(clock, parsed) + rounding
        /\ Distance(clock, parsed) \in Int /\ Distance(clock, sent) \in Int
    BY <2>1, <2>2 DEF Distance
  <2>5. /\ Distance(clock, sent) + rounding <= allowed =>
             VerifySignedRequest(Stamp(sent, unit), "right") = "ok"
        /\ VerifySignedRequest(Stamp(sent, unit), "right") = "ok" =>
             Distance(clock, sent) <= allowed + rounding
    BY <2>2, <2>3, <2>4
  <2> QED BY <2>5 DEF rounding, allowed
<1> QED BY <1>1, AdmissionTypeCorrect, PTL

=============================================================================
