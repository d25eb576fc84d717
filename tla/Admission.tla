----------------------------- MODULE Admission ------------------------------
(***************************************************************************)
(* What stands before the handlers of the tracking API: the pre-handler of *)
(* POST /track (credentials, then a fixed-window rate limiter per caller)  *)
(* and the guard of the admin routes.                                      *)
(*                                                                         *)
(* Both run without an await, so that a call is one step.  The server's    *)
(* clock is the wall clock: it goes on, and it may be set back.            *)
(*                                                                         *)
(* admitted and steady are history variables: the calls this process's     *)
(* limiter admitted in each window since the clock was last set back, and  *)
(* whether it never was.                                                   *)
(***************************************************************************)
EXTENDS Integers

CONSTANTS
  Callers,       \* the addresses calls come from
  Times,         \* the readings of a clock, in milliseconds
  WindowMs,
  MaxRequests,
  SecondMs,      \* milliseconds in a second
  SecondsLimit,  \* a timestamp below this is taken for one in seconds
  SkewSeconds,
  Configs,       \* what getConfig may return
  NoConfig,      \* the process is not running
  NoBucket,
  MaxSetbacks    \* bound: how often the clock is set back

AuthModes == {"off", "shared-secret", "signing"}

ConfigRecords ==
  [authMode : AuthModes, token : BOOLEAN, devLike : BOOLEAN,
   limited : BOOLEAN]

ASSUME TimesAssumption == Times \subseteq Int
ASSUME WindowAssumption == WindowMs \in Nat \ {0}
ASSUME MaxRequestsAssumption == MaxRequests \in Nat \ {0}
ASSUME ConfigsAssumption == Configs \subseteq ConfigRecords
ASSUME NoneAssumption == NoConfig \notin ConfigRecords
ASSUME SetbacksAssumption == MaxSetbacks \in Nat
ASSUME SecondAssumption == SecondMs \in Nat \ {0} /\ SkewSeconds \in Nat

\* The clock's dates are such that a number of seconds is below the limit and
\* one of milliseconds is not: from September 2001 to the year 33658.
ASSUME UnitsAssumption ==
  /\ SecondsLimit \in Nat
  /\ \A t \in Times : SecondsLimit <= t /\ t \div SecondMs < SecondsLimit

VARIABLES
  config,    \* the configuration the running process has read
  clock,
  buckets,   \* [Callers -> the caller's bucket]
  warned,    \* the guard has logged that the admin routes are open
  answer,    \* the last answer given
  admitted,
  steady,
  setbacks   \* how often the clock was set back

admissionVars ==
  <<config, clock, buckets, warned, answer, admitted, steady, setbacks>>

WindowOf(t) == t \div WindowMs

Windows == {WindowOf(t) : t \in Times}

ThisWindow == WindowOf(clock)

Buckets == [window : Windows, consumed : 0..MaxRequests]

ASSUME NoBucketAssumption == NoBucket \notin Buckets

Answers ==
  {"none", "admitted", "unauthorized", "rate_limited",
   "admin", "admin_open", "admin_unauthorized"}

NoneAdmitted == [k \in Callers |-> [w \in Windows |-> 0]]

AdmissionTypeOK ==
  /\ config \in Configs \cup {NoConfig}
  /\ clock \in Times
  /\ buckets \in [Callers -> Buckets \cup {NoBucket}]
  /\ warned \in BOOLEAN
  /\ answer \in Answers
  /\ admitted \in [Callers -> [Windows -> Nat]]
  /\ steady \in BOOLEAN
  /\ setbacks \in 0..MaxSetbacks

AdmissionInit ==
  /\ config = NoConfig
  /\ clock \in Times
  /\ buckets = [k \in Callers |-> NoBucket]
  /\ warned = FALSE
  /\ answer = "none"
  /\ admitted = NoneAdmitted
  /\ steady = TRUE
  /\ setbacks = 0

-----------------------------------------------------------------------------
(* The credentials of a call. *)

Distance(s, t) == IF s < t THEN t - s ELSE s - t

\* The x-tracking headers, by what the verification tells apart.
HeaderValues == {"missing", "wrong", "right"}

Units == {"s", "ms"}

\* What a caller writes at time t.
Stamp(t, unit) == IF unit = "s" THEN t \div SecondMs ELSE t

Timestamps == {Stamp(t, unit) : t \in Times, unit \in Units}

VerifySharedSecret(secret) ==
  CASE secret = "missing" -> "missing"
    [] secret = "wrong"   -> "invalid"
    [] secret = "right"   -> "ok"

\* Faulty variant: every timestamp is taken for milliseconds.
ParseTimestampMillisOnly(timestamp) == timestamp

ParseTimestampMillis(timestamp) ==
  IF Distance(timestamp, 0) < SecondsLimit THEN timestamp * SecondMs
                                           ELSE timestamp

\* The signature of a timestamp that is there and is a number.
VerifySignedRequest(timestamp, signature) ==
  IF signature = "missing" THEN "missing"
  ELSE IF Distance(clock, ParseTimestampMillis(timestamp))
            > SkewSeconds * SecondMs THEN "expired"
  ELSE IF signature = "wrong" THEN "invalid"
  ELSE "ok"

\* What the credentials of a call may come to.
Verdicts ==
  CASE config.authMode = "off" -> {"ok"}
    [] config.authMode = "shared-secret" ->
         {VerifySharedSecret(secret) : secret \in HeaderValues}
    [] config.authMode = "signing" ->
         {"missing", "invalid"} \cup
           {VerifySignedRequest(timestamp, signature) :
              timestamp \in Timestamps, signature \in HeaderValues}

-----------------------------------------------------------------------------
(* The rate limiter. *)

\* Faulty variant: the bucket is kept when its window is over.
BucketKept(k) ==
  IF buckets[k] = NoBucket THEN [window |-> ThisWindow, consumed |-> 0]
                           ELSE buckets[k]

\* The caller's bucket of this window: a new one where there is none, or
\* where the one there is belongs to another window, earlier or later.
BucketOf(k) ==
  IF buckets[k] = NoBucket THEN [window |-> ThisWindow, consumed |-> 0]
  ELSE IF buckets[k].window # ThisWindow
         THEN [window |-> ThisWindow, consumed |-> 0]
  ELSE buckets[k]

\* Faulty variant: one call too many.
HasBudgetInclusive(k) == BucketOf(k).consumed <= MaxRequests

HasBudget(k) == BucketOf(k).consumed < MaxRequests

ResetAt(t) == WindowOf(t) * WindowMs + WindowMs

\* Faulty variant: rounds down.
RetryAfterFloor(resetAt, now) ==
  LET seconds == (resetAt - now) \div SecondMs
  IN IF seconds < 1 THEN 1 ELSE seconds

\* The seconds of the retry-after header, from a second reading of the clock.
RetryAfter(resetAt, now) ==
  LET seconds == (resetAt - now + SecondMs - 1) \div SecondMs
  IN IF seconds < 1 THEN 1 ELSE seconds

-----------------------------------------------------------------------------
(* Calls of POST /track. *)

Running == config # NoConfig

\* 401: the limiter is not asked.
Unauthorized(k) ==
  /\ Running
  /\ \E verdict \in Verdicts : verdict # "ok"
  /\ answer' = "unauthorized"
  /\ UNCHANGED <<config, clock, buckets, warned, admitted, steady, setbacks>>

\* The call goes on to the handler.  What becomes of it there, a 400 or a 500
\* included, gives nothing back.
Admit(k) ==
  /\ Running
  /\ "ok" \in Verdicts
  /\ config.limited => HasBudget(k)
  /\ buckets' = IF config.limited
                  THEN [buckets EXCEPT
                          ![k] = [BucketOf(k) EXCEPT !.consumed = @ + 1]]
                  ELSE buckets
  /\ admitted' = IF config.limited
                   THEN [admitted EXCEPT ![k][ThisWindow] = @ + 1]
                   ELSE admitted
  /\ answer' = "admitted"
  /\ UNCHANGED <<config, clock, warned, steady, setbacks>>

\* 429.
Refuse(k) ==
  /\ Running
  /\ "ok" \in Verdicts
  /\ config.limited
  /\ ~HasBudget(k)
  /\ buckets' = [buckets EXCEPT ![k] = BucketOf(k)]
  /\ answer' = "rate_limited"
  /\ UNCHANGED <<config, clock, warned, admitted, steady, setbacks>>

-----------------------------------------------------------------------------
(* Calls of the admin routes. *)

\* Without a token the routes are open in development and test, and the first
\* call is logged.
AdminOpen ==
  /\ Running
  /\ ~config.token
  /\ config.devLike
  /\ warned' = TRUE
  /\ answer' = "admin_open"
  /\ UNCHANGED <<config, clock, buckets, admitted, steady, setbacks>>

AdminVerdict(header) ==
  IF config.token /\ header = "right" THEN "admin" ELSE "admin_unauthorized"

AdminGuarded ==
  /\ Running
  /\ config.token \/ ~config.devLike
  /\ \E header \in HeaderValues : answer' = AdminVerdict(header)
  /\ UNCHANGED <<config, clock, buckets, warned, admitted, steady, setbacks>>

-----------------------------------------------------------------------------
\* The process is started: the limiter is made at the first call that needs
\* it, and is empty.
StartServer(c) ==
  /\ ~Running
  /\ config' = c
  /\ UNCHANGED <<clock, buckets, warned, answer, admitted, steady, setbacks>>

\* The process stops, or is stopped, and takes the buckets with it.
StopServer ==
  /\ Running
  /\ config' = NoConfig
  /\ buckets' = [k \in Callers |-> NoBucket]
  /\ warned' = FALSE
  /\ answer' = "none"
  /\ admitted' = NoneAdmitted
  /\ steady' = TRUE
  /\ UNCHANGED <<clock, setbacks>>

Tick ==
  /\ \E t \in Times : t > clock /\ clock' = t
  /\ UNCHANGED <<config, buckets, warned, answer, admitted, steady, setbacks>>

SetBack ==
  /\ setbacks < MaxSetbacks
  /\ \E t \in Times : t < clock /\ clock' = t
  /\ setbacks' = setbacks + 1
  /\ admitted' = NoneAdmitted
  /\ steady' = ~Running
  /\ UNCHANGED <<config, buckets, warned, answer>>

Call == \/ \E k \in Callers : Unauthorized(k) \/ Admit(k) \/ Refuse(k)
        \/ AdminOpen \/ AdminGuarded

AdmissionNext ==
  \/ Call
  \/ \E c \in Configs : StartServer(c)
  \/ StopServer
  \/ Tick
  \/ SetBack

AdmissionSpec == AdmissionInit /\ [][AdmissionNext]_admissionVars

-----------------------------------------------------------------------------
\* While the clock goes forward no caller is admitted more often than the
\* limit in any window, however calls, windows and other callers interleave:
\* a window's bucket is opened once.
BudgetKept ==
  \A k \in Callers, w \in Windows : admitted[k][w] <= MaxRequests

\* Nobody is refused early: on a clock that was not set back, a caller whose
\* authorized call is answered with a 429 has had the whole of its budget
\* admitted in this very window.  Other callers, earlier windows and calls
\* with bad credentials took nothing of it.
RefusedOnlyWhenSpent ==
  [][\A k \in Callers :
       Refuse(k) /\ steady => admitted[k][ThisWindow] = MaxRequests
    ]_admissionVars

\* A caller that was refused and waits as long as retry-after says comes back
\* in a later window, even if the clock moved on between the two times the
\* handler read it.
RetryAfterReachesNextWindow ==
  \A k \in Callers, later \in Times :
    Running /\ later >= clock /\ ~HasBudget(k) =>
      WindowOf(later + RetryAfter(ResetAt(clock), later) * SecondMs)
        > ThisWindow

\* A timestamp is understood in either unit: a correctly signed call whose
\* timestamp is younger than the skew, less the second that rounding down may
\* cost, is accepted, and none is accepted that is older than the skew and
\* that second.
SkewHoldsInBothUnits ==
  \A sent \in Times, unit \in Units :
    LET rounding == IF unit = "s" THEN SecondMs - 1 ELSE 0
        allowed  == SkewSeconds * SecondMs
        verdict  == VerifySignedRequest(Stamp(sent, unit), "right")
    IN /\ Distance(clock, sent) + rounding <= allowed => verdict = "ok"
       /\ verdict = "ok" => Distance(clock, sent) <= allowed + rounding
=============================================================================
