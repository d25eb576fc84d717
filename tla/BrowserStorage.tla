--------------------------- MODULE BrowserStorage ---------------------------
(***************************************************************************)
(* What the pages of one site share in one browser: the site's             *)
(* localStorage, which may refuse writes ("full") or throw on every access *)
(* ("closed"), and the clock.  Two clients use it: the tracking client     *)
(* (module TrackingClient) and the snippet (module BrowserSnippet).        *)
(*                                                                         *)
(* JavaScript runs one call of a page without interruption, but pages are  *)
(* processes of their own and nothing locks localStorage between two of    *)
(* its operations: each getItem and each setItem is a step.                *)
(*                                                                         *)
(* expected is a history variable: what the next event of page t has to    *)
(* agree with.  It is the last event composed over the store the page      *)
(* uses, and nothing where that event's call was disturbed by another      *)
(* page's or the store was disturbed since.                                *)
(***************************************************************************)
EXTENDS Integers

CONSTANTS
  Tabs,       \* pages of the site
  Timeout,    \* the inactivity that ends a session, in clock ticks
  NoValue,    \* getItem's null
  MaxClock,   \* bound: clock ticks
  MaxCalls    \* bound: calls of track(), and incidents of the store, together

ASSUME BrowserAssumption ==
  /\ Timeout \in Nat \ {0}
  /\ MaxCalls \in Nat
  /\ MaxClock \in Nat

VARIABLES
  browser,    \* localStorage: [Keys -> values]
  mode,       \* what localStorage does with an access
  clock,      \* the time at which the last call began
  tab,        \* [Tabs -> the page's client and the call it is in]
  memory,     \* [Tabs -> the client's MemoryStorage]
  calls,      \* [Tabs -> calls begun so far]
  spent,      \* calls begun and incidents of the store so far, counted
  expected

\* A random UUID: no two calls build the same.
Ids == Tabs \X Nat

IdOf(t) == <<t, calls[t]>>

Keys == {"anonymous_id", "session_id", "session_last_activity",
         "tracking_session"}

\* The snippet keeps its session and the time of its last use in one item.
SnippetSessions == [session : Ids, activity : Nat]

\* What getItem answers for a key without an item is no item.
ASSUME NoValueAssumption == NoValue \notin Ids \cup Nat \cup SnippetSessions

Stores ==
  [anonymous_id          : Ids \cup {NoValue},
   session_id            : Ids \cup {NoValue},
   session_last_activity : Nat \cup {NoValue},
   tracking_session      : SnippetSessions \cup {NoValue}]

EmptyStore == [k \in Keys |-> NoValue]

Modes == {"open", "full", "closed"}

Clients == {"sdk", "snippet"}

\* The phases in which a call still has storage accesses to make.
StoragePhases ==
  {"read_anonymous", "write_anonymous", "read_session", "read_activity",
   "write_session", "write_activity", "write_snippet"}

Phases == {"absent", "idle", "threw"} \cup StoragePhases

\* known is the anonymous_id the page last found in the store; solo says
\* that nothing has disturbed the call so far.
TabStates ==
  [client : Clients, phase : Phases, now : Nat,
   anonymous : Ids \cup {NoValue}, session : Ids \cup {NoValue},
   known : Ids \cup {NoValue}, solo : BOOLEAN]

Expectations ==
  [anonymous : Ids \cup {NoValue}, session : Ids \cup {NoValue}, time : Nat]

Nothing == [anonymous |-> NoValue, session |-> NoValue, time |-> 0]

browserVars ==
  <<browser, mode, clock, tab, memory, calls, spent, expected>>

BrowserTypeOK ==
  /\ browser \in Stores
  /\ mode \in Modes
  /\ clock \in 0..MaxClock
  /\ tab \in [Tabs -> TabStates]
  /\ memory \in [Tabs -> Stores]
  /\ calls \in [Tabs -> 0..MaxCalls]
  /\ spent \in 0..MaxCalls
  /\ expected \in [Tabs -> Expectations]

\* The two clients share no key, so the pages of a site all have the same one.
Absent(client) ==
  [client |-> client, phase |-> "absent", now |-> 0, anonymous |-> NoValue,
   session |-> NoValue, known |-> NoValue, solo |-> FALSE]

BrowserInit ==
  /\ browser = EmptyStore
  /\ mode \in Modes
  /\ clock = 0
  /\ \E client \in Clients : tab = [t \in Tabs |-> Absent(client)]
  /\ memory = [t \in Tabs |-> EmptyStore]
  /\ calls = [t \in Tabs |-> 0]
  /\ spent = 0
  /\ expected = [t \in Tabs |-> Nothing]

-----------------------------------------------------------------------------
(* The calls of both clients. *)

InStorage(t) == tab[t].phase \in StoragePhases

Rivals(t) == {u \in Tabs \ {t} : InStorage(u)}

\* The page between two calls.
AtRest(t, phase) ==
  [Absent(tab[t].client) EXCEPT !.phase = phase, !.known = tab[t].known]

\* The bound on calls and incidents together.
Spend == spent < MaxCalls /\ spent' = spent + 1

\* A call begins: it reads the clock, which nothing else does, and disturbs
\* every rival call under way.
BeginCall(t, phase, known) ==
  /\ Spend
  /\ calls' = [calls EXCEPT ![t] = @ + 1]
  /\ clock' \in clock..MaxClock
  /\ tab' = [u \in Tabs |->
               IF u = t
                 THEN [AtRest(t, phase) EXCEPT
                         !.now = clock', !.known = known,
                         !.solo = Rivals(t) = {}]
                 ELSE [tab[u] EXCEPT !.solo = FALSE]]

\* The storage accesses are over and the event is composed and handed to
\* fetch.  Whether the fetch succeeds, fails or is not made at all only shows
\* in the result of the call: nothing is stored and nothing is sent again.
Compose(t, session) ==
  LET event == IF tab[t].solo
                 THEN [anonymous |-> tab[t].anonymous, session |-> session,
                       time |-> tab[t].now]
                 ELSE Nothing
  IN /\ tab' = [tab EXCEPT ![t] = AtRest(t, "idle")]
     /\ expected' = [u \in Tabs |-> IF u = t \/ mode = "open"
                                      THEN event ELSE expected[u]]

-----------------------------------------------------------------------------
(* The environment. *)

Incident ==
  /\ Spend
  /\ tab' = [t \in Tabs |-> [tab[t] EXCEPT !.solo = FALSE]]
  /\ UNCHANGED <<clock, memory, calls>>

\* Access is withdrawn: a page has what it has read.
Withdraw ==
  /\ mode = "open"
  /\ Incident
  /\ mode' = "closed"
  /\ expected' = [t \in Tabs |->
                    IF tab[t].known = expected[t].anonymous
                      THEN [expected[t] EXCEPT !.session = NoValue]
                      ELSE Nothing]
  /\ UNCHANGED browser

\* The quota is used up or freed, access is given back.
ChangeMode ==
  /\ Incident
  /\ mode' \in Modes \ {mode}
  /\ mode = "open" => mode' # "closed"
  /\ expected' = [t \in Tabs |-> Nothing]
  /\ UNCHANGED browser

\* The visitor clears the site's data.
Clear ==
  /\ Incident
  /\ browser' = EmptyStore
  /\ expected' = [t \in Tabs |-> Nothing]
  /\ UNCHANGED mode

Environment == Withdraw \/ ChangeMode \/ Clear
=============================================================================
