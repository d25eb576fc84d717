--------------------------- MODULE TrackingClient ---------------------------
(***************************************************************************)
(* The tracking client of packages/shared-contracts: createTrackingClient  *)
(* with its "safe storage", the anonymous identity, the session and        *)
(* track().                                                                *)
(*                                                                         *)
(* Safe storage puts a MemoryStorage beside localStorage: a read that      *)
(* succeeds copies what it found to memory, a read or a write that throws  *)
(* goes to memory.  A write that succeeds leaves the copy as it is.        *)
(***************************************************************************)
EXTENDS BrowserStorage

At(t, phase) == tab[t].client = "sdk" /\ tab[t].phase = phase

GetItem(t, key) == IF mode = "closed" THEN memory[t][key] ELSE browser[key]

\* Faulty variant: reads make no copy.
RememberNothing(t, key) == memory' = memory

\* The copy a read makes.
Remember(t, key) ==
  memory' = IF mode # "closed" /\ browser[key] # NoValue
              THEN [memory EXCEPT ![t][key] = browser[key]]
              ELSE memory

SetItem(t, key, value) ==
  IF mode = "open"
    THEN /\ browser' = [browser EXCEPT ![key] = value]
         /\ memory' = memory
    ELSE /\ memory' = [memory EXCEPT ![t][key] = value]
         /\ browser' = browser

-----------------------------------------------------------------------------
\* A page is loaded, or loaded again in the middle of anything: its memory is
\* empty, and unless the page turns it off a page_view is tracked at once.
\* Where localStorage throws, nothing of the page's past is left: and there is
\* no client, since the safe storage asks for localStorage outside its try, but
\* on a page that hands over a storage which asks for it at each access.
Load(t) ==
  /\ tab[t].client = "sdk"
  /\ memory' = [memory EXCEPT ![t] = EmptyStore]
  /\ expected' = IF mode = "closed" THEN [expected EXCEPT ![t] = Nothing]
                                    ELSE expected
  /\ \/ BeginCall(t, "read_anonymous", NoValue)
     \/ /\ tab' = [tab EXCEPT ![t] = [Absent("sdk") EXCEPT !.phase = "idle"]]
        /\ UNCHANGED <<calls, clock, spent>>
     \/ /\ mode = "closed"
        /\ tab' = [tab EXCEPT ![t] = Absent("sdk")]
        /\ UNCHANGED <<calls, clock, spent>>
  /\ UNCHANGED <<browser, mode>>

\* track(): an earlier call's fetch may still be under way.
Track(t) ==
  /\ At(t, "idle")
  /\ BeginCall(t, "read_anonymous", tab[t].known)
  /\ UNCHANGED <<browser, mode, memory, expected>>

\* getAnonymousId.
ReadAnonymousId(t) ==
  /\ At(t, "read_anonymous")
  /\ LET existing == GetItem(t, "anonymous_id")
     IN tab' = [tab EXCEPT
                  ![t].phase = IF existing = NoValue THEN "write_anonymous"
                                                     ELSE "read_session",
                  ![t].anonymous = IF existing = NoValue THEN IdOf(t)
                                                         ELSE existing,
                  ![t].known = IF mode = "closed" \/ existing = NoValue
                                 THEN @ ELSE existing]
  /\ Remember(t, "anonymous_id")
  /\ UNCHANGED <<browser, mode, clock, calls, spent, expected>>

WriteAnonymousId(t) ==
  /\ At(t, "write_anonymous")
  /\ SetItem(t, "anonymous_id", tab[t].anonymous)
  /\ tab' = [tab EXCEPT ![t].phase = "read_session"]
  /\ UNCHANGED <<mode, clock, calls, spent, expected>>

\* getSessionState, in its two reads.
ReadSession(t) ==
  /\ At(t, "read_session")
  /\ tab' = [tab EXCEPT ![t].phase = "read_activity",
                        ![t].session = GetItem(t, "session_id")]
  /\ Remember(t, "session_id")
  /\ UNCHANGED <<browser, mode, clock, calls, spent, expected>>

\* Faulty variant: the boundary itself still counts as active.
FreshInclusive(activity, now) ==
  activity # NoValue /\ now - activity <= Timeout

Fresh(activity, now) == activity # NoValue /\ now - activity < Timeout

ReadActivity(t) ==
  /\ At(t, "read_activity")
  /\ LET fresh == /\ tab[t].session # NoValue
                  /\ Fresh(GetItem(t, "session_last_activity"), tab[t].now)
     IN tab' = [tab EXCEPT
                  ![t].phase = IF fresh THEN "write_activity"
                                        ELSE "write_session",
                  ![t].session = IF fresh THEN @ ELSE IdOf(t)]
  /\ Remember(t, "session_last_activity")
  /\ UNCHANGED <<browser, mode, clock, calls, spent, expected>>

WriteSession(t) ==
  /\ At(t, "write_session")
  /\ SetItem(t, "session_id", tab[t].session)
  /\ tab' = [tab EXCEPT ![t].phase = "write_activity"]
  /\ UNCHANGED <<mode, clock, calls, spent, expected>>

\* The last access of the call.
WriteActivity(t) ==
  /\ At(t, "write_activity")
  /\ SetItem(t, "session_last_activity", tab[t].now)
  /\ Compose(t, tab[t].session)
  /\ UNCHANGED <<mode, clock, calls, spent>>

\* The steps of a call that is under way.
SdkCall(t) ==
  \/ ReadAnonymousId(t) \/ WriteAnonymousId(t) \/ ReadSession(t)
  \/ ReadActivity(t) \/ WriteSession(t) \/ WriteActivity(t)

SdkStep(t) == Load(t) \/ Track(t) \/ SdkCall(t)
=============================================================================
