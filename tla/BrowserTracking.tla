-------------------------- MODULE BrowserTracking ---------------------------
(***************************************************************************)
(* Pages of one site in one browser, each with the tracking client or the  *)
(* snippet, over the shared localStorage.                                  *)
(***************************************************************************)
EXTENDS TrackingClient, BrowserSnippet

Init == BrowserInit

Next ==
  \/ \E t \in Tabs : SdkStep(t) \/ SnippetStep(t)
  \/ Environment

Spec == Init /\ [][Next]_browserVars

-----------------------------------------------------------------------------
\* The step in which page t composes an event.
Composes(t) == WriteActivity(t) \/ WriteSnippetSession(t)

\* A session lasts exactly as long as its visitor is active: of two
\* successive events, of one page or of two, the second carries the session
\* of the first if and only if less than the timeout lies between them.  It
\* holds of the tracking client on a store that is open or closed, and of the
\* snippet, pages reloaded in the middle of a call included; and after pages
\* have raced for the store, or the store was disturbed, the first call that
\* is left alone restores it.
SessionsFollowActivity ==
  [][\A t \in Tabs :
       /\ Composes(t)
       /\ tab[t].solo
       /\ expected[t].session # NoValue
       /\ mode # "full"
       => (expected'[t].session = expected[t].session
             <=> tab[t].now - expected[t].time < Timeout)]_browserVars

\* The anonymous_id outlives the session: on the same stores it is the same
\* in two successive events however far apart they are.  When access to
\* localStorage is withdrawn from an open page, the page keeps the
\* anonymous_id it has read, from the copy in memory.
VisitorKept ==
  [][\A t \in Tabs :
       /\ Composes(t)
       /\ tab[t].solo
       /\ expected[t].anonymous # NoValue
       /\ mode # "full"
       => expected'[t].anonymous = expected[t].anonymous]_browserVars

-----------------------------------------------------------------------------
\* "keep the session stable across active navigation until the inactivity
\* window expires" (docs/06-frontend/tracking-sdk.md), of the tracking client:
\* two successive events less than the timeout apart carry the same session,
\* whatever localStorage does.
SessionStableWhileActive ==
  [][\A t \in Tabs :
       /\ WriteActivity(t)
       /\ tab[t].solo
       /\ expected[t].session # NoValue
       /\ tab[t].now - expected[t].time < Timeout
       => expected'[t].session = expected[t].session]_browserVars
=============================================================================
