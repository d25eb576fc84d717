--------------------------- MODULE BrowserSnippet ---------------------------
(***************************************************************************)
(* installBrowserTrack, the reference of the snippet a site embeds without *)
(* a package.  It keeps its session in one item of localStorage, has no    *)
(* fallback, and does not guard its write: where setItem throws, track()   *)
(* rejects before anything is sent.                                        *)
(***************************************************************************)
EXTENDS BrowserStorage

Key == "tracking_session"

\* readSession: null where the read throws.
StoredSession == IF mode = "closed" THEN NoValue ELSE browser[Key]

Expired(stored, now) ==
  stored = NoValue \/ now - stored.activity >= Timeout

\* Installed, or the page loaded again: window.track is set and a page_view
\* is tracked at once.
Install(t) ==
  /\ tab[t].client = "snippet"
  /\ BeginCall(t, "read_session", NoValue)
  /\ UNCHANGED <<browser, mode, memory, expected>>

\* track() or getSessionId(), which both call ensureSession.
SnippetTrack(t) ==
  /\ tab[t].phase \in {"idle", "threw"}
  /\ Install(t)

ReadSnippetSession(t) ==
  /\ tab[t].client = "snippet"
  /\ tab[t].phase = "read_session"
  /\ tab' = [tab EXCEPT
               ![t].phase = "write_snippet",
               ![t].session = IF Expired(StoredSession, tab[t].now)
                                THEN IdOf(t) ELSE StoredSession.session]
  /\ UNCHANGED <<browser, mode, clock, memory, calls, spent, expected>>

\* Faulty variant: the id is stored without the time of its use.
WriteSnippetSessionBare(t) ==
  /\ tab[t].client = "snippet"
  /\ tab[t].phase = "write_snippet"
  /\ mode = "open"
  /\ browser' = [browser EXCEPT ![Key] = [session  |-> tab[t].session,
                                          activity |-> NoValue]]
  /\ Compose(t, tab[t].session)
  /\ UNCHANGED <<mode, clock, memory, calls, spent>>

\* writeSession, then the pixel callback and the POST, whose failure is
\* swallowed; getSessionId and a page without fetch send nothing.
WriteSnippetSession(t) ==
  /\ tab[t].client = "snippet"
  /\ tab[t].phase = "write_snippet"
  /\ mode = "open"
  /\ browser' = [browser EXCEPT ![Key] = [session  |-> tab[t].session,
                                          activity |-> tab[t].now]]
  /\ Compose(t, tab[t].session)
  /\ UNCHANGED <<mode, clock, memory, calls, spent>>

\* setItem throws, and with it track(): the event is not sent.
WriteSnippetSessionThrows(t) ==
  /\ tab[t].client = "snippet"
  /\ tab[t].phase = "write_snippet"
  /\ mode # "open"
  /\ tab' = [tab EXCEPT ![t] = AtRest(t, "threw")]
  /\ UNCHANGED <<browser, mode, clock, memory, calls, spent, expected>>

SnippetCall(t) ==
  \/ ReadSnippetSession(t) \/ WriteSnippetSession(t)
  \/ WriteSnippetSessionThrows(t)

SnippetStep(t) == Install(t) \/ SnippetTrack(t) \/ SnippetCall(t)
=============================================================================
