--------------------------- MODULE BrowserProofs ----------------------------
(***************************************************************************)
(* Sessions and visitors of BrowserTracking, for any number of pages, any  *)
(* timeout and any number of calls and incidents: how a page's next event  *)
(* continues the last one over the same store.                             *)
(*                                                                         *)
(* The argument goes in layers.  The types say which values a call has in  *)
(* which phase.  A call that nothing disturbed is the only one under way,  *)
(* and the clock still shows its time.  No id is composed twice: what is   *)
(* stored, known or expected is older than the call under way.  On these   *)
(* rests what the store holds of the event the page's next one has to      *)
(* agree with.                                                             *)
(***************************************************************************)
EXTENDS BrowserTracking, TLAPS

SdkPhases ==
  {"absent", "idle", "read_anonymous", "write_anonymous", "read_session",
   "read_activity", "write_session", "write_activity"}

SnippetPhases == {"absent", "idle", "threw", "read_session", "write_snippet"}

\* A page in a phase of its own client, with the values that phase has.
TabTyped(r) ==
  /\ r \in TabStates
  /\ r.client = "sdk" => r.phase \in SdkPhases
  /\ r.client = "snippet" => r.phase \in SnippetPhases /\ r.anonymous = NoValue
  /\ r.client = "sdk" /\ r.phase \in StoragePhases \ {"read_anonymous"}
       => r.anonymous # NoValue
  /\ r.phase \in {"write_session", "write_activity", "write_snippet"}
       => r.session # NoValue

TypeInv ==
  /\ BrowserTypeOK
  /\ \A t \in Tabs :
       TabTyped(tab[t]) /\ tab[t].now <= clock /\ calls[t] <= spent
  /\ \A t, u \in Tabs : tab[t].client = tab[u].client

\* A call that nothing disturbed is alone, and no later call has begun.
SoloInv ==
  \A t \in Tabs :
    tab[t].solo /\ InStorage(t) => Rivals(t) = {} /\ tab[t].now = clock

\* An id of a call that has begun.
OldIn(x, counts) == x # NoValue => x[2] <= counts[x[1]]

Old(x) == OldIn(x, calls)

\* What page t finds in the store it uses.
View(t) == IF mode = "closed" THEN memory[t] ELSE browser

\* Page t is about to store an anonymous_id of its own, or may yet decide to.
Naming(t) == tab[t].phase \in {"read_anonymous", "write_anonymous"}

\* No id is about before its call.
OldInv ==
  /\ Old(browser.anonymous_id) /\ Old(browser.session_id)
  /\ browser.tracking_session # NoValue => Old(browser.tracking_session.session)
  /\ \A t \in Tabs : /\ Old(memory[t].session_id) /\ Old(tab[t].session)
                     /\ Old(tab[t].known) /\ Old(expected[t].session)

\* Ids are composed once: an anonymous_id is not about before it is stored,
\* and no session before it is expected.
NewInv ==
  \A t \in Tabs :
    /\ InStorage(t) => expected[t].session # IdOf(t)
    /\ tab[t].phase = "write_anonymous" => tab[t].anonymous = IdOf(t)
    /\ tab[t].phase = "write_session" => tab[t].session = IdOf(t)
    /\ Naming(t) => /\ browser.anonymous_id # IdOf(t)
                    /\ \A u \in Tabs : tab[u].known # IdOf(t)

IdsInv == OldInv /\ NewInv

\* The copy of the anonymous_id the page knows to be in the store.
CopyInv ==
  \A t \in Tabs :
    tab[t].known # NoValue /\ tab[t].known = browser.anonymous_id
      => /\ tab[t].phase # "write_anonymous"
         /\ memory[t].anonymous_id = tab[t].known

\* What a call that nothing disturbed has read or written is in the store.
Own(t) ==
  tab[t].solo /\ tab[t].client = "sdk" /\ mode # "full" =>
    /\ tab[t].phase \in {"read_session", "read_activity", "write_session",
                         "write_activity"}
         => View(t).anonymous_id = tab[t].anonymous
    /\ tab[t].phase \in {"read_activity", "write_activity"}
         => View(t).session_id = tab[t].session

OwnInv == \A t \in Tabs : Own(t)

\* Pages that share the store expect the same.
SharedInv == mode = "open" => \A t, u \in Tabs : expected[t] = expected[u]

\* The store has the anonymous_id of the event to agree with; the snippet has
\* none.
Visitor(t) ==
  /\ tab[t].client = "snippet" => expected[t].anonymous = NoValue
  /\ mode # "full" /\ expected[t].anonymous # NoValue
       => /\ View(t).anonymous_id = expected[t].anonymous
          /\ tab[t].phase # "write_anonymous"

VisitorInv == \A t \in Tabs : Visitor(t)

\* The session of the event to agree with has ended.
Ended(t) == clock - expected[t].time >= Timeout

\* The store has the session of the event to agree with and its time; the
\* session may have been replaced once it has ended, by a call that was cut
\* short before it stored its time.
SdkSession(t) ==
  tab[t].client = "sdk" /\ mode # "full" /\ expected[t].session # NoValue =>
    LET recent == tab[t].now - expected[t].time < Timeout
        same   == tab[t].session = expected[t].session
    IN /\ View(t).session_last_activity = expected[t].time
       /\ View(t).session_id # NoValue
       /\ View(t).session_id = expected[t].session \/ Ended(t)
       /\ tab[t].phase = "read_activity" =>
            tab[t].session # NoValue /\ (same \/ Ended(t))
       /\ tab[t].phase = "write_session" => ~recent
       /\ tab[t].phase = "write_activity" /\ tab[t].solo => (same <=> recent)

SdkSessionInv == \A t \in Tabs : SdkSession(t)

\* The snippet's item is the session of the event to agree with and its time.
SnippetSession(t) ==
  tab[t].client = "snippet" /\ mode = "open" /\ expected[t].session # NoValue =>
    /\ browser.tracking_session =
         [session |-> expected[t].session, activity |-> expected[t].time]
    /\ tab[t].phase = "write_snippet" =>
         (tab[t].session = expected[t].session
            <=> tab[t].now - expected[t].time < Timeout)

SnippetSessionInv == \A t \in Tabs : SnippetSession(t)

-----------------------------------------------------------------------------
(* Types.                                                                  *)

\* What is kept of a store when one of its items is set.
LEMMA ItemSet ==
  ASSUME NEW s \in Stores, NEW key \in Keys, NEW value,
         [s EXCEPT ![key] = value] \in Stores
  PROVE  /\ [s EXCEPT ![key] = value][key] = value
         /\ \A k \in Keys \ {key} : [s EXCEPT ![key] = value][k] = s[k]
BY DEF Stores, Keys

\* The values of an item.
LEMMA ItemTyped ==
  ASSUME NEW s \in Stores
  PROVE  /\ s["anonymous_id"] \in Ids \cup {NoValue}
         /\ s["session_id"] \in Ids \cup {NoValue}
         /\ s["session_last_activity"] \in Nat \cup {NoValue}
         /\ s["tracking_session"] \in SnippetSessions \cup {NoValue}
         /\ \A x \in Ids : /\ [s EXCEPT !["anonymous_id"] = x] \in Stores
                           /\ [s EXCEPT !["session_id"] = x] \in Stores
         /\ \A n \in Nat : [s EXCEPT !["session_last_activity"] = n] \in Stores
         /\ \A x \in SnippetSessions : [s EXCEPT !["tracking_session"] = x] \in Stores
         /\ EmptyStore \in Stores
BY DEF Stores, EmptyStore, Keys

\* Reads and writes of the safe storage keep the stores typed.
LEMMA StorageTyped ==
  ASSUME BrowserTypeOK, NEW t \in Tabs
  PROVE  /\ \A key \in Keys : Remember(t, key) => memory' \in [Tabs -> Stores]
         /\ \A key \in Keys : \A value :
              /\ [browser EXCEPT ![key] = value] \in Stores
              /\ [memory[t] EXCEPT ![key] = value] \in Stores
              /\ SetItem(t, key, value)
              => browser' \in Stores /\ memory' \in [Tabs -> Stores]
<1>1. browser \in Stores /\ memory \in [Tabs -> Stores]
  BY DEF BrowserTypeOK
<1>2. ASSUME NEW key \in Keys, Remember(t, key) PROVE memory' \in [Tabs -> Stores]
  <2>1. [memory[t] EXCEPT ![key] = browser[key]] \in Stores
    BY <1>1 DEF Stores, Keys
  <2>2. \/ memory' = memory
        \/ memory' = [memory EXCEPT ![t] = [memory[t] EXCEPT ![key] = browser[key]]]
    BY <1>1, <1>2 DEF Remember
  <2>. QED  BY <1>1, <2>1, <2>2
<1>3. ASSUME NEW key \in Keys, NEW value,
             [browser EXCEPT ![key] = value] \in Stores,
             [memory[t] EXCEPT ![key] = value] \in Stores,
             SetItem(t, key, value)
      PROVE  browser' \in Stores /\ memory' \in [Tabs -> Stores]
  <2>1. \/ memory' = memory /\ browser' = [browser EXCEPT ![key] = value]
        \/ memory' = [memory EXCEPT ![t] = [memory[t] EXCEPT ![key] = value]]
           /\ browser' = browser
    BY <1>1, <1>3 DEF SetItem
  <2>. QED  BY <1>1, <1>3, <2>1
<1>. QED  BY <1>2, <1>3

\* A step of page t alone keeps the types when the page's new state is typed.
LEMMA PageTyped ==
  ASSUME TypeInv, NEW t \in Tabs, NEW r, tab' = [tab EXCEPT ![t] = r],
         TabTyped(r), r.client = tab[t].client, r.now <= clock,
         browser' \in Stores, memory' \in [Tabs -> Stores],
         expected' \in [Tabs -> Expectations], UNCHANGED <<mode, clock, calls, spent>>
  PROVE  TypeInv'
<1>1. tab \in [Tabs -> TabStates]
  BY DEF TypeInv, BrowserTypeOK
<1>2. tab' \in [Tabs -> TabStates]
  BY <1>1 DEF TabTyped
<1>3. BrowserTypeOK'
  BY <1>2 DEF TypeInv, BrowserTypeOK
<1>4. \A u \in Tabs : tab'[u] = IF u = t THEN r ELSE tab[u]
  BY <1>1
<1>. QED  BY <1>3, <1>4 DEF TypeInv

\* The page between two calls.
LEMMA RestTyped ==
  ASSUME TypeInv, NEW t \in Tabs, NEW phase \in {"absent", "idle", "threw"},
         tab[t].client = "sdk" => phase # "threw"
  PROVE  LET r == AtRest(t, phase)
         IN /\ TabTyped(r) /\ r.client = tab[t].client /\ r.now = 0
            /\ r.phase = phase /\ r.known = tab[t].known /\ r.solo = FALSE
            /\ r.anonymous = NoValue /\ r.session = NoValue
<1>1. tab[t] \in TabStates
  BY DEF TypeInv, BrowserTypeOK
<1>. QED  BY <1>1
          DEF AtRest, Absent, TabTyped, TabStates, Phases, StoragePhases, SdkPhases,
              SnippetPhases

-----------------------------------------------------------------------------
(* What the steps do, field by field.                                      *)

\* What a step of page t leaves alone in the other pages.
OthersKept(t) ==
  \A u \in Tabs \ {t} : tab'[u] = tab[u] /\ memory'[u] = memory[u]

\* What no access of a call changes in the page's state.
CallKept(t) ==
  /\ tab'[t].client = tab[t].client
  /\ tab'[t].now = tab[t].now
  /\ tab'[t].solo = tab[t].solo

\* A read: the store the page uses stays as it is, and so does the page's
\* copy of an item unless the store answered.
ReadEffect(t, key) ==
  /\ browser' = browser
  /\ \A k \in Keys : View(t)'[k] = View(t)[k]
  /\ \A k \in Keys :
       memory'[t][k] = IF k = key /\ mode # "closed" /\ browser[k] # NoValue
                         THEN browser[k] ELSE memory[t][k]

\* A write: it reaches the store the page uses, or its copy of the item.
WriteEffect(t, key, value) ==
  /\ \A k \in Keys :
       browser'[k] = IF k = key /\ mode = "open" THEN value ELSE browser[k]
  /\ \A k \in Keys :
       memory'[t][k] = IF k = key /\ mode # "open" THEN value ELSE memory[t][k]

LEMMA ReadDoes ==
  ASSUME TypeInv, NEW t \in Tabs, NEW key \in Keys, Remember(t, key),
         UNCHANGED <<browser, mode>>
  PROVE  /\ ReadEffect(t, key)
         /\ \A u \in Tabs \ {t} : memory'[u] = memory[u]
         /\ memory' \in [Tabs -> Stores]
<1>1. memory \in [Tabs -> Stores]
  BY DEF TypeInv, BrowserTypeOK
<1>2. memory' \in [Tabs -> Stores]
  BY StorageTyped DEF TypeInv
<1>3. \A k \in Keys :
        memory'[t][k] = IF k = key /\ mode # "closed" /\ browser[k] # NoValue
                          THEN browser[k] ELSE memory[t][k]
  <2>1. CASE mode # "closed" /\ browser[key] # NoValue
    <3>1. memory'[t] = [memory[t] EXCEPT ![key] = browser[key]]
      BY <1>1, <2>1 DEF Remember
    <3>2. [memory[t] EXCEPT ![key] = browser[key]] \in Stores
      BY <1>1, <1>2, <3>1
    <3>. QED  BY <1>1, <2>1, <3>1, <3>2, ItemSet
  <2>2. CASE ~(mode # "closed" /\ browser[key] # NoValue)
    BY <2>2 DEF Remember
  <2>. QED  BY <2>1, <2>2
<1>4. \A u \in Tabs \ {t} : memory'[u] = memory[u]
  BY <1>1 DEF Remember
<1>. QED  BY <1>2, <1>3, <1>4 DEF ReadEffect, View

LEMMA WriteDoes ==
  ASSUME TypeInv, NEW t \in Tabs, NEW key \in Keys, NEW value,
         [browser EXCEPT ![key] = value] \in Stores,
         [memory[t] EXCEPT ![key] = value] \in Stores,
         SetItem(t, key, value)
  PROVE  /\ WriteEffect(t, key, value)
         /\ \A u \in Tabs \ {t} : memory'[u] = memory[u]
         /\ browser' \in Stores /\ memory' \in [Tabs -> Stores]
<1>1. memory \in [Tabs -> Stores] /\ browser \in Stores
  BY DEF TypeInv, BrowserTypeOK
<1>2. browser' \in Stores /\ memory' \in [Tabs -> Stores]
  BY StorageTyped DEF TypeInv
<1>3. CASE mode = "open"
  <2>1. browser' = [browser EXCEPT ![key] = value] /\ memory' = memory
    BY <1>3 DEF SetItem
  <2>2. \A k \in Keys :
          browser'[k] = IF k = key THEN value ELSE browser[k]
    BY <1>1, <1>2, <2>1 DEF Stores, Keys
  <2>. QED  BY <1>2, <1>3, <2>1, <2>2 DEF WriteEffect
<1>4. CASE mode # "open"
  <2>1. /\ memory'[t] = [memory[t] EXCEPT ![key] = value]
        /\ \A u \in Tabs \ {t} : memory'[u] = memory[u]
        /\ browser' = browser
    BY <1>1, <1>4 DEF SetItem
  <2>2. memory[t] \in Stores
    BY <1>1
  <2>. QED  BY <1>2, <1>4, <2>1, <2>2, ItemSet DEF WriteEffect
<1>. QED  BY <1>3, <1>4

\* What View answers, for any key.
LEMMA ViewIs ==
  ASSUME TypeInv, NEW t \in Tabs
  PROVE  /\ \A key : GetItem(t, key) = View(t)[key]
         /\ View(t) \in Stores
BY DEF GetItem, View, TypeInv, BrowserTypeOK

LEMMA ReadAnonymousIdDoes ==
  ASSUME TypeInv, NEW t \in Tabs, ReadAnonymousId(t)
  PROVE  /\ tab[t].client = "sdk" /\ tab[t].phase = "read_anonymous"
         /\ OthersKept(t) /\ CallKept(t) /\ ReadEffect(t, "anonymous_id")
         /\ UNCHANGED <<mode, clock, calls, spent, expected>>
         /\ tab'[t].session = tab[t].session
         /\ LET existing == View(t).anonymous_id
            IN /\ existing = NoValue =>
                    /\ tab'[t].phase = "write_anonymous"
                    /\ tab'[t].anonymous = IdOf(t)
               /\ existing # NoValue =>
                    /\ tab'[t].phase = "read_session"
                    /\ tab'[t].anonymous = existing
               /\ tab'[t].known = IF mode = "closed" \/ existing = NoValue
                                    THEN tab[t].known ELSE existing
         /\ TypeInv'
<1> DEFINE e == View(t)["anonymous_id"]
           p == IF e = NoValue THEN "write_anonymous" ELSE "read_session"
           a == IF e = NoValue THEN IdOf(t) ELSE e
           n == IF mode = "closed" \/ e = NoValue THEN tab[t].known ELSE e
           s == tab[t].session
<1>0. /\ tab \in [Tabs -> TabStates] /\ calls[t] \in Nat /\ browser \in Stores
      /\ expected \in [Tabs -> Expectations] /\ TabTyped(tab[t]) /\ tab[t].now <= clock
  BY DEF TypeInv, BrowserTypeOK
<1>1. /\ tab[t].client = "sdk" /\ tab[t].phase = "read_anonymous"
      /\ Remember(t, "anonymous_id")
      /\ UNCHANGED <<browser, mode, clock, calls, spent, expected>>
  BY DEF ReadAnonymousId, At
<1>2. e \in Ids \cup {NoValue}
  BY ViewIs, ItemTyped
<1>3. p \in Phases /\ a \in Ids \cup {NoValue} /\ n \in Ids \cup {NoValue}
  BY <1>0, <1>2 DEF Ids, IdOf, Phases, StoragePhases, TabStates
<1>4. tab' = [tab EXCEPT ![t] = [tab[t] EXCEPT !.phase = p, !.anonymous = a,
                                               !.session = s, !.known = n]]
  <2>1. GetItem(t, "anonymous_id") = e
    BY ViewIs
  <2>. QED  BY <1>0, <2>1 DEF ReadAnonymousId, TabStates
<1>5. s \in Ids \cup {NoValue}
  BY <1>0 DEF TabStates
<1> HIDE DEF p, a, n, s
<1>6. /\ tab'[t].phase = p /\ tab'[t].anonymous = a
      /\ tab'[t].session = s /\ tab'[t].known = n
      /\ CallKept(t) /\ tab'[t] \in TabStates
      /\ \A u \in Tabs \ {t} : tab'[u] = tab[u]
      /\ tab' = [tab EXCEPT ![t] = tab'[t]]
  BY <1>0, <1>3, <1>4, <1>5 DEF TabStates, CallKept
<1>7. /\ ReadEffect(t, "anonymous_id") /\ memory' \in [Tabs -> Stores]
      /\ \A u \in Tabs \ {t} : memory'[u] = memory[u]
  BY <1>1, ReadDoes DEF Keys
<1>8. a # NoValue
  BY <1>0, NoValueAssumption DEF a, Ids, IdOf
<1>9. TabTyped(tab'[t])
  BY <1>0, <1>1, <1>6, <1>8 DEF TabTyped, CallKept, p, s, SdkPhases
<1>10. TypeInv'
  BY <1>0, <1>1, <1>6, <1>7, <1>9, PageTyped DEF CallKept
<1>. QED  BY <1>1, <1>6, <1>7, <1>10 DEF p, a, n, s, OthersKept

LEMMA ReadSessionDoes ==
  ASSUME TypeInv, NEW t \in Tabs, ReadSession(t)
  PROVE  /\ tab[t].client = "sdk" /\ tab[t].phase = "read_session"
         /\ OthersKept(t) /\ CallKept(t) /\ ReadEffect(t, "session_id")
         /\ UNCHANGED <<mode, clock, calls, spent, expected>>
         /\ tab'[t].phase = "read_activity"
         /\ tab'[t].session = View(t).session_id
         /\ tab'[t].anonymous = tab[t].anonymous /\ tab'[t].known = tab[t].known
         /\ TypeInv'
<1> DEFINE e == View(t)["session_id"]
<1>0. /\ tab \in [Tabs -> TabStates] /\ browser \in Stores
      /\ expected \in [Tabs -> Expectations] /\ TabTyped(tab[t]) /\ tab[t].now <= clock
  BY DEF TypeInv, BrowserTypeOK
<1>1. /\ tab[t].client = "sdk" /\ tab[t].phase = "read_session"
      /\ Remember(t, "session_id")
      /\ UNCHANGED <<browser, mode, clock, calls, spent, expected>>
  BY DEF ReadSession, At
<1>2. e \in Ids \cup {NoValue}
  BY ViewIs, ItemTyped
<1>3. tab' = [tab EXCEPT ![t] = [tab[t] EXCEPT !.phase = "read_activity", !.session = e]]
  <2>1. GetItem(t, "session_id") = e
    BY ViewIs
  <2>. QED  BY <1>0, <2>1 DEF ReadSession, TabStates
<1> HIDE DEF e
<1>4. /\ tab'[t].phase = "read_activity" /\ tab'[t].session = e
      /\ tab'[t].anonymous = tab[t].anonymous /\ tab'[t].known = tab[t].known
      /\ CallKept(t) /\ tab'[t] \in TabStates
      /\ \A u \in Tabs \ {t} : tab'[u] = tab[u]
      /\ tab' = [tab EXCEPT ![t] = tab'[t]]
  BY <1>0, <1>2, <1>3 DEF TabStates, CallKept, Phases, StoragePhases
<1>5. /\ ReadEffect(t, "session_id") /\ memory' \in [Tabs -> Stores]
      /\ \A u \in Tabs \ {t} : memory'[u] = memory[u]
  BY <1>1, ReadDoes DEF Keys
<1>6. TabTyped(tab'[t])
  BY <1>0, <1>1, <1>4 DEF TabTyped, CallKept, SdkPhases, StoragePhases
<1>7. TypeInv'
  BY <1>0, <1>1, <1>4, <1>5, <1>6, PageTyped DEF CallKept
<1>. QED  BY <1>1, <1>4, <1>5, <1>7 DEF e, OthersKept

\* The session is fresh, as the call sees it.
FreshAt(t) == /\ tab[t].session # NoValue
              /\ Fresh(View(t).session_last_activity, tab[t].now)

LEMMA ReadActivityDoes ==
  ASSUME TypeInv, NEW t \in Tabs, ReadActivity(t)
  PROVE  /\ tab[t].client = "sdk" /\ tab[t].phase = "read_activity"
         /\ OthersKept(t) /\ CallKept(t) /\ ReadEffect(t, "session_last_activity")
         /\ UNCHANGED <<mode, clock, calls, spent, expected>>
         /\ tab'[t].phase = IF FreshAt(t) THEN "write_activity" ELSE "write_session"
         /\ tab'[t].session = IF FreshAt(t) THEN tab[t].session ELSE IdOf(t)
         /\ tab'[t].anonymous = tab[t].anonymous /\ tab'[t].known = tab[t].known
         /\ TypeInv'
<1> DEFINE p == IF FreshAt(t) THEN "write_activity" ELSE "write_session"
           i == IF FreshAt(t) THEN tab[t].session ELSE IdOf(t)
<1>0. /\ tab \in [Tabs -> TabStates] /\ calls[t] \in Nat /\ browser \in Stores
      /\ expected \in [Tabs -> Expectations] /\ TabTyped(tab[t]) /\ tab[t].now <= clock
  BY DEF TypeInv, BrowserTypeOK
<1>1. /\ tab[t].client = "sdk" /\ tab[t].phase = "read_activity"
      /\ Remember(t, "session_last_activity")
      /\ UNCHANGED <<browser, mode, clock, calls, spent, expected>>
  BY DEF ReadActivity, At
<1>2. IdOf(t) \in Ids
  BY <1>0 DEF Ids, IdOf
<1>3. p \in Phases /\ i \in Ids
  BY <1>0, <1>2 DEF Phases, StoragePhases, TabStates, FreshAt
<1>4. tab' = [tab EXCEPT ![t] = [tab[t] EXCEPT !.phase = p, !.session = i]]
  <2>1. GetItem(t, "session_last_activity") = View(t)["session_last_activity"]
    BY ViewIs
  <2>. QED  BY <1>0, <2>1 DEF ReadActivity, TabStates, FreshAt
<1> HIDE DEF p, i
<1>5. /\ tab'[t].phase = p /\ tab'[t].session = i
      /\ tab'[t].anonymous = tab[t].anonymous /\ tab'[t].known = tab[t].known
      /\ CallKept(t) /\ tab'[t] \in TabStates
      /\ \A u \in Tabs \ {t} : tab'[u] = tab[u]
      /\ tab' = [tab EXCEPT ![t] = tab'[t]]
  BY <1>0, <1>3, <1>4 DEF TabStates, CallKept
<1>6. /\ ReadEffect(t, "session_last_activity") /\ memory' \in [Tabs -> Stores]
      /\ \A u \in Tabs \ {t} : memory'[u] = memory[u]
  BY <1>1, ReadDoes DEF Keys
<1>7. TabTyped(tab'[t])
  BY <1>0, <1>1, <1>3, <1>5, NoValueAssumption
     DEF TabTyped, CallKept, SdkPhases, StoragePhases, p
<1>8. TypeInv'
  BY <1>0, <1>1, <1>5, <1>6, <1>7, PageTyped DEF CallKept
<1>. QED  BY <1>1, <1>5, <1>6, <1>8 DEF p, i, OthersKept

LEMMA WriteIdDoes ==
  ASSUME TypeInv, NEW t \in Tabs, WriteAnonymousId(t) \/ WriteSession(t)
  PROVE  /\ tab[t].client = "sdk" /\ OthersKept(t) /\ CallKept(t)
         /\ UNCHANGED <<mode, clock, calls, spent, expected>>
         /\ tab'[t].session = tab[t].session
         /\ tab'[t].anonymous = tab[t].anonymous /\ tab'[t].known = tab[t].known
         /\ WriteAnonymousId(t) =>
              /\ tab[t].phase = "write_anonymous" /\ tab'[t].phase = "read_session"
              /\ WriteEffect(t, "anonymous_id", tab[t].anonymous)
         /\ WriteSession(t) =>
              /\ tab[t].phase = "write_session" /\ tab'[t].phase = "write_activity"
              /\ WriteEffect(t, "session_id", tab[t].session)
         /\ TypeInv'
<1>0. /\ tab \in [Tabs -> TabStates] /\ browser \in Stores /\ memory \in [Tabs -> Stores]
      /\ expected \in [Tabs -> Expectations] /\ TabTyped(tab[t]) /\ tab[t].now <= clock
  BY DEF TypeInv, BrowserTypeOK
<1>1. ASSUME NEW key \in {"anonymous_id", "session_id"}, NEW x \in Ids,
             NEW p \in {"read_session", "write_activity"},
             SetItem(t, key, x), tab' = [tab EXCEPT ![t].phase = p],
             UNCHANGED <<mode, clock, calls, spent, expected>>,
             tab[t].client = "sdk", tab[t].phase \in {"write_anonymous", "write_session"},
             p = "write_activity" => tab[t].session # NoValue
      PROVE  /\ WriteEffect(t, key, x) /\ OthersKept(t) /\ CallKept(t) /\ tab'[t].phase = p
             /\ tab'[t].session = tab[t].session
             /\ tab'[t].anonymous = tab[t].anonymous /\ tab'[t].known = tab[t].known
             /\ TypeInv'
  <2>1. /\ [browser EXCEPT ![key] = x] \in Stores
        /\ [memory[t] EXCEPT ![key] = x] \in Stores
    BY <1>0, ItemTyped
  <2>2. /\ WriteEffect(t, key, x) /\ browser' \in Stores /\ memory' \in [Tabs -> Stores]
        /\ \A u \in Tabs \ {t} : memory'[u] = memory[u]
    BY <1>1, <2>1, WriteDoes DEF Keys
  <2>3. /\ tab'[t].phase = p /\ tab'[t].session = tab[t].session
        /\ tab'[t].anonymous = tab[t].anonymous /\ tab'[t].known = tab[t].known
        /\ CallKept(t) /\ tab'[t] \in TabStates
        /\ \A u \in Tabs \ {t} : tab'[u] = tab[u]
        /\ tab' = [tab EXCEPT ![t] = tab'[t]]
    BY <1>0, <1>1 DEF TabStates, CallKept, Phases, StoragePhases
  <2>4. TabTyped(tab'[t])
    BY <1>0, <1>1, <2>3 DEF TabTyped, CallKept, SdkPhases, StoragePhases
  <2>5. TypeInv'
    BY <1>0, <1>1, <2>2, <2>3, <2>4, PageTyped DEF CallKept
  <2>. QED  BY <2>2, <2>3, <2>5 DEF OthersKept
<1>2. ASSUME WriteAnonymousId(t)
      PROVE  /\ tab[t].client = "sdk" /\ tab[t].phase = "write_anonymous"
             /\ tab[t].anonymous \in Ids
             /\ SetItem(t, "anonymous_id", tab[t].anonymous)
             /\ tab' = [tab EXCEPT ![t].phase = "read_session"]
             /\ UNCHANGED <<mode, clock, calls, spent, expected>>
  BY <1>0, <1>2 DEF WriteAnonymousId, At, TabTyped, TabStates, StoragePhases
<1>3. ASSUME WriteSession(t)
      PROVE  /\ tab[t].client = "sdk" /\ tab[t].phase = "write_session"
             /\ tab[t].session \in Ids
             /\ SetItem(t, "session_id", tab[t].session)
             /\ tab' = [tab EXCEPT ![t].phase = "write_activity"]
             /\ UNCHANGED <<mode, clock, calls, spent, expected>>
  BY <1>0, <1>3 DEF WriteSession, At, TabTyped, TabStates, StoragePhases
<1>4. CASE WriteAnonymousId(t)
  <2>1. ~WriteSession(t)
    BY <1>2, <1>3, <1>4
  <2>. QED  BY <1>1, <1>2, <1>4, <2>1
<1>5. CASE WriteSession(t)
  <2>1. ~WriteAnonymousId(t)
    BY <1>2, <1>3, <1>5
  <2>2. tab[t].session # NoValue
    BY <1>3, <1>5, NoValueAssumption
  <2>. QED  BY <1>1, <1>3, <1>5, <2>1, <2>2
<1>. QED  BY <1>4, <1>5

\* The event a call composes.
Event(t) == IF tab[t].solo
              THEN [anonymous |-> tab[t].anonymous, session |-> tab[t].session,
                    time |-> tab[t].now]
              ELSE Nothing

\* The call is over, in the given phase.
Rests(t, phase, known) ==
  /\ \A u \in Tabs \ {t} : tab'[u] = tab[u]
  /\ tab'[t].client = tab[t].client /\ tab'[t].phase = phase
  /\ tab'[t].known = known /\ tab'[t].solo = FALSE /\ tab'[t].now = 0
  /\ tab'[t].anonymous = NoValue /\ tab'[t].session = NoValue

LEMMA ComposeDoes ==
  ASSUME TypeInv, NEW t \in Tabs, Compose(t, tab[t].session),
         browser' \in Stores, memory' \in [Tabs -> Stores],
         UNCHANGED <<mode, clock, calls, spent>>
  PROVE  /\ Rests(t, "idle", tab[t].known)
         /\ \A u \in Tabs : expected'[u] = IF u = t \/ mode = "open"
                                             THEN Event(t) ELSE expected[u]
         /\ TypeInv'
<1>0. /\ tab \in [Tabs -> TabStates] /\ tab[t] \in TabStates
      /\ expected \in [Tabs -> Expectations] /\ clock \in Nat
  BY DEF TypeInv, BrowserTypeOK
<1> DEFINE e == Event(t)
<1>1. e \in Expectations
  BY <1>0 DEF Event, Expectations, Nothing, TabStates
<1>2. expected' = [u \in Tabs |-> IF u = t \/ mode = "open" THEN e ELSE expected[u]]
  BY DEF Compose, Event
<1>3. tab' = [tab EXCEPT ![t] = AtRest(t, "idle")]
  BY DEF Compose
<1> DEFINE r == AtRest(t, "idle")
<1>4. /\ TabTyped(r) /\ r.client = tab[t].client /\ r.now = 0
      /\ r.phase = "idle" /\ r.known = tab[t].known /\ r.solo = FALSE
      /\ r.anonymous = NoValue /\ r.session = NoValue
  BY RestTyped
<1> HIDE DEF r, e
<1>5. r.now <= clock
  BY <1>0, <1>4
<1>6. expected' \in [Tabs -> Expectations]
  BY <1>0, <1>1, <1>2
<1>7. tab' = [tab EXCEPT ![t] = r]
  BY <1>3 DEF r
<1>8. TypeInv'
  BY <1>4, <1>5, <1>6, <1>7, PageTyped
<1>9. tab'[t] = r /\ \A u \in Tabs \ {t} : tab'[u] = tab[u]
  BY <1>0, <1>7
<1>10. Rests(t, "idle", tab[t].known)
  BY <1>4, <1>9 DEF Rests
<1>. QED  BY <1>2, <1>8, <1>10 DEF e

LEMMA WriteActivityDoes ==
  ASSUME TypeInv, NEW t \in Tabs, WriteActivity(t)
  PROVE  /\ tab[t].client = "sdk" /\ tab[t].phase = "write_activity"
         /\ WriteEffect(t, "session_last_activity", tab[t].now)
         /\ \A u \in Tabs \ {t} : memory'[u] = memory[u]
         /\ UNCHANGED <<mode, clock, calls, spent>>
         /\ Rests(t, "idle", tab[t].known)
         /\ \A u \in Tabs : expected'[u] = IF u = t \/ mode = "open"
                                             THEN Event(t) ELSE expected[u]
         /\ TypeInv'
<1>0. /\ browser \in Stores /\ memory \in [Tabs -> Stores] /\ tab[t].now \in Nat
  BY DEF TypeInv, BrowserTypeOK, TabStates
<1>1. /\ tab[t].client = "sdk" /\ tab[t].phase = "write_activity"
      /\ SetItem(t, "session_last_activity", tab[t].now)
      /\ Compose(t, tab[t].session) /\ UNCHANGED <<mode, clock, calls, spent>>
  BY DEF WriteActivity, At
<1>2. /\ [browser EXCEPT !["session_last_activity"] = tab[t].now] \in Stores
      /\ [memory[t] EXCEPT !["session_last_activity"] = tab[t].now] \in Stores
  BY <1>0, ItemTyped
<1>3. /\ WriteEffect(t, "session_last_activity", tab[t].now)
      /\ browser' \in Stores /\ memory' \in [Tabs -> Stores]
      /\ \A u \in Tabs \ {t} : memory'[u] = memory[u]
  BY <1>1, <1>2, WriteDoes DEF Keys
<1>. QED  BY <1>1, <1>3, ComposeDoes

LEMMA ReadSnippetSessionDoes ==
  ASSUME TypeInv, NEW t \in Tabs, ReadSnippetSession(t)
  PROVE  /\ tab[t].client = "snippet" /\ tab[t].phase = "read_session"
         /\ \A u \in Tabs \ {t} : tab'[u] = tab[u]
         /\ CallKept(t) /\ tab'[t].phase = "write_snippet"
         /\ tab'[t].session = IF Expired(StoredSession, tab[t].now)
                                THEN IdOf(t) ELSE StoredSession.session
         /\ tab'[t].anonymous = tab[t].anonymous /\ tab'[t].known = tab[t].known
         /\ UNCHANGED <<browser, mode, clock, memory, calls, spent, expected>>
         /\ TypeInv'
<1> DEFINE i == IF Expired(StoredSession, tab[t].now)
                  THEN IdOf(t) ELSE StoredSession.session
<1>0. /\ tab \in [Tabs -> TabStates] /\ calls[t] \in Nat /\ browser \in Stores
      /\ expected \in [Tabs -> Expectations] /\ TabTyped(tab[t]) /\ tab[t].now <= clock
      /\ memory \in [Tabs -> Stores]
  BY DEF TypeInv, BrowserTypeOK
<1>1. /\ tab[t].client = "snippet" /\ tab[t].phase = "read_session"
      /\ tab' = [tab EXCEPT ![t].phase = "write_snippet", ![t].session = i]
      /\ UNCHANGED <<browser, mode, clock, memory, calls, spent, expected>>
  BY DEF ReadSnippetSession
<1>2. StoredSession \in SnippetSessions \cup {NoValue}
  BY <1>0, ItemTyped DEF StoredSession, Key
<1>3. i \in Ids
  <2>1. IdOf(t) \in Ids
    BY <1>0 DEF Ids, IdOf
  <2>2. ~Expired(StoredSession, tab[t].now) => StoredSession \in SnippetSessions
    BY <1>2 DEF Expired
  <2>. QED  BY <2>1, <2>2 DEF SnippetSessions
<1> HIDE DEF i
<1>4. tab' = [tab EXCEPT ![t] = [tab[t] EXCEPT !.phase = "write_snippet", !.session = i]]
  BY <1>0, <1>1 DEF TabStates
<1>5. /\ tab'[t].phase = "write_snippet" /\ tab'[t].session = i
      /\ tab'[t].anonymous = tab[t].anonymous /\ tab'[t].known = tab[t].known
      /\ CallKept(t) /\ tab'[t] \in TabStates
      /\ \A u \in Tabs \ {t} : tab'[u] = tab[u]
      /\ tab' = [tab EXCEPT ![t] = tab'[t]]
  BY <1>0, <1>3, <1>4 DEF TabStates, CallKept, Phases, StoragePhases
<1>6. TabTyped(tab'[t])
  BY <1>0, <1>1, <1>3, <1>5, NoValueAssumption
     DEF TabTyped, CallKept, SnippetPhases, StoragePhases
<1>7. TypeInv'
  BY <1>0, <1>1, <1>5, <1>6, PageTyped DEF CallKept
<1>. QED  BY <1>1, <1>5, <1>7 DEF i

LEMMA WriteSnippetSessionDoes ==
  ASSUME TypeInv, NEW t \in Tabs, WriteSnippetSession(t)
  PROVE  /\ tab[t].client = "snippet" /\ tab[t].phase = "write_snippet"
         /\ mode = "open"
         /\ browser'[Key] = [session |-> tab[t].session, activity |-> tab[t].now]
         /\ \A k \in Keys \ {Key} : browser'[k] = browser[k]
         /\ UNCHANGED <<mode, clock, memory, calls, spent>>
         /\ Rests(t, "idle", tab[t].known)
         /\ \A u \in Tabs : expected'[u] = Event(t)
         /\ TypeInv'
<1> DEFINE x == [session |-> tab[t].session, activity |-> tab[t].now]
<1>0. /\ browser \in Stores /\ memory \in [Tabs -> Stores] /\ TabTyped(tab[t])
  BY DEF TypeInv, BrowserTypeOK
<1>1. /\ tab[t].client = "snippet" /\ tab[t].phase = "write_snippet"
      /\ mode = "open" /\ browser' = [browser EXCEPT ![Key] = x]
      /\ Compose(t, tab[t].session) /\ UNCHANGED <<mode, clock, memory, calls, spent>>
  BY DEF WriteSnippetSession
<1>2. x \in SnippetSessions
  BY <1>0, <1>1 DEF SnippetSessions, TabTyped, TabStates
<1> HIDE DEF x
<1>3. [browser EXCEPT ![Key] = x] \in Stores
  BY <1>0, <1>2, ItemTyped DEF Key
<1>4. browser' \in Stores /\ memory' \in [Tabs -> Stores]
  BY <1>0, <1>1, <1>3
<1>5. browser'[Key] = x /\ \A k \in Keys \ {Key} : browser'[k] = browser[k]
  BY <1>0, <1>1, <1>4 DEF Stores, Keys, Key
<1>. QED  BY <1>1, <1>4, <1>5, ComposeDoes DEF x

LEMMA WriteSnippetSessionThrowsDoes ==
  ASSUME TypeInv, NEW t \in Tabs, WriteSnippetSessionThrows(t)
  PROVE  /\ tab[t].client = "snippet" /\ tab[t].phase = "write_snippet"
         /\ Rests(t, "threw", tab[t].known) /\ mode # "open"
         /\ UNCHANGED <<browser, mode, clock, memory, calls, spent, expected>>
         /\ TypeInv'
<1>0. /\ browser \in Stores /\ memory \in [Tabs -> Stores] /\ clock \in Nat
      /\ expected \in [Tabs -> Expectations] /\ tab \in [Tabs -> TabStates]
  BY DEF TypeInv, BrowserTypeOK
<1> DEFINE r == AtRest(t, "threw")
<1>1. /\ tab[t].client = "snippet" /\ tab[t].phase = "write_snippet"
      /\ mode # "open" /\ tab' = [tab EXCEPT ![t] = r]
      /\ UNCHANGED <<browser, mode, clock, memory, calls, spent, expected>>
  BY DEF WriteSnippetSessionThrows
<1>2. /\ TabTyped(r) /\ r.client = tab[t].client /\ r.now = 0
      /\ r.phase = "threw" /\ r.known = tab[t].known /\ r.solo = FALSE
      /\ r.anonymous = NoValue /\ r.session = NoValue
  BY <1>1, RestTyped
<1> HIDE DEF r
<1>3. r.now <= clock
  BY <1>0, <1>2
<1>4. TypeInv'
  BY <1>0, <1>1, <1>2, <1>3, PageTyped
<1>5. tab'[t] = r /\ \A u \in Tabs \ {t} : tab'[u] = tab[u]
  BY <1>0, <1>1
<1>. QED  BY <1>1, <1>2, <1>4, <1>5 DEF Rests

\* Page u is as it was, but its call may have been disturbed.
SameCall(u) ==
  /\ tab'[u].client = tab[u].client /\ tab'[u].phase = tab[u].phase
  /\ tab'[u].now = tab[u].now /\ tab'[u].anonymous = tab[u].anonymous
  /\ tab'[u].session = tab[u].session /\ tab'[u].known = tab[u].known

\* What BeginCall does, field by field.
Begins(t, phase, known) ==
  /\ calls'[t] = calls[t] + 1 /\ \A u \in Tabs \ {t} : calls'[u] = calls[u]
  /\ clock' \in Nat /\ clock' >= clock
  /\ tab'[t].client = tab[t].client /\ tab'[t].phase = phase
  /\ tab'[t].now = clock' /\ tab'[t].known = known
  /\ tab'[t].anonymous = NoValue /\ tab'[t].session = NoValue
  /\ tab'[t].solo <=> Rivals(t) = {}
  /\ \A u \in Tabs \ {t} :
       SameCall(u) /\ tab'[u].solo = FALSE

LEMMA BeginDoes ==
  ASSUME TypeInv, NEW t \in Tabs, NEW phase, NEW known,
         BeginCall(t, phase, known),
         \/ tab[t].client = "sdk" /\ phase = "read_anonymous"
         \/ tab[t].client = "snippet" /\ phase = "read_session",
         known \in {NoValue, tab[t].known},
         memory' \in [Tabs -> Stores], expected' \in [Tabs -> Expectations],
         UNCHANGED <<browser, mode>>
  PROVE  Begins(t, phase, known) /\ TypeInv'
<1>0. /\ tab \in [Tabs -> TabStates] /\ calls \in [Tabs -> 0..MaxCalls]
      /\ clock \in 0..MaxClock /\ spent \in 0..MaxCalls /\ browser \in Stores
      /\ mode \in Modes
      /\ \A u \in Tabs : TabTyped(tab[u]) /\ tab[u].now <= clock /\ calls[u] <= spent
      /\ \A u, w \in Tabs : tab[u].client = tab[w].client
  BY DEF TypeInv, BrowserTypeOK
<1>1. /\ clock' \in 0..MaxClock /\ clock' >= clock
      /\ spent' = spent + 1 /\ spent' \in 0..MaxCalls
      /\ calls' = [calls EXCEPT ![t] = calls[t] + 1]
  <2>1. /\ clock' \in clock..MaxClock /\ spent < MaxCalls /\ spent' = spent + 1
        /\ calls' = [calls EXCEPT ![t] = calls[t] + 1]
    BY <1>0 DEF BeginCall, Spend
  <2>. QED  BY <1>0, <2>1, BrowserAssumption
<1> DEFINE q == Rivals(t) = {}
           a == [AtRest(t, phase) EXCEPT !.now = clock', !.known = known, !.solo = q]
           b(u) == [tab[u] EXCEPT !.solo = FALSE]
<1>2. tab' = [u \in Tabs |-> IF u = t THEN a ELSE b(u)]
  BY DEF BeginCall
<1>q. q \in BOOLEAN
  OBVIOUS
<1> HIDE DEF q
<1>3. /\ a \in TabStates
      /\ a.client = tab[t].client /\ a.phase = phase /\ a.now = clock'
      /\ a.known = known /\ a.anonymous = NoValue /\ a.session = NoValue /\ a.solo = q
  <2> DEFINE r == AtRest(t, phase)
  <2>1. /\ r \in TabStates /\ r.client = tab[t].client /\ r.phase = phase
        /\ r.anonymous = NoValue /\ r.session = NoValue
    BY <1>0 DEF TabStates, Phases, StoragePhases, AtRest, Absent
  <2> HIDE DEF r
  <2>2. a = [r EXCEPT !.now = clock', !.known = known, !.solo = q]
    BY DEF r
  <2>3. known \in Ids \cup {NoValue} /\ clock' \in Nat
    BY <1>0, <1>1 DEF TabStates
  <2> HIDE DEF a
  <2>. QED  BY <1>q, <2>1, <2>2, <2>3 DEF TabStates
<1> HIDE DEF a
<1>4. \A u \in Tabs : b(u) \in TabStates
  BY <1>0 DEF TabStates
<1>5. tab' \in [Tabs -> TabStates] /\ tab'[t] = a
      /\ \A u \in Tabs \ {t} : tab'[u] = b(u)
  BY <1>2, <1>3, <1>4
<1>6. \A u \in Tabs \ {t} :
        SameCall(u) /\ tab'[u].solo = FALSE
  BY <1>0, <1>5 DEF SameCall, TabStates
<1>7. Begins(t, phase, known)
  <2>1. calls'[t] = calls[t] + 1 /\ \A u \in Tabs \ {t} : calls'[u] = calls[u]
    BY <1>0, <1>1
  <2>2. /\ tab'[t].client = tab[t].client /\ tab'[t].phase = phase
        /\ tab'[t].now = clock' /\ tab'[t].known = known
        /\ tab'[t].anonymous = NoValue /\ tab'[t].session = NoValue
    BY <1>3, <1>5
  <2>3. tab'[t].solo <=> q
    BY <1>3, <1>5, <1>q
  <2>4. clock' \in Nat /\ clock' >= clock
    BY <1>1
  <2>. QED  BY <1>6, <2>1, <2>2, <2>3, <2>4 DEF Begins, q
<1>8. BrowserTypeOK'
  <2>1. calls' \in [Tabs -> 0..MaxCalls]
    <3>1. calls[t] + 1 \in 0..MaxCalls
      BY <1>0, <1>1, BrowserAssumption
    <3>. QED  BY <1>0, <1>1, <3>1
  <2>. QED  BY <1>0, <1>1, <1>5, <2>1 DEF BrowserTypeOK
<1>9. \A u \in Tabs : TabTyped(tab'[u]) /\ tab'[u].now <= clock' /\ calls'[u] <= spent'
  <2>1. TabTyped(tab'[t]) /\ tab'[t].now <= clock'
    <3>1. TabTyped(tab'[t])
      BY <1>3, <1>5 DEF TabTyped, SdkPhases, SnippetPhases, StoragePhases
    <3>. QED  BY <1>1, <1>3, <1>5, <3>1
  <2>2. ASSUME NEW u \in Tabs \ {t} PROVE TabTyped(tab'[u]) /\ tab'[u].now <= clock'
    <3>1. tab[u].now <= clock /\ tab[u].now \in Nat /\ tab'[u].now = tab[u].now
      BY <1>0, <1>6 DEF SameCall, TabStates
    <3>2. TabTyped(tab'[u])
      BY <1>0, <1>5, <1>6 DEF TabTyped, SameCall
    <3>. QED  BY <1>0, <1>1, <3>1, <3>2
  <2>3. \A u \in Tabs : calls'[u] <= spent'
    BY <1>0, <1>1
  <2>. QED  BY <2>1, <2>2, <2>3
<1>10. \A u, w \in Tabs : tab'[u].client = tab'[w].client
  BY <1>0, <1>3, <1>5, <1>6 DEF SameCall
<1>. QED  BY <1>7, <1>8, <1>9, <1>10 DEF TypeInv

\* A page between calls that has read nothing, with a client or without.
Unloaded(t) == Rests(t, "absent", NoValue) \/ Rests(t, "idle", NoValue)

\* A page of the tracking client is loaded, with or without a page_view.
LEMMA LoadDoes ==
  ASSUME TypeInv, NEW t \in Tabs, Load(t)
  PROVE  /\ tab[t].client = "sdk" /\ UNCHANGED <<browser, mode>>
         /\ memory'[t] = EmptyStore /\ \A u \in Tabs \ {t} : memory'[u] = memory[u]
         /\ \A u \in Tabs : expected'[u] = IF u = t /\ mode = "closed"
                                             THEN Nothing ELSE expected[u]
         /\ \/ Begins(t, "read_anonymous", NoValue)
            \/ UNCHANGED <<clock, calls, spent>> /\ Unloaded(t)
         /\ TypeInv'
<1>0. /\ tab \in [Tabs -> TabStates] /\ memory \in [Tabs -> Stores]
      /\ expected \in [Tabs -> Expectations] /\ browser \in Stores /\ clock \in Nat
  BY DEF TypeInv, BrowserTypeOK
<1>1. /\ tab[t].client = "sdk" /\ UNCHANGED <<browser, mode>>
      /\ memory' = [memory EXCEPT ![t] = EmptyStore]
      /\ expected' = IF mode = "closed" THEN [expected EXCEPT ![t] = Nothing]
                                        ELSE expected
  BY DEF Load
<1>2. memory' \in [Tabs -> Stores] /\ expected' \in [Tabs -> Expectations]
  <2>1. EmptyStore \in Stores
    BY <1>0, ItemTyped
  <2>2. Nothing \in Expectations
    BY DEF Nothing, Expectations
  <2>. QED  BY <1>0, <1>1, <2>1, <2>2
<1>3. /\ memory'[t] = EmptyStore /\ \A u \in Tabs \ {t} : memory'[u] = memory[u]
      /\ \A u \in Tabs : expected'[u] = IF u = t /\ mode = "closed"
                                          THEN Nothing ELSE expected[u]
  BY <1>0, <1>1
<1>4. CASE BeginCall(t, "read_anonymous", NoValue)
  BY <1>1, <1>2, <1>3, <1>4, BeginDoes
<1>5. ASSUME NEW r, r \in {Absent("sdk"), [Absent("sdk") EXCEPT !.phase = "idle"]},
             tab' = [tab EXCEPT ![t] = r], UNCHANGED <<calls, clock, spent>>
      PROVE  Unloaded(t) /\ TypeInv'
  <2>1. /\ TabTyped(r) /\ r.client = tab[t].client /\ r.now = 0
        /\ r.phase \in {"absent", "idle"} /\ r.known = NoValue /\ r.solo = FALSE
        /\ r.anonymous = NoValue /\ r.session = NoValue
    <3> USE <1>1 DEF Absent, TabTyped, TabStates, Clients, Phases, StoragePhases, SdkPhases
    <3>1. CASE r = Absent("sdk")
      BY <3>1
    <3>2. CASE r = [Absent("sdk") EXCEPT !.phase = "idle"]
      BY <3>2
    <3>. QED  BY <1>5, <3>1, <3>2
  <2>2. r.now <= clock
    BY <1>0, <2>1
  <2>3. TypeInv'
    BY <1>0, <1>1, <1>2, <1>5, <2>1, <2>2, PageTyped
  <2>4. tab'[t] = r /\ \A u \in Tabs \ {t} : tab'[u] = tab[u]
    BY <1>0, <1>5
  <2>5. Unloaded(t)
    BY <2>1, <2>4 DEF Unloaded, Rests
  <2>. QED  BY <2>3, <2>5
<1>. QED  BY <1>1, <1>3, <1>4, <1>5 DEF Load

\* track() of a page that is loaded, of either client.
LEMMA BeginsACall ==
  ASSUME TypeInv, NEW t \in Tabs, Track(t) \/ Install(t) \/ SnippetTrack(t)
  PROVE  /\ UNCHANGED <<browser, mode, memory, expected>>
         /\ \/ tab[t].client = "sdk" /\ tab[t].phase = "idle"
               /\ Begins(t, "read_anonymous", tab[t].known)
            \/ tab[t].client = "snippet" /\ Begins(t, "read_session", NoValue)
         /\ TypeInv'
<1>0. memory \in [Tabs -> Stores] /\ expected \in [Tabs -> Expectations]
  BY DEF TypeInv, BrowserTypeOK
<1>1. CASE Track(t)
  <2>1. /\ BeginCall(t, "read_anonymous", tab[t].known)
        /\ tab[t].client = "sdk" /\ tab[t].phase = "idle"
        /\ UNCHANGED <<browser, mode, memory, expected>>
    BY <1>1 DEF Track, At
  <2>. QED  BY <1>0, <2>1, BeginDoes
<1>2. CASE Install(t) \/ SnippetTrack(t)
  <2>1. /\ BeginCall(t, "read_session", NoValue) /\ tab[t].client = "snippet"
        /\ UNCHANGED <<browser, mode, memory, expected>>
    BY <1>2 DEF Install, SnippetTrack
  <2>. QED  BY <1>0, <2>1, BeginDoes
<1>. QED  BY <1>1, <1>2

\* What the environment does to the store: every call is disturbed.
LEMMA EnvironmentDoes ==
  ASSUME TypeInv, Environment
  PROVE  /\ UNCHANGED <<clock, memory, calls>>
         /\ \A t \in Tabs : SameCall(t) /\ tab'[t].solo = FALSE
         /\ \/ Withdraw \/ ChangeMode
            \/ Clear /\ \A k \in Keys : browser'[k] = NoValue
         /\ TypeInv'
<1>0. /\ tab \in [Tabs -> TabStates] /\ calls \in [Tabs -> 0..MaxCalls]
      /\ spent \in 0..MaxCalls /\ browser \in Stores /\ mode \in Modes
      /\ expected \in [Tabs -> Expectations] /\ clock \in 0..MaxClock
      /\ memory \in [Tabs -> Stores]
      /\ \A u \in Tabs : TabTyped(tab[u]) /\ tab[u].now <= clock /\ calls[u] <= spent
      /\ \A u, w \in Tabs : tab[u].client = tab[w].client
  BY DEF TypeInv, BrowserTypeOK
<1>1. /\ Incident /\ spent' = spent + 1 /\ spent' \in 0..MaxCalls
      /\ tab' = [t \in Tabs |-> [tab[t] EXCEPT !.solo = FALSE]]
      /\ UNCHANGED <<clock, memory, calls>>
  BY <1>0, BrowserAssumption
     DEF Environment, Withdraw, ChangeMode, Clear, Incident, Spend
<1>2. \A t \in Tabs : /\ SameCall(t) /\ tab'[t].solo = FALSE
                      /\ tab'[t] \in TabStates
  BY <1>0, <1>1 DEF SameCall, TabStates
<1>3. tab' \in [Tabs -> TabStates]
  BY <1>1, <1>2
<1>4. Nothing \in Expectations /\ EmptyStore \in Stores
  BY <1>0, ItemTyped DEF Nothing, Expectations
<1>5. browser' \in Stores /\ mode' \in Modes
  BY <1>0, <1>4 DEF Environment, Withdraw, ChangeMode, Clear, Modes
<1>6. expected' \in [Tabs -> Expectations]
  <2>1. CASE Withdraw
    <3>1. \A t \in Tabs : [expected[t] EXCEPT !.session = NoValue] \in Expectations
      BY <1>0 DEF Expectations
    <3>. QED  BY <1>4, <2>1, <3>1 DEF Withdraw
  <2>2. CASE ChangeMode \/ Clear
    BY <1>4, <2>2 DEF ChangeMode, Clear
  <2>. QED  BY <2>1, <2>2 DEF Environment
<1>7. BrowserTypeOK'
  BY <1>0, <1>1, <1>3, <1>5, <1>6 DEF BrowserTypeOK
<1>8. \A t \in Tabs : TabTyped(tab'[t]) /\ tab'[t].now <= clock' /\ calls'[t] <= spent'
  <2> TAKE t \in Tabs
  <2>1. TabTyped(tab'[t])
    BY <1>0, <1>2 DEF TabTyped, SameCall
  <2>2. tab'[t].now <= clock'
    BY <1>0, <1>1, <1>2 DEF SameCall
  <2>. QED  BY <1>0, <1>1, <2>1, <2>2
<1>9. \A t, u \in Tabs : tab'[t].client = tab'[u].client
  BY <1>0, <1>2 DEF SameCall
<1>10. Clear => \A k \in Keys : browser'[k] = NoValue
  BY DEF Clear, EmptyStore
<1>. QED  BY <1>1, <1>2, <1>7, <1>8, <1>9, <1>10 DEF TypeInv, Environment

\* The steps of the pages, in the groups the lemmas take them in.
LEMMA StepsAre ==
  ASSUME Next
  PROVE  \/ \E t \in Tabs :
              \/ Load(t)
              \/ Track(t) \/ Install(t) \/ SnippetTrack(t)
              \/ ReadAnonymousId(t)
              \/ ReadSession(t)
              \/ ReadActivity(t)
              \/ WriteAnonymousId(t) \/ WriteSession(t)
              \/ WriteActivity(t)
              \/ ReadSnippetSession(t)
              \/ WriteSnippetSession(t)
              \/ WriteSnippetSessionThrows(t)
         \/ Environment
BY DEF Next, SdkStep, SdkCall, SnippetStep, SnippetCall

LEMMA TypesKept == TypeInv /\ [Next]_browserVars => TypeInv'
<1> SUFFICES ASSUME TypeInv, [Next]_browserVars PROVE TypeInv'
  OBVIOUS
<1>1. ASSUME NEW t \in Tabs,
             \/ Load(t)
             \/ Track(t) \/ Install(t) \/ SnippetTrack(t)
      PROVE  TypeInv'
  BY <1>1, LoadDoes, BeginsACall
<1>2. ASSUME NEW t \in Tabs,
             \/ ReadAnonymousId(t) \/ ReadSession(t) \/ ReadActivity(t)
             \/ WriteAnonymousId(t) \/ WriteSession(t) \/ WriteActivity(t)
      PROVE  TypeInv'
  BY <1>2, ReadAnonymousIdDoes, ReadSessionDoes, ReadActivityDoes, WriteIdDoes,
     WriteActivityDoes
<1>3. ASSUME NEW t \in Tabs,
             \/ ReadSnippetSession(t) \/ WriteSnippetSession(t)
             \/ WriteSnippetSessionThrows(t)
      PROVE  TypeInv'
  BY <1>3, ReadSnippetSessionDoes, WriteSnippetSessionDoes,
     WriteSnippetSessionThrowsDoes
<1>4. CASE Environment
  BY <1>4, EnvironmentDoes
<1>5. CASE UNCHANGED browserVars
  BY <1>5 DEF browserVars, TypeInv, BrowserTypeOK
<1>. QED  BY <1>1, <1>2, <1>3, <1>4, <1>5, StepsAre

LEMMA TypesAtFirst == Init => TypeInv
<1> SUFFICES ASSUME Init PROVE TypeInv
  OBVIOUS
<1>1. PICK client \in Clients : tab = [t \in Tabs |-> Absent(client)]
  BY DEF Init, BrowserInit
<1>2. /\ TabTyped(Absent(client)) /\ Absent(client).now = 0
      /\ Absent(client) \in TabStates
  BY DEF Absent, TabTyped, TabStates, Clients, Phases, StoragePhases, SdkPhases,
         SnippetPhases
<1>3. EmptyStore \in Stores /\ Nothing \in Expectations
  BY DEF EmptyStore, Stores, Keys, Nothing, Expectations
<1>4. 0 \in 0..MaxCalls /\ 0 \in 0..MaxClock
  BY BrowserAssumption
<1>5. BrowserTypeOK
  BY <1>1, <1>2, <1>3, <1>4 DEF Init, BrowserInit, BrowserTypeOK
<1>. QED  BY <1>1, <1>2, <1>5 DEF TypeInv, Init, BrowserInit

\* The pages, their calls, the stores and what is expected of the next events
\* keep their types, whatever localStorage does.
THEOREM BrowserTyped == Spec => []BrowserTypeOK
<1>1. TypeInv => BrowserTypeOK
  BY DEF TypeInv
<1>. QED  BY <1>1, TypesAtFirst, TypesKept, PTL DEF Spec

-----------------------------------------------------------------------------
(* Calls that nothing disturbed.                                           *)

\* No step but the beginning of a call brings a page into storage.
LEMMA SoloCalm ==
  ASSUME SoloInv, clock' = clock,
         \A u \in Tabs : tab'[u].phase \in StoragePhases /\ tab'[u].solo =>
           /\ tab[u].phase \in StoragePhases
           /\ tab'[u].now = tab[u].now /\ tab[u].solo,
         \A u \in Tabs : tab'[u].phase \in StoragePhases
                           => tab[u].phase \in StoragePhases
  PROVE  SoloInv'
BY DEF SoloInv, Rivals, InStorage

LEMMA SoloKept ==
  TypeInv /\ SoloInv /\ [Next]_browserVars => SoloInv'
<1> SUFFICES ASSUME TypeInv, SoloInv, [Next]_browserVars PROVE SoloInv'
  OBVIOUS
<1>1. ASSUME NEW t \in Tabs, NEW p, NEW k, Begins(t, p, k) PROVE SoloInv'
  BY <1>1 DEF Begins, SameCall, SoloInv, Rivals, InStorage
<1>2. ASSUME NEW t \in Tabs, NEW p, NEW k, Rests(t, p, k), p \notin StoragePhases,
             clock' = clock
      PROVE  SoloInv'
  BY <1>2, SoloCalm DEF Rests
<1>3. ASSUME NEW t \in Tabs, CallKept(t), tab[t].phase \in StoragePhases,
             clock' = clock, \A u \in Tabs \ {t} : tab'[u] = tab[u]
      PROVE  SoloInv'
  BY <1>3, SoloCalm DEF CallKept
<1>4. ASSUME NEW t \in Tabs,
             \/ Load(t)
             \/ Track(t) \/ Install(t) \/ SnippetTrack(t)
      PROVE  SoloInv'
  <2>1. CASE Load(t)
    BY <1>1, <1>2, <2>1, LoadDoes DEF Unloaded, StoragePhases
  <2>2. CASE Track(t) \/ Install(t) \/ SnippetTrack(t)
    BY <1>1, <2>2, BeginsACall
  <2>. QED  BY <1>4, <2>1, <2>2
<1>5. ASSUME NEW t \in Tabs,
             \/ ReadAnonymousId(t) \/ ReadSession(t) \/ ReadActivity(t)
             \/ WriteAnonymousId(t) \/ WriteSession(t) \/ ReadSnippetSession(t)
      PROVE  SoloInv'
  BY <1>3, <1>5, ReadAnonymousIdDoes, ReadSessionDoes, ReadActivityDoes, WriteIdDoes,
     ReadSnippetSessionDoes DEF OthersKept, StoragePhases
<1>6. ASSUME NEW t \in Tabs,
             \/ WriteActivity(t) \/ WriteSnippetSession(t)
             \/ WriteSnippetSessionThrows(t)
      PROVE  SoloInv'
  BY <1>2, <1>6, WriteActivityDoes, WriteSnippetSessionDoes,
     WriteSnippetSessionThrowsDoes DEF StoragePhases
<1>7. CASE Environment
  BY <1>7, EnvironmentDoes, SoloCalm DEF SameCall
<1>8. CASE UNCHANGED browserVars
  BY <1>8 DEF browserVars, SoloInv, Rivals, InStorage
<1>. QED  BY <1>4, <1>5, <1>6, <1>7, <1>8, StepsAre

-----------------------------------------------------------------------------
(* Ids.                                                                    *)

\* What is old stays old, and is no id of a call that begins later.
LEMMA OldStays ==
  ASSUME NEW c \in [Tabs -> Nat], NEW d \in [Tabs -> Nat], \A u \in Tabs : c[u] <= d[u],
         NEW x \in Ids \cup {NoValue}, OldIn(x, c)
  PROVE  /\ OldIn(x, d)
         /\ \A t \in Tabs : c[t] < d[t] => x # <<t, d[t]>>
<1>1. CASE x = NoValue
  BY <1>1, NoValueAssumption DEF OldIn, Ids
<1>2. CASE x \in Ids
  <2>1. PICK u \in Tabs, n \in Nat : x = <<u, n>>
    BY <1>2 DEF Ids
  <2>. QED  BY <2>1, NoValueAssumption DEF OldIn, Ids
<1>. QED  BY <1>1, <1>2

LEMMA IdsTyped ==
  ASSUME TypeInv
  PROVE  /\ calls \in [Tabs -> Nat]
         /\ browser["anonymous_id"] \in Ids \cup {NoValue}
         /\ browser["session_id"] \in Ids \cup {NoValue}
         /\ browser["tracking_session"] # NoValue
              => browser["tracking_session"].session \in Ids
         /\ \A t \in Tabs :
              /\ memory[t]["session_id"] \in Ids \cup {NoValue}
              /\ tab[t].session \in Ids \cup {NoValue}
              /\ tab[t].known \in Ids \cup {NoValue}
              /\ expected[t].session \in Ids \cup {NoValue}
              /\ IdOf(t) \in Ids /\ IdOf(t) # NoValue /\ Old(IdOf(t))
<1>1. /\ calls \in [Tabs -> 0..MaxCalls] /\ browser \in Stores
      /\ memory \in [Tabs -> Stores] /\ tab \in [Tabs -> TabStates]
      /\ expected \in [Tabs -> Expectations]
  BY DEF TypeInv, BrowserTypeOK
<1>2. calls \in [Tabs -> Nat]
  BY <1>1
<1>3. \A t \in Tabs : IdOf(t) \in Ids /\ IdOf(t) # NoValue /\ Old(IdOf(t))
  BY <1>2, NoValueAssumption DEF IdOf, Ids, Old, OldIn
<1>4. \A t \in Tabs : memory[t]["session_id"] \in Ids \cup {NoValue}
  BY <1>1, ItemTyped
<1>. QED  BY <1>1, <1>2, <1>3, <1>4, ItemTyped
          DEF SnippetSessions, TabStates, Expectations

LEMMA IdsBegin ==
  ASSUME TypeInv, TypeInv', IdsInv, NEW t \in Tabs,
         NEW p \in {"read_anonymous", "read_session"}, NEW k, Begins(t, p, k),
         Old(k), k = NoValue \/ k = tab[t].known, browser' = browser,
         \A u \in Tabs : \/ memory'[u] = memory[u]
                         \/ memory'[u] = EmptyStore,
         \A u \in Tabs : \/ expected'[u] = expected[u]
                         \/ expected'[u] = Nothing
  PROVE  IdsInv'
<1>1. /\ calls \in [Tabs -> Nat] /\ calls' \in [Tabs -> Nat]
      /\ \A u \in Tabs : calls[u] <= calls'[u]
      /\ calls[t] < calls'[t] /\ \A u \in Tabs \ {t} : calls'[u] = calls[u]
  BY IdsTyped, BrowserAssumption DEF Begins, TypeInv, BrowserTypeOK
<1> DEFINE Kept(x) == OldIn(x, calls') /\ x # <<t, calls'[t]>>
<1>2. \A x \in Ids \cup {NoValue} : OldIn(x, calls) => Kept(x)
  BY <1>1, OldStays
<1>3. Kept(NoValue)
  BY <1>2 DEF OldIn
<1>4. /\ Kept(browser["anonymous_id"]) /\ Kept(browser["session_id"])
      /\ browser["tracking_session"] # NoValue
           => Kept(browser["tracking_session"].session)
  BY <1>2, IdsTyped DEF IdsInv, OldInv, Old
<1>5. \A u \in Tabs : /\ Kept(memory[u]["session_id"]) /\ Kept(tab[u].session)
                      /\ Kept(tab[u].known) /\ Kept(expected[u].session)
  BY <1>2, IdsTyped DEF IdsInv, OldInv, Old
<1> HIDE DEF Kept
<1>6. \A u \in Tabs : /\ Kept(memory'[u]["session_id"])
                      /\ Kept(expected'[u].session)
  BY <1>3, <1>5 DEF EmptyStore, Keys, Nothing
<1>7. \A u \in Tabs : Kept(tab'[u].session) /\ Kept(tab'[u].known)
  BY <1>3, <1>5 DEF Begins, SameCall
<1>8. \A u \in Tabs : IdOf(u)' = <<u, calls'[u]>>
  BY DEF IdOf
<1>9. ASSUME NEW u \in Tabs
      PROVE  /\ (InStorage(u) => expected[u].session # IdOf(u))'
             /\ (tab[u].phase = "write_anonymous" => tab[u].anonymous = IdOf(u))'
             /\ (tab[u].phase = "write_session" => tab[u].session = IdOf(u))'
             /\ (Naming(u) => /\ browser.anonymous_id # IdOf(u)
                              /\ \A w \in Tabs : tab[w].known # IdOf(u))'
  <2>1. CASE u = t
    BY <1>4, <1>6, <1>7, <1>8, <2>1 DEF Kept, Begins
  <2>2. CASE u # t
    <3>1. /\ SameCall(u) /\ IdOf(u)' = IdOf(u)
          /\ tab'[u].phase = "write_anonymous" \/ tab'[u].phase = "write_session"
               => u # t
      BY <1>1, <2>2 DEF Begins, IdOf
    <3>2. Naming(u)' => \A w \in Tabs : tab'[w].known # IdOf(u)
      BY <3>1, IdsTyped DEF IdsInv, NewInv, Naming, SameCall, Begins
    <3>3. InStorage(u)' => expected'[u].session # IdOf(u)
      BY <3>1, IdsTyped DEF IdsInv, NewInv, InStorage, SameCall, Nothing
    <3>. QED  BY <3>1, <3>2, <3>3 DEF IdsInv, NewInv, Naming, SameCall
  <2>. QED  BY <2>1, <2>2
<1>. QED  BY <1>4, <1>6, <1>7, <1>9 DEF IdsInv, OldInv, NewInv, Old, Kept

\* The steps of a call that is under way begin none.
LEMMA IdsCalm ==
  ASSUME IdsInv, calls' = calls, NEW t \in Tabs,
         \A u \in Tabs \ {t} : tab'[u] = tab[u] /\ memory'[u] = memory[u],
         Old(tab'[t].session), Old(tab'[t].known), Old(memory'[t].session_id),
         Old(browser'.anonymous_id), Old(browser'.session_id),
         browser'.tracking_session # NoValue => Old(browser'.tracking_session.session),
         \A u \in Tabs : Old(expected'[u].session),
         \A u \in Tabs : tab'[u].phase \in StoragePhases
                           => expected'[u].session # IdOf(u),
         tab'[t].phase = "write_anonymous" => tab'[t].anonymous = IdOf(t),
         tab'[t].phase = "write_session" => tab'[t].session = IdOf(t),
         tab'[t].phase \in {"read_anonymous", "write_anonymous"}
           => Naming(t) /\ tab'[t].known # IdOf(t),
         \A u \in Tabs : tab'[u].phase \in {"read_anonymous", "write_anonymous"}
           => browser'.anonymous_id # IdOf(u) /\ tab'[t].known # IdOf(u)
  PROVE  IdsInv'
<1>1. OldInv'
  BY DEF IdsInv, OldInv, Old
<1>2. NewInv'
  BY DEF IdsInv, NewInv, IdOf, Naming, InStorage
<1>. QED  BY <1>1, <1>2 DEF IdsInv

\* Nor do those that end one.
LEMMA IdsRest ==
  ASSUME TypeInv, IdsInv, calls' = calls, NEW t \in Tabs, NEW p, NEW k, Rests(t, p, k),
         p \notin StoragePhases, k \in {NoValue, tab[t].known},
         \A u \in Tabs : memory'[u].session_id \in {memory[u].session_id, NoValue},
         browser'.anonymous_id = browser.anonymous_id,
         browser'.session_id = browser.session_id,
         \/ browser'.tracking_session = browser.tracking_session
         \/ browser'.tracking_session.session = tab[t].session,
         \A u \in Tabs : \/ expected'[u] \in {expected[u], Nothing}
                         \/ expected'[u] = Event(t) /\ (u = t \/ ~InStorage(u))
                         \/ expected'[u] = Event(t) /\ ~tab[t].solo
  PROVE  IdsInv'
<1>1. Old(NoValue) /\ \A u \in Tabs : NoValue # IdOf(u)
  BY IdsTyped DEF Old, OldIn
<1> USE DEF IdsInv, OldInv, NewInv
<1>2. \A u \in Tabs : /\ Old(expected'[u].session)
                      /\ tab'[u].phase \in StoragePhases
                           => expected'[u].session # IdOf(u)
  <2> TAKE u \in Tabs
  <2>1. Old(Event(t).session) /\ (~tab[t].solo => Event(t) = Nothing)
    BY <1>1 DEF Event, Nothing
  <2>2. u # t => tab'[u] = tab[u]
    BY DEF Rests
  <2>3. tab'[t].phase \notin StoragePhases
    BY DEF Rests
  <2>. QED  BY <1>1, <2>1, <2>2, <2>3 DEF Nothing, InStorage
<1>3. OldInv'
  <2>1. \A u \in Tabs : Old(tab'[u].session) /\ Old(tab'[u].known)
    BY <1>1 DEF Rests
  <2>. QED  BY <1>1, <1>2, <2>1 DEF Old
<1>4. NewInv'
  <2>1. \A u \in Tabs : tab'[u].phase \in StoragePhases => u # t /\ tab'[u] = tab[u]
    BY DEF Rests
  <2>2. \A u \in Tabs : Naming(u)' => \A w \in Tabs : tab'[w].known # IdOf(u)
    BY <1>1, <2>1 DEF Rests, Naming, StoragePhases
  <2>. QED  BY <1>2, <2>1, <2>2 DEF Naming, InStorage, StoragePhases, IdOf
<1>. QED  BY <1>3, <1>4

LEMMA IdsKept ==
  TypeInv /\ SoloInv /\ IdsInv /\ [Next]_browserVars => IdsInv'
<1> SUFFICES ASSUME TypeInv, SoloInv, IdsInv, [Next]_browserVars PROVE IdsInv'
  OBVIOUS
<1>0. TypeInv'
  BY TypesKept
<1>old. /\ Old(NoValue) /\ \A t \in Tabs : Old(IdOf(t)) /\ IdOf(t) # NoValue
        /\ \A t, u \in Tabs : t # u => IdOf(t) # IdOf(u)
  BY IdsTyped DEF Old, OldIn, IdOf
<1> USE DEF IdsInv, OldInv, NewInv, Naming, InStorage, StoragePhases
<1>1. ASSUME NEW t \in Tabs, Load(t) PROVE IdsInv'
  <2>1. CASE Begins(t, "read_anonymous", NoValue)
    BY <1>0, <1>1, <1>old, <2>1, LoadDoes, IdsBegin
  <2>2. CASE UNCHANGED <<clock, calls, spent>> /\ Unloaded(t)
    <3>1. ASSUME NEW p \in {"absent", "idle"}, Rests(t, p, NoValue) PROVE IdsInv'
      BY <1>1, <2>2, <3>1, LoadDoes, IdsRest DEF EmptyStore, Keys
    <3>. QED  BY <2>2, <3>1 DEF Unloaded
  <2>. QED  BY <1>1, <2>1, <2>2, LoadDoes
<1>2. ASSUME NEW t \in Tabs, Track(t) \/ Install(t) \/ SnippetTrack(t) PROVE IdsInv'
  BY <1>0, <1>2, <1>old, BeginsACall, IdsBegin
<1>3. ASSUME NEW t \in Tabs, ReadAnonymousId(t) PROVE IdsInv'
  BY <1>3, <1>old, ReadAnonymousIdDoes, IdsCalm
     DEF OthersKept, CallKept, ReadEffect, View, Keys
<1>4. ASSUME NEW t \in Tabs, ReadSession(t) PROVE IdsInv'
  BY <1>4, ReadSessionDoes, IdsCalm DEF OthersKept, CallKept, ReadEffect, View, Keys
<1>5. ASSUME NEW t \in Tabs, ReadActivity(t) PROVE IdsInv'
  BY <1>5, <1>old, ReadActivityDoes, IdsCalm
     DEF OthersKept, CallKept, ReadEffect, View, Keys
<1>6. ASSUME NEW t \in Tabs, WriteAnonymousId(t) \/ WriteSession(t) PROVE IdsInv'
  BY <1>6, <1>old, WriteIdDoes, IdsCalm DEF OthersKept, CallKept, WriteEffect, Keys
<1>alone. ASSUME NEW t \in Tabs, tab[t].phase \in StoragePhases, tab[t].solo
          PROVE  \A u \in Tabs : u = t \/ ~InStorage(u)
  BY <1>alone DEF SoloInv, Rivals
<1>7. ASSUME NEW t \in Tabs, WriteActivity(t) PROVE IdsInv'
  <2>1. /\ Rests(t, "idle", tab[t].known) /\ calls' = calls
        /\ \A u \in Tabs : expected'[u] = IF u = t \/ mode = "open"
                                            THEN Event(t) ELSE expected[u]
    BY <1>7, WriteActivityDoes
  <2>2. /\ \A u \in Tabs : memory'[u].session_id = memory[u].session_id
        /\ browser'.anonymous_id = browser.anonymous_id
        /\ browser'.session_id = browser.session_id
        /\ browser'.tracking_session = browser.tracking_session
    BY <1>7, WriteActivityDoes DEF WriteEffect, Keys
  <2>3. tab[t].solo => \A u \in Tabs : u = t \/ ~InStorage(u)
    BY <1>7, <1>alone, WriteActivityDoes
  <2>. QED  BY <2>1, <2>2, <2>3, IdsRest
<1>8. ASSUME NEW t \in Tabs, ReadSnippetSession(t) PROVE IdsInv'
  BY <1>8, <1>old, ReadSnippetSessionDoes, IdsCalm
     DEF CallKept, StoredSession, Key, Expired
<1>9. ASSUME NEW t \in Tabs, WriteSnippetSession(t) PROVE IdsInv'
  <2>1. /\ Rests(t, "idle", tab[t].known) /\ UNCHANGED <<calls, memory>>
        /\ \A u \in Tabs : expected'[u] = Event(t)
    BY <1>9, WriteSnippetSessionDoes
  <2>2. /\ browser'.anonymous_id = browser.anonymous_id
        /\ browser'.session_id = browser.session_id
        /\ browser'.tracking_session.session = tab[t].session
    <3>1. /\ browser'[Key] = [session |-> tab[t].session, activity |-> tab[t].now]
          /\ \A k \in Keys \ {Key} : browser'[k] = browser[k]
      BY <1>9, WriteSnippetSessionDoes
    <3>. QED  BY <3>1 DEF Keys, Key
  <2>3. tab[t].solo => \A u \in Tabs : u = t \/ ~InStorage(u)
    BY <1>9, <1>alone, WriteSnippetSessionDoes
  <2>. QED  BY <2>1, <2>2, <2>3, IdsRest
<1>10. ASSUME NEW t \in Tabs, WriteSnippetSessionThrows(t) PROVE IdsInv'
  BY <1>10, WriteSnippetSessionThrowsDoes, IdsRest
<1>11. CASE Environment
  <2>1. \A t \in Tabs : expected'[t].session \in {expected[t].session, NoValue}
    <3>1. \A t \in Tabs : expected[t] \in Expectations
      BY DEF TypeInv, BrowserTypeOK
    <3>. QED  BY <1>11, <3>1
              DEF Environment, Withdraw, ChangeMode, Clear, Nothing, Expectations
  <2>2. browser' = browser \/ \A k \in Keys : browser'[k] = NoValue
    BY <1>11, EnvironmentDoes DEF Withdraw, ChangeMode
  <2>3. OldInv'
    BY <1>11, <1>old, <2>1, <2>2, EnvironmentDoes DEF SameCall, Keys, Old
  <2>4. calls' = calls /\ \A t \in Tabs : SameCall(t)
    BY <1>11, EnvironmentDoes
  <2>5. \A t \in Tabs : browser'["anonymous_id"] \in {browser["anonymous_id"], NoValue}
    BY <2>2 DEF Keys
  <2>6. NewInv'
    <3>1. \A t \in Tabs : IdOf(t)' = IdOf(t)
      BY <2>4 DEF IdOf
    <3> SUFFICES ASSUME NEW t \in Tabs
                 PROVE  /\ (InStorage(t) => expected[t].session # IdOf(t))'
                        /\ (tab[t].phase = "write_anonymous" => tab[t].anonymous = IdOf(t))'
                        /\ (tab[t].phase = "write_session" => tab[t].session = IdOf(t))'
                        /\ (Naming(t) => /\ browser.anonymous_id # IdOf(t)
                                         /\ \A w \in Tabs : tab[w].known # IdOf(t))'
      BY DEF NewInv
    <3>2. \A w \in Tabs : tab'[w].known = tab[w].known
      BY <2>4 DEF SameCall
    <3>. QED  BY <1>old, <2>1, <2>4, <2>5, <3>1, <3>2 DEF SameCall
  <2>. QED  BY <2>3, <2>6
<1>12. CASE UNCHANGED browserVars
  BY <1>12 DEF browserVars, Old, IdOf
<1>. QED  BY <1>1, <1>2, <1>3, <1>4, <1>5, <1>6, <1>7, <1>8, <1>9, <1>10, <1>11,
             <1>12, StepsAre

-----------------------------------------------------------------------------
(* What the pages find in the store they use.                              *)

LEMMA ReadKeepsViews ==
  ASSUME NEW t \in Tabs, NEW key \in Keys, ReadEffect(t, key), mode' = mode,
         \A u \in Tabs \ {t} : memory'[u] = memory[u]
  PROVE  \A u \in Tabs : \A k \in Keys : View(u)'[k] = View(u)[k]
BY DEF ReadEffect, View

LEMMA WriteSetsViews ==
  ASSUME NEW t \in Tabs, NEW key \in Keys, NEW value, WriteEffect(t, key, value),
         mode \in Modes, mode' = mode, \A u \in Tabs \ {t} : memory'[u] = memory[u]
  PROVE  /\ \A k \in Keys :
              View(t)'[k] = IF k = key /\ mode # "full" THEN value ELSE View(t)[k]
         /\ \A u \in Tabs \ {t} : \A k \in Keys :
              View(u)'[k] = IF k = key /\ mode = "open" THEN value ELSE View(u)[k]
BY DEF WriteEffect, View, Modes

-----------------------------------------------------------------------------
(* The copy in memory.                                                     *)

LEMMA CopyCalm ==
  ASSUME CopyInv, browser'.anonymous_id \in {browser.anonymous_id, NoValue},
         \A u \in Tabs : tab'[u].phase = "write_anonymous"
                           => tab[u].phase = "write_anonymous",
         \A u \in Tabs : \/ tab'[u].known = NoValue
                         \/ /\ tab'[u].known = tab[u].known
                            /\ memory'[u].anonymous_id = memory[u].anonymous_id
  PROVE  CopyInv'
BY DEF CopyInv

LEMMA CopyKept ==
  TypeInv /\ IdsInv /\ CopyInv /\ [Next]_browserVars => CopyInv'
<1> SUFFICES ASSUME TypeInv, IdsInv, CopyInv, [Next]_browserVars PROVE CopyInv'
  OBVIOUS
<1>1. ASSUME NEW t \in Tabs, NEW p \in {"read_anonymous", "read_session"}, NEW k,
             Begins(t, p, k), k = NoValue \/ k = tab[t].known, browser' = browser,
             \A u \in Tabs : u # t \/ k # NoValue => memory'[u] = memory[u]
      PROVE  CopyInv'
  <2>1. \A u \in Tabs : tab'[u].phase = "write_anonymous"
                          => tab[u].phase = "write_anonymous"
    BY <1>1 DEF Begins, SameCall
  <2>2. \A u \in Tabs : \/ tab'[u].known = NoValue
                        \/ /\ tab'[u].known = tab[u].known
                           /\ memory'[u].anonymous_id = memory[u].anonymous_id
    BY <1>1 DEF Begins, SameCall
  <2>. QED  BY <1>1, <2>1, <2>2, CopyCalm
<1>2. ASSUME NEW t \in Tabs, NEW p \in {"absent", "idle", "threw"}, NEW k, Rests(t, p, k),
             k = NoValue \/ k = tab[t].known,
             browser'.anonymous_id = browser.anonymous_id,
             \A u \in Tabs : u # t \/ k # NoValue
               => memory'[u].anonymous_id = memory[u].anonymous_id
      PROVE  CopyInv'
  BY <1>2, CopyCalm DEF Rests
<1>3. ASSUME NEW t \in Tabs, Load(t) PROVE CopyInv'
  BY <1>1, <1>2, <1>3, LoadDoes DEF Unloaded
<1>4. ASSUME NEW t \in Tabs, Track(t) \/ Install(t) \/ SnippetTrack(t) PROVE CopyInv'
  BY <1>1, <1>4, BeginsACall
<1>5. ASSUME NEW t \in Tabs, ReadAnonymousId(t) PROVE CopyInv'
  <2>1. \A u \in Tabs \ {t} : tab'[u] = tab[u] /\ memory'[u] = memory[u]
    BY <1>5, ReadAnonymousIdDoes DEF OthersKept
  <2>2. browser' = browser
    BY <1>5, ReadAnonymousIdDoes DEF ReadEffect
  <2>3. tab'[t].known # NoValue /\ tab'[t].known = browser.anonymous_id
          => /\ tab'[t].phase # "write_anonymous"
             /\ memory'[t].anonymous_id = tab'[t].known
    BY <1>5, ReadAnonymousIdDoes DEF ReadEffect, View, Keys, CopyInv
  <2>. QED  BY <2>1, <2>2, <2>3 DEF CopyInv
<1>6. ASSUME NEW t \in Tabs, ReadSession(t) PROVE CopyInv'
  BY <1>6, ReadSessionDoes, CopyCalm DEF OthersKept, ReadEffect, Keys
<1>7. ASSUME NEW t \in Tabs, ReadActivity(t) PROVE CopyInv'
  BY <1>7, ReadActivityDoes, CopyCalm DEF OthersKept, ReadEffect, Keys
<1>8. ASSUME NEW t \in Tabs, WriteAnonymousId(t) PROVE CopyInv'
  <2>1. /\ \A u \in Tabs \ {t} : tab'[u] = tab[u] /\ memory'[u] = memory[u]
        /\ tab'[t].known = tab[t].known /\ tab'[t].phase = "read_session"
        /\ tab[t].phase = "write_anonymous"
        /\ WriteEffect(t, "anonymous_id", tab[t].anonymous)
    BY <1>8, WriteIdDoes DEF OthersKept
  <2>2. /\ browser'["anonymous_id"] = IF mode = "open" THEN tab[t].anonymous
                                                       ELSE browser["anonymous_id"]
        /\ tab[t].anonymous = IdOf(t) /\ \A u \in Tabs : tab[u].known # IdOf(t)
    BY <2>1 DEF WriteEffect, Keys, IdsInv, NewInv, Naming
  <2>. QED  BY <2>1, <2>2 DEF CopyInv
<1>9. ASSUME NEW t \in Tabs, WriteSession(t) PROVE CopyInv'
  BY <1>9, WriteIdDoes, CopyCalm DEF OthersKept, WriteEffect, Keys
<1>10. ASSUME NEW t \in Tabs, WriteActivity(t) PROVE CopyInv'
  BY <1>2, <1>10, WriteActivityDoes DEF WriteEffect, Keys
<1>11. ASSUME NEW t \in Tabs, ReadSnippetSession(t) PROVE CopyInv'
  BY <1>11, ReadSnippetSessionDoes, CopyCalm
<1>12. ASSUME NEW t \in Tabs, WriteSnippetSession(t) PROVE CopyInv'
  BY <1>2, <1>12, WriteSnippetSessionDoes DEF Keys, Key
<1>13. ASSUME NEW t \in Tabs, WriteSnippetSessionThrows(t) PROVE CopyInv'
  BY <1>2, <1>13, WriteSnippetSessionThrowsDoes
<1>14. CASE Environment
  <2>1. browser'.anonymous_id \in {browser.anonymous_id, NoValue}
    BY <1>14, EnvironmentDoes DEF Withdraw, ChangeMode, Keys
  <2>. QED  BY <1>14, <2>1, EnvironmentDoes, CopyCalm DEF SameCall
<1>15. CASE UNCHANGED browserVars
  BY <1>15 DEF browserVars, CopyInv
<1>. QED  BY <1>3, <1>4, <1>5, <1>6, <1>7, <1>8, <1>9, <1>10, <1>11, <1>12, <1>13,
             <1>14, <1>15, StepsAre

-----------------------------------------------------------------------------
(* What a call that nothing disturbed has read and written.                *)

\* A page that is not in storage, or whose call was disturbed, has none.
LEMMA NothingOwn ==
  ASSUME NEW t \in Tabs, tab'[t].phase \notin StoragePhases \/ ~tab'[t].solo
  PROVE  Own(t)'
BY DEF Own, StoragePhases

\* While page t makes its accesses, the others have no undisturbed call.
LEMMA OthersOwnNothing ==
  ASSUME SoloInv, NEW t \in Tabs, tab[t].phase \in StoragePhases,
         NEW u \in Tabs \ {t}, tab'[u] = tab[u]
  PROVE  Own(u)'
BY NothingOwn DEF SoloInv, Rivals, InStorage

LEMMA OwnKept ==
  TypeInv /\ SoloInv /\ OwnInv /\ [Next]_browserVars => OwnInv'
<1> SUFFICES ASSUME TypeInv, SoloInv, OwnInv, [Next]_browserVars,
                    NEW u \in Tabs
             PROVE  Own(u)'
  BY DEF OwnInv
<1>0. Own(u) /\ mode \in Modes
  BY DEF OwnInv, TypeInv, BrowserTypeOK
<1>1. ASSUME NEW t \in Tabs, NEW p \in {"read_anonymous", "read_session"}, NEW k,
             Begins(t, p, k), p = "read_session" => tab[t].client = "snippet"
      PROVE  Own(u)'
  <2>1. CASE u = t
    BY <1>1, <2>1 DEF Own, Begins
  <2>2. CASE u # t
    BY <1>1, <2>2, NothingOwn DEF Begins
  <2>. QED  BY <2>1, <2>2
<1>2. ASSUME NEW t \in Tabs, NEW p \in {"absent", "idle", "threw"}, NEW k, Rests(t, p, k),
             u # t => Own(u)'
      PROVE  Own(u)'
  BY <1>2, NothingOwn DEF Rests, StoragePhases
<1>3. ASSUME NEW t \in Tabs, Load(t) PROVE Own(u)'
  <2>1. u # t => View(u)' = View(u)
    BY <1>3, LoadDoes DEF View
  <2>2. CASE Begins(t, "read_anonymous", NoValue)
    BY <1>1, <2>2
  <2>3. CASE UNCHANGED <<clock, calls, spent>> /\ Unloaded(t)
    <3>1. u # t => Own(u)'
      BY <1>0, <1>3, <2>1, <2>3, LoadDoes DEF Unloaded, Rests, Own
    <3>. QED  BY <1>2, <2>3, <3>1 DEF Unloaded
  <2>. QED  BY <1>3, <2>2, <2>3, LoadDoes
<1>4. ASSUME NEW t \in Tabs, Track(t) \/ Install(t) \/ SnippetTrack(t) PROVE Own(u)'
  BY <1>1, <1>4, BeginsACall
<1>others. ASSUME NEW t \in Tabs, tab[t].phase \in StoragePhases, u # t, tab'[u] = tab[u]
           PROVE  Own(u)'
  BY <1>others, OthersOwnNothing
<1>5. ASSUME NEW t \in Tabs, ReadAnonymousId(t) PROVE Own(u)'
  <2>1. CASE u = t
    <3>1. View(u)'["anonymous_id"] = View(u)["anonymous_id"]
      BY <1>5, <2>1, ReadAnonymousIdDoes DEF ReadEffect, Keys
    <3>. QED  BY <1>5, <2>1, <3>1, ReadAnonymousIdDoes DEF Own
  <2>2. CASE u # t
    BY <1>5, <1>others, <2>2, ReadAnonymousIdDoes DEF OthersKept, StoragePhases
  <2>. QED  BY <2>1, <2>2
<1>6. ASSUME NEW t \in Tabs, ReadSession(t) PROVE Own(u)'
  <2>1. CASE u = t
    <3>1. /\ View(u)'["anonymous_id"] = View(u)["anonymous_id"]
          /\ View(u)'["session_id"] = View(u)["session_id"]
      BY <1>6, <2>1, ReadSessionDoes DEF ReadEffect, Keys
    <3>. QED  BY <1>0, <1>6, <2>1, <3>1, ReadSessionDoes DEF Own, CallKept
  <2>2. CASE u # t
    BY <1>6, <1>others, <2>2, ReadSessionDoes DEF OthersKept, StoragePhases
  <2>. QED  BY <2>1, <2>2
<1>7. ASSUME NEW t \in Tabs, ReadActivity(t) PROVE Own(u)'
  <2>1. CASE u = t
    <3>1. /\ View(u)'["anonymous_id"] = View(u)["anonymous_id"]
          /\ View(u)'["session_id"] = View(u)["session_id"]
      BY <1>7, <2>1, ReadActivityDoes DEF ReadEffect, Keys
    <3>. QED  BY <1>0, <1>7, <2>1, <3>1, ReadActivityDoes DEF Own, CallKept
  <2>2. CASE u # t
    BY <1>7, <1>others, <2>2, ReadActivityDoes DEF OthersKept, StoragePhases
  <2>. QED  BY <2>1, <2>2
<1>8. ASSUME NEW t \in Tabs, WriteAnonymousId(t) PROVE Own(u)'
  <2>1. CASE u = t
    <3>1. mode # "full" => View(u)'["anonymous_id"] = tab[u].anonymous
      BY <1>0, <1>8, <2>1, WriteIdDoes, WriteSetsViews DEF OthersKept, Keys
    <3>. QED  BY <1>8, <2>1, <3>1, WriteIdDoes DEF Own, CallKept
  <2>2. CASE u # t
    BY <1>8, <1>others, <2>2, WriteIdDoes DEF OthersKept, StoragePhases
  <2>. QED  BY <2>1, <2>2
<1>9. ASSUME NEW t \in Tabs, WriteSession(t) PROVE Own(u)'
  <2>1. CASE u = t
    <3>1. mode # "full" => /\ View(u)'["session_id"] = tab[u].session
                           /\ View(u)'["anonymous_id"] = View(u)["anonymous_id"]
      BY <1>0, <1>9, <2>1, WriteIdDoes, WriteSetsViews DEF OthersKept, Keys
    <3>. QED  BY <1>0, <1>9, <2>1, <3>1, WriteIdDoes DEF Own, CallKept
  <2>2. CASE u # t
    BY <1>9, <1>others, <2>2, WriteIdDoes DEF OthersKept, StoragePhases
  <2>. QED  BY <2>1, <2>2
<1>10. ASSUME NEW t \in Tabs, WriteActivity(t) PROVE Own(u)'
  <2>1. u # t => Own(u)'
    BY <1>10, <1>others, WriteActivityDoes DEF Rests, StoragePhases
  <2>. QED  BY <1>2, <1>10, <2>1, WriteActivityDoes
<1>11. ASSUME NEW t \in Tabs,
              \/ ReadSnippetSession(t) \/ WriteSnippetSession(t)
              \/ WriteSnippetSessionThrows(t)
       PROVE  Own(u)'
  <2>1. tab[u].client = "snippet"
    BY <1>11, ReadSnippetSessionDoes, WriteSnippetSessionDoes,
       WriteSnippetSessionThrowsDoes DEF TypeInv
  <2>2. tab'[u].client = "snippet"
    BY <1>11, <2>1, ReadSnippetSessionDoes, WriteSnippetSessionDoes,
       WriteSnippetSessionThrowsDoes DEF CallKept, Rests
  <2>. QED  BY <2>2 DEF Own
<1>12. CASE Environment
  BY <1>12, EnvironmentDoes, NothingOwn
<1>13. CASE UNCHANGED browserVars
  BY <1>0, <1>13 DEF browserVars, Own, View
<1>. QED  BY <1>3, <1>4, <1>5, <1>6, <1>7, <1>8, <1>9, <1>10, <1>11, <1>12, <1>13,
             StepsAre

-----------------------------------------------------------------------------
(* What the pages expect, and the visitor.                                 *)

LEMMA SharedKept ==
  TypeInv /\ SharedInv /\ [Next]_browserVars => SharedInv'
<1> SUFFICES ASSUME TypeInv, SharedInv, [Next]_browserVars PROVE SharedInv'
  OBVIOUS
<1> USE DEF SharedInv
<1>1. ASSUME NEW t \in Tabs, Load(t) PROVE SharedInv'
  BY <1>1, LoadDoes
<1>2. ASSUME NEW t \in Tabs, Track(t) \/ Install(t) \/ SnippetTrack(t) PROVE SharedInv'
  BY <1>2, BeginsACall
<1>3. ASSUME NEW t \in Tabs,
             \/ ReadAnonymousId(t) \/ ReadSession(t) \/ ReadActivity(t)
             \/ WriteAnonymousId(t) \/ WriteSession(t) \/ ReadSnippetSession(t)
             \/ WriteSnippetSessionThrows(t)
      PROVE  SharedInv'
  BY <1>3, ReadAnonymousIdDoes, ReadSessionDoes, ReadActivityDoes, WriteIdDoes,
     ReadSnippetSessionDoes, WriteSnippetSessionThrowsDoes
<1>4. ASSUME NEW t \in Tabs, WriteActivity(t) \/ WriteSnippetSession(t)
      PROVE  SharedInv'
  BY <1>4, WriteActivityDoes, WriteSnippetSessionDoes
<1>5. CASE Environment
  BY <1>5 DEF Environment, Withdraw, ChangeMode, Clear
<1>6. CASE UNCHANGED browserVars
  BY <1>6 DEF browserVars
<1>. QED  BY <1>1, <1>2, <1>3, <1>4, <1>5, <1>6, StepsAre

\* A page keeps its client.
LEMMA ClientsKept ==
  ASSUME TypeInv, [Next]_browserVars, NEW u \in Tabs
  PROVE  tab'[u].client = tab[u].client
<1>1. ASSUME NEW t \in Tabs,
             \/ Load(t)
             \/ Track(t) \/ Install(t) \/ SnippetTrack(t)
      PROVE  tab'[u].client = tab[u].client
  BY <1>1, LoadDoes, BeginsACall DEF Begins, Unloaded, Rests, SameCall
<1>2. ASSUME NEW t \in Tabs, CallKept(t), OthersKept(t)
      PROVE  tab'[u].client = tab[u].client
  BY <1>2 DEF CallKept, OthersKept
<1>3. ASSUME NEW t \in Tabs,
             \/ ReadAnonymousId(t) \/ ReadSession(t) \/ ReadActivity(t)
             \/ WriteAnonymousId(t) \/ WriteSession(t)
      PROVE  tab'[u].client = tab[u].client
  BY <1>2, <1>3, ReadAnonymousIdDoes, ReadSessionDoes, ReadActivityDoes, WriteIdDoes
<1>4. ASSUME NEW t \in Tabs, NEW p, NEW k, Rests(t, p, k)
      PROVE  tab'[u].client = tab[u].client
  BY <1>4 DEF Rests
<1>5. ASSUME NEW t \in Tabs,
             \/ WriteActivity(t) \/ WriteSnippetSession(t)
             \/ WriteSnippetSessionThrows(t)
      PROVE  tab'[u].client = tab[u].client
  BY <1>4, <1>5, WriteActivityDoes, WriteSnippetSessionDoes,
     WriteSnippetSessionThrowsDoes
<1>6. ASSUME NEW t \in Tabs, ReadSnippetSession(t)
      PROVE  tab'[u].client = tab[u].client
  BY <1>6, ReadSnippetSessionDoes DEF CallKept
<1>7. CASE Environment
  BY <1>7, EnvironmentDoes DEF SameCall
<1>. QED  BY <1>1, <1>3, <1>5, <1>6, <1>7, StepsAre DEF browserVars

LEMMA VisitorStays ==
  ASSUME TypeInv, SoloInv, CopyInv, OwnInv, SharedInv, VisitorInv, [Next]_browserVars
  PROVE  VisitorInv'
<1> SUFFICES ASSUME NEW u \in Tabs PROVE Visitor(u)'
  BY DEF VisitorInv
<1>0. /\ Visitor(u) /\ mode \in Modes
      /\ \A t \in Tabs : Visitor(t) /\ tab[t].client = tab[u].client
      /\ tab'[u].client = tab[u].client
  BY ClientsKept DEF VisitorInv, TypeInv, BrowserTypeOK
\* A step after which page u expects what it did and finds what it did.
<1>calm. ASSUME mode' = mode, expected'[u] \in {expected[u], Nothing},
                expected'[u] = expected[u] =>
                  View(u)'["anonymous_id"] = View(u)["anonymous_id"],
                tab'[u].phase = "write_anonymous" =>
                  tab[u].phase = "write_anonymous"
         PROVE  Visitor(u)'
  BY <1>0, <1>calm DEF Visitor, Nothing
<1>1. ASSUME NEW t \in Tabs, Load(t) PROVE Visitor(u)'
  <2>1. expected'[u] = IF u = t /\ mode = "closed" THEN Nothing ELSE expected[u]
    BY <1>1, LoadDoes
  <2>2. mode' = mode /\ (~(u = t /\ mode = "closed") => View(u)' = View(u))
    BY <1>1, LoadDoes DEF View
  <2>3. tab'[u].phase = "write_anonymous" => tab[u].phase = "write_anonymous"
    BY <1>1, LoadDoes DEF Begins, SameCall, Unloaded, Rests
  <2>. QED  BY <1>0, <2>1, <2>2, <2>3 DEF Visitor, Nothing
<1>2. ASSUME NEW t \in Tabs, Track(t) \/ Install(t) \/ SnippetTrack(t) PROVE Visitor(u)'
  <2>1. tab'[u].phase = "write_anonymous" => tab[u].phase = "write_anonymous"
    BY <1>2, BeginsACall DEF Begins, SameCall
  <2>. QED  BY <1>2, <1>calm, <2>1, BeginsACall DEF View
<1>3. ASSUME NEW t \in Tabs, ReadAnonymousId(t) PROVE Visitor(u)'
  <2>1. View(u)'["anonymous_id"] = View(u)["anonymous_id"]
    BY <1>3, ReadAnonymousIdDoes, ReadKeepsViews DEF OthersKept, Keys
  <2>2. tab'[u].phase = "write_anonymous" =>
          \/ tab[u].phase = "write_anonymous"
          \/ View(u)["anonymous_id"] = NoValue
    BY <1>3, ReadAnonymousIdDoes DEF OthersKept
  <2>. QED  BY <1>0, <1>3, <2>1, <2>2, ReadAnonymousIdDoes DEF Visitor
<1>4. ASSUME NEW t \in Tabs, ReadSession(t) \/ ReadActivity(t) PROVE Visitor(u)'
  <2>1. View(u)'["anonymous_id"] = View(u)["anonymous_id"]
    BY <1>4, ReadSessionDoes, ReadActivityDoes, ReadKeepsViews DEF OthersKept, Keys
  <2>. QED  BY <1>4, <1>calm, <2>1, ReadSessionDoes, ReadActivityDoes DEF OthersKept
<1>5. ASSUME NEW t \in Tabs, WriteAnonymousId(t) PROVE Visitor(u)'
  <2>1. /\ tab[t].phase = "write_anonymous" /\ UNCHANGED <<mode, expected>>
        /\ tab'[u].phase = "write_anonymous" => u # t /\ tab'[u] = tab[u]
        /\ tab[t].client = "sdk"
    BY <1>5, WriteIdDoes DEF OthersKept
  <2>2. u # t /\ mode # "open" => View(u)'["anonymous_id"] = View(u)["anonymous_id"]
    BY <1>0, <1>5, WriteIdDoes, WriteSetsViews DEF OthersKept, Keys
  <2>3. u = t \/ mode = "open" =>
          mode = "full" \/ expected[u].anonymous = NoValue
    BY <1>0, <2>1 DEF Visitor, SharedInv
  <2>. QED  BY <1>0, <2>1, <2>2, <2>3 DEF Visitor
<1>6. ASSUME NEW t \in Tabs, WriteSession(t) PROVE Visitor(u)'
  <2>1. View(u)'["anonymous_id"] = View(u)["anonymous_id"]
    BY <1>0, <1>6, WriteIdDoes, WriteSetsViews DEF OthersKept, Keys
  <2>. QED  BY <1>6, <1>calm, <2>1, WriteIdDoes DEF OthersKept
<1>7. ASSUME NEW t \in Tabs, WriteActivity(t) PROVE Visitor(u)'
  <2>1. View(u)'["anonymous_id"] = View(u)["anonymous_id"]
    BY <1>0, <1>7, WriteActivityDoes, WriteSetsViews DEF Keys
  <2>2. /\ mode' = mode /\ tab[t].client = "sdk"
        /\ expected'[u] = IF u = t \/ mode = "open" THEN Event(t) ELSE expected[u]
        /\ tab'[u].phase = "write_anonymous" => u # t /\ tab'[u] = tab[u]
    BY <1>7, WriteActivityDoes DEF Rests
  <2>3. CASE tab[t].solo /\ (u = t \/ mode = "open")
    <3>1. mode # "full" => View(t)["anonymous_id"] = tab[t].anonymous
      BY <1>7, <2>3, WriteActivityDoes DEF OwnInv, Own
    <3>2. u # t => tab[u].phase # "write_anonymous"
      BY <1>7, <2>3, WriteActivityDoes DEF SoloInv, Rivals, InStorage, StoragePhases
    <3>3. View(u)["anonymous_id"] = View(t)["anonymous_id"]
      BY <2>3 DEF View
    <3>4. expected'[u].anonymous = tab[t].anonymous
      BY <2>2, <2>3 DEF Event
    <3>. QED  BY <1>0, <2>1, <2>2, <3>1, <3>2, <3>3, <3>4 DEF Visitor
  <2>4. CASE ~(tab[t].solo /\ (u = t \/ mode = "open"))
    BY <1>calm, <2>1, <2>2, <2>4 DEF Event
  <2>. QED  BY <2>3, <2>4
<1>8. ASSUME NEW t \in Tabs, ReadSnippetSession(t) PROVE Visitor(u)'
  BY <1>8, <1>calm, ReadSnippetSessionDoes DEF View
<1>9. ASSUME NEW t \in Tabs, WriteSnippetSession(t) PROVE Visitor(u)'
  <2>1. tab[t].anonymous = NoValue /\ expected'[u] = Event(t)
    BY <1>9, WriteSnippetSessionDoes DEF TypeInv, TabTyped
  <2>2. expected'[u].anonymous = NoValue
    BY <2>1 DEF Event, Nothing
  <2>. QED  BY <2>2 DEF Visitor
<1>10. ASSUME NEW t \in Tabs, WriteSnippetSessionThrows(t) PROVE Visitor(u)'
  <2>1. tab'[u].phase # "write_anonymous" \/ tab'[u] = tab[u]
    BY <1>10, WriteSnippetSessionThrowsDoes DEF Rests
  <2>. QED  BY <1>10, <1>calm, <2>1, WriteSnippetSessionThrowsDoes DEF View
<1>11. CASE Environment
  <2>1. CASE Withdraw
    <3>1. /\ mode = "open" /\ mode' = "closed" /\ UNCHANGED <<browser, memory>>
          /\ tab'[u].phase = tab[u].phase
          /\ expected'[u].anonymous # NoValue =>
               /\ expected'[u].anonymous = expected[u].anonymous
               /\ tab[u].known = expected[u].anonymous
      <4>1. expected[u] \in Expectations
        BY DEF TypeInv, BrowserTypeOK
      <4>. QED  BY <1>11, <2>1, <4>1, EnvironmentDoes
                DEF Withdraw, Nothing, SameCall, Expectations
    <3>2. expected'[u].anonymous # NoValue =>
            /\ browser["anonymous_id"] = expected[u].anonymous
            /\ tab[u].phase # "write_anonymous"
            /\ memory[u]["anonymous_id"] = expected[u].anonymous
      BY <1>0, <3>1 DEF Visitor, View, CopyInv
    <3>. QED  BY <1>0, <3>1, <3>2 DEF Visitor, View
  <2>2. CASE ChangeMode \/ Clear
    <3>1. expected'[u].anonymous = NoValue
      BY <2>2 DEF ChangeMode, Clear, Nothing
    <3>. QED  BY <3>1 DEF Visitor
  <2>. QED  BY <1>11, <2>1, <2>2 DEF Environment
<1>12. CASE UNCHANGED browserVars
  BY <1>0, <1>12 DEF browserVars, Visitor, View
<1>. QED  BY <1>1, <1>2, <1>3, <1>4, <1>5, <1>6, <1>7, <1>8, <1>9, <1>10, <1>11,
             <1>12, StepsAre

-----------------------------------------------------------------------------
(* The session.                                                            *)

\* Page u makes no access, and its call was disturbed if it is under way.
LEMMA SdkSessionCalm ==
  ASSUME TypeInv, NEW u \in Tabs, SdkSession(u), mode' = mode, clock' \in Nat,
         clock <= clock', tab'[u].client = tab[u].client,
         expected'[u] \in {expected[u], Nothing},
         expected'[u] = expected[u] =>
           /\ View(u)'["session_last_activity"] = View(u)["session_last_activity"]
           /\ View(u)'["session_id"] = View(u)["session_id"],
         tab'[u].phase \in {"read_activity", "write_session", "write_activity"} =>
           /\ tab'[u].phase = tab[u].phase /\ tab'[u].session = tab[u].session
           /\ tab'[u].now = tab[u].now /\ (tab'[u].solo => tab[u].solo)
  PROVE  SdkSession(u)'
<1>1. clock \in Nat /\ expected[u].time \in Nat /\ Timeout \in Nat
  BY BrowserAssumption DEF TypeInv, BrowserTypeOK, Expectations
<1>2. CASE expected'[u] = expected[u]
  <2>1. Ended(u) => Ended(u)'
    BY <1>1, <1>2 DEF Ended
  <2>. QED  BY <1>2, <2>1 DEF SdkSession
<1>3. CASE expected'[u] = Nothing
  BY <1>3 DEF SdkSession, Nothing
<1>. QED  BY <1>2, <1>3

LEMMA SdkSessionKept ==
  ASSUME TypeInv, SoloInv, IdsInv, OwnInv, SharedInv, SdkSessionInv, [Next]_browserVars
  PROVE  SdkSessionInv'
<1> SUFFICES ASSUME NEW u \in Tabs PROVE SdkSession(u)'
  BY DEF SdkSessionInv
<1>0. /\ SdkSession(u) /\ mode \in Modes /\ clock \in Nat /\ expected[u].time \in Nat
      /\ \A t \in Tabs : SdkSession(t) /\ tab[t].client = tab[u].client
      /\ tab'[u].client = tab[u].client /\ Timeout \in Nat
      /\ expected[u].time # NoValue
      /\ \A t \in Tabs : tab[t].now \in Nat /\ tab[t].now <= clock
  BY ClientsKept, BrowserAssumption, NoValueAssumption
     DEF SdkSessionInv, TypeInv, BrowserTypeOK, Expectations, TabStates
<1>1. ASSUME NEW t \in Tabs, Load(t) PROVE SdkSession(u)'
  <2>1. /\ expected'[u] = IF u = t /\ mode = "closed" THEN Nothing ELSE expected[u]
        /\ mode' = mode /\ (~(u = t /\ mode = "closed") => View(u)' = View(u))
    BY <1>1, LoadDoes DEF View
  <2>2. /\ clock' \in Nat /\ clock <= clock'
        /\ tab'[u].phase \in {"read_activity", "write_session", "write_activity"} =>
             /\ tab'[u].phase = tab[u].phase /\ tab'[u].session = tab[u].session
             /\ tab'[u].now = tab[u].now /\ (tab'[u].solo => tab[u].solo)
    <3>1. CASE Begins(t, "read_anonymous", NoValue)
      BY <3>1 DEF Begins, SameCall
    <3>2. CASE UNCHANGED <<clock, calls, spent>> /\ Unloaded(t)
      BY <1>0, <3>2 DEF Unloaded, Rests
    <3>. QED  BY <1>1, <3>1, <3>2, LoadDoes
  <2>4. CASE u = t /\ mode = "closed"
    BY <2>1, <2>4 DEF SdkSession, Nothing
  <2>5. CASE ~(u = t /\ mode = "closed")
    BY <1>0, <2>1, <2>2, <2>5, SdkSessionCalm
  <2>. QED  BY <2>4, <2>5
<1>2. ASSUME NEW t \in Tabs, Track(t) \/ Install(t) \/ SnippetTrack(t)
      PROVE  SdkSession(u)'
  <2>1. /\ clock' \in Nat /\ clock <= clock'
        /\ tab'[u].phase \in {"read_activity", "write_session", "write_activity"} =>
             /\ tab'[u].phase = tab[u].phase /\ tab'[u].session = tab[u].session
             /\ tab'[u].now = tab[u].now /\ (tab'[u].solo => tab[u].solo)
    BY <1>2, BeginsACall DEF Begins, SameCall
  <2>. QED  BY <1>0, <1>2, <2>1, BeginsACall, SdkSessionCalm DEF View
\* What the steps of a call have in common.
<1>calm. ASSUME NEW t \in Tabs, UNCHANGED <<mode, clock, expected>>, OthersKept(t), u # t,
                View(u)'["session_last_activity"] = View(u)["session_last_activity"],
                View(u)'["session_id"] = View(u)["session_id"]
         PROVE  SdkSession(u)'
  BY <1>0, <1>calm, SdkSessionCalm DEF OthersKept
<1>3. ASSUME NEW t \in Tabs, ReadAnonymousId(t) PROVE SdkSession(u)'
  <2>1. /\ View(u)'["session_last_activity"] = View(u)["session_last_activity"]
        /\ View(u)'["session_id"] = View(u)["session_id"]
    BY <1>3, ReadAnonymousIdDoes, ReadKeepsViews DEF OthersKept, Keys
  <2>2. u = t => tab'[u].phase \in {"write_anonymous", "read_session"}
    BY <1>3, ReadAnonymousIdDoes
  <2>. QED  BY <1>0, <1>3, <2>1, <2>2, ReadAnonymousIdDoes, SdkSessionCalm
            DEF OthersKept
<1>4. ASSUME NEW t \in Tabs, ReadSession(t) PROVE SdkSession(u)'
  <2>1. /\ View(u)'["session_last_activity"] = View(u)["session_last_activity"]
        /\ View(u)'["session_id"] = View(u)["session_id"]
    BY <1>4, ReadSessionDoes, ReadKeepsViews DEF OthersKept, Keys
  <2>2. CASE u = t
    BY <1>0, <1>4, <2>1, <2>2, ReadSessionDoes DEF SdkSession, Ended
  <2>3. CASE u # t
    BY <1>4, <1>calm, <2>1, <2>3, ReadSessionDoes
  <2>. QED  BY <2>2, <2>3
<1>5. ASSUME NEW t \in Tabs, ReadActivity(t) PROVE SdkSession(u)'
  <2>1. /\ View(u)'["session_last_activity"] = View(u)["session_last_activity"]
        /\ View(u)'["session_id"] = View(u)["session_id"]
    BY <1>5, ReadActivityDoes, ReadKeepsViews DEF OthersKept, Keys
  <2>2. CASE u = t
    <3>1. /\ tab[u].phase = "read_activity" /\ UNCHANGED <<mode, clock, expected>>
          /\ tab'[u].phase = IF FreshAt(u) THEN "write_activity" ELSE "write_session"
          /\ tab'[u].session = IF FreshAt(u) THEN tab[u].session ELSE IdOf(u)
          /\ tab'[u].now = tab[u].now /\ tab'[u].solo = tab[u].solo
      BY <1>5, <2>2, ReadActivityDoes DEF CallKept
    <3>2. tab[u].solo => tab[u].now = clock
      BY <3>1 DEF SoloInv, InStorage, StoragePhases
    <3>3. SUFFICES ASSUME tab[u].client = "sdk", mode # "full",
                          expected[u].session # NoValue
                   PROVE  SdkSession(u)'
      BY <1>0, <3>1 DEF SdkSession
    <3>4. /\ View(u)["session_last_activity"] = expected[u].time
          /\ View(u)["session_id"] # NoValue
          /\ View(u)["session_id"] = expected[u].session \/ Ended(u)
          /\ tab[u].session # NoValue
          /\ tab[u].session = expected[u].session \/ Ended(u)
      BY <1>0, <3>1, <3>3 DEF SdkSession
    <3>5. FreshAt(u) <=> tab[u].now - expected[u].time < Timeout
      BY <1>0, <3>4 DEF FreshAt, Fresh
    <3>6. Ended(u)' <=> Ended(u)
      BY <3>1 DEF Ended
    <3>7. CASE FreshAt(u)
      BY <1>0, <2>1, <3>1, <3>2, <3>4, <3>5, <3>6, <3>7 DEF SdkSession, Ended
    <3>8. CASE ~FreshAt(u)
      BY <1>0, <2>1, <3>1, <3>4, <3>5, <3>6, <3>8 DEF SdkSession
    <3>. QED  BY <3>7, <3>8
  <2>3. CASE u # t
    BY <1>5, <1>calm, <2>1, <2>3, ReadActivityDoes
  <2>. QED  BY <2>2, <2>3
<1>6. ASSUME NEW t \in Tabs, WriteAnonymousId(t) PROVE SdkSession(u)'
  <2>1. /\ View(u)'["session_last_activity"] = View(u)["session_last_activity"]
        /\ View(u)'["session_id"] = View(u)["session_id"]
    BY <1>0, <1>6, WriteIdDoes, WriteSetsViews DEF OthersKept, Keys
  <2>2. u = t => tab'[u].phase = "read_session"
    BY <1>6, WriteIdDoes
  <2>. QED  BY <1>0, <1>6, <2>1, <2>2, WriteIdDoes, SdkSessionCalm DEF OthersKept
<1>7. ASSUME NEW t \in Tabs, WriteSession(t) PROVE SdkSession(u)'
  <2>1. /\ tab[t].client = "sdk" /\ tab[t].phase = "write_session"
        /\ UNCHANGED <<mode, clock, calls, expected>> /\ OthersKept(t) /\ CallKept(t)
        /\ tab'[t].phase = "write_activity" /\ tab'[t].session = tab[t].session
        /\ WriteEffect(t, "session_id", tab[t].session)
    BY <1>7, WriteIdDoes
  <2>2. tab[t].session # NoValue /\ tab[t].session = IdOf(t)
    BY <2>1 DEF TypeInv, TabTyped, IdsInv, NewInv
  <2>3. /\ View(u)'["session_last_activity"] = View(u)["session_last_activity"]
        /\ View(u)'["session_id"] \in {View(u)["session_id"], tab[t].session}
        /\ u # t /\ mode # "open" => View(u)'["session_id"] = View(u)["session_id"]
    BY <1>0, <2>1, WriteSetsViews DEF OthersKept, Keys
  <2>4. u = t \/ mode = "open" =>
          \/ mode = "full" \/ expected[u].session = NoValue \/ Ended(u)
    <3>1. u = t \/ mode = "open" => expected[u] = expected[t]
      BY DEF SharedInv
    <3>. QED  BY <1>0, <2>1, <3>1 DEF SdkSession, Ended
  <2>5. Ended(u)' <=> Ended(u)
    BY <2>1 DEF Ended
  <2>6. CASE u = t
    <3>1. expected[u].session # tab[u].session
      BY <2>1, <2>2, <2>6 DEF IdsInv, NewInv, InStorage, StoragePhases
    <3>2. tab'[u].now = tab[u].now
      BY <2>1, <2>6 DEF CallKept
    <3>. QED  BY <1>0, <2>1, <2>2, <2>3, <2>4, <2>5, <2>6, <3>1, <3>2 DEF SdkSession
  <2>7. CASE u # t /\ mode # "open"
    BY <1>calm, <2>1, <2>3, <2>7
  <2>8. CASE u # t /\ mode = "open"
    <3>1. tab'[u] = tab[u]
      BY <2>1, <2>8 DEF OthersKept
    <3>. QED  BY <1>0, <2>1, <2>2, <2>3, <2>4, <2>5, <2>8, <3>1 DEF SdkSession
  <2>. QED  BY <2>6, <2>7, <2>8
<1>8. ASSUME NEW t \in Tabs, WriteActivity(t) PROVE SdkSession(u)'
  <2>1. /\ tab[t].client = "sdk" /\ tab[t].phase = "write_activity"
        /\ UNCHANGED <<mode, clock>> /\ Rests(t, "idle", tab[t].known)
        /\ WriteEffect(t, "session_last_activity", tab[t].now)
        /\ \A w \in Tabs \ {t} : memory'[w] = memory[w]
        /\ expected'[u] = IF u = t \/ mode = "open" THEN Event(t) ELSE expected[u]
    BY <1>8, WriteActivityDoes
  <2>2. tab'[u] = tab[u] \/ tab'[u].phase = "idle"
    BY <2>1 DEF Rests
  <2>3. CASE tab[t].solo /\ (u = t \/ mode = "open") /\ mode # "full"
    <3>1. View(t)["session_id"] = tab[t].session /\ tab[t].session # NoValue
      BY <2>1, <2>3 DEF OwnInv, Own, TypeInv, TabTyped
    <3>2. /\ View(u)'["session_id"] = View(t)["session_id"]
          /\ View(u)'["session_last_activity"] = tab[t].now
      <4>1. /\ View(u)'["session_id"] = View(u)["session_id"]
            /\ View(u)'["session_last_activity"] = tab[t].now
        BY <1>0, <2>1, <2>3, WriteSetsViews DEF Keys
      <4>2. View(u)["session_id"] = View(t)["session_id"]
        BY <2>3 DEF View
      <4>. QED  BY <4>1, <4>2
    <3>3. /\ expected'[u].session = tab[t].session
          /\ expected'[u].time = tab[t].now
      BY <2>1, <2>3 DEF Event
    <3>4. tab'[u].phase \notin {"read_activity", "write_session", "write_activity"}
      BY <2>1, <2>2, <2>3 DEF SoloInv, Rivals, InStorage, StoragePhases, Rests
    <3>. QED  BY <3>1, <3>2, <3>3, <3>4 DEF SdkSession
  <2>4. CASE mode = "full"
    BY <2>1, <2>4 DEF SdkSession
  <2>5. CASE ~tab[t].solo /\ (u = t \/ mode = "open")
    BY <2>1, <2>5 DEF SdkSession, Event, Nothing
  <2>6. CASE u # t /\ mode # "open"
    <3>1. /\ View(u)'["session_last_activity"] = View(u)["session_last_activity"]
          /\ View(u)'["session_id"] = View(u)["session_id"]
      BY <1>0, <2>1, <2>6, WriteSetsViews DEF Keys
    <3>2. tab'[u] = tab[u]
      BY <2>1, <2>6 DEF Rests
    <3>. QED  BY <1>0, <2>1, <2>6, <3>1, <3>2, SdkSessionCalm
  <2>. QED  BY <2>3, <2>4, <2>5, <2>6
<1>9. ASSUME NEW t \in Tabs,
             \/ ReadSnippetSession(t) \/ WriteSnippetSession(t)
             \/ WriteSnippetSessionThrows(t)
      PROVE  SdkSession(u)'
  <2>1. tab[t].client = "snippet"
    BY <1>9, ReadSnippetSessionDoes, WriteSnippetSessionDoes,
       WriteSnippetSessionThrowsDoes
  <2>. QED  BY <1>0, <2>1 DEF SdkSession
<1>10. CASE Environment
  <2>1. expected'[u].session = NoValue
    <3>1. expected[u] \in Expectations
      BY DEF TypeInv, BrowserTypeOK
    <3>. QED  BY <1>10, <3>1
              DEF Environment, Withdraw, ChangeMode, Clear, Nothing, Expectations
  <2>. QED  BY <2>1 DEF SdkSession
<1>11. CASE UNCHANGED browserVars
  BY <1>0, <1>11 DEF browserVars, SdkSession, View, Ended
<1>. QED  BY <1>1, <1>2, <1>3, <1>4, <1>5, <1>6, <1>7, <1>8, <1>9, <1>10, <1>11,
             StepsAre

LEMMA SnippetSessionKept ==
  ASSUME TypeInv, SoloInv, IdsInv, SharedInv, SnippetSessionInv, [Next]_browserVars
  PROVE  SnippetSessionInv'
<1> SUFFICES ASSUME NEW u \in Tabs PROVE SnippetSession(u)'
  BY DEF SnippetSessionInv
<1>0. /\ SnippetSession(u) /\ expected[u].time \in Nat
      /\ \A t \in Tabs : SnippetSession(t) /\ tab[t].client = tab[u].client
      /\ tab'[u].client = tab[u].client /\ Timeout \in Nat
      /\ \A t \in Tabs : tab[t].now \in Nat
  BY ClientsKept, BrowserAssumption
     DEF SnippetSessionInv, TypeInv, BrowserTypeOK, Expectations, TabStates
<1>1. ASSUME NEW t \in Tabs,
             \/ Load(t)
             \/ ReadAnonymousId(t) \/ ReadSession(t) \/ ReadActivity(t)
             \/ WriteAnonymousId(t) \/ WriteSession(t) \/ WriteActivity(t)
      PROVE  SnippetSession(u)'
  <2>1. tab[t].client = "sdk"
    BY <1>1, LoadDoes, ReadAnonymousIdDoes, ReadSessionDoes, ReadActivityDoes, WriteIdDoes,
       WriteActivityDoes
  <2>. QED  BY <1>0, <2>1 DEF SnippetSession
<1>2. ASSUME NEW t \in Tabs, Track(t) \/ Install(t) \/ SnippetTrack(t)
      PROVE  SnippetSession(u)'
  <2>1. tab'[u].phase = "write_snippet" =>
          /\ tab[u].phase = "write_snippet"
          /\ tab'[u].session = tab[u].session /\ tab'[u].now = tab[u].now
    BY <1>2, BeginsACall DEF Begins, SameCall
  <2>. QED  BY <1>0, <1>2, <2>1, BeginsACall DEF SnippetSession
<1>3. ASSUME NEW t \in Tabs, ReadSnippetSession(t) PROVE SnippetSession(u)'
  <2>1. CASE u # t
    BY <1>0, <1>3, <2>1, ReadSnippetSessionDoes DEF SnippetSession
  <2>2. CASE u = t
    <3>1. /\ UNCHANGED <<browser, mode, expected>> /\ tab'[u].now = tab[u].now
          /\ tab'[u].session = IF Expired(StoredSession, tab[u].now)
                                 THEN IdOf(u) ELSE StoredSession.session
      BY <1>3, <2>2, ReadSnippetSessionDoes DEF CallKept
    <3>2. SUFFICES ASSUME tab[u].client = "snippet", mode = "open",
                          expected[u].session # NoValue
                   PROVE  SnippetSession(u)'
      BY <1>0, <3>1 DEF SnippetSession
    <3>3. StoredSession = [session |-> expected[u].session, activity |-> expected[u].time]
      BY <1>0, <3>2 DEF SnippetSession, StoredSession, Key
    <3>4. /\ StoredSession \in SnippetSessions
          /\ StoredSession.session = expected[u].session
          /\ StoredSession.activity = expected[u].time
      BY <3>2, <3>3 DEF TypeInv, BrowserTypeOK, Expectations, SnippetSessions
    <3>5. Expired(StoredSession, tab[u].now)
            <=> ~(tab[u].now - expected[u].time < Timeout)
      BY <1>0, <3>4, NoValueAssumption DEF Expired
    <3>6. expected[u].session # IdOf(u)
      BY <1>3, <2>2, ReadSnippetSessionDoes DEF IdsInv, NewInv, InStorage, StoragePhases
    <3>. QED  BY <1>0, <3>1, <3>4, <3>5, <3>6 DEF SnippetSession
  <2>. QED  BY <2>1, <2>2
<1>4. ASSUME NEW t \in Tabs, WriteSnippetSession(t) PROVE SnippetSession(u)'
  <2>1. /\ tab[t].phase = "write_snippet" /\ expected'[u] = Event(t)
        /\ browser'["tracking_session"] = [session |-> tab[t].session, activity |-> tab[t].now]
        /\ Rests(t, "idle", tab[t].known)
    BY <1>4, WriteSnippetSessionDoes DEF Key
  <2>2. CASE tab[t].solo
    <3>1. tab'[u].phase # "write_snippet"
      BY <2>1, <2>2 DEF SoloInv, Rivals, InStorage, StoragePhases, Rests
    <3>2. expected'[u].session = tab[t].session /\ expected'[u].time = tab[t].now
      BY <2>1, <2>2 DEF Event
    <3>. QED  BY <2>1, <3>1, <3>2 DEF SnippetSession
  <2>3. CASE ~tab[t].solo
    BY <2>1, <2>3 DEF SnippetSession, Event, Nothing
  <2>. QED  BY <2>2, <2>3
<1>5. ASSUME NEW t \in Tabs, WriteSnippetSessionThrows(t) PROVE SnippetSession(u)'
  <2>1. tab'[u].phase # "write_snippet" \/ tab'[u] = tab[u]
    BY <1>5, WriteSnippetSessionThrowsDoes DEF Rests
  <2>. QED  BY <1>0, <1>5, <2>1, WriteSnippetSessionThrowsDoes DEF SnippetSession
<1>6. CASE Environment
  <2>1. expected'[u].session = NoValue
    <3>1. expected[u] \in Expectations
      BY DEF TypeInv, BrowserTypeOK
    <3>. QED  BY <1>6, <3>1
              DEF Environment, Withdraw, ChangeMode, Clear, Nothing, Expectations
  <2>. QED  BY <2>1 DEF SnippetSession
<1>7. CASE UNCHANGED browserVars
  BY <1>0, <1>7 DEF browserVars, SnippetSession
<1>. QED  BY <1>1, <1>2, <1>3, <1>4, <1>5, <1>6, <1>7, StepsAre

-----------------------------------------------------------------------------
(* The theorems.                                                           *)

BrowserInv ==
  /\ TypeInv /\ SoloInv /\ IdsInv /\ CopyInv /\ OwnInv /\ SharedInv
  /\ VisitorInv /\ SdkSessionInv /\ SnippetSessionInv

LEMMA BrowserAtFirst == Init => BrowserInv
<1> SUFFICES ASSUME Init PROVE BrowserInv
  OBVIOUS
<1>1. TypeInv
  BY TypesAtFirst
<1>2. /\ \A t \in Tabs : /\ tab[t].phase = "absent" /\ tab[t].solo = FALSE
                         /\ tab[t].session = NoValue /\ tab[t].known = NoValue
                         /\ expected[t].session = NoValue
                         /\ expected[t].anonymous = NoValue
                         /\ expected[t] = Nothing
      /\ \A k \in Keys : /\ browser[k] = NoValue
                         /\ \A t \in Tabs : memory[t][k] = NoValue
  BY DEF Init, BrowserInit, Absent, Nothing, EmptyStore
<1>3. SoloInv
  BY <1>2 DEF SoloInv
<1>4. IdsInv
  BY <1>2 DEF IdsInv, OldInv, NewInv, Old, OldIn, Naming, InStorage, StoragePhases, Keys
<1>5. CopyInv /\ SharedInv
  BY <1>2 DEF CopyInv, SharedInv
<1>6. OwnInv /\ VisitorInv /\ SdkSessionInv /\ SnippetSessionInv
  BY <1>2 DEF OwnInv, Own, VisitorInv, Visitor, SdkSessionInv, SdkSession,
              SnippetSessionInv, SnippetSession
<1>. QED  BY <1>1, <1>3, <1>4, <1>5, <1>6 DEF BrowserInv

LEMMA BrowserKept == BrowserInv /\ [Next]_browserVars => BrowserInv'
<1> SUFFICES ASSUME BrowserInv, [Next]_browserVars PROVE BrowserInv'
  OBVIOUS
<1>1. TypeInv' /\ SoloInv' /\ IdsInv' /\ CopyInv' /\ OwnInv' /\ SharedInv'
  BY TypesKept, SoloKept, IdsKept, CopyKept, OwnKept, SharedKept DEF BrowserInv
<1>2. VisitorInv'
  BY VisitorStays DEF BrowserInv
<1>3. SdkSessionInv' /\ SnippetSessionInv'
  BY SdkSessionKept, SnippetSessionKept DEF BrowserInv
<1>. QED  BY <1>1, <1>2, <1>3 DEF BrowserInv

LEMMA BrowserSafe == Spec => []BrowserInv
BY BrowserAtFirst, BrowserKept, PTL DEF Spec

\* The event a page composes carries the session of the last one over the
\* same store if and only if less than the timeout lies between them.
LEMMA SessionFollows ==
  ASSUME BrowserInv, NEW t \in Tabs, Composes(t), tab[t].solo,
         expected[t].session # NoValue, mode # "full"
  PROVE  expected'[t].session = expected[t].session
           <=> tab[t].now - expected[t].time < Timeout
<1>1. CASE WriteActivity(t)
  <2>1. /\ tab[t].client = "sdk" /\ tab[t].phase = "write_activity"
        /\ expected'[t] = Event(t)
    BY <1>1, WriteActivityDoes DEF BrowserInv
  <2>2. expected'[t].session = tab[t].session
    BY <2>1 DEF Event
  <2>. QED  BY <2>1, <2>2 DEF BrowserInv, SdkSessionInv, SdkSession
<1>2. CASE WriteSnippetSession(t)
  <2>1. /\ tab[t].client = "snippet" /\ tab[t].phase = "write_snippet"
        /\ mode = "open" /\ expected'[t] = Event(t)
    BY <1>2, WriteSnippetSessionDoes DEF BrowserInv
  <2>2. expected'[t].session = tab[t].session
    BY <2>1 DEF Event
  <2>. QED  BY <2>1, <2>2 DEF BrowserInv, SnippetSessionInv, SnippetSession
<1>. QED  BY <1>1, <1>2 DEF Composes

\* And the anonymous_id of the last one, however far apart they are.
LEMMA VisitorFollows ==
  ASSUME BrowserInv, NEW t \in Tabs, Composes(t), tab[t].solo,
         expected[t].anonymous # NoValue, mode # "full"
  PROVE  expected'[t].anonymous = expected[t].anonymous
<1>1. CASE WriteActivity(t)
  <2>1. /\ tab[t].client = "sdk" /\ tab[t].phase = "write_activity"
        /\ expected'[t] = Event(t)
    BY <1>1, WriteActivityDoes DEF BrowserInv
  <2>2. expected'[t].anonymous = tab[t].anonymous
    BY <2>1 DEF Event
  <2>. QED  BY <2>1, <2>2 DEF BrowserInv, VisitorInv, Visitor, OwnInv, Own
<1>2. CASE WriteSnippetSession(t)
  <2>1. tab[t].client = "snippet"
    BY <1>2, WriteSnippetSessionDoes DEF BrowserInv
  <2>. QED  BY <2>1 DEF BrowserInv, VisitorInv, Visitor
<1>. QED  BY <1>1, <1>2 DEF Composes

\* A session lasts exactly as long as its visitor is active, for any number
\* of pages and any timeout, whatever races, reloads and incidents came before.
THEOREM SessionsAlwaysFollow == Spec => SessionsFollowActivity
<1>1. BrowserInv /\ [Next]_browserVars =>
        [\A t \in Tabs :
           /\ Composes(t)
           /\ tab[t].solo
           /\ expected[t].session # NoValue
           /\ mode # "full"
           => (expected'[t].session = expected[t].session
                 <=> tab[t].now - expected[t].time < Timeout)]_browserVars
  BY SessionFollows
<1>. QED  BY <1>1, BrowserSafe, PTL DEF Spec, SessionsFollowActivity

\* The visitor keeps one anonymous_id, from the store and, once access to it
\* is withdrawn, from the page's copy in memory.
THEOREM VisitorAlwaysKept == Spec => VisitorKept
<1>1. BrowserInv /\ [Next]_browserVars =>
        [\A t \in Tabs :
           /\ Composes(t)
           /\ tab[t].solo
           /\ expected[t].anonymous # NoValue
           /\ mode # "full"
           => expected'[t].anonymous = expected[t].anonymous]_browserVars
  BY VisitorFollows
<1>. QED  BY <1>1, BrowserSafe, PTL DEF Spec, VisitorKept
=============================================================================
