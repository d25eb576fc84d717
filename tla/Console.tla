------------------------------ MODULE Console -------------------------------
(***************************************************************************)
(* The events page of the tracking console: a browser page that polls the  *)
(* list and the detail of the admin API, caches each answer under the key  *)
(* of its query (TanStack Query), lets the operator filter, page, select   *)
(* and replay, and shows one panel about the selected event.  Meanwhile    *)
(* the API and the workers write the tables.                               *)
(*                                                                         *)
(* A fetch is begun, reads the tables with two statements, and lands.      *)
(* Polling may begin one whenever none is under way; how often is left     *)
(* out, and so is the cache's dropping of what was not shown for minutes.  *)
(* The replay handler is one step here; its own steps are module           *)
(* AdminReplay's.                                                          *)
(***************************************************************************)
EXTENDS EventReadModel

CONSTANTS
  PageSize,
  ConsoleFilters,  \* the filters an operator applies
  Everything,      \* the empty one
  Includes(_,_),   \* the filter stands in the text, whatever the case
  NoEvent,
  NoAnswer,
  NoFetch,
  Main,            \* the panel's button for all failed deliveries
  Gone,            \* in place of a button that is no longer on the page
  Databases,       \* contents the console finds when it is opened
  Opened,          \* events at whose address it may be opened
  Written,         \* bounds: the events others write,
  MaxClicks,       \* steps of the operator,
  MaxDisturbances  \* writes of others and requests that fail

ASSUME EventsAssumption == IsFiniteSet(Events) /\ Events # {} /\ NoEvent \notin Events
ASSUME PageSizeAssumption == PageSize \in 1 .. 100  \* what the route grants
ASSUME IncludesAssumption ==
  (\A e \in Events : Includes(e, e)) /\ (\A d \in Destinations : Includes(d, d))
ASSUME ButtonsAssumption == Main \notin Destinations /\ Gone \notin Destinations
ASSUME BoundsAssumption == Opened \subseteq Events /\ Written \subseteq Events
ASSUME DatabasesAssumption ==
  \A db \in Databases : /\ db.stored \subseteq Events
                        /\ db.row \in [Deliveries -> Rows]
                        /\ db.created \in [Events -> Times]
ASSUME FiltersAssumption == Everything \in ConsoleFilters /\ ConsoleFilters \subseteq Filters

VARIABLES
  selected,     \* the event of the page's address
  applied, offset,
  lists,        \* the cached answers of the list, by key
  details,      \* and of the detail
  listFetch, detailFetch,
  erred,        \* events whose last detail fetch failed
  hints,        \* [Buttons -> state of the button's last click]
  calls,        \* replays under way
  about,        \* history: [Destinations -> event of its button's last success]
  awaited,      \* history: details refetched since their replay was answered
  part,         \* bound: the part of the page the operator uses
  clicks, disturbances

tableVars == <<stored, row, created>>
queryVars == <<lists, details, listFetch, detailFetch, erred, awaited>>
pageVars == <<selected, applied, offset>>
buttonVars == <<hints, calls, about>>
boundVars == <<part, clicks, disturbances>>
consoleVars == <<tableVars, queryVars, pageVars, buttonVars, boundVars>>

Offsets == {n * PageSize : n \in 0 .. (Cardinality(Events) - 1)}

ListKeys == Offsets \X ConsoleFilters

Buttons == {Main} \cup Destinations

HintStates == {"idle", "pending", "success", "error"}

\* Bound: an operator either looks through the list or works in the panel.
Parts == {"list", "panel"}

Totals == 0 .. Cardinality(Events)

PageItems == UNION {[S -> DeliveryTables] : S \in SUBSET Events}

ListAnswers == [total : Totals, items : PageItems, torn : BOOLEAN]

ListFetches == [total : Totals \cup {NoAnswer}, items : PageItems \cup {NoAnswer},
                torn : BOOLEAN]

\* old is history: a replay wrote the event's rows after they were read.
DetailAnswers ==
  [stage : {"read"}, event : Events, deliveries : DeliveryTables, old : BOOLEAN]

DetailFetches == DetailAnswers \cup [stage : {"begun", "found"}, event : Events]

\* A replay under way: named is what it asks for, seen what the panel showed as
\* failed at the click, refresh the event to refresh after it.
Replays ==
  [button : Buttons \cup {Gone}, event : Events, named : SUBSET Destinations,
   seen : SUBSET Destinations, refresh : Events,
   result : {"none", "success", "error"}]

ASSUME NoAnswerAssumption ==
  NoAnswer \notin DetailAnswers \cup ListAnswers \cup Totals \cup PageItems
ASSUME NoFetchAssumption == NoFetch \notin DetailFetches \cup ListFetches

Begun == [total |-> NoAnswer, items |-> NoAnswer, torn |-> FALSE]

ConsoleInit ==
  /\ part \in Parts
  /\ \E db \in Databases :
       stored = db.stored /\ row = db.row /\ created = db.created
  /\ selected \in IF part = "panel" THEN Opened ELSE {NoEvent}
  /\ applied = Everything
  /\ offset = 0
  /\ lists = [k \in ListKeys |-> NoAnswer]
  /\ details = [e \in Events |-> NoAnswer]
  /\ listFetch = [k \in ListKeys |-> NoFetch]
  /\ detailFetch = [e \in Events |-> NoFetch]
  /\ erred = {}
  /\ hints = [b \in Buttons |-> "idle"]
  /\ calls = {}
  /\ about = [d \in Destinations |-> NoEvent]
  /\ awaited = {}
  /\ clicks = 0
  /\ disturbances = 0

-----------------------------------------------------------------------------
(* What the page shows. *)

\* Faulty variant: the filters are not part of the key.
ListKeyUnfiltered(o, f) == <<o, Everything>>

ListKey(o, f) == <<o, f>>

\* Faulty variant: one key for the detail of whatever is selected.
DetailKeyShared(e) == CHOOSE any \in Events : TRUE

DetailKey(e) == e

ListShown == lists[ListKey(offset, applied)]

\* The rows of the page, those hidden included.
Listed == IF ListShown = NoAnswer THEN {} ELSE DOMAIN ListShown.items

\* The page filters once more: each text by whether it includes the filter,
\* the time by event_timestamp.
Visible ==
  {e \in Listed :
     LET deliveries == ListShown.items[e]
     IN /\ applied.eventId # NotSet => Includes(e, applied.eventId)
        /\ applied.name # NotSet => Includes(NameOf[e], applied.name)
        /\ applied.source # NotSet => Includes(SourceOf[e], applied.source)
        /\ applied.destination # NotSet =>
             \E d \in DOMAIN deliveries : Includes(d, applied.destination)
        /\ applied.status # NotSet => OverallStatus(deliveries) = applied.status
        /\ applied.from # NotSet => Stamped[e] >= applied.from
        /\ applied.to # NotSet => Stamped[e] <= applied.to}

DetailShown ==
  IF selected = NoEvent THEN NoAnswer ELSE details[DetailKey(selected)]

\* The panel takes the detail's rows, and the list's where it has none.
PanelDeliveries ==
  IF DetailShown # NoAnswer /\ DOMAIN DetailShown.deliveries # {}
    THEN DetailShown.deliveries
  ELSE IF selected \in Listed THEN ListShown.items[selected]
  ELSE [d \in {} |-> "none"]

SeenFailed == {d \in DOMAIN PanelDeliveries : PanelDeliveries[d] = "failed"}

Mounted(b) ==
  selected # NoEvent /\ IF b = Main THEN SeenFailed # {} ELSE b \in SeenFailed

\* Faulty variant: the rows of the timeline have the destination for a key.
KeyedByDestination(b) == FALSE

\* A row of the timeline has the event in its key, so that its button is
\* another one for another event; the panel's own button is the same one.
KeyedByEvent(b) == b # Main

\* The page is rendered again: a button that is no longer there, or is another
\* one, forgets its click, and a call it made goes on without it.  The refresh
\* a call ends with is of the event selected when its button was last shown.
Render(hint, called) ==
  LET kept == {b \in Buttons : /\ Mounted(b) /\ Mounted(b)'
                               /\ KeyedByEvent(b) => selected' = selected}
  IN /\ hints' = [b \in Buttons |-> IF b \in kept THEN hint[b] ELSE "idle"]
     /\ calls' = {IF c.button \in kept THEN [c EXCEPT !.refresh = selected']
                                      ELSE [c EXCEPT !.button = Gone] :
                    c \in called}

-----------------------------------------------------------------------------
(* The operator. *)

Clicked(where) ==
  /\ part = where
  /\ clicks < MaxClicks
  /\ clicks' = clicks + 1

Select(e) ==
  /\ Clicked("panel")
  /\ e \in Visible
  /\ selected' = e
  /\ UNCHANGED <<tableVars, queryVars, applied, offset, about, part, disturbances>>
  /\ Render(hints, calls)

\* The draft of the filters is whatever the operator has typed.
ApplyFilters(f) ==
  /\ Clicked("list")
  /\ applied' = f
  /\ offset' = 0
  /\ UNCHANGED <<tableVars, queryVars, selected, about, part, disturbances>>
  /\ Render(hints, calls)

ClearFilters ==
  /\ Clicked(part)
  /\ applied' = Everything
  /\ offset' = 0
  /\ selected' = NoEvent
  /\ UNCHANGED <<tableVars, queryVars, about, part, disturbances>>
  /\ Render(hints, calls)

NextPage ==
  /\ Clicked("list")
  /\ ListShown # NoAnswer /\ offset + PageSize < ListShown.total
  /\ offset' = offset + PageSize
  /\ UNCHANGED <<tableVars, queryVars, selected, applied, about, part, disturbances>>
  /\ Render(hints, calls)

\* Faulty variant: the button is never disabled.
PrevPageUnguarded ==
  /\ Clicked("list")
  /\ offset' = offset - PageSize
  /\ UNCHANGED <<tableVars, queryVars, selected, applied, about, part, disturbances>>
  /\ Render(hints, calls)

PrevPage ==
  /\ Clicked("list")
  /\ offset > 0
  /\ offset' = offset - PageSize
  /\ UNCHANGED <<tableVars, queryVars, selected, applied, about, part, disturbances>>
  /\ Render(hints, calls)

\* Faulty variant: the panel's button names every delivery it shows.
NamedAll(b) == IF b = Main THEN DOMAIN PanelDeliveries ELSE {b}

\* The destinations a button's request names: none for all that have failed.
Named(b) == IF b = Main THEN {} ELSE {b}

ClickReplay(b) ==
  /\ Clicked("panel")
  /\ Mounted(b)
  /\ hints[b] # "pending"
  /\ UNCHANGED <<tableVars, queryVars, pageVars, about, part, disturbances>>
  /\ Render([hints EXCEPT ![b] = "pending"],
            calls \cup {[button |-> b, event |-> selected, named |-> Named(b),
                         seen |-> SeenFailed, refresh |-> selected,
                         result |-> "none"]})

-----------------------------------------------------------------------------
(* Fetches. *)

CurrentKey == ListKey(offset, applied)

BeginListFetch ==
  /\ listFetch[CurrentKey] = NoFetch
  /\ listFetch' = [listFetch EXCEPT ![CurrentKey] = Begun]
  /\ UNCHANGED <<tableVars, pageVars, buttonVars, boundVars,
                 lists, details, detailFetch, erred, awaited>>

\* The two queries of the list run on two connections, in either order; the
\* answer lands with the later one.
ListReads(k, fetch) ==
  IF fetch.total # NoAnswer /\ fetch.items # NoAnswer
    THEN /\ lists' = [lists EXCEPT ![k] = fetch]
         /\ listFetch' = [listFetch EXCEPT ![k] = NoFetch]
    ELSE /\ listFetch' = [listFetch EXCEPT ![k] = fetch]
         /\ lists' = lists

ReadCount(k) ==
  /\ part = "list"
  /\ listFetch[k] # NoFetch
  /\ listFetch[k].total = NoAnswer
  /\ ListReads(k, [listFetch[k] EXCEPT !.total = Count(k[2])])
  /\ UNCHANGED <<tableVars, pageVars, about, boundVars,
                 details, detailFetch, erred, awaited>>
  /\ Render(hints, calls)

ReadPage(k) ==
  /\ part = "list"
  /\ listFetch[k] # NoFetch
  /\ listFetch[k].items = NoAnswer
  /\ ListReads(k, [listFetch[k] EXCEPT !.items = Items(k[2], PageSize, k[1])])
  /\ UNCHANGED <<tableVars, pageVars, about, boundVars,
                 details, detailFetch, erred, awaited>>
  /\ Render(hints, calls)

\* Bound: nothing falls between the two while the operator is in the panel.
ReadList(k) ==
  /\ part = "panel"
  /\ listFetch[k] # NoFetch
  /\ ListReads(k, [listFetch[k] EXCEPT !.total = Count(k[2]),
                                       !.items = Items(k[2], PageSize, k[1])])
  /\ UNCHANGED <<tableVars, pageVars, about, boundVars,
                 details, detailFetch, erred, awaited>>
  /\ Render(hints, calls)

\* Faulty variant: the detail is fetched once and not polled.
BeginDetailFetchOnce ==
  /\ selected # NoEvent
  /\ LET k == DetailKey(selected)
     IN /\ detailFetch[k] = NoFetch
        /\ details[k] = NoAnswer
        /\ detailFetch' = [detailFetch EXCEPT
             ![k] = [stage |-> "begun", event |-> selected]]
  /\ UNCHANGED <<tableVars, pageVars, buttonVars, boundVars,
                 lists, details, listFetch, erred, awaited>>

BeginDetailFetch ==
  /\ selected # NoEvent
  /\ LET k == DetailKey(selected)
     IN /\ detailFetch[k] = NoFetch
        /\ detailFetch' = [detailFetch EXCEPT
             ![k] = [stage |-> "begun", event |-> selected]]
  /\ UNCHANGED <<tableVars, pageVars, buttonVars, boundVars,
                 lists, details, listFetch, erred, awaited>>

At(k, stage) == detailFetch[k] # NoFetch /\ detailFetch[k].stage = stage

DetailErrs(k) ==
  /\ detailFetch' = [detailFetch EXCEPT ![k] = NoFetch]
  /\ erred' = erred \cup {k}
  /\ awaited' = awaited \ {k}

\* getEventById: the event, and then its rows.  Without an event the answer is
\* a 404, which the console takes for an error and keeps what it had.
ReadEvent(k) ==
  /\ At(k, "begun")
  /\ IF detailFetch[k].event \in stored
       THEN /\ detailFetch' = [detailFetch EXCEPT ![k].stage = "found"]
            /\ UNCHANGED <<erred, awaited>>
       ELSE DetailErrs(k)
  /\ UNCHANGED <<tableVars, pageVars, buttonVars, boundVars,
                 lists, details, listFetch>>

ReadRows(k) ==
  /\ At(k, "found")
  /\ detailFetch' = [detailFetch EXCEPT
       ![k] = [stage |-> "read", event |-> @.event,
               deliveries |-> DeliveriesOf(@.event), old |-> FALSE]]
  /\ UNCHANGED <<tableVars, pageVars, buttonVars, boundVars,
                 lists, details, listFetch, erred, awaited>>

DetailLands(k) ==
  /\ At(k, "read")
  /\ details' = [details EXCEPT ![k] = detailFetch[k]]
  /\ detailFetch' = [detailFetch EXCEPT ![k] = NoFetch]
  /\ erred' = erred \ {k}
  /\ awaited' = awaited \ {k}
  /\ UNCHANGED <<tableVars, pageVars, about, boundVars, lists, listFetch>>
  /\ Render(hints, calls)

Disturbed ==
  /\ disturbances < MaxDisturbances
  /\ disturbances' = disturbances + 1

\* A request fails, with whatever retries the library makes.  (One of the list
\* that fails leaves nothing but a message and the answer of before.)
DetailFails(k) ==
  /\ Disturbed
  /\ detailFetch[k] # NoFetch
  /\ DetailErrs(k)
  /\ UNCHANGED <<tableVars, pageVars, buttonVars, lists, details, listFetch,
                 part, clicks>>

-----------------------------------------------------------------------------
(* Replays the console has asked for. *)

Aged(data, e) ==
  [k \in Events |->
     IF data[k] # NoAnswer /\ data[k] # NoFetch
       THEN IF data[k].stage = "read" /\ data[k].event = e
              THEN [data[k] EXCEPT !.old = TRUE] ELSE data[k]
       ELSE data[k]]

\* A write falls between the two queries of a list.
Torn(fetches) ==
  [k \in ListKeys |->
     IF fetches[k] # NoFetch
       THEN IF (fetches[k].total = NoAnswer) # (fetches[k].items = NoAnswer)
              THEN [fetches[k] EXCEPT !.torn = TRUE] ELSE fetches[k]
       ELSE fetches[k]]

Answered(c, result) == (calls \ {c}) \cup {[c EXCEPT !.result = result]}

\* The API writes the rows of a replay.
ReplayWritten(c) ==
  /\ c.event \in stored
  /\ ReplayEventDeliveries(c.event, ReplayTargets(c.event, c.named))
  /\ details' = Aged(details, c.event)
  /\ detailFetch' = Aged(detailFetch, c.event)
  /\ awaited' = awaited \ {c.event}
  /\ listFetch' = Torn(listFetch)

NothingReplayed ==
  UNCHANGED <<stored, row, details, detailFetch, awaited, listFetch>>

\* The API has carried out the replay, or has found no such event.
ReplayHandled(c) ==
  /\ c \in calls /\ c.result = "none"
  /\ \/ ReplayWritten(c) /\ calls' = Answered(c, "success")
     \/ c.event \notin stored /\ NothingReplayed /\ calls' = Answered(c, "error")
  /\ UNCHANGED <<created, pageVars, hints, about, boundVars, lists, erred>>

\* The call fails, before its rows were written or (an add to the queue fails,
\* or the answer is lost) after.
ReplayFails(c) ==
  /\ Disturbed
  /\ c \in calls /\ c.result = "none"
  /\ ReplayWritten(c) \/ NothingReplayed
  /\ calls' = Answered(c, "error")
  /\ UNCHANGED <<created, pageVars, hints, about, lists, erred, part, clicks>>

\* Faulty variant: what is under way is good enough.
RefetchedKept(fetch, data, begun) == IF fetch = NoFetch THEN begun ELSE fetch

\* invalidateQueries of a query that is shown: a fetch under way is cancelled
\* and begun again, unless there are no data yet.
Refetched(fetch, data, begun) ==
  IF fetch = NoFetch \/ data # NoAnswer THEN begun ELSE fetch

\* The answer arrives.  After a success the list and the detail are refreshed.
ReplayAnswered(c) ==
  /\ c \in calls /\ c.result # "none"
  /\ LET key   == DetailKey(c.refresh)
         begun == [stage |-> "begun", event |-> c.refresh]
         shown == c.result = "success" /\ c.refresh = selected
     IN /\ listFetch' =
             IF c.result = "success"
               THEN [listFetch EXCEPT
                       ![CurrentKey] = Refetched(@, lists[CurrentKey], Begun)]
               ELSE listFetch
        /\ detailFetch' =
             IF shown
               THEN [detailFetch EXCEPT ![key] = Refetched(@, details[key], begun)]
               ELSE detailFetch
        /\ awaited' =
             IF shown /\ c.event = c.refresh /\ details[key] # NoAnswer
               THEN awaited \cup {key} ELSE awaited
  /\ about' = IF c.result = "success" /\ c.button \in Destinations
                THEN [about EXCEPT ![c.button] = c.event] ELSE about
  /\ UNCHANGED <<tableVars, pageVars, boundVars, lists, details, erred>>
  /\ Render(IF c.button = Gone THEN hints
                               ELSE [hints EXCEPT ![c.button] = c.result],
            calls \ {c})

-----------------------------------------------------------------------------
(* What others write meanwhile. *)

Ingest(e) ==
  /\ InsertIfNotExists(e, TRUE)
  /\ \E now \in Times :
       /\ \A other \in stored : created[other] <= now
       /\ created' = [created EXCEPT ![e] = now]

WorkerWrites(k, status) ==
  /\ WriteDeliveryState(k, [status |-> status, attempts |-> 1,
                            deliveredAt |-> status = "delivered"])
  /\ UNCHANGED created

OthersReplay(e, named) ==
  /\ e \in stored
  /\ ReplayEventDeliveries(e, ReplayTargets(e, named))
  /\ UNCHANGED created

UserDeleted(e) ==
  /\ e \in stored
  /\ DeleteByUserId({e})
  /\ UNCHANGED created

Write ==
  /\ Disturbed
  /\ \E e \in Written :
       \/ Ingest(e) \/ UserDeleted(e) \/ OthersReplay(e, {})
       \/ \E d \in Destinations :
            \/ OthersReplay(e, {d})
            \/ \E status \in Statuses : WorkerWrites(<<e, d>>, status)
  /\ listFetch' = Torn(listFetch)
  /\ UNCHANGED <<pageVars, buttonVars, lists, details, detailFetch, erred,
                 awaited, part, clicks>>

-----------------------------------------------------------------------------
Operate ==
  \/ \E e \in Events : Select(e)
  \/ \E f \in ConsoleFilters : ApplyFilters(f)
  \/ ClearFilters \/ NextPage \/ PrevPage
  \/ \E b \in Buttons : ClickReplay(b)

ListStep(k) == ReadCount(k) \/ ReadPage(k) \/ ReadList(k)

DetailStep(k) == ReadEvent(k) \/ ReadRows(k) \/ DetailLands(k)

ConsoleNext ==
  \/ Operate
  \/ BeginListFetch \/ BeginDetailFetch
  \/ \E k \in ListKeys : ListStep(k)
  \/ \E k \in Events : DetailStep(k) \/ DetailFails(k)
  \/ \E c \in calls : ReplayHandled(c) \/ ReplayFails(c) \/ ReplayAnswered(c)
  \/ Write

\* The queries of the page that is open are polled, and requests end.
ConsoleFairness ==
  /\ WF_consoleVars(BeginListFetch \/ ListStep(CurrentKey))
  /\ WF_consoleVars(BeginDetailFetch
       \/ (selected # NoEvent /\ DetailStep(DetailKey(selected))))

ConsoleSpec == ConsoleInit /\ [][ConsoleNext]_consoleVars /\ ConsoleFairness

-----------------------------------------------------------------------------
ConsoleTypeOK ==
  /\ DatabaseTypeOK
  /\ created \in [Events -> Times]
  /\ selected \in Events \cup {NoEvent}
  /\ applied \in ConsoleFilters
  /\ offset \in Offsets
  /\ lists \in [ListKeys -> ListAnswers \cup {NoAnswer}]
  /\ listFetch \in [ListKeys -> ListFetches \cup {NoFetch}]
  /\ details \in [Events -> DetailAnswers \cup {NoAnswer}]
  /\ detailFetch \in [Events -> DetailFetches \cup {NoFetch}]
  /\ erred \subseteq Events /\ awaited \subseteq Events
  /\ hints \in [Buttons -> HintStates]
  /\ calls \subseteq Replays
  /\ about \in [Destinations -> Events \cup {NoEvent}]

\* The pages of every list the operator may ask for cover its events, each
\* event once.
PagesCoverMatches == PagesCover(ConsoleFilters, PageSize)

\* The total an answer states fits the page it carries, unless a write was
\* committed between the two queries: then "Next" may lead to an empty page,
\* and on tables that do not change it never does.
TotalFitsPage ==
  \A k \in ListKeys :
    lists[k] # NoAnswer /\ ~lists[k].torn =>
      LET left == lists[k].total - k[1]
      IN Cardinality(DOMAIN lists[k].items) =
           IF left < 0 THEN 0 ELSE IF left > PageSize THEN PageSize ELSE left

\* What the page hides of an answer it hides for one of two reasons: the
\* event's own timestamp, where the API's from and to are of created_at; or a
\* name or source that matches the filter as the API's pattern but does not
\* include it as the page's text.  It never hides a row for its status,
\* destination or id, nor for a text the API did not match, although the
\* answer may be old and the filters new.
HiddenByTimeOrWildcard ==
  \A e \in Listed \ Visible :
    \/ applied.from # NotSet /\ Stamped[e] < applied.from
    \/ applied.to # NotSet /\ Stamped[e] > applied.to
    \/ /\ applied.name # NotSet
       /\ ILikeWithin(NameOf[e], applied.name)
       /\ ~Includes(NameOf[e], applied.name)
    \/ /\ applied.source # NotSet
       /\ ILike(SourceOf[e], applied.source)
       /\ ~Includes(SourceOf[e], applied.source)

\* The panel never shows another event's detail under the selected one,
\* however fetches of several events overtake each other.
PanelOfSelection ==
  DetailShown # NoAnswer => DetailShown.event = selected

\* "Replay queued." beside a destination is about that destination of the
\* event shown.  (Of the panel's own button it is not: it stays on the page
\* from one event with failed deliveries to the next.)
HintsOfTimelineAreOwn ==
  \A d \in Destinations : hints[d] = "success" => about[d] = selected

\* The console resends a delivery that has succeeded only if the operator was
\* shown it as failed, that is if it succeeded after that answer was read.
ResendsOnlySeenFailed ==
  [][\A c \in calls :
       (ReplayHandled(c) \/ ReplayFails(c)) /\ ReplayWritten(c) =>
         \A d \in ReplayTargets(c.event, c.named) :
           row[<<c.event, d>>].status = "delivered" => d \in c.seen]_consoleVars

\* Once the panel has been refreshed after a replay it shows what was read
\* after it, although a poll may have been under way that had read before.
RefreshShowsReplay ==
  [][\A e \in awaited :
       DetailLands(e) => ~details'[e].old]_consoleVars

\* When the tables no longer change the panel comes to show them as they are,
\* or that it cannot.
PanelCatchesUp ==
  <>[](selected # NoEvent =>
         selected \in erred \/ PanelDeliveries = DeliveriesOf(selected))
=============================================================================
