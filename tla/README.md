# Verification of the tracking system

TLA+ models, model-checking runs and machine-checked proofs for the event
tracking system in `src/`: a browser client and a snippet that compose events, a
tracking API that stores them, a queue of delivery jobs, workers that deliver
them to advertising destinations, an admin API that lists and replays them, and
a console that shows them.

## 1. The system

### Components, their state and their operations

| component | source | state | operations |
|---|---|---|---|
| Tracking client, browser snippet | `shared-contracts/src/tracking-client.ts`, `browser-snippet-reference.ts` | visitor and session in localStorage and in memory | track |
| Pre-handler, authentication | `tracking-api/src/app.ts`, `security/*` | fixed-window buckets of the limiter | verify, admit or refuse a call |
| Track ingestion | `routes/track.ts`, `services/*`, `repositories/postgres-event-repository.ts` | calls in their handler, adds in flight | validate, insert if new, dispatch, answer |
| Ingestion counters | `observability/ingestion-metrics.ts` | seven counters in memory | one record per outcome |
| Delivery queue | `services/delivery-job-dispatcher.ts`, BullMQ over Redis | jobs: waiting, active, finished, attempts, stalls, lock | add, take, complete, fail and retry, stall |
| Router worker | `router-worker/src/runtime`, `processor`, `adapters` | slots at work on a job, 'failed' listeners in flight | load, deliver, record, complete; record a failure |
| Database | `infra/sql`, `state/delivery-state-writer.ts` | `events`, `event_deliveries` | insert if new, upsert a row, replay update, delete a user |
| Admin replay | `routes/admin-events.ts`, `postgres-event-read-repository.ts` | replay calls in their handler | update rows, queue replay-tagged jobs, re-read |
| Admin read model | the same two files | none | list, detail, derive a status |
| Deletion by user | `repositories/postgres-privacy-repository.ts` | none | one statement over both tables |
| Console | `tracking-console/src` | the page's address, filters, page number, cached answers, buttons | poll, filter, page, select, replay |
| Configuration, env-sync | `config.ts` of both processes, `scripts/env-sync.mjs`, `deploy/app` | the shared file, four files written from it, the environment a process read | check, write, start, stop |
| Migrations, scripts | `tracking-api/scripts` | schema | offline |

### How they interact

```
env-sync --files--> API, worker (read once, at their start)

page --POST /track--> API --insert--> events (PostgreSQL)
                       |                 ^ load        ^ delete by user
                       +--add (not awaited)--> queue --take--> worker --HTTP--> destination
console --replay--> API --update--> event_deliveries <--upsert-- worker, 'failed' listener
   |                 +--add (awaited)--> queue
   +--polls list and detail--> API --select--> both tables
```

The API and the workers are separate processes that share PostgreSQL and Redis
and nothing else. There is no transaction that spans the two: the program is
correct by the order of its writes and by the idempotence of each of them.

### What is hard

* **Interleaving.** Calls with the same event, slots of several workers, replays
  and a deletion all touch the same rows; the pages of a site touch the same
  localStorage. A Node.js process is interrupted only at an `await`, a page only
  between two storage accesses of different pages: a model step is the code
  between two such points.
* **No common transaction.** insert then add; deliver then record then complete;
  update rows then add jobs; count then page. Every gap is a place to crash, to
  fail, or for another's write.
* **At-least-once.** A lost vendor response, a lock that expires under a slot
  that goes on working, a worker that dies after the vendor's answer.
* **An event listener nobody waits for.** BullMQ emits 'failed' and goes on; the
  listener's write to the row may land after the next attempt has succeeded.
* **Errors swallowed.** A failed add, a failed write of a row and a failed write
  to localStorage are passed over.
* **Answers older than the question.** The console caches, polls and refetches;
  requests overtake each other, and the operator acts on what is shown.
* **Clocks.** The limiter's windows, the age of a signed timestamp and the end of
  a session are read off a wall clock, which may be set back.

### What correctness means, per component

* *Client and snippet*: a session lasts exactly as long as its visitor is active,
  and the visitor outlives it.
* *Pre-handler*: nobody gets more than the budget of a window, nobody is refused
  before it is spent, retry-after is long enough; the skew is what is configured.
* *Ingestion*: one inserter per event id; a job exists only for a stored event;
  what is acknowledged is stored; the counters add up; every call ends.
* *Queue and workers*: what is recorded as delivered was delivered; attempts are
  bounded by the policy; a duplicate has a reason; a queued delivery is concluded.
* *Replay*: one further delivery at most per replay and destination; an answer
  "ok" means the jobs are queued; a replay follows an original dispatch.
* *Read model*: the SQL filter on a status selects what the answer calls by that
  status; pages cover the list; the total fits the page.
* *Console*: the panel is about the event selected, comes to show its rows as they
  are, and resends nothing that was not shown as failed.
* *Configuration*: API and worker of one finished sync meet at one queue of one
  database; what was developed with can be deployed; the admin routes are open only
  where the environment says development or test.
* *Deletion*: what was not on its way to a destination when its event was deleted
  does not leave for it; no routing state outlives its event (it does: see findings).

## 2. The modules

| module | models | composes |
|---|---|---|
| `BrowserStorage` | localStorage and its failures, the pages of a site, the clock | |
| `TrackingClient` | the tracking client's safe storage and `track()` | `BrowserStorage` |
| `BrowserSnippet` | the snippet's `track()` | `BrowserStorage` |
| `BrowserTracking` | pages with either client, and their properties | `TrackingClient`, `BrowserSnippet` |
| `Deployment` | `env-sync.mjs`, the four files, what each process makes of its own | |
| `Admission` | pre-handler, rate limiter, admin guard, on a wall clock | |
| `ApiProcess` | the API from its environment file to its answers | `Deployment`, `Admission` |
| `DeliveryRows` | a row of `event_deliveries` and the three writes it knows | |
| `EventDatabase` | the two tables, one operator per SQL statement | `DeliveryRows` |
| `DeliveryQueue` | the BullMQ queue as the code uses it (external) | `DeliveryRows` |
| `TrackIngest` | `POST /track`, dispatch, counters, restart of the API | `EventDatabase`, `DeliveryQueue` |
| `RouterWorker` | processor, adapters' outcomes, 'failed' listener, restart of a worker | `EventDatabase`, `DeliveryQueue` |
| `DeliveryPipeline` | ingestion and workers together, with fairness | `TrackIngest`, `RouterWorker` |
| `DeliveryContract` | abstract: what the pipeline promises of each delivery | |
| `AdminReplay` | the replay handler | `EventDatabase`, `DeliveryQueue` |
| `TrackingSystem` | pipeline, replay and deletion | `DeliveryPipeline`, `AdminReplay` |
| `SystemContract` | abstract: what the whole system promises of deliveries, replays and deletions | |
| `EventReadModel` | list, count, detail and overall status over the tables | `EventDatabase` |
| `Console` | the events page over the read model, beside other writers | `EventReadModel` |
| `DeliveryPipelineProofs`, `DeliveryContractProofs` | theorems about `TrackIngest` and `DeliveryPipeline` | |
| `SystemProofs`, `SystemContractProofs` | theorems about `TrackingSystem` | |
| `AdmissionProofs`, `ApiProcessProofs` | theorems about `Admission` and `ApiProcess` | |
| `ConsoleProofs` | theorems about `EventReadModel` and `Console` | |
| `BrowserProofs` | theorems about `BrowserTracking` | |
| `MCIngest`, `MCPipeline`, `MCSystem`, `MCClient`, `MCAdmission`, `MCConsole` | values of the constants | |

A definition marked "Faulty variant" is a plausible error in the definition after
it. No specification uses one: it serves to see that a property notices the error.

### Correspondence with the code

`BrowserStorage`, `TrackingClient`, `BrowserSnippet`. Every `getItem` and every
`setItem` is a step, since nothing locks localStorage between two pages. `mode`
is what the store does with an access: `open`, `full` (a write throws) or
`closed` (every access throws). Where the store is `closed` a page may find itself
without a client (`Load`): the client asks for `localStorage` outside every try
(`tracking-client.ts:148`), so that its creation throws, but on a page that hands
over a storage which asks for it at each access. `memory` is the tracking client's
`MemoryStorage`, one per page and lost on reload; the snippet has none. The
clock is read once per call, when it begins. Sending the event, and what becomes
of it, changes nothing that is kept, so composing the event is the end of a
call. `expected`, `solo` and `known` are history.

`Admission`. `preHandleTrackRequest` and `createAdminAuthGuard` run without an
await, so a call is one step: `Unauthorized`, `Admit` or `Refuse`; `AdminOpen`
or `AdminGuarded`. A signature, a secret and a token are right or wrong. The
handler reads the clock twice on its way to a 429 (in the limiter and for
`retry-after`): `RetryAfterReachesNextWindow` quantifies over the second
reading. `Tick` and `SetBack` are the wall clock.

`Deployment`. The variables (`EnvKeys`) are those that a check, a start or the way
of a job depends on. `BeginSync` reads and checks the shared file, each
`WriteTarget` writes one file, `SyncStops` is a stop between two of them. A process
reads its file by dotenv or by docker-compose (`EnvOf`), and gets no variable from
elsewhere but `NODE_ENV` and `PORT`, which docker-compose sets over the file
(`InContainer`). `ApiStarts` is where `getConfig` does not throw, `WorkerStarts` where
`getRouterWorkerConfig` does not, with every parser's own idea of what is missing:
some test for an empty value (`Present`), some for a blank one (`Given`). `ApiQueue`
and `WorkerQueue` are the two copies of the code that turns a configuration into
Redis settings. What a reader makes of a line and a function of JavaScript of a
text (`trim`, `toLowerCase`, `Number`, `parseInt`, the path of a `URL`) are
constants: `ReadBack`, `Trim`, `Lower`, `Number`, `ParseInt`, `UrlDb`. Values of the
shared file are as `parseEnv` has them, which keeps quotes that a reader takes off.
Two kinds of shared files are left out: those with a quote that is not closed,
which a reader may close in a later line, and those with a `REDIS_URL` that is no
URL, on which neither process gets to run.

`TrackIngest`. `req[r].phase` is where the handler of a call is suspended:
`inserting` at the awaited insert, `continuing` once it has settled. `Reject` is
everything that answers before the insert (401 and 429 by the pre-handler, 415
and 400 by the handler), with the counter each of them records; `Accept` is a
call that is admitted and normalized, up to the sending of the insert. The
duplicate test is the SQL statement's (`on conflict do nothing`), so `Insert`
decides it atomically. `Respond` runs without interruption to the reply: it
starts one add per destination, which `adds` holds and nobody awaits
(`AddLands`, `AddFails`). `InsertError` covers an insert that committed although
its acknowledgement was lost. `ApiRestart` may happen at any moment and any
number of times. A call without an `event_id` gets one from the server; it is a
call whose event no other call carries.

`RouterWorker`. `run[w]` is a processor slot. Every `await` of the processor
ends a step: `Take`, `LoadEvent`, one of the three `Deliver...` actions,
`RecordDelivered`, then `Complete` or `Fail`. The three deliver actions are the
three things an HTTP request can come to; the adapters agree on how to classify
them (429 and 5xx and network errors retryable, other statuses and unusable
event data terminal), so one set of actions stands for all of them.
`RecordDelivered` may fail and is swallowed, as in the code. `notices` holds the
'failed' listeners whose write is under way. `accepted`, `unheard` and `starts`
are history variables: no action reads them.

A slot whose lock expires (`LockExpires`) is not told: it goes on, delivers,
records, and finds only in `Complete` or `Fail` that it no longer holds the job.
Slots are modelled as belonging to processes of their own; several slots in one
process (`concurrency`) differ only in that they stop together.

`AdminReplay`. One action per awaited call of the handler. The replay tag is the
time in milliseconds, so two replays may share one: `clock` advances or not.
A rejected `Promise.all` answers at once and leaves the other adds running, so
`QueueReplay` stays enabled after the answer.

`EventReadModel`. One operator per SQL statement and one per piece of TypeScript
that reads its rows. `OverallStatus` is the status of the answer, `StatusClause`
the clause of the list's `where` that means the same. `event_id` and
`destination` are compared as they are; `event_name`, between two `%`, and `source`
are patterns of `ilike`, and what matches them is a constant (`ILikeWithin`,
`ILike`). `event_name` as a sort field behaves like `event_timestamp`.

`Console`. A query's state is its cached answer and the fetch under way, per key,
as TanStack Query keeps them. `Visible` is the page's own filter over the answer, which
looks for a text in a text (`Includes`, a constant of which no more is assumed than
that a text is in itself). A list's two queries run on two connections
(`ReadCount`, `ReadPage`, either first), a detail's one after the other
(`ReadEvent`, `ReadRows`), and `DetailLands` is the arrival of its answer.
`Render` is what React does after each change: a button that is no longer on the
page, or whose key is another, loses the state of its click, and a call it made
goes on without it. `Refetched` is TanStack Query's `invalidateQueries`, which
cancels a fetch under way only if there are data already. The replay handler is
one step here (`ReplayHandled`), its own steps are `AdminReplay`'s. Write is
everybody else: ingestion, workers, other operators, deletion. `torn`, `old`,
`awaited`, `about`, `seen` are history.

### Assumptions about libraries

BullMQ, outside `src/`: an add with a known id does nothing; a job is retried
until `attemptsMade` reaches `attempts`, whatever the error (the code never
throws BullMQ's `UnrecoverableError`); `attemptsMade` is incremented before
'failed' is emitted; a stalled job returns to the queue at most
`maxStalledCount` times and then fails with an error of the library, for which
'failed' is emitted by whichever worker noticed. Not modelled: the back-off (a
delayed job is a waiting one), and `removeOnComplete`/`removeOnFail`, which drop the
oldest of thousands of finished jobs, after which an id could be added again.

TanStack Query, likewise: one fetch per key at a time, an answer kept when a
later fetch fails, and invalidation as above. Not modelled: retries inside one
fetch (a failure is what is left after them) and the removal of a cached answer
that was not shown for five minutes.

## 3. The runs

| run | what it explores | what it shows |
|---|---|---|
| `ingest` | 3 calls, 2 events, 2 destinations | `AtMostOneInserter`, `JobsFollowTheEvent`, `CountersBalance`, and `CallsEnd` under fairness |
| `pipeline` | 1 delivery, 2 slots, 3 attempts, 1 stall | `DeliveredIsTrue`, `StartsWithinBudget`, `DuplicatesExplained`, `AttemptCountBounded`, `DeliveryTimeKept`; that the pipeline implements `DeliveryContract` (`ImplementsContract`), under fairness with its liveness: what is queued is concluded (`FulfilsContract`) |
| `system` | 1 delivery, 1 slot, 2 operators, 1 deletion at any time, any number of times | `EveryDuplicateExplained`, `ReplaysFollowTheOriginal`, `ReplayAnswerIsTrue` |
| `resend` | 1 delivery, 1 slot, 2 calls with the same event, 1 operator, deletion at any time, any number of times | `KeepsSystemPromise`: the whole system implements `SystemContract` |
| `client` | 2 pages of a site, both clients, a store that fills up, is cleared, closed or opened again | `SessionsFollowActivity`, `VisitorKept` |
| `admission` | seven contents of the shared file, env-sync and its stops, two places to start, 2 callers, 6 readings of a clock that may be set back | `BudgetKept`, `RefusedOnlyWhenSpent`, `RetryAfterReachesNextWindow`, `SkewHoldsInBothUnits`, `SyncedProcessesShareQueue`, `DeployedAsDeveloped`, `AdminOpenOnlyInDevelopment` |
| `console` | 2 events, 2 destinations, 3 filters, 2 clicks, 1 disturbance | `FilterMeansStatus`, `PagesCoverMatches`, `TotalFitsPage`, `HiddenByTimeOrWildcard`, `PanelOfSelection`, `HintsOfTimelineAreOwn`, `ResendsOnlySeenFailed`, `RefreshShowsReplay`, and `PanelCatchesUp` under fairness |
| `failed_row`, `replayable`, `delivered_row`, `orphan_rows`, `client_session` | as above | a sentence of the documentation that the code does not keep (section 6) |

Each passing run but `resend` also checks the type invariant of its modules.

### Bounds

* `ingest`. Three calls with two events: two calls that race for one event and a
  third that either joins them or carries the other event. Two destinations: an
  add that lands beside one that fails.
* One delivery in the pipeline: rows and jobs of different deliveries share no
  state but the slots, and two slots are what a stall needs (the one that lost the
  job and the one that took it again).
* Three attempts: with fewer the listener, which counts one attempt too many,
  never writes `retrying`.
* `MaxStalls = 1` is BullMQ's default. In `system` and `resend` it is 0, to leave
  room for replays: the first stall already fails the job.
* Attempts and stalls bound every counter of the pipeline: no counter has an
  artificial bound. In `TrackIngest` the number of calls bounds the counters; in
  `AdminReplay` the set `Tags` bounds the clock (one value per operator).
* `client`. `MaxCalls = 4` calls and incidents together: two events that disagree
  need two calls, what disturbs them another page's call or an incident, and the
  recovery a fourth. `Timeout = 2` with `MaxClock = 2` puts calls before and
  exactly at the end of a session.
* `admission`. A window of three readings and six readings are two windows, with
  a reading inside each; `MaxRequests = 2` is a budget that one call does not
  spend; `SecondMs = 2` makes a second coarser than a reading, so that rounding
  shows, and all readings lie beyond `SecondsLimit` while the same times in
  seconds lie below. `MaxSetbacks = 1`: the clock is set back once, by any amount.
  `MaxEdits = 2` edits of the shared file: one between two files of a sync, one
  between that sync and the next. The shared files: a developer's, whose `REDIS_DB`
  stands beside a URL without a database; a server's, with signing, a quoted secret
  and a token; a test's; one whose queue has a `#` in its name, which dotenv and
  docker-compose read differently; one with a blank token, on which no API starts;
  one on which no worker starts; and one that the check refuses. Booleans and
  modes come in the spellings the parsers accept, numbers with and without a rest. `AtFirst`, `CallsExplored` and
  `DeploymentExplored` keep two independent halves apart: calls are made of the
  first deployment, which may have any configuration, and files change as long as
  no call has been made. A call reads nothing but configuration and clock, and no
  file depends on a call.
* `console`. `PageSize = 1` with two events makes two pages. The events of the
  second database have one `created_at`, so that the order of a page rests on
  `event_id`, and `event_timestamp`s in the opposite order. One filter is empty,
  one sets a status, a date, a source and the other sort column, and one a name
  whose `_` matches the other event's name as well; `PagesCoverMatches`
  and `FilterMeansStatus` are evaluated in every state. `MaxClicks = 2` clicks
  are two filters, two pages, two selections, two replays, or one of each in any
  order; `MaxDisturbances = 1` is a write by somebody else or a request that
  fails; what others write, they write to `Written`. `Opened` is the event at
  whose address the page may be opened. `part` says whether a behaviour looks
  through the list or works in the panel: in the second the list is read in one
  step (`ReadList`), in the first there is no panel to select.
* `resend` has the second call that `system` lacks, and one operator less. The two
  calls carry the one event: together, or one after the deletion of what the other
  stored, while its add, its job, a replay or the slot that loaded it is still at
  work. One delivery is what an order, its replay and the event's deletion meet at.
* `system` and `resend` have a `VIEW` that leaves out `metrics`, which no guard and no
  property of these runs reads. Their symmetry permutes operators or calls, which
  no definition distinguishes, the refinement mapping included. No run with a
  liveness property uses symmetry.
* `CHECK_DEADLOCK FALSE` in all runs but `console`: clients and operators make
  finitely many calls, and when all is answered and delivered the system rests;
  in `admission`, a shared file that lacks a required line and may not be edited
  any more leaves an operator with nothing that starts. The console always polls,
  so its run checks that nothing ever stops it.

### Fairness

`IngestFairSpec` and `DeliveryPipeline!Fairness` assume weak fairness of: the
continuation of a handler whose await settles; the settling of an add; the next
step of a slot; the taking of a waiting job by some slot; and the expiry of a
lock once no slot works on its job. The first three are what the Node.js event
loop and the clients of PostgreSQL, Redis and HTTP give while the three can be
reached: `fetch` has undici's default time-outs (the code sets none of its own),
but an add waits as long as Redis is away, since `maxRetriesPerRequest` is `null`
(`delivery-job-dispatcher.ts:97`). The fairness of adds and of a worker's steps
therefore assumes that Redis comes back; of an outage that never ends `CallsEnd`
and `FulfilsContract` say nothing. The fourth is BullMQ's blocking fetch. The
fifth is its stalled-job check. A lock under a slot that still works may expire or
not. Nothing is assumed of clients, vendors, restarts or the success of any operation.

`Console!ConsoleFairness` assumes that the queries of the page that is open are
polled (`refetchInterval` of 15 seconds for the list and 5 for the detail) and
that a request of theirs ends, well or badly. Nothing is assumed of the operator,
of replays under way, or of queries that are no longer shown. `PanelCatchesUp`
speaks of tables that no longer change; the bound on disturbances makes every
behaviour one of those.

## 4. The abstract specifications

`DeliveryContract` knows events, and for each delivery a stage (none, owed,
delivered, abandoned), how often the destination took it, and whether a delivery
time is on record. `DeliveryPipeline` instantiates it with the refinement
mapping of `Contract`: the stage is read off the original job's state, `taken`
is the history of accepted requests, `recorded` is `delivered_at`.
`ImplementsContract` is the safety part, `FulfilsContract` the whole. The
contract does not promise that a stored event is ever owed, because the code
does not: see `StoredEventIsReplayable`.

`SystemContract` is the contract of the whole system. Its units are orders: an
event, a destination and a tag, the original's or a replay's; `SystemPromise` in
`TrackingSystem` maps a job to each. It says more than `DeliveryContract` of how a
delivery gets to the vendor (picked up, carried, dropped or handed over), because
a deletion may come between: a `PickUp` needs the event to be stored, a `HandOver`
does not, so that after a deletion there arrives at most what was on its way. All
that is picked up or has arrived is within the attempts and stalls of the orders
placed so far. `Conclude` as delivered needs an arrival that no other order of the
delivery was concluded on. A replay's order needs the original's. `Reopen` and
`Delete` are the only ways for a delivery time to go off the record.

An order may be placed for an event that was deleted meanwhile, because calls and
adds under way do not look back: `met` (the code's `Admitted`) is what is stored,
or was when a call, an add or a job of it that is still there began. `Forget` is the
loss of such a leftover, as by a failed add. What the contract does not promise, since
the code does not give it: that a deleted event that is sent again is delivered again
(its order was placed before, and the queue remembers it).

`Admission` knows a process that starts with any configuration at all and stops
at any moment. `ApiProcess`, in which a start depends on files, places and
env-sync, implements it (`ProcessImplementsAdmission`), so that what is proved of
the limiter holds of every deployment.

## 5. The proofs

Eight modules, about every value of the constants that satisfies the named
ASSUMEs: any sets of events, destinations, callers, pages of a site and readings
of a clock, finite where the module counts them, any finite sets of calls and of
slots, any policy of attempts, limit, window and timeout. The bounds of section 3
are constants or named guards, and the theorems hold for all values of the
constants among them. Every safety property that a passing run checks is a
theorem.

The assumptions say what the code says: a limit and a window are positive, a page
of the list has 1 to 100 rows (`PageSizeAssumption`, the route's own limits), times
in milliseconds lie above `SecondsLimit` and the same times in seconds below
(`UnitsAssumption`: the code tells the units apart by that), and what stands for
"none" is no value (`NoValueAssumption` and its like). Of parsers and readers of
text the proofs use only that a reader returns a text, that the port which
docker-compose sets is a positive number, and that a text is in itself.

### The pipeline

`DeliveryPipelineProofs` and `DeliveryContractProofs`, about `Spec` of
`DeliveryPipeline`, the last two about `IngestFairSpec` of `TrackIngest`:

| theorem | states |
|---|---|
| `TypeCorrect` | `TypeOK` |
| `DispatchFollowsInsert` | `JobsFollowTheEvent` |
| `OneInserter` | `AtMostOneInserter` |
| `DeliveredTruly` | `DeliveredIsTrue` |
| `BeginsWithinBudget` | `StartsWithinBudget` |
| `AttemptNumberBounded` | `AttemptCountBounded` |
| `DeliveryTimeStays` | `DeliveryTimeKept` |
| `InvariantAlways` | the inductive invariant `IInv` they follow from |
| `DuplicatesHaveReasons` | `DuplicatesExplained` |
| `PipelineImplementsContract` | `ImplementsContract` |
| `CountersAddUp` | `CountersBalance` |
| `IngestAloneTyped` | `IngestAloneTypeOK` |
| `IngestAloneSafe` | `AtMostOneInserter`, `JobsFollowTheEvent` and `CountersBalance` |

The argument has six layers.

1. `TypeInv`: types alone are not inductive. A call in its handler must have an
   event and a slot at work must have a job, or `Insert` would store, and `Fail`
   report, something that is none.
2. `IngestInv`: `JobsFollowTheEvent` rests on a fact about handlers in the
   middle: one that goes on after its insert has its event in the table, whether
   it inserted it or found it. `AtMostOneInserter` rests on the same fact: an
   insert reports `inserted` only for an event not yet in the table, and every
   earlier inserter's event is.
3. `WorkInv`: `StartsWithinBudget` needs to know, of each job, that it was begun
   once per attempt counted, once per stall and once for the attempt under way,
   and that a job that may still run has an attempt and a stall left
   (`BudgetInv`). `DeliveredIsTrue` needs to know that a slot about to record or
   complete has seen its delivery taken, whether or not it still holds the job
   (`SlotsInv`). `AttemptCountBounded` needs the same of the listeners' counts
   (`NoticesInv`).
4. `TallyInv` counts licences. `EveryDuplicateExplained` allows one delivery per
   lost response and one per licence: every job of the delivery has one of its own
   and one for each time it stalled. That is not inductive: it does not say who
   may deliver next. A stray slot (`Stray`) has lost its job's lock and may still
   deliver. A licence is paid (`Paid`) once the stall it stands for has happened or
   the holder of the job's lock may have been heard (`Heard`). `TallyInv` says that
   what was accepted and the stray slots together are within the lost responses
   and the paid licences. A delivery that is heard pays the licence of its job; a
   stall makes a slot stray and brings a paid licence; a stray slot that delivers
   stops being stray. No step is about more than one job (`WorkTouchesOneJob`), so
   the count of one delivery changes by one element at a time (`StraysMove`,
   `PaidStays`). `DuplicatesExplained`, for the original job alone, follows.
5. `CInv` (`DeliveryContractProofs`) counts slots. The slots ahead of a delivery
   (`Ahead`: loading or delivering, whether they hold the job or not) were each
   begun and have not delivered yet, so what was delivered plus what still may
   be is within the starts (`TakenInv`); with `StartsWithinBudget` this is the
   contract's budget, at the moment a slot hands over. The refinement then takes
   one lemma for the steps of the contract (`ContractSteps`), one for the ingestion
   and one for the workers, each with one step per action.
6. `CountersBalance` counts handlers: a call enters its handler in the step that
   counts it as a request and leaves it in the step that counts its outcome
   (`HandlersMove`), and a restart takes counters and handlers together.

### Replay and deletion

`SystemProofs`, and for the last one `SystemContractProofs`, about `SystemSpec` of
`TrackingSystem`:

| theorem | states |
|---|---|
| `SystemTyped` | `SystemTypeOK` |
| `SystemInvariant` | the inductive invariant `TypeInv /\ ReplayTypeInv /\ WorkInv` |
| `SystemDeliversTruly` | `DeliveredIsTrue` |
| `SystemBeginsWithinBudget` | `StartsWithinBudget` |
| `ReplaysAfterDispatch` | `ReplaysFollowTheOriginal` |
| `AnswersAreTrue` | `ReplayAnswerIsTrue` |
| `DuplicatesHaveReasonsStill` | `EveryDuplicateExplained` |
| `SystemKeepsPromise` | `KeepsSystemPromise`: the whole system implements `SystemContract` |

`WorkInv` is the pipeline's: of a job, an add by a replay is the same step as one
by the ingestion, of a row, a replay's update and a deletion only take away what
the invariant speaks of (`OthersKeepWorkInv`). `IngestInv` is not kept: a deletion
leaves jobs without their event. `OriginalInv` says that slots, listeners and
replays in their handler are of deliveries whose original job was added: without
it a late write could make a row, and a replay of that row a job. `Queued` says of
a replay that has not failed that what it selected is queued or still to be
queued; a second add of the same id, which does nothing, keeps it. `TallyInv` is
the pipeline's again (`OthersKeepTally`): a replay brings a job, with its licence,
and neither a replay's update nor a deletion touches a job, a slot or a delivery.

The refinement of `SystemContract` rests on `SystemInv`, `OriginalInv` (an order of a
replay comes after the original's, and is of an admitted event) and `ShareInv`, which
counts per delivery, over all its jobs. A delivery made, or still ahead of a slot
(`AheadOf`), has a start of its own (`Begun`), and `StartsWithinBudget` makes the starts
of n jobs at most n times the attempts and stalls: so a slot that is about to carry
the delivery has room for it (`RoomToCarry`), although jobs share a row and a slot may
have lost its lock. And the jobs that completed, or that a slot saw delivered
(`Received`), are no more than the deliveries, so a job that completes has an arrival
that no completed job used (`RoomToComplete`). The contract's actions are restated
as lemmas about what they see (`PromiseForgets` to `PromiseRecords`); then one lemma
per part of the system has one step per action.

### The pre-handler and the process

`AdmissionProofs` about `AdmissionSpec`, `ApiProcessProofs` about `ProcessSpec`:

| theorem | states |
|---|---|
| `LimiterInvariant` | the inductive invariant `LimiterInv` |
| `AdmissionTypeCorrect` | `AdmissionTypeOK` |
| `LimiterKeepsBudget` | `BudgetKept` |
| `RefusalsAreDue` | `RefusedOnlyWhenSpent` |
| `RetryAfterIsEnough` | `RetryAfterReachesNextWindow` |
| `ProcessImplementsAdmission` | `ProcessSpec => AdmissionSpec` |
| `ProcessKeepsBudget` | the three properties of the limiter, of the process |
| `SyncInvariant` | the inductive invariant `SyncInv` |
| `SyncedShareQueue` | `SyncedProcessesShareQueue` |
| `DeployedLikeDeveloped` | `DeployedAsDeveloped` |
| `AdminClosedByDefault` | `AdminOpenOnlyInDevelopment` |
| `SkewIsRespected`, `ProcessRespectsSkew` | `SkewHoldsInBothUnits`, of the handler and of the process |
| `ProcessTyped` | `ProcessTypeOK` |

`LimiterInv`: the admissions of this window are within what the caller's bucket
has consumed, if the bucket is of this window, and none otherwise
(`CountedInBucket`); of later windows there are none (`LaterWindowsEmpty`: this is
why a bucket that is opened afresh does not admit too much); while the clock was
never set back the bucket holds exactly the admissions (`BucketsExact`: this is
why a refusal is due); and what a stopped process had is lost (`StoppedEmpty`).
`SyncInv`: the files a run has written are copies of what it loaded. From it
`SyncedEnvs` says what each process finds after a finished sync, variable by
variable: what its reader makes of the shared file's line where its file has one,
and nothing where it has none. For `SyncedShareQueue` what remains is that `REDIS_URL`
and `ROUTER_QUEUE_NAME` have a line in all three files and `REDIS_DB` in the API
workspace's only; for `DeployedLikeDeveloped` that whatever decides about a start in
a workspace and has no line on the server is not tested there, but for the token.
`ServedInv`:
what answers a call is the configuration of the environment that was read, and no
start finds `NODE_ENV` missing, although `getConfig` would take that for
development. `PlaceInv` adds where a sync stands and that the API has a
configuration exactly when it has an environment. `SkewHoldsInBothUnits` rests on
one lemma about the two divisions (`StampIsUnderstood`): what the code makes of a
timestamp is within a second below the time that was signed, and equal to it in
milliseconds.

### The console

`ConsoleProofs`, about `ConsoleSpec` of `Console`:

| theorem | states |
|---|---|
| `FilterIsStatus` | `FilterMeansStatus` |
| `ConsoleInvariant` | the inductive invariant `ConsoleInv` |
| `ConsoleTyped` | `ConsoleTypeOK` |
| `PanelShowsSelection` | `PanelOfSelection` |
| `HintsAreOwn` | `HintsOfTimelineAreOwn` |
| `ResendsWhatWasSeen` | `ResendsOnlySeenFailed` |
| `RefreshIsFresh` | `RefreshShowsReplay` |
| `HidesByTimeOrWildcard` | `HiddenByTimeOrWildcard` |
| `PagesCoverAll` | `PagesCoverMatches` |
| `TotalsFit` | `TotalFitsPage` |

`ConsoleInv` has a part for the tables, the list's cache, the page, the detail's
cache and the buttons. `DetailInv` says that what is cached or fetched under an
event's key is of that event, and that after a refreshed replay nothing old is
under way (`AwaitedFresh`). `ButtonInv` says what a button that is on the page
knows of its calls: beside a destination, a success shown and a call still awaited
are of the event shown, and a call names nothing that was not shown as failed.
`FitInv`, beside it, says that what was read under a key passes the page's own
filter for that key, but for its own timestamp and for a text that only the API's
pattern matches: here the SQL and the TypeScript of the status meet
(`FilterIsStatus`).

`PagesCoverMatches` rests on lemmas about the list's statement. The order of a list, a column and
then `event_id`, is a strict total order of the rows (`OrderIsTotal`), so the number
of matching rows before a row is a bijection from n rows to 0..n-1
(`RankIsBijection`, by counting: it is injective, into a set of the same size), and
limit and offset cut that interval (`PageHolds`, `PagesPartition`). For
`TotalFitsPage`, `FetchCurrent` says of a fetch that no write has torn that the
answer it holds to its first query is what the tables would still answer.

### The browser

`BrowserProofs`, about `Spec` of `BrowserTracking`:

| theorem | states |
|---|---|
| `BrowserTyped` | `BrowserTypeOK` |
| `SessionsAlwaysFollow` | `SessionsFollowActivity` |
| `VisitorAlwaysKept` | `VisitorKept` |

`BrowserInv` has nine parts, each resting on those before it.

1. `TypeInv`: in each phase of a call, which of its values are there; all pages
   run the same client; no call's time is later than the clock.
2. `SoloInv`: a call that nothing disturbed is the only one under way, and the
   clock still shows its time.
3. `IdsInv`: what is stored, remembered or expected is older than the call under
   way (`OldInv`), and the ids of the call are nowhere yet (`NewInv`). Without it a
   new session could be the expected one by chance, and a session that should
   have ended would seem to go on.
4. `CopyInv`: the anonymous_id that a page has read and that is still in
   localStorage is in the page's memory. This is what saves the visitor when access
   is withdrawn.
5. `OwnInv`: what an undisturbed call has read or written is in the store it uses.
6. `SharedInv`: pages that share the store agree on the event to continue.
7. `VisitorInv`: the store has that event's anonymous_id, and no page that expects
   one is about to store another. A page that is about to found none, so it expects
   none, nor does any page that shares the store (`SharedInv`).
8. `SdkSessionInv`: the store has that event's time, and its session unless that has
   ended: a call that was cut short after its first write has then replaced it,
   and its time is still the old one. A call that has read is on its way to the
   right decision.
9. `SnippetSessionInv`: the snippet's one item is that event's session and time.

A store that is `full` is left out of the parts that say what the store holds: there
the tracking client does not keep the session (`client_session`).

### Only model-checked

* Everything about liveness (`CallsEnd`, `FulfilsContract`, `PanelCatchesUp`): out of
  the prover's reach.

## 6. Findings

Five statements of the documentation that the code does not keep; each has a run
that exhibits a behaviour.

* `failed_row`. *"Final failure moves job to DLQ or failed status table"*
  (`docs/02-architecture/event-flow.md:35`). A terminal error, and the
  last but one retryable error, are recorded as `failed` while the queue still
  retries the job.
* `replayable`. *"Stored event remains canonical and replayable"*
  (`docs/02-architecture/event-flow.md:36`). A stored event whose dispatch was
  lost has no delivery row; a replay updates existing rows only.
* `delivered_row`. *"confirm eventual success or DLQ transition is recorded"*
  (`docs/09-testing/integration-tests.md:27`). The 'failed' listener of an
  earlier attempt can overwrite the success.
* `orphan_rows`. *"delete-by-user requests must remove routing state before
  canonical event rows"* (`docs/08-security/privacy-and-gdpr.md:22`). A worker
  under way writes the row of an event that has been deleted.
* `client_session`. *"keep the session stable across active navigation until the
  inactivity window expires"* (`docs/06-frontend/tracking-sdk.md:28`). On a store
  that can be read but not written, the tracking client writes its fallback copy
  and never reads it, so that every event carries a session and a visitor of its
  own. (A code error: the fallback is there for this case.)

Observed while modelling, without a run of their own:

* `env-sync.mjs` has no line for `ADMIN_API_TOKEN` in the file it writes for the
  API's workspace, and does not require it for `deploy/app`: `env:check` passes
  and the API refuses to start outside development and test. `DeployedAsDeveloped`
  says that this is all that keeps an API that starts in its workspace from
  starting on a server.
* The API and the worker have a copy each of the code that makes Redis settings of a
  configuration, and the copies differ: beside a `REDIS_URL` without a database the
  API honours `REDIS_DB` (`delivery-job-dispatcher.ts:94`), the worker passes it over
  (`redis-connection.ts:24`) and would have no line for it in its file either
  (`env-sync.mjs:26` is of the API's workspace only). With `REDIS_DB=1` the one adds
  to a queue that the other does not take from, although both point at the same
  `REDIS_URL`, which is what `docs/07-ops/runbooks.md:153` says to confirm.
  `SyncedProcessesShareQueue` says that it is the only way to this end.
* `env:check` tests `ROUTER_WORKER_CONCURRENCY` for being there only: with a value that
  is no positive number it passes, and no worker starts.
* Where reading `localStorage` throws, `createTrackingClient` throws
  (`tracking-client.ts:148` is outside its tries), against `docs/06-frontend/tracking-sdk.md:46`,
  *"do not throw uncaught errors in the page runtime"*.
* A replay whose update was committed and whose adds fail answers with an error and
  leaves rows that say `retrying` with no job behind them. No later replay selects
  them: one with destinations passes over `retrying`, one without takes `failed`.
* The API is built without `trustProxy`, and the limiter's key is `request.ip`:
  behind the proxy of `deploy/` all callers share one budget.
* The console's own `nginx.conf` does not set `underscores_in_headers`, without
  which nginx drops the `ADMIN_API_TOKEN` header; `deploy/vps/README.md:83` says so
  of the outer proxy.
* The panel's button for all failed deliveries has no key: it keeps "Replay
  queued." when the operator goes on to another event with failed deliveries, and
  shows it too after a 200 that replayed nothing. `HintsOfTimelineAreOwn` is
  therefore stated of the timeline's buttons only.
* The console looks for its text filters as a part of an event's text, whatever the
  case. The API takes an `event_name` as a pattern anywhere in the name and a
  `source` as a pattern of the whole (`postgres-event-read-repository.ts:141-149`), and
  an `event_id` and a `destination` as they are. So what the operator types as part
  of a source finds nothing, and `google_ads` finds `google-ads`, since `_` stands for
  any character, which the page then hides.
* The worker rejects database 0 in `REDIS_DB`, which the API accepts; but `env-sync`
  writes `REDIS_DB` to no file of a worker.

## 7. What is not modelled, and why

* **Destination payloads, wording, logging, CORS.** The adapters are modelled by
  what a delivery can end in. No property is about the contents of a request.
* **The rest of the console**: the dashboard, the form that sends a test event and
  the health widget each show one answer and keep nothing; the page's sort of the
  rows it has; where the token is stored.
* **Migrations**: every statement is guarded with `if not exists` and each file is
  one transaction, so that a run after one that stopped applies the rest. There
  is no state beyond which files were committed.
* **Conversion parity check**: a pure computation on two files given on the
  command line. **Deletion validation script**: a sequential test in a transaction
  that is always rolled back; the statement it tests is `DeleteByUserId`.
  **CI workflow**: no code of the system.
* **The retention of finished jobs**: a job id stays known for ever here. In the code
  it may be added again after thousands of other jobs have finished, by a deleted
  event that is sent again.
* **The worker without `DATABASE_URL`**, in which every job fails for want of its
  event, and the API without `REDIS_URL`, which stores events and
  dispatches none.
* **`REDIS_HOST`, `REDIS_USERNAME`, `REDIS_PASSWORD`**: they count where `REDIS_URL` is
  not given. `env:check` requires it, and a worker's file has no line for them.
* **`event_id_like`**, a filter of the list that no caller uses.
* **Memory**: the limiter's buckets are never dropped. The model's are a function
  of a fixed set of callers.
* **The number of a poll, the back-off of a retry, the minutes of a cache**: time
  appears where a decision compares two readings of a clock, and nowhere else.
