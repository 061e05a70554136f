# A TLA+ model of COSTORAH

COSTORAH (AI-FinOps) meters what an organization spends on AI providers.  Usage
events are produced by SDKs inside the customer's application and by a
monitoring agent, travel to an ingestion API, become usage and cost records, and
are summed up per day for dashboards, budgets and alerts.  A scheduler inside
the API polls the providers as well; people reach all of it through accounts,
workspaces and a dashboard that is kept up to date live.

Two promises shape the project.  *An event that was accepted is counted exactly
once, whatever threads, crashes, retries and concurrent transactions do on the
way*: at-least-once delivery on the producers' side and idempotent recording on
the server's side are meant to add up to it.  And *what crossing requests leave
behind is what somebody asked for*: nearly every handler of the backend reads
rows in one statement and writes them in another at READ COMMITTED, without a
lock.  The modules below model the components that carry these promises; TLC
checks small instances of them, and TLAPS proves what matters most for all.

Paths are relative to the repository; `reliability/` stands for
`sdk/python/costorah/reliability/`, `agent/` for
`monitoring-agent/costorah_agent/`, `app/` for `backend/app/`.

## 1. Inventory

`PROJECT.json` lists every component with its sources, and the hazards with
their lines.  In the table, P marks a component with theorems.

| Component | State and operations | What is hard | Correct if | Module |
|---|---|---|---|---|
| Circuit breaker of the SDKs | state, failures, probes, successes, time of opening; `allow_request`, `record_*` | calls admitted in one period report in another; one need not report at all | probes bounded, a closed circuit below its threshold, only the timeout ends "open", no slot lost | `BreakerState`, `CircuitBreaker` P |
| Python SDK pipeline (`reliability/`) | bounded deque, SQLite table, batch between the two, gather; `put`, worker pass, `flush`, `shutdown` | hand-overs of several steps, lost answers, a connection closed under the worker, a process that dies anywhere | events neither copied nor lost, rejections final, every event settles | `SdkWorker` P |
| JavaScript SDK pipeline | the same on one event loop: a Map mirrored to an append-only log by promises | the log lags, tears and can stop for good; waiters; compaction | `AtLeastOnceDelivery`; `flush()` answers the truth | `JsSdk` P |
| Instrumentation of both SDKs | wrappers patched into provider libraries | instances that stack, overlap, stream, leave in the wrong order | each instance reports each call once; libraries restored | `Instrumentation` P |
| Agent pipeline (`agent/`) | `asyncio.Queue`, SQLite store, two tasks; collect, `run_once`, `shutdown` | SQLite calls outlive the cancelled task; the same event is collected twice | one row per event, rows leave after an answer, events settle | `AgentPipeline` P |
| Ingestion (`app/api/v1/ingest.py`) | usage records, daily summaries; one transaction per request | READ COMMITTED, unique constraints with NULLs, announcing before the commit | an id recorded once, counted once, stored when answered | `UsageIngestion` P |
| Sync scheduler | in-process guard, semaphore, Redis lock per organization, ticks, jobs | several processes, awaits between check and act, locks that expire | one sync per organization at a time, due organizations synced | `SyncScheduler` P |
| Usage collection (`app/usage/`) | events, checkpoint; runs over windows, pages, cursors | a run is one transaction; overlapping runs; errors swallowed; late usage | the checkpoint passes nothing that was not stored | `UsageCollection` P |
| Normalising and pricing | event and cost rows under derived identities, prices in versions | collecting again, two connections, crossing edits of prices | a row shows the last figures; costs match figures and a price in force | `UsagePricing` P |
| Budgets and alerts | spend, alert rows, suppressions; evaluate, fold, acknowledge ... reopen | concurrent transactions over a limit; occurrences racing people | overruns noticed, alerts count what happened, only people reopen | `Alerts` P |
| Realtime events | replay buffer, one dispatch task per process, bounded queues | full queues, reconnects, outages, replay racing live events | no unexplained gap; clients catch up | `Realtime` P |
| Accounts (`app/auth/`) | user row, sessions, one-time links | requests that read a row another is changing | the owner keeps a way in, and only the owner | `Accounts` P |
| Google sign-in | signed state, cookie, codes, callbacks | restarts, replays, other browsers, lost answers | a flow ends once, where and for whom it began | `GoogleSignIn` P |
| Memberships, invitations | members, roles, invitations of a workspace | owners are counted, then changed | an owner remains; one way in per address | `Memberships` P |
| Rate limits | windows and lockouts in Redis or in memory | count, then add; Redis failing in between | limits hold up to the requests that crossed | `RateLimits` P |
| Provider connections | connection rows, settings bag | a row is read, a provider called for seconds, the row written | the columns of a row tell one story | `ProviderConnections` P |
| Provider calls, playground | retries, time-outs, executions, usage events | paid calls in a transaction that may roll back | recorded spend is real | `ProviderCalls` P |
| Dashboard reads | cost records; several statements per answer | each has a snapshot of its own | the parts add up | `DashboardReads` P |
| Dashboard session | tokens in tabs and shared storage, rotation | parallel refreshes, reloads, lost answers | a session nobody ended is kept | `DashboardSession` P |
| Dashboard live updates | socket, live store, debounce, polling | frames and timers of a torn-down socket | only the organization on display; charts catch up | `DashboardLive` P |

Not modelled:

| Part | Why |
|---|---|
| Collectors of the agent (`agent/collectors/`) | polling cursors over provider APIs; their events are the inputs of `AgentPipeline`; planned |
| Email | rendering, and calls to an external service |
| Database tools, migrations, configuration | start-up wiring without concurrency; the tables and unique constraints are modelled where they bite |
| Pages of the dashboard, website | user interface |
| `app/providers/.../BackgroundCollectionFramework`, the task registry of `/usage/collect` | not reached from the application, or memory that nothing reads back |
| Profiles, preferences, projects, API keys as rows, alert preferences | single-row CRUD |

### How the parts interact

    application --track()--> SDK ---\
       (Instrumentation)             POST /v1/ingest/usage --> ingestion --> records, summaries
    provider --poll--> agent -------/                              |   \--> budget check --> alerts
                                                                   +--> usage.created --> realtime
    scheduler --job--> connection --> collection --> events, cost records  --> dashboard reads
    people --> account (password, Google) --> workspace --> dashboard session, live view

SDK and agent rely on ingestion being idempotent per request id; ingestion
relies on them sending again after an error.  The breaker is part of the SDK's
worker.  Scheduler, collection and pricing share the database and meet in one
job: `SyncScheduler` models who runs it, `UsageCollection` what it passes,
`UsagePricing` what it writes.  A budget check runs inside the ingesting
transaction.  Accounts and memberships meet where an account is closed.

## 2. Modules

| Module | Composes |
|---|---|
| `AtLeastOnceDelivery` | the abstract pipeline: what is accepted is buffered, stored, received, rejected or dropped |
| `BreakerState` | the fields of a breaker and what its methods do to them, for both SDKs |
| `CircuitBreaker` | `EXTENDS BreakerState`: the breaker and the calls it admits |
| `SdkWorker` | `EXTENDS CircuitBreaker`; implements `AtLeastOnceDelivery` |
| `JsSdk` | `EXTENDS BreakerState`; implements `AtLeastOnceDelivery` |
| `AgentPipeline` | implements `AtLeastOnceDelivery` |
| the other components | one module each, as in the table above |
| `MCSdkWorker`, `MCBackend`, `MCClients` | instances for TLC: symmetry, and which component a behaviour runs |
| `*_proofs` | the theorems: `SdkWorker_proofs` about `CircuitBreaker`, `SdkWorker` and `Instrumentation`, `Clients_proofs` about `JsSdk` and `AgentPipeline`, `UsageIngestion_proofs` about `AtLeastOnceDelivery` and `UsageIngestion`, `Providers_proofs` about `SyncScheduler`, `UsageCollection`, `ProviderConnections`, `ProviderCalls` and `UsagePricing`, `Workspace_proofs` about `Accounts`, `Memberships`, `GoogleSignIn` and `RateLimits`, `Notifications_proofs` about `Realtime` and `Alerts`, `Dashboard_proofs` about `DashboardSession`, `DashboardLive` and `DashboardReads` |
| `SumLemmas` | what sums over finite sets do, for the proofs about windows, occurrences and totals |

Components that share no state are checked side by side: in `MCBackend` and
`MCClients` a variable `focus`, chosen at the start, says which component a
behaviour runs, and the others stay in their initial state.  Steps of components
without common variables commute, so nothing is lost, and one run answers a
question for all of them.

How a module corresponds to the code is said in its head comment and, line by
line, in the `map` of `PROJECT.json`.  Conventions they share:

- An action is a handler, or the part of it between two points where somebody
  else can act: an `await`, a lock, a SQL statement another transaction can see
  or wait for.  Everything the code does in between is in the same action.
- PostgreSQL, Redis, Google, the providers and the browser are external and
  modelled by what the code in `src/` relies on: READ COMMITTED, unique
  constraints (NULLs included), row locks, deadlocks that are broken, lost
  answers.
- History variables (`stale`, `doubled`, `overlapped`, `unguarded`, `unsaved`,
  `overtaken`, `hushed`, `gone`, `grants`, `admitted`, ...) only record what a property compares with;
  no guard of a code action reads them.
- Definitions under `Mutation:` are plausible bugs (a dropped guard, an
  off-by-one, a missing reset, a swapped order).  No specification uses them;
  `mutants` in `PROJECT.json` says which property each of them violates.

Notes on single modules:

- **CircuitBreaker, SdkWorker.**  Each breaker action is one critical section of
  its lock; `timer` abstracts the clock.  `SdkWorker` has one variable per stage
  and per fate of an event; `executemany` is one `PersistOne` per row; `Die` is
  the end of the thread, `NewProcess` of the process.  The events of `Poison` carry
  metadata that `json.dumps` refuses: the first that a pass takes to the store raises
  and ends the thread (`RaiseOnPoison`).  `track()` and `flush()` may be called while and
  after `shutdown()` runs; a closed store counts as empty (`Count`).  What a file loses
  with the operating system (`synchronous=NORMAL`) is not modelled.
- **JsSdk.**  `policy` and `file` are chosen at the start.  The log is a sequence
  of lines that may be torn; a failed write ends the promise chain; a restart
  reads what is there.
- **AgentPipeline.**  `collector` and `sender` are the awaits of the two tasks;
  `Shutdown` leaves a SQLite call on its thread (`orphans`), finished later by
  `OrphanRuns`.  `EarliestDue` is the order in which due rows are read.
- **UsageIngestion.**  A sum is the set of ids it adds up, so that a missing or
  double count shows.  `Conflicts` is the unique constraint, which rows without
  a project never violate.  `BudgetCheckFails` is a database error that the budget
  check swallows: the request goes on to its 200 in a transaction that can only roll
  back (`AnswerUnsaved`).
- **SyncScheduler.**  Permits are counted from the syncs that hold one;
  `RedisFaults` and `MaxCrashes` switch the environment's faults.  A lock can always
  run out under its job (`LockExpires`): the time to live counts from the dispatch, and
  a job has no time-out.
- **UsageCollection.**  `Arbiters` says whether the constraint the checkpoint's
  `ON CONFLICT` names is immediate (the schema declares it deferrable, see
  `collect_arbiter`), `Swallowing` whether the adapter answers an error with an
  empty page; `invalid` are the units the validator refuses, chosen from `Refusable`
  at the start.
- **Accounts, Memberships.**  A request is a record of what it has read; `AsFound`
  and `Arrives` are those reads, `StartRequest` and `StartAttempt` one disjunct per
  endpoint, the other actions its writes.
- **ProviderCalls.**  `FirstCalls` are callers that execute or compare, `Reruns`
  those that run an execution again.
- **DashboardReads.**  `read[q]` keeps the tables since a request began, and with each
  part of its answer the one its statement read, so that the part can be compared
  with exactly what it could see.

## 3. Runs

Passing:

| Run | Question |
|---|---|
| `sdk_durable` | with a file-backed queue and every fault, are events neither copied nor lost, does the breaker keep its timeout, what can `flush()` overlook, is the abstract pipeline implemented? |
| `sdk_memory` | without a file, with the blocking policy, without retry and with an event that cannot be written: is every loss accounted for? |
| `sdk_recovers` | if no permanent 4xx occurs, does every queued event settle through any number of outages, until one that cannot be written ends the worker, and is every probe slot given back? |
| `backend_safe` | do the twelve components of the backend keep their safety properties, each with crossing transactions or processes and failures anywhere? |
| `backend_live` | are ids recorded and counted, due organizations synced, usage collected, and do connected clients catch up? |
| `clients_safe` | the same question as `backend_safe` for the six programs that talk to the backend, and do JavaScript SDK and agent implement the abstract pipeline? |
| `clients_live` | do the events of both pipelines settle, and do charts catch up with announced usage? |

What the passing properties say, with the exceptions the code forces on them (the
comment above each gives its source).  An exception is behaviour the code has and
nothing in it prevents; section 5 lists the ones a document, or a reader, would not
expect, and the hazards of `PROJECT.json` name no property where the exception is the
hazard itself.

| Property | Holds of every order of steps, except |
|---|---|
| `FlushMissesAtMostABatch` | rows left in the file of a store that was closed: `flush()` does not see them |
| `EveryEventSettles` | from the moment the worker takes an event that JSON cannot encode: its thread ends |
| `NothingVanishes`, `ImplementsDelivery` | -- (evicted, and lost with a process or a thread, are among the fates) |
| `CountedOnce`, `EveryEventIsCounted`, `EveryIdIsRecorded` | events with a project whose budget check swallowed a database error (`unsaved`): answered 200 and rolled back |
| `OneSyncPerOrg` | organizations with a job whose lock ran out, or that began without one because Redis failed, until the last of those jobs is over (`unguarded`) |
| `EveryDueOrgIsSynced` | -- |
| `NothingSkipped` | usage reported late, older than the lookback, hidden by an error the adapter swallowed (`unanswered`), or refused by the validator (`invalid`) |
| `EventuallyCollected` | the same, and usage of the last instant of the clock |
| `OverrunIsNoticed` | one event per other transaction under way: they cannot see each other's spend |
| `AlertsCountWhatHappened` | as many duplicates as transactions can cross |
| `OnlyPeopleReopen` | -- |
| `PlaygroundSpendIsReal` | one direction only: what was charged and rolled back with a failing comparison, or lost in a time-out, is recorded nowhere |
| `GapsAreExplained` | events dropped by a full queue, trimmed from the buffer, or sent while nobody was subscribed |
| `GuardsKeepAnOwner` | changes of a role, removals and transfers that decided by what another call was changing (`stale`); no other crossing |
| `OneWayIn` | one link per address: invite calls that crossed, and invitations sent again after they were settled or expired (`doubled`); that who accepted one is a member has no exception |
| `AccountStaysWithItsOwner` | a sign-in that checked the old password keeps its session if it commits after the change; links of requests which began before it |
| `SeparateEditsAgree` | rows that were written over a version the edit had not read (`overlapped`) |
| `PartsAddUp` | parts that add currencies up (weekly, monthly, KPI and overview totals), while more than one is in use; parts of one answer may be of different moments |
| `LimitsHold` | one request per crossing request and per failed Redis call |
| `CostsFollowUsage` | rows last written by a run that fetched earlier; overlaps of prices whose requests crossed; items with neither id nor time |
| `JsFlushMissesNothing`, `OneRowPerEvent`, `LiveViewIsOurs`, `GoogleSignInIsOurs` | -- |
| `SessionIsKept` | a refresh whose answer is mislaid; of several tabs, one keeps the session |
| `InstrumentsCleanly` | instances patched or restored out of order (`untidy`), outcomes a wrapper is silent about |

Violated, each showing a disagreement of code and documentation (`findings` in
`PROJECT.json` quotes both):

| Run | What it shows |
|---|---|
| `sdk_stuck_half_open` | a half-open probe answered with a permanent 4xx never gives its slot back; the circuit refuses every later event for the life of the process |
| `ingest_lost_update` | two API keys of one organization: the older day sum overwrites the newer, and a committed event is missing from the dashboard |
| `ingest_after_unattributed` | after one event without a project, the second NULL-project summary row makes every later ingest of that organization and day fail |
| `collect_arbiter` | with the schema's deferrable constraint as `ON CONFLICT` arbiter, every run that reads a page is rolled back and usage is never collected |
| `members_ownerless` | two calls that each counted two owners leave a live workspace without one |

Some pairs show where a guarantee ends.  Ids are counted *because* requests of
one key serialise on `last_used_at` (`backend_live`), and not across keys
(`ingest_lost_update`).  Queued events settle *because* every call reports to the
breaker (`sdk_recovers`), and not once an answer goes unreported
(`sdk_stuck_half_open`).  Usage is collected *if* the constraint were immediate
(`backend_live` has `Arbiters = {TRUE}`), and not as the schema has it
(`collect_arbiter`).  Workspaces keep an owner whatever
crosses but two calls on roles (`WorkspaceKeepsAnOwner` below), and not when those do
(`members_ownerless`).

### Bounds, and why they are enough
- Queues, batches, permits and pages of 1 or 2 with 2 or 3 events: a queue fills,
  a batch leaves a remainder, a permit is waited for, a window needs a second
  page, and one event can be in each stage at once.
- Two requests, runs, processes, tabs, callbacks, instances, transactions at a
  time: the hazards are about two that cross.  A third adds only what a second
  already does, except where it waits for two others; ingestion, where waiting
  matters, has two ids for each of its two ways through the unique constraint.
- `MaxTime` 3 with a lookback of 2: a unit can be collected again, be late, and
  be too old.  `MaxTicks` 3 with windows of 2: a window slides once, a lockout ends.
- `MaxCalls` 4 with two people: a promotion, an acceptance and two calls that
  cross; `members_ownerless` needs 6.  `MaxAttempts` 5, two sessions and three links: a
  registration, a second session, a reset requested twice, and two crossing
  requests.
- `MCShapes` has two currencies, a record without a project and all three
  periods a dashboard compares; `MCFilters` filters nothing or one project.
  `MCReporters` has a provider whose items have a time, one with ids and one with
  neither; `MCDrafts` two prices that overlap on one day.
- `MaxPolls` 2 and `MaxCrashes`, `JsCrashes`, `MaxFailures`, `MaxOutages` 1 or 2: one
  event is collected again in each state, one fault can happen in each.
- `DropsWithFile` (`MCClients`): with a log file the process is replaced under
  `block` only; what a restart reads does not depend on the policy.

`Symmetric` permutes interchangeable values, only in runs without liveness.  In
`MCBackend` one component at a time is away from its initial state, so swapping
the pairs of all components together loses nothing.

`CHECK_DEADLOCK FALSE` stands in runs whose bounded counters run out or whose
programs really end (a stopped agent, a closed account).

### Fairness
- `SdkWorker!RunningSpec`: no shutdown and no crash (a dead process owes
  nothing); the worker's thread is scheduled, timers fire; strong fairness of
  `ApiAccepts` and `AnswerOk`: an API asked again and again about one event
  answers 200 in the end.  Without it no retry can help.  `JsFairness` and
  `PipelineFairness` say the same of the event loops, timers and threads of the
  JavaScript SDK and the agent; the fault constants are off in `clients_live`.
- `IngestFairness`: requests are served; clients keep sending each event and each
  gets through now and then; faults of statements and processes come to an end,
  while the service's own errors (`RereadFails`, `FindTwoRows`) go on.
- `SchedulerFairness`: loops and jobs run, a job run again and again commits in the
  end, keys nobody works under expire.
- `CollectionFairness`: time passes, runs proceed, PostgreSQL hands a row lock to
  the transaction that waits for it.
- `RealtimeFairness`: tasks run, clients read, heartbeats come, an EventSource
  connects again.  Nothing restarts a crashed dispatch task, as in the code.
- `LiveFairness`: timers fire, frames and answers arrive, an expired token is
  renewed by the next request.

## 4. Proofs

Checked by TLAPS for every number of events, requests, processes or people and
every value of sizes, thresholds and bounds, from the assumptions the modules
state (sets finite where they are counted, sizes positive, options in their
ranges, cost records with a day, a currency and a provider).  `PROJECT.json` lists
the theorems; the lemmas are in the same files.  Every safety property of the
passing runs is a theorem, but for the two composite type invariants.

The installed provers have no induction over data.  Where an argument needs
one, the proof takes the set of counterexamples, and a least one in it
(`LeastSet`, `LeastNumber` in `SumLemmas`), and refutes that.  **SumLemmas** proves in
this way that the fold `SumFunctionOnSet` is a sum: it exists (`SumExists`), does not
depend on the order in which `CHOOSE` picks the terms (`SumPick`), splits over
disjoint sets and groups (`SumOfUnion`, `SumOfGroups`) and grows with its terms.

**SdkWorker_proofs.**  Of the breaker, `CBInv` (types, `ProbeBound`, `ClosedIsBelowThreshold`)
is inductive as it stands; counting probes needs only that admitting a call adds
at most one (`FewerProbes`, `OneFewer`).  It gives `CBTypeCorrect`,
`ProbesAreBounded`, `ClosedBelowThreshold` and `OpenEndsByTimeout`.
`SlotsAreAccountedFor` holds of `ReportingSpec`, in which every call reports: the
very condition the worker breaks for permanent 4xx answers.

Of the pipeline, `OneHome` and `RejectedForGood` depend on where an event
that is being posted is kept.  The strengthening is

    IInv == Types /\ OneHome /\ RejectedForGood      \* what we want
            /\ PostsAreCalls     \* a POST is a call the breaker knows of
            /\ HandoffIsLocal    \* the local batch is empty outside `persist`
            /\ InFlightIsKept    \* what waits or is posted has its row, as long
                                 \* as the store is open

with one lemma per group of actions.  From it follow `EventsHaveOneHome`,
`RejectionsAreFinal`, `PostsHaveRows` and, with the positions of arrival,
`WorkerTypeCorrect`.  `WorkerUsesBreaker` shows that every step of the worker is a
breaker step, which hands the breaker's theorems on (`WorkerBoundsProbes`).
`FlushMissesOneBatch` says what `flush()`, which reads the memory and then the store, can
overlook: the batch between the two, no larger than `BatchSize` (`FlushBounds`) because
the events it is cut from have distinct positions of arrival (`Order`, `LastArrival`),
and, in a store that was closed, the rows in its file.
`SdkImplementsDelivery` maps each action to one of `AtLeastOnceDelivery` under
`accepted <- Queued`, `buffered <- Volatile`, `dropped <- evicted \cup lost`; with the
abstract theorem it yields `SdkLosesNothingSilently`.

Of the instrumentation, `InstrumentorsAreClean`, for every library, instance and order of
switching on and off:

    InstrInv == InstrTypes /\ (~untidy => MethodIsTidy  \* the method carries one wrapper of
                                                        \* each instance that is on, and
                                                        \* each saved what is below it
                                          /\ ClientIsTidy \* so does a client made meanwhile
                                          /\ CallIsTidy)  \* a call goes through whoever was
                                                         \* on all along, and nobody who
                                                         \* never was

A method that libraries share with a family, a slot for one listener and a bus of
listeners differ only in what tidy means (`MethodIsTidy` has a case for each).

**Clients_proofs.**  Of the agent: two copies of an event may be under way at once,
one in memory, one in the store, one on a thread that outlived its task.
`OneRowPerEvent` is kept because inserting is by id, but that the agent
implements the abstract pipeline needs to know where the copies are:

    AgentInv == AgentTypes /\ TasksInOrder  \* each await has the data it needs
                /\ CopiesAreKept            \* accepted and unsettled: in memory, in
                                            \* hand, on a thread or in the store
                /\ DeletionsAreAnswers      \* whoever is about to delete a row saw
                                            \* its event answered

`AgentDeliversAtLeastOnce` maps a poll to `Accept`, an overflow or a failed post to
`Persist`, an answer to `Receive`, a deletion -- also one that an orphaned thread
makes later -- to `Retire`, a shutdown or a crash to `Lose`; `AgentLosesNothingSilently`
follows from the abstract theorem.  `AgentMemoryIsBounded` adds that the memory queue
keeps its size, since `put()` overflows to SQLite, and that a retry time or a count of
attempts is of a row that is there.  The sequence lemmas `SetOfAppend`, `SetOfTail`,
`SetOfRemoveAt` and `SetOfFirstItems` say what those operations do to the set of
elements.

Of the JavaScript SDK, whose log lags behind its rows, may be torn, and is replayed
by a later process:

    JsInv == JsTypes
             /\ QueuedOnce        \* in the buffer once and nowhere else
             /\ RequestsHaveRows  \* a request is about a row, until it is answered
             /\ ReplayComesFirst  \* nothing is read or written before the replay
             /\ LinesAreTrue      \* a line to be appended says what happened
             /\ LogFollowsRows    \* what is on disk beyond the rows is settled
             /\ FlushWaits        \* what flush() saw is under way or settled

`JsFlushIsComplete` reads `JsFlushMissesNothing` off `FlushWaits`.  `JsDeliversAtLeastOnce` maps
appends to `Persist`, answers to `Receive`, compaction to `Rewrite`, evictions and
crashes to `Lose`; as in the run, until an unreadable log is taken for an empty one
(`overlooked`).  `JsBufferIsBounded` needs `JsRoom`: a `put()` that was woken does not look
at the size again, but one waits at a time.

**UsageIngestion_proofs.**  Of the abstract pipeline: it loses nothing silently
(`NoEventVanishes`), and an event leaves the disk only after an answer
(`DurableEventsSurvive`).  Of ingestion, `IngestCountsOnce`.  A committed row counts only what was
committed, because a transaction's uncommitted sums can contain its own insert
and nothing else that is not in `records`:

    IngestInv == IngestTypes
                 /\ InsertsAreNew       \* an id that is being inserted is new, and
                                        \* nobody else's
                 /\ SumsAreItsOwn       \* sums and writes are over committed records
                                        \* and the transaction's own
                 /\ OneProjectRow       \* the constraint, for rows with a project
                 /\ NullRowsAreSingle   \* without one, a committed row counts the one
                                        \* event that inserted it
                 /\ AnswersAreTrue      \* a 200 was announced, and committed or `unsaved`

Rows without a project are why `CountedOnce` is not obvious: the constraint lets
any number in, and only `ReadBack`, which fails on two, keeps a transaction whose
sum covers earlier events from committing a second one.

**Providers_proofs.**  Of the scheduler, `SchedulerInv` (types, `GuardIsExact`, `PermitsAreCounted`)
gives `SchedulerTypeCorrect` and `SchedulerGuardIsExact`: `_running_org_ids` is
exactly what is running, in every environment.  `SchedulerSyncsApart` says what the
lock is worth although it can run out and Redis can fail: outside `unguarded`, who works
on an organization, or is about to free its lock, is its holder (`WorkHoldsLock`), and
an organization leaves `unguarded` only when none of its jobs is left.

Of collection, `CollectionSkipsNothing`.  The checkpoint must not pass a
unit of usage that no committed run stored, while several runs, started from
different checkpoints, commit in any order:

    CollectionInv == CollectionTypes /\ NothingSkipped
                     /\ CheckpointIsPast  \* it lies behind the clock
                     /\ \A x \in Syncs : SyncInv(x)

where `SyncInv` says of a run that its window is in the past, that everything
before its cursor is stored, excused or in its own writes (`BehindIsKept`), that
its page is a prefix of what was left (`PageIsPrefix`), and that committing it
keeps `NothingSkipped` (`MovedIsKept`).  `FirstOfIsPrefix`, `SmallestSet` and
`HasMaximum` are about pages: the first `k` elements of a finite set of naturals.

Of connections, `SeparateEditsTellOneStory`.  A handler reads a row, calls the
provider for seconds, and writes columns it computed from what it read:

    ConnInv == ConnTypes /\ SeparateEditsAgree
               /\ CreatesApart          \* two creations do not share a row
               /\ \A r \in Edits : EditInv(r, edit[r], row, rowLock)

`EditInv` ties the copy an edit works on to a version of the row: the same version
is the same row (nothing in the code compares them; an edit that writes over
another version marks the row `overlapped`), and a rotation that has flushed its
key keeps every other writer out until it commits.  `OneHolderPerRow`: a row is locked
by one request at a time, however probes end.

Of calls, `PlaygroundChargesAreReal`.  `CallInv` keeps the same books (`Books`: rows,
the events they name, the answers the provider served) of what is committed and
of what each request has in its session; a request's rows are of its own rounds
and a committed row's request is done, so that a commit joins books with
different identities, and a rollback drops the session's.

Of pricing, `CostsAreOfTheirUsage`.  A cost record must not keep old figures when its
event gets new ones, although an event whose day has no price gets no cost record:

    PricingInv == PricingTypes
                  /\ EventsInv   \* a row is of the day its identity names, and of
                                 \* one connection's bucket
                  /\ CostsInv    \* its cost record too, at a price that covers it
                  /\ RunsApart   \* no two transactions hold the same row
                  /\ PricesInv   \* what a request saw is there, and it overlaps none
                  /\ \A c \in Collectors : RunInv(...)

`RunInv`: an event that a run wrote without a price had no cost record before, since a
day that was covered once stays covered (`CoveredIsPriced`: of the prices that cover
a day, one starts last).  The theorem assumes that OpenAI does not report items with
neither id nor time.  Those all get the identity of time zero, so that one page
can hold a priced and an unpriced item of the same row: TLC then finds a cost
record of other figures than its event, with two days, one of them with a price.

**Workspace_proofs.**  `AccountIsItsOwners` proves the three parts of
`AccountStaysWithItsOwner` with

    AccountInv == AccountTypes /\ AccountStaysWithItsOwner
                  /\ RowIsHeldOnce    \* one transaction at a time is past its UPDATE
                                      \* of the user's row
                  /\ RevokesAll       \* the sessions it found are all there are
                  /\ InvalidatesAll   \* the links a request found to invalidate are
                                      \* all of its kind there were

`OneHolderOfTheUserRow` takes `AccountBounds` as well: every change of a password was a
request of its own (`AttemptsAreCounted`), a session is of an epoch that has begun, and a
link is younger than the links its request found.

`WorkspaceKeepsAnOwner` and `InvitationsAreOneWayIn` rest on `MembershipInv` (types,
`GuardsKeepAnOwner`, `OneWayIn`).  Calls on roles take owners: unless one committed
although its guards, evaluated at the commit, would have refused (`stale`), another
owner is left.  No other call does, crossing or not.  An acceptance names an
invitation to its own address (`AcceptsExist`), so it makes a member of whom it says.
`GuardsKeepAnOwner` is the positive half of `members_ownerless`.

`GoogleFlowsEndWhereTheyBegan` follows a flow from the cookie to the row:

    GoogleInv == GoogleTypes /\ FlowsAreSomeones
                 /\ CookiesAreOwn       \* a browser only holds states of its flows
                 /\ CodesAreSpentOnce   \* no two callbacks past the exchange, or
                                        \* grants, are of one flow
                 /\ \A r \in Callbacks : CallbackInv(callback[r])
                 /\ ...                 \* the same of grants, people and sessions

What a callback resolved may be outdated when it commits -- its person was linked
or disabled meanwhile -- so that an account has one person rests on the unique
constraint alone (`Unique`), and `CommitKeepsGoogleInv` is the longest of its lemmas.

`LimitsAreKept` bounds what one window admits and what one lockout lets through.
The shared store forgets a window's attempts once a later request trims them:

    LimitsInv == LimitsTypes /\ TimesAreRight /\ PlacesAreRight
                 /\ \A end : \/ WindowIsKept(end)  \* the store has every admitted attempt
                                                  \* but for failed calls
                             \/ WindowIsPast(end)  \* or it was trimmed, and only who
                                                  \* began before can still come
                 /\ GuessInv    \* every wrong password is in the shared count, on its
                               \* way there, or in a process's memory

so the excess over the limit is one per crossing request and per failed call.

**Notifications_proofs.**  `StreamsMissNothingSilently`.  `NoGap`, about what was
received, is not inductive; a gap can open while events wait:

    RealtimeInv == RealtimeTypes /\ \A c \in SseClients :
        /\ CursorIsSeen(c)         \* Last-Event-ID was received
        /\ ConnectionsOwnQueues(c) \* queue and replay end with their connection
        /\ ReplayGoesForward(c)    \* a replay is of later events, in order
        /\ QueueIsGapless(c)       \* nothing is missing behind a queued event
        /\ NothingBehindCursor(c)  \* nor behind the cursor, once the replay was read
        /\ NoGap(c)                \* nor between two events that were received

`BuffersAreBounded`: the replay buffer and every connection's queue keep their sizes,
however slow a client is, and hold nothing that was not published.

`BudgetOverrunIsNoticed` has to say why spend beyond a limit is bounded at all.
Transactions that checked and found nothing are `Blind`: they cannot see one
another's events.  As long as an overrun is unnoticed, `FewAreBlind` bounds what was
checked plus what blind transactions will add by the limit and the number of
transactions that can cross.  `ClosedAlertsStayClosed` (row locks order a fold and a
request) and `AlertsDoNotStorm` (alerts being created belong to transactions under
way) use the same `WorkerStep`.  `AlertsDoNotStorm` is the first half of
`AlertsCountWhatHappened`, and `AlertsCountOccurrences` proves all of it.  That the counts of
a condition's alerts add up to what was committed is not inductive: a fold that
read an older count lowers it.  `CountsInv` therefore gives each row a peak that only
grows; a count is at most the peak, and equal to it if nothing crosses (`Near`); the
peaks add up to the occurrences; and a transaction writes each key once
(`OneWritePerKey`).

**Dashboard_proofs.**  `BrowsersKeepTheirSession`.  Tabs share the stored token, but each
has its own in memory, and a rotation makes all the others stale:

    SessionInv == SessionTypes /\ SomeTabKeepsSession
                  /\ TokensIssued      \* no token is newer than its session's row
                  /\ StorageFollows    \* one tab alone: the storage is that tab's
                  /\ \A x \in Exchanges : ExchangeOK(exchange[x], mislaid, slips = 0)
                  /\ OnePerTab         \* one refresh at a time per tab
                  /\ RefreshesOwn      \* of the token the tab holds
                  /\ OneTabCurrent     \* one tab alone: what it holds, sent or will
                                       \* receive is the session's present token

`ExchangeOK` says which exchanges have an owner, that an answer carries a newer
token of the same session, and that a refusal means the token was replaced.  With
several tabs a refused one signs out; that some tab goes on is
`SomeTabKeepsSession`, inductive with these.

`LiveFiguresAreOurs` needs only that frames still in the pipe are of the
organization the client connected for (`OwnFrames`): tearing a socket down empties it.

`AnswersAddUp` follows a statement from the rows to the answer.  `GroupsAddUp`: whatever
the key, the rows of a GROUP BY under any currencies come to what the selected
records under those currencies cost, since each record has one label; so the grouping
leaves none out and counts none twice.  `InOneCurrency`, `InAllCurrencies`, `InTheTop`
and `InBuckets` are the currency filter, the overview's sums, the limit and the series
by week and month; `PartAddsUp` goes through the sixteen statements.  What remains is
`ReadsInv`: while a request runs, the last table it knows of is the present one.

**Only model-checked.**  Liveness (`EveryEventSettles`, `EveryEventIsCounted`,
`EveryDueOrgIsSynced`, `EventuallyCollected`, `EveryClientCatchesUp`, `JsEventsSettle`,
`EveryRequestIdSettles`, `ChartsCatchUp`): fairness is beyond the prover.
`BackendTypeOK` and `ClientsTypeOK` are disjunctions over the components of a run.
Of their parts those that bound something are proved: the type invariants of the
scheduler, collection, realtime, accounts, connections and the agent (as are those of
the breaker and the SDK pipeline), and the size of the JavaScript buffer.  `CountedOnce` and the like
are proved of the component's own specification (`IngestSpec`, ...), of which a
behaviour of the run with that `focus` is one.

## 5. Known disagreements without a run of their own

The models contain this behaviour, or leave out the part that has it; each entry
is something the text, or a reader of the code, would expect otherwise.

**SDKs and agent**
- `flush()` promises to block "until every queued event has been delivered"
  (`sdk/python/costorah/client.py:171`), but does not see the batch between the
  two queues, and answers true over any number of rows once `shutdown()` has closed
  the store (`persistent_queue.py:105-106`).  `FlushMissesAtMostABatch` states what does
  hold.  The JavaScript `flush()` does not await the replay of the log.
- An event whose metadata JSON cannot encode ends the worker thread: `json.dumps`
  raises outside every handler (`persistent_queue.py:64`, `worker.py:118-120`), and
  nothing that is queued later is delivered, against `sdk/docs/RELIABILITY.md:177-179`.
- "Never lose telemetry" (`agent/queue/sqlite_store.py:4-6`): a graceful stop drops
  the cancelled batch and what one final pass leaves in memory.
  `EveryRequestIdSettles` holds of an undisturbed agent only: an exception of
  `send_usage_event` other than the ones it handles leaves `run_once`
  (`agent/transport/http_client.py:90,119`).
- The agent's `put()` "never raises" (`agent/queue/memory_queue.py:37-38`): a
  SQLite error in the overflow leaves it and ends the collection task.
- JavaScript: a torn last line swallows the next one appended; one failed
  `appendFile` rejects every later write; an unreadable log is taken for an empty
  one, which compaction then writes; waiters that timed out swallow wake-ups.
- Instrumentation: instances that are taken off out of order leave a stale
  wrapper; abandoned Python streams, several errors on opening a stream and
  `CancelledError` are never reported.

**Ingestion, scheduler, collection**
- `usage.created` is triggered "after a non-duplicate record is stored"
  (`backend/docs/realtime/04-event-model.md:38`); it is published before the
  commit (`Publish`, `Commit`).
- "One summary row per dimension combination per day"
  (`backend/docs/knowledge/EP-09-Knowledge-Transfer.md:313`): not for events
  without a project (`Conflicts`).
- The scheduler is "safe [...] as multiple horizontally-scaled API workers"
  (`app/services/usage_sync_scheduler.py:44-45`): a job that outlasts its lock lets
  a second process in (`LockExpires`), as does a Redis that does not answer.
- Anthropic's adapter swallows every error, so the window counts as collected and
  is never asked for again, against `STARTUP.md:516`; usage a provider reports
  late is not collected either, and what the validator refuses is counted as failed
  while the checkpoint passes it (`app/usage/service.py:294-304`).
- Normalised identities ignore the connection: two connections of one provider
  overwrite each other's buckets; items with neither id nor time are stored anew
  by each run.  Cached tokens are refused when they exceed prompt tokens, which
  Anthropic counts apart.
- An open-ended price cannot be superseded over the API: "existing active
  pricing" (`app/pricing/validator.py`) counts inactive versions too.

**Alerts, realtime**
- The budget check swallows a database error; the COMMIT that follows is then a
  ROLLBACK, although 200 is answered (`AnswerUnsaved`).  `organizations._fire_alert_safely` and the
  playground's `_record_usage` share the pattern.
- Acknowledged alerts do not absorb occurrences, and an acknowledgement that read
  an alert before it was resolved turns it into an acknowledged one.
- The first heartbeat of an idle SSE stream cancels the generator and ends the
  stream (`app/api/v1/realtime.py:217-224`).

**Accounts, workspaces**
- A sign-in with the old password that crosses a reset keeps its session; a reset
  link can be used twice by crossing requests; two requests for a link leave two;
  a password change that read the old hash overwrites a newer reset.
- "Never returns JSON -- always a 302" (`app/api/v1/auth.py`, `google_callback`): a
  disabled account and a unique violation are not caught.  Linking from another
  origin always fails, since the dashboard's request omits credentials and the
  cookie is not stored.
- Invitations that were accepted, cancelled or expired can be sent again and are
  pending then; cancelling ignores the status; the unique constraints on e-mail
  addresses cover deleted rows.
- An account is closed by what it owned when the request began: a workspace handed to
  it meanwhile stays live with a deleted owner, and one it owned alone is deleted with a
  member who was added meanwhile.

**Providers, dashboard**
- A playground execution is recorded under an id of its own and imported again by
  the provider's sync; an error in the middle of a comparison rolls back
  executions that were charged.
- A verdict on a key that was rotated meanwhile is stored for the new key;
  failure counts and the JSON bag of settings are overwritten by crossing
  requests; a sync sees the first 100 connections, and one that cannot be
  configured ends it.
- Weekly and monthly buckets merge currencies under the first one's label, and the
  KPIs and the overview add currencies up and call them USD, although "USD and EUR
  must never be summed together" (`app/repositories/usage_cost_record_repository.py:108-109,171`).
- Signing out in the dashboard does not call `POST /logout`; a refresh answered
  after it signs in again; any error of a refresh signs out.
- An expired token makes the socket reconnect without a pause; after ten attempts
  a tab stays offline until it switches organization or signs in.

## 6. Plan

Done: all modules of section 2, and the theorems of section 4.

1. The agent's collectors: cursors in front of `AgentPipeline`.
2. Projects, API keys and profiles as rows that crossing requests edit.
3. Liveness stays with TLC as long as the prover has no ENABLED.
