# CodexBar for Linux: formal models

CodexBar shows how much of the quota of some fifty AI providers is left. One C program
(`linux/src/`) presents the same data as command-line output, as a terminal dashboard, as a
tray icon (StatusNotifierItem) and as an HTTP dashboard. This directory models the parts of
it whose correctness depends on the order in which things happen: threads that share a cache,
refreshes that replace one another, observations that arrive late, processes that are
supervised and killed, files that several processes change, and the fetches of all 69
providers with their fallbacks. TLC checks the models on small instances; TLAPS proves the central
invariants for every value of the constants.

Paths below are relative to the repository; `serve.c` stands for `linux/src/serve.c`.

## 1. The system

### Components

| Component | State it keeps | Operations | Modelled in |
|---|---|---|---|
| HTTP dashboard server (`serve.c`) | response cache, last-good rows and dashboards, one running operation per route, a count of client threads, all under one mutex and one condition variable | accept, refuse, answer from the cache, join or lead a fetch, worker, publish, send, drain | `Serve`, `SharedFetch` |
| Status item (`desktop.c`) | refresh timer, fixed deadline, current cancellable, phase, reference count | start, D-Bus Activate and menu, SIGUSR1, timer, result of a worker, stop | `StatusItem` |
| Refresh coordinator (`refresh_coordinator.c`) | generation and activity per key | request, is-current, complete, invalidate | `RefreshCoordinator` |
| Refresh policy (`refresh_policy.c`) | none | delay of a frequency, next deadline on a grid | `RefreshPolicy` |
| Transitions (`transitions.c`) | session quota per account, rate limits, provider outages, revision of the configuration | evaluate the session, should-fire, provider status, reconcile | `SessionQuota`, `QuotaLane`, `Runtime` |
| Runtime (`runtime.c`) | config digest, last-good statuses, failure and session states by lane (provider and account), warning states, under one mutex | one refresh: load, reconcile, fetch, check, publish, dispatch events | `Runtime`, `QuotaLane` |
| Process supervision (`process.c`, `process_supervisor.c`) | one call's pipes and deadlines; the supervisor's process tree; the reaper's list | spawn, hand over the target, capture, cancel, force, give up, reap | `Supervision` |
| Configuration (`config.c`, `token_accounts.c`, `cli_config.c`) | one JSON file, a lock file; per provider a list of token accounts and the index of the active one | load for update, edit, compare the digest, replace | `ConfigStore` |
| Managed Codex accounts (`managed_codex.c`, `cli_managed_codex.c`) | account file, account homes, a lock; the selection in the configuration | import, login, reauthenticate, remove, select | `ManagedCodex` |
| History (`history.c`) | a file of hourly peaks per provider and account, a mutex | record a sample: read, extend, replace | `History` |
| Backend (`backend.c`, `provider_registry.c`) | none in memory; writes `lastUsed` to the configuration | start a provider's fetch for a source mode and an account, cancel it | `Fetch`, `ProviderPlans` |
| Providers (some fifty files: `api_providers*.c`, `web_providers*.c`, `local_providers.c`, `claude.c`, `codex.c`, ...) | none between fetches | requests, child processes and files in order, with fallbacks, retries, pages and parsing | `FetchPlan`, the `...Plans` modules, `UsageWindows` |
| HTTP client (`http.c`) | one transfer | what a request may come to | `FetchPlan`, in part |
| Provider status, hooks, notifications, remote sessions, cost scanner, model, rendering, terminal dashboard, command line | see `PROJECT.json` | | not modelled; reasons in `PROJECT.json` |

### How they interact

* `desktop.c`, `tui.c` and `serve.c` are the long-running surfaces. The first two call
  `codexbar_runtime_fetch`: the status item from a worker thread per refresh, the terminal
  dashboard from its only thread. `serve.c` runs `codexbar_backend_fetch` and the cost scanner
  in a worker thread of its own per operation.
* The runtime calls the backend without a lock and then publishes under its mutex. It owns the
  transitions, which have a mutex too, and calls hooks and notifications from the results.
* The configuration is a file that any process may replace at any time. Everything that must
  notice compares SHA-256 digests: the runtime before it publishes, the server before it caches.
* Every helper program is run by `codexbar_process_run`, except the Codex app server, which
  `codex.c:273` starts with GSubprocess although `docs/ARCHITECTURE.md:19` says "All child
  processes use `process.c`".

### What is hard

* *Interleaving.* Three clients of one route, each of which may lead, join, wait for another
  configuration's fetch, or time out on the way (`serve.c`). Two refreshes that overlap because
  the second replaced the first without waiting for it (`desktop.c`, `runtime.c`).
* *Staleness.* Results that arrive after what replaced them; observations older than the ones
  before; a digest that is compared before the data is published.
* *Deadlines.* Timeouts of a request that race the answer; fixed refresh slots that a slow
  refresh overruns; rate limits; the three deadlines of a supervised process.
* *Files.* The configuration, the managed accounts and the history are changed by processes
  that know of one another only through lock files or not at all, and may be killed between
  any two steps.
* *Fallbacks.* A provider's fetch is a chain of up to thirty requests, most of which have an
  exit of their own for some failures. A cancellation, an explicit source or a selected account
  must survive all of them.
* *Death.* The caller, the supervisor and any program of the tree may die between any two
  steps, and the tree must still end.

`PROJECT.json` lists each of these places with its line under "hazards", the properties that
cover it, and, where none does, why.

## 2. Modules

```
RefreshPolicy   RefreshCoordinator      SessionQuota        Serve ---- SharedFetch
        \          /                         |                |  \      (abstract)
         StatusItem                      QuotaLane            |   ServeRefinement --- MCServe
             |                               |                |        |
      StatusItemProofs                QuotaLaneProofs        ServeProofs

  MCRuntime --- Runtime --- RuntimeProofs   Supervision --- SupervisionProofs

  ConfigStore   ManagedCodex   History      FetchPlan --------------- Fetch --- FetchingProofs
     |    \        |    |     / |               |                      |
     |     `---- Stores-+----'  |            ApiPlans, CodingPlans,     |
  ConfigStoreProofs   StoresProofs           AccountPlans, RouterPlans, |     UsageWindows
                                             VendorPlans, SessionPlans, |         |
                                             WebPlans, CorePlans,       |         |
                                             ProviderPlans --------- Fetching ----'
```

Operators whose names begin with `Bad` or `Wild` are deviations: each is the form that a
plausible bug would give to the definition after it. They are not used by the models. When a
deviation takes the place of its definition, TLC finds the property it is paired with in
`PROJECT.json` violated, which shows that the property depends on that code.

### Serve

A step is what one thread does between two points where another can run: the code between a
lock and an unlock or wait, or one access to the configuration file. `pc[t]` says where a client
thread is: `backlog` (accepted by the kernel), `reading`, `lookup` (in the loop of
`route_response`), `queued` (waits for an operation of another configuration), `joined` (waits
for an operation of its own), `fetch`/`working`/`verify`/`publish` (leads one), `replying`.

| Action | Code |
|---|---|
| `Accept`, `Refuse`, `Stop`, `Drain` | the accept loop and shutdown of `codexbar_serve_run` |
| `AnswerDirectly`, `LoadConfig` | `handle_client`, start of `route_response` |
| `HitCache`, `MissCache` (`Lead`, `Join`, `Queue`) | first turn of the loop in `route_response` |
| `RetryTurn`, `TimeOutQueued` | later turns, after a wait for another configuration |
| `WakeJoined` (`Collect`), `TimeOutJoined` | a joined operation |
| `StartWorker`, `LeaderOutOfTime`, `WorkerLoadsConfig`, `WorkerFails`, `WorkerPrints` | the worker thread and the leader's wait for it |
| `ReloadConfig`, `Publish` (`UpdateTables`, `FinishOperation`) | the second look at the configuration, the tables, the operation |
| `Send` | answer, decrement of `active_clients`, broadcast |

Data is abstracted to where it came from: a response carries the generation of the operation
that fetched it, the configuration it was requested for and the configurations that were
actually read (`seen`). An expiry time is a step `Expire` that may come at any moment; a
deadline is the freedom to time out.

`SharedFetch` is the promise to the clients, without caches, counters and condition variable:
on a route at most one flight is in the air, it takes aboard only requests for its
configuration, and nobody boards after it has landed. `ServeRefinement` gives the mapping.

### StatusItem

One main loop, one worker per refresh that was started. `Complete(g)` is the callback with the
result of refresh g, `WorkerReturns(g)` the end of its thread; between the two, and while the
thread runs, everything else may be dispatched. `RefreshCoordinator` holds what the coordinator
does to a key's state (each operation is one critical section), `RefreshPolicy` the two pure
calculations.

### QuotaLane

`Observe(o)` is what one published snapshot does to a session window: the hook's crossing and
the notification's crossing of thresholds (`runtime.c`), and the evaluation of the session quota
(`transitions.c`, in `SessionQuota`). The observation's time may be anything up to the
present, so late and repeated observations are included. Times are in minutes, remaining quota
in whole percent. The owner of a lane (provider and account) is fixed by the key of the table, so it
is not a variable. The three parts are locked separately and share no state; a serial
order of whole observations is therefore what each part sees, but `HookAndNotificationAgree`,
which compares two parts, is about refreshes that do not overlap.

### Runtime

`fetch[w].step` is where thread w is in `codexbar_runtime_fetch`; each step is one
critical section or one read of the file. A snapshot has a row per account; the rows are published in
turn (`Row`, `Advance`), and a row that failed is only counted. Failures and usage are kept by lane
(`Lane`, `transition_lane_key`): under the account's identifier, else under its name, else, for
a row with neither, under the provider alone. A row that failed has no name unless a managed Codex home
gives it one (`Rows`), so a success under a name and the failure that follows are usually in
different lanes; `FailuresReported` speaks of lanes; section 3 says what follows for
the provider (`runtime.c:780`). The rate limit goes by the account's name, not by the lane (`FailureOf`). What a table
holds is the set of configurations whose data it was derived from. An outage that begins less than the rate limit after the last one told is remembered but
never told; the model has that behaviour, and no property asks for more. Recording when an
account was used (`backend.c:779`) changes the digest of the configuration and is one of the
ways in which `Edit` comes about.

### Supervision

Caller (`codexbar_process_run`), supervisor (`main` of `process_supervisor.c`), target and the
programs it forks. Pipes are variables for what the reader can see; SIGKILL, the parent-death
signals and subreaping by the supervisor are in `End`, `SupervisorEnds` and `CallerDies`.
Programs fork, leave the process group, close their output, ignore SIGTERM and end as they
like.

### ConfigStore, ManagedCodex, History and Stores

The three files that processes share. Nothing relates a state of one to a state of another, so
`Stores` puts them into one specification in which a behaviour exercises one of them (`scene`).

* `ConfigStore`: a writer takes the lock of its runtime directory (`Acquire`), loads (`Load`),
  applies one operation on the token accounts (`Edit`: `Added`, `Updated`, `Removed`, `Selected`,
  `Moved`, `Used`), compares the digest (`Compare`) and renames (`Replace`). Two runtime
  directories are two locks. `ForeignChange` is an editor or an installer; `crossed` remembers that
  somebody changed the file after a writer had compared it. `Crash` may come at any step.
* `ManagedCodex`: a command is a sequence of steps on the account file, the homes, the lock and
  the selection; every step that can fail does, and a command may be killed between any two.
  `mishap`, `torn` and `raced` record which of the excuses of the properties applies.
* `History`: threads of one process exclude each other by a mutex, processes do not. The hourly
  peaks are computed as in `replace_hour_entries`, from files of this version and an older one.
  The lists are built by folds (`Sorted` inserts entry by entry, as a stable sort does), so
  that the computation can be proved about.

### Fetch and the plans

Most of the program is the sixty-nine providers. Each is written down as data: a *plan*. For every source
mode of the registry a plan lists the *legs* that are tried one after another, with the failures
after which the next leg is tried (`soft`); a leg is a walk over labelled steps. A step asks
somebody (`Request` a server, `Run` a child process, `ReadFile`, `Lookup` a credential, a
`Setting`), chooses by data at hand (`Choose`), goes round (`Repeat`), ends the leg (`Give`) or
publishes (`Show`). The `sees` of an ask says what the code makes of every kind of reply (status,
well-formed, empty, in so many words an error, refused, unreadable, unreachable, cancelled), and
its `next` where the walk goes on after each verdict. `FetchPlan` defines this vocabulary, from
the error codes and transports the providers share.

| Module | Providers, by source file |
|---|---|
| `ApiPlans` | `api_providers.c`, `api_providers2.c`: keys and simple JSON; groq |
| `CodingPlans` | `api_providers3.c`: MiniMax, Alibaba, Doubao |
| `AccountPlans` | `api_providers4.c`, `local_providers.c`: Gemini, Antigravity, Factory, Ollama, Kiro, Augment |
| `RouterPlans` | `simple_providers.c`, `kilo.c`, `proxy_providers.c`, `openrouter.c`, `wayfinder.c`, `openai_api.c`, `xai.c`, `azure_openai.c`, `aiand.c` |
| `VendorPlans` | `zai.c`, `copilot.c`, `deepinfra.c`, `neuralwatt.c`, `fireworks.c`, `codebuff.c`, `clinepass.c`, `jetbrains.c`, `zed.c`, `grok.c` |
| `SessionPlans` | `windsurf.c`, `ibmbob.c`, `vertex.c`, `stepfun.c`, `zoommate.c`, `notion.c`, `opencode_go.c`, `qwen_cloud.c` |
| `WebPlans` | `api_providers5.c`, `web_providers.c` to `web_providers5.c`: stored cookies |
| `CorePlans` | `codex.c`, `claude.c`, `kimi.c`: several sources and an automatic choice |
| `ProviderPlans` | the table of all of them with their modes (`provider_registry.c`, `backend.c`) |

`Fetch` walks one plan. `Answer` takes any reply that the step tells apart; `CancelFetch` may come at
any moment, and from then on every transport that looks at the cancellable reports it (`Deaf`
transports have none). The state keeps where each credential came from (`owners`), what was
learned, from which source and with whose credential (`facts`), and whether the walk was told of the
cancellation (`noticed`).

`UsageWindows` has, for the parsers that turn a quota into a share, the percentage they make of
`used`, `limit`, `remaining`, and percentages or fractions, each of which the answer may leave out.
A provider has as many entries in `Windows` as its windows are made in different ways. Claude has four: what
the server tells or no window (weekly, scoped); the session from the web and the routines, which are
there with nothing used if their figure is missing (`ClaudeUntoldPercent`, `claude.c:242` and `claude.c:466`);
the spend limit; and the command line.
`Fetching` composes it with `Fetch`: after a fetch has been shown, `Measure` lets a parser read
one quota of the table.

## 3. What is checked

| Run | Instance | Shows |
|---|---|---|
| `ServeSafety` | 3 requests, 1 route, 2 configurations, 1 edit, timeouts, spurious wakeups | one fetch per route; no operation without an owner; answers belong to the configuration the client loaded; the cache never goes back; `Serve` implements `SharedFetch` |
| `ServeLastGood` | usage, cost and dashboard routes, 1 account, a limit of 1 client, 1 edit | kept data was read under the configuration it is kept for; only fresh data is kept |
| `ServeLiveness` | 3 requests, no timeouts, no caching | every client is answered; a stopped server exits |
| `StatusItem` | 7 minutes in steps of 60 s, 3 inputs; manual, every two minutes, adaptive | the refresh waited for exists and is the only one not cancelled; the next refresh is always ahead; late results are not shown; the phase of a fixed frequency; every refresh shows or is superseded |
| `QuotaLane` | 5 minutes, remaining quota in {0, 20, 40, 60}, thresholds {20, 50}, reset times {none, 3, 4, 6}, 2 sources | reached and reset alternate; a reset is announced only with reason; thresholds are told once per fall and never missed; hook and notification agree |
| `Runtime` | 2 overlapping refreshes, rows that name an account or none, rate limit 1; an edit, a second instant or a snapshot of 2 rows, one of these at a time | tables belong to their configuration unless refreshes of different configurations overlapped; rate limit; which failures of a lane are told: all but the first after a success, within the rate limit of the account |
| `Supervision` | tree of 3 programs, the supervisor may be killed | nothing is left when a call returns; no writer left in the group even without a supervisor; calls return; trees end |
| `Stores` | 2 writers, 3 accounts, 2 locks, 1 foreign change; 2 commands at a time, 3 in all, 2 workspaces; 2 threads of 1 or 2 processes, 2 samples, hours of 3 ticks | no update is undone; the active account stays the same account; writers end; accounts have their homes, no home is forgotten, the selection exists; only removal removes; a write keeps the history it read; peaks are kept |
| `Fetching` | all 69 providers, every mode, with and without a selected account, 2 pages; limits {0, 1, 4, 100}, uses {0, 1, 2, 4, 5, 99}, any part of five figures told | a cancellation is heeded; explicit sources are strict; a snapshot has one owner and a truthful source; an account is read with its own credential; every fetch ends; a window shows the share that was used or is absent |
| `ServeRecheck` | violation | see below |
| `FetchBorrowed` | violation | see below |
| `RuntimeOverlap` | violation | see below |

### Disagreements with the repository's own statements

* `ServeRecheck`, `serve.c:1107`. The cache is looked at once, before the loop. A request that
  had to wait for another configuration's operation goes on to lead a fetch although, in the meantime,
  another request of its own configuration has cached the answer.
  `linux/tests/test_serve_concurrency.py:165` demands that requests of one fingerprint are coalesced.
* `RuntimeOverlap`, `runtime.c:871`. The digest is compared before the publication and not
  during it. If another refresh brings in a new configuration between, data of the old one ends
  up in the new one's tables; `docs/ARCHITECTURE.md:31` says the invalidation is there to prevent
  that. `BelongsUnlessMixed` says precisely when it happens, and the theorem
  `OneWorkerSuffices` that one thread alone never does it.
* `FetchBorrowed`, `simple_providers.c:728`. `resolved_token` prefers the key in the environment to
  the one of the selected account, so elevenlabs and venice show the environment's usage as the
  account's, even where the source is given as `api` (`OwnKeyWins`); `docs/SECURITY.md:7`: "Provider credentials are never shared across providers or
  accounts."

Four more were met and have no run of their own:

* `runtime.c:780`. The first failure after a success is meant to be forgiven:
  `linux/tests/test_runtime.c:373` asserts that no hook is called (`g_assert_cmpuint(hook_calls, ==, 0)`)
  after a success and a failure, but gives both rows the account "one". The row that
  `provider_error` makes (`backend.c:141`) names no account, so its failure is looked up in another
  lane than the success and told at once. `FailuresReported` says what does hold, lane by lane.
* `serve.c:1176`: data is kept if the fingerprint is the same before and after the fetch. A file
  that was changed and changed back while the worker read it passes, and data of the version in
  between is kept for the first: `KeptUnderItsConfig` is violated with two edits.
  `linux/tests/test_serve_concurrency.py:171` fails "a config fingerprint change reused the
  previous cache entry".
* `config.c:558`: `docs/CONFIGURATION.md:3` says that the CLI "writes atomically, rejects
  concurrent changes". A change between the comparison of the digests and the rename, by an editor
  or by a process with another runtime directory, is overwritten. `UpdatesBuildOnTheFile`
  excepts exactly this.
* `docs/SECURITY.md:14` says of all requests that they have deadlines and cancellation. The
  transports of clinepass, copilot, zai, openai, kilo, codebuff, jetbrains, openrouter, llmproxy,
  clawrouter, moonshot, crof, venice, elevenlabs, zenmux and of the Codex app server take no
  cancellable (`Deaf`). They end by their deadlines, and the caller drops the result.

### The exceptions that the fetch properties name

A property that some providers break is checked for all others, with the exceptions listed in
`Fetching.cfg` or, for the windows, in `Fetching`. The lists are exact in this sense: without any
one name the run fails.

* `Heedless` goes on after a cancellation: antigravity, stepfun and opencodego (optional
  requests whose error pointer is NULL), cursor (the user and legacy requests).
* `Lax` answers from another source than the explicit one: factory's `cli` uses the API key,
  cursor's `cli` the web session.
* `Borrowers` may read a selected account's usage with the machine's credentials: venice and
  elevenlabs prefer the environment; groq, minimax, claude, ollama, deepseek, opencodego and
  antigravity fall back in the automatic mode (claude and ollama also for the other modes);
  factory's cookie never replaces the key; augment has only its command line; stepfun logs in with
  the machine's password when the account's token has expired.
* `Overdrawn` shows percentages beyond 0 to 100 as they are told; `Guessers` are the single windows
  that show nothing used or everything used for want of a figure: most of these providers have one
  window, but of claude it is the session and the routines (`linux/tests/test_claude.c:51` asserts
  the latter), of codex and openrouter a figure that is null (`codex.c:42`, `openrouter.c:47`), of
  kiro a plan that an administrator manages (`local_providers.c:302`), of factory an old
  allowance and a window that has ended (`api_providers4.c:394`), of commandcode the monthly credits
  without a plan, of longcat packages that do not say what is left, of doubao the probe and of grok
  the web page. The other windows of these providers must not guess. `Ambiguous` takes a fraction above one for a
  percentage, or one percent for the whole. The latter came out of the proof: synthetic
  (`api_providers2.c:410`), devin (`web_providers.c:1264`), opencode (`web_providers.c:725`) and opencodego
  (`opencode_go.c:451`) multiply a percentage of 1 by a hundred, so that one percent of use is shown
  as everything; the bounds of the run had no quota with a share of one percent, and now have
  one. Chutes reads a fraction of exactly 1 as one percent (`api_providers.c:1232`).

`PeaksAreKept` names its exceptions in the property. A clock that is set back may put a sample
before entries that are there. And where a reset time has moved to and fro, or two series were
merged, an hour may hold two entries of one segment; the lower and later of them then gives its
place to a sample of the next segment, and the higher and earlier one may not be in the
sample's segment. That the peak is as high as *every* entry of its segment, as the property once
said, is false of `history.c:228`: it came out when the proof was planned, and hours of two
ticks had been too short to show it.

### Bounds and why they are enough

* *Serve.* Two requests are needed for a leader and a joiner, a third for a second
  configuration's waiter or for a timeout between them; routes share nothing but the generation counter and
  the condition variable, so the single-route runs carry the single flight, and the
  three-route run carries the tables. One edit separates the clients before it from those after.
  The instance of one client under a limit of one reaches the limit with every request. Liveness is
  checked without timeouts, where only broadcasts can wake a thread.
* *StatusItem.* Three inputs are a refresh, one that replaces it and one that replaces that, or
  a stop. Seven minutes at a step of one minute hold three slots of the two-minute
  grid, so refreshes can overrun one and two slots.
* *QuotaLane.* The percentages lie below, on and above each threshold; the reset times lie in
  the past, near each other (within the two-minute equivalence) and clearly apart. Five minutes
  allow a depletion, a first witness, a second witness and a later window.
* *Runtime.* The overlap needs two threads and two configurations; two instants at a rate
  limit of one hold a suppressed and a permitted repetition. A row has a name or none: two lanes,
  and two rate limits. Two rows may meet in a lane, in one snapshot or in two. An edit, a tick and
  a snapshot of two rows do not come together (`MaxExtras` of `MCRuntime`; with names, one row and
  both an edit and a tick the instance has 28 million states and gave the same results): each
  property needs only one of them to be violated. Threads are symmetric. The theorems hold for
  any names, rows, threads, edits and times.
* *Supervision.* Three programs are the target, a child that outlives it and a grandchild that
  is re-parented. A run with four (243 thousand states) gave the same results.

* *Stores.* A lost update needs two writers, a lock that does not exclude two runtime directories.
  Three accounts let the active one be before, between and behind what moves. Three commands are an
  import, one that replaces it and one that selects or removes; two workspaces are one match and
  one mismatch. Four times with hours of three hold a full hour and the start of the next; three
  samples is the limit, so that the oldest is dropped. The older file has an hour with two
  series to merge and two entries of one segment.
* *Fetching.* The plans are finite and walked whole. Two rounds of a repetition are the first and
  a later one. Of a quota, nothing, one percent, some, all but one percent, all and more than all
  is used; a limit of zero is the division that parsers must avoid, one, four and a hundred
  separate fractions from percentages.

Counters that grow without bound in the code (generations) are bounded by the number of
requests or inputs. `CHECK_DEADLOCK` is off in `Stores` and `Fetching`, whose
behaviours end when the commands or the fetch have ended. Elsewhere a system may rest (a stopped
server, an ended item, the end of the modelled time, a call that has left nothing) a
named step (`Halted`, `Rest`) says so.

### Fairness

* *Serve.* The accept loop runs, a thread that is not asleep runs, and a deadline passes. Nobody
  has to connect, edit or stop. Threads are scheduled by the kernel and the mutex is held only
  for bounded work.
* *StatusItem.* The main loop dispatches what is due, and a fetch ends, because every request it
  makes has a timeout. The exception is a partial line of the Codex app server, which
  `codex.c:231` waits for without one; it is listed as a hazard of its own.
* *Stores.* A writer that can take a step takes one, which includes getting a lock that is free: a
  writer takes it once, so nobody is overtaken for ever. Nobody has to start or to crash.
* *Fetching.* Every transport has a deadline, so every ask is answered. Nobody has to cancel.
* *Supervision.* Caller, supervisor and reaper run, and deadlines pass (every caller in the
  repository passes a positive timeout). Programs promise nothing after they are started, so they
  may run, fork and ignore signals for ever.

## 4. What is proved

All theorems hold for every value of the constants that satisfies the module's assumption.

* **Serve.** `Inv` = types, holders of a generation have a fingerprint, `FlightInv`, exact client count, and
  responses that match their operation. `FlightInv` is what makes the single flight inductive: a
  leader's generation is the one in the table, leaders of a route are equal, a joined thread's
  generation and configuration are those of the table, and the counter of a route is the
  number of joined threads. From it follow `SingleFlight`, `NoAbandonedOperation`,
  `WaitersAreCounted`, `ClientLimit` and `OwnConfiguration`, for any number of requests, routes
  and configurations. `Refinement` proves that each step of `Serve` is a step or a stutter of
  `SharedFetch`; it needs in addition that running operations have a generation.

  What is kept for later requests has an invariant of its own, `KeptInv`: the tables of a route are older
  than the generation of any fetch that runs for it (`TablesAreOlder`), and a response that was just
  printed is of its fetch's generation in every good row (`RepliesAreFresh`). From it follow that
  an expired row which is served again is never stored again (`LastGoodIsNeverRenewed`) and that a
  slow fetch never overwrites a later one (`NewerDataStays`). For the configuration,
  `FetchesAreKnown` says what a worker can have read, given that the file is the same
  now as when the fetch began; `KeptDataMatches` proves `KeptUnderItsConfig` while no edit brings back
  the version a running fetch was started under (`NoReturn`), which is precisely the case that the second
  look at the file cannot see. `OneEditIsSafe` proves it without that condition for one edit, the
  instance that TLC checks.
* **StatusItem.** `Inv` adds to the properties that generations are numbered: none in use is above the
  coordinator's, and while a refresh is active what is shown is older. That is why a late result
  cannot be taken for the current one. Also proved: the grid computation returns the first
  slot ahead, and adaptive delays are bounded and monotone in the age of the last visit.
* **QuotaLane.** The invariant relates the session state to the last announcement
  (`SessionInv`, `DepletionIsKnown`) and a pending restore to the observation that began it
  (`PendingInv`); whatever was announced or has its bit set is still undercut (`FallenInv`), so
  the bits never decide what is crossed (`CrossedFacts`); hook and notification follow the
  same usage (`UsageInv`). Alternation, justified resets, monotonicity, one warning per fall, no
  missed fall and the agreement of hook and notification follow.
* **Runtime.** The invariant follows the digests a thread read through its steps, and says that
  without mixing every thread past its check works with the runtime's digest. Until its last row is
  published a thread has a row in turn (`RowInv`), and the failure state of each lane tells what was
  published last in it (`TrailInv`), which gives `FailuresReported` for any accounts.
* **Supervision.** The invariant relates the stage of the target to the supervisor's position, says
  that every orphan is adopted while the supervisor lives (`HomeInv`), and that programs
  are numbered so that a parent is older than its child. Then the oldest survivor has no
  parent among the survivors and is a direct child (`OldestIsChild`), so a supervisor without
  children has no tree: the argument for the loop's exit, for trees of any size. From it follow
  `TreeGone`, `OutputEnded` and `PinnedFirst`.
* **ConfigStore.** `Inv` says who is in a transaction holds its lock, and that between the
  comparison and the rename the file is what was loaded unless an outsider has crossed the writer
  (`Compared`). A replacement crosses only writers that hold another lock, by the first part.
  `TransactionsBuildOnTheFile` and `WritersExclude` follow for any number of writers and locks.
  `ActiveAccountIsKept` is about lists of any length: `Kept` says that the file and whatever a writer
  has in hand list accounts, with any index, and that an edit about to be saved was accepted; for
  each operation (`Updated`, `Removed`, `Moved`, `Used`) a lemma says that the active position moves
  exactly as the account at it does.
* **ManagedCodex.** For any number of commands, killed at any step, `Inv` says: whoever is between the
  lock and its release holds the lock (`Excludes`); identifiers and homes are numbered by the
  commands that made them, and commands own disjoint homes (`Numbered`); no two accounts share a
  home (`HomesApart`); and for each command (`Sound`) its homes are not yet the list's
  (`Fresh`), it does what its kind says (`Meant`), and what it has read is still in the file, what it will
  save is that with one account added or moved, and what it will delete is nobody's
  (`Reads`). The list without duplicates is a recursive function; that it keeps a first account of every
  kind and nothing else is shown with a least counterexample instead of induction. From `Inv`
  follow `StoresStayInAgreement` and `OnlyRemovedAccountsLeave`.
* **History.** A recorder at work holds the mutex of its process, and what it read is the file as long as
  it has lost nothing (`HistoryInv`). `RecordsExtend` follows: a write that lost nothing extends the
  very file it replaces, in one account's series. That is the half of `RecordKeepsHistory`
  that depends on the interleaving. The other half is about lists of any length: a second invariant
  (`ContentsInv`) says that nothing but entries is sampled, read or written, and the rest is
  about what the folds compute. A fold over a list is an iteration over the sets of its positions
  (`FoldLeft` and `MapThenFoldSet` of the library); that the iteration exists, keeps whatever
  each of its steps keeps (`FoldKeeps`) and takes the last step for the last member
  (`FoldAppends`) is shown once, for any function of one step, with a least counterexample
  instead of induction. From there a lemma per fold: a list that entries are inserted into stays in order
  and gains one place of each hour at most (`InsertedIsOrdered`, `InsertedPlaces`); the peaks of an ordered
  hour are one or two of its entries, in order, and an entry that is later than the others and of
  another segment than each is the last of them (`HourPeaksFacts`); if the sample is the latest
  entry, the last peak is the last of the series (`LastPeakIsLast`) and as high as it has to be
  (`LastPeakIsHigh`); what was recorded is what is read again (`RecordedFacts`). `HistoryIsKept`
  and `PeaksStay` follow.
* **Fetch.** The theorems are about every table of plans that obeys six disciplines, each of which is seen
  from the steps and the moves between them, without walking. They are assumptions of the
  module, and TLC evaluates them for the table of all providers in `Fetching`; so the theorems cover
  all providers but the named exceptions, and any plan that is added by the same rules.

  | Theorem | Discipline | Argument |
  |---|---|---|
  | `CancellationIsHeeded` | `PlansHeed`: no leg is soft on a cancellation, and the step that is told of one ends its leg or leads to labels (`Wake`) where whoever is asked is told as well or teaches nothing | a walk that was told is at such a label (`Leaving`) |
  | `ExplicitStaysStrict` | `PlansStrict`: from the start of an explicit mode's leg, no label asks another source for usage | the walk stays on the mode's `Route`, and its facts are of that source |
  | `ShownAsWhatAnswered` | `PlansTruthful`: without an answer of the source, no label is reached that shows its name | a walk at a label outside `Unheard` has a fact of the source |
  | `SnapshotHasOneOwner` | `PlansOneSource`: after a source's answer, no other is asked in the leg, nor its credential looked up | the facts have the source and the owner that the credential has now |
  | `AccountReadsItsOwn` | `PlansOwn`: no source is asked for usage after a credential of someone else was found for it last | a walk whose credential is not the account's is in `Foreign` |

  A set such as `Unheard` is the least one closed under the moves, computed by a function of sets.
  That it is closed is part of the discipline (`Covers`) and evaluated with it, because a proof that
  the computation ends would be an induction over data. The theorems are about the steps without
  fairness (`FetchSteps`); `FetchingKeepsThePromises` carries them to the composed
  specification, in which the answer is then measured.
* **Windows.** `WindowsTellTheShare` proves `WindowIsTheShare` for any limits and uses, for which the
  integers of the model stand exactly for the doubles of the code: no figure that a share is told
  in is rounded (`SharesAreExact`, with `QuotasAreCounted`; `Whole` is ten thousand, so these are
  all shares that are a whole number of percents). The exceptions are the named ones.
  Each of the 75 windows of the 55 providers is dealt with by name (`WindowsShow`, `WindowsAreExact`); the arithmetic they share is
  in lemmas: a share is at most the whole exactly if no more is used than allowed, an exact quotient
  gives its dividend back, what is left and what is used make up the whole, and a percentage in
  units and a fraction are told apart by their size unless the share is doubtful.

Only model-checked:

* all liveness (`EveryClientIsAnswered`, `ShutdownCompletes`, `EveryRefreshShows`, `CallReturns`,
  `TreeEnds`, `WritersEnd`, `FetchEnds`), which with fairness and ENABLED is beyond the prover;
* windows of quotas whose share is not a whole number of percents: how far a parser may then be off
  is another property, about rounding, that the integers of the model cannot tell;
* `KeptUnderItsConfig` for an arbitrary number of edits: it does not hold then, as told in section 3.

Proved but not among the runs' properties are the type invariants and the counters
(`WaitersAreCounted`, `ClientLimit`, `ReferencesAreCounted`, `PinnedFirst`, `DepletionKnown`,
`MovesForward`), `WritersExclude`, `FetchKeepsToItsPlan` and `RecordsExtend`.

The constants' assumptions besides are what the instances look like: finite sets of accounts, positive
periods, a mark for a free lock that is nobody's name (`FreeIsNobody`, `NobodyWrites`, `NobodyRecords`), and for
the history a limit, an hour and a tolerance that are positive (`HistoryConstants`).

## 5. Limits of the models

* *Serve*: no HTTP parsing and no JSON shaping. A response is its status, its rows and their origin.
* *StatusItem*: no D-Bus registration, no icon, no terminal launch.
* *QuotaLane*: something is configured for some provider (otherwise nothing is observed);
  percentages are integers, so rounding of floats is outside; one window.
* *Runtime*: one provider, of which every snapshot has a row; names are compared as they are; a configuration file exists and no configuration returns after an
  edit; the real-time clock does not go back.
* *Supervision*: starts when `posix_spawn` has succeeded. SIGTERM has no certain effect. The
  parent-death signal of the target, once set, stays set. The moment between the write to
  a pipe and the caller's abandoning it is one step. A caller that dies after its call has
  returned is not followed; the bytes of the output and its limit are one of the stop reasons.
  `OutputEnds` leaves out a supervisor that is killed after it was told to use force: nobody
  replaces it then.
* *ConfigStore*: one provider's accounts stand for the file; edits of other fields are `Updated`.
  *ManagedCodex*: one e-mail address. *History*: one provider, one window besides the session's.
* *Fetch*: one fetch at a time. A reply is told apart as far as the code tells it apart. Where an older plan
  parses after a later request, the parse is folded into the reading of the request. MiMo may show after a
  cancellation that fell between two optional requests and that no request was told of. What a
  page or a file is searched for, signatures, dates and money are not modelled.
* *UsageWindows*: the rounding of rows read from local databases is left out; a share is a whole
  number of percents. Windows that count and have no limit show a constant and are not among the
  entries: the requests and tokens of llmproxy, groq, azureopenai, the balances of deepseek, deepinfra,
  crof, the billing cycle of zed. Nor are the windows of amp, of bonus credits
  (kiro, warp), of a key's allowance (neuralwatt, sub2api), of OpenCode Go's local estimate, and an allowance of
  factory so large that it counts as unlimited.

## 6. Not modelled

* Provider status pages, the remote-session pool, the cost scanner, rendering, diagnosis and the command
  line: one call from input to output that keeps no state and meets nobody; a model would
  restate the parser.
* The terminal dashboard: one thread that alternates a blocking refresh and a key, the case of
  one worker in `Runtime`.
* The inside of one HTTP transfer (`http.c`) and the line buffer of the Codex client (`codex.c`):
  the plans take both for one ask. The buffer's hazard is listed.
* The planning of a command over several providers and accounts in `backend.c`, which starts
  independent fetches.
* Several usage windows of a provider composed with `Runtime`; hooks and notifications beyond
  their dispatch.

## 7. Running

In this directory, with the community modules on TLC's path:

```
tlc -workers 2 -config ServeSafety.cfg MCServe
tlc -workers 2 -config Supervision.cfg Supervision
tlc -workers 2 -config Fetching.cfg Fetching
tlapm SupervisionProofs.tla
```

The module of each configuration is in `PROJECT.json` under "runs". `tlapm` needs its SMT, Zenon
and LS4 backends.
