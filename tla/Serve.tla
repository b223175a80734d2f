------------------------------- MODULE Serve -------------------------------
(***************************************************************************)
(* The HTTP dashboard of linux/src/serve.c.  The main thread accepts       *)
(* connections and starts one thread per client; all of them share the     *)
(* ServeState (response cache, last-good tables, one running operation per *)
(* route) under one mutex and one condition variable.  A step is what one  *)
(* thread does between two points where another can run: while it holds    *)
(* the mutex, or one access to the configuration file, which the user may  *)
(* rewrite at any moment.  Expiry times are abstracted to a step that ends *)
(* the life of an entry; a deadline to the freedom to time out.            *)
(***************************************************************************)
EXTENDS Naturals, FiniteSets

CONSTANTS
  Requests,       \* connections, one HTTP request each
  Routes,         \* route->cache_key: usage, cost and dashboard, per provider
  Costs,          \* the routes of kind ROUTE_COST
  Dashboards,     \* the routes of kind ROUTE_DASHBOARD; the rest are ROUTE_USAGE
  Fingerprints,   \* digests of loadable configuration files
  NoConfig,       \* a configuration load_config cannot load; also "no fingerprint"
  Accounts,       \* provider and account pairs that key last-good rows
  Caching,        \* refresh_interval > 0
  HasTimeout,     \* request_timeout > 0
  MaxClients,     \* MAX_ACTIVE_CLIENTS
  MaxChanges,     \* bound: how often the configuration file is rewritten
  SpuriousWakes,  \* whether a wait may return without a broadcast
  Outcomes,       \* bound: the statuses a fetch may end with, of 200, 500 and 504
  Main            \* the thread of codexbar_serve_run

ASSUME ServeAssumption ==
  /\ IsFiniteSet(Requests)
  /\ Main \notin Requests
  /\ NoConfig \notin Fingerprints
  /\ Routes # {} /\ Dashboards \subseteq Routes /\ Costs \subseteq Routes \ Dashboards
  /\ Caching \in BOOLEAN /\ HasTimeout \in BOOLEAN /\ SpuriousWakes \in BOOLEAN
  /\ MaxClients \in Nat \ {0}
  /\ MaxChanges \in Nat
  /\ Outcomes \subseteq {200, 500, 504}

VARIABLES
  config,             \* the configuration file
  changes,            \* rewrites of it so far
  cache,              \* state->cache
  lastGoodRows,       \* state->last_good_usage, state->last_good_cost
  lastGoodDashboard,  \* state->last_good_dashboard
  operations,         \* state->operations
  nextGeneration,     \* state->next_generation
  activeClients,      \* state->active_clients
  asleep,             \* threads inside g_cond_wait that no broadcast has woken
  server,             \* where the main thread is
  pc,                 \* where the thread of each request is
  route,              \* route->cache_key of each request
  fp,                 \* the fingerprint its thread loaded
  gen,                \* the generation its thread leads or waits for
  work,               \* waited_for_operation, and what its fetch did
  reply               \* the HttpResponse of each request

environment == <<config, changes>>
tables      == <<cache, lastGoodRows, lastGoodDashboard>>
flights     == <<operations, nextGeneration>>
scheduling  == <<asleep, server, activeClients>>
request     == <<route, fp, gen, work, reply>>
vars == <<environment, tables, flights, scheduling, pc, request>>

----------------------------------------------------------------------------
(* Types.  Generation 0 stands for NULL: the code numbers operations from 1. *)

ConfigValues == Fingerprints \cup {NoConfig}

Row      == [kind: {"absent", "good", "error"}, gen: Nat, seen: SUBSET ConfigValues]
Response == [status: Nat, gen: Nat, fp: ConfigValues, seen: SUBSET ConfigValues,
             rows: [Accounts -> Row], bare: BOOLEAN]
Absent     == [kind |-> "absent", gen |-> 0, seen |-> {}]
NoResponse == [status |-> 0, gen |-> 0, fp |-> NoConfig, seen |-> {},
               rows |-> [a \in Accounts |-> Absent], bare |-> FALSE]
Plain(status) == [NoResponse EXCEPT !.status = status]

Age          == {"none", "fresh", "expired"}
CacheEntry   == [age: Age, response: Response]
LastGoodRow  == [age: Age, row: Row]
NoEntry      == [age |-> "none", response |-> NoResponse]
NoRow        == [age |-> "none", row |-> Absent]

Operation == [fingerprint: ConfigValues, generation: Nat, running: BOOLEAN,
              waiters: Nat, remaining: Nat, response: Response]
NoOperation == [fingerprint |-> NoConfig, generation |-> 0, running |-> FALSE,
                waiters |-> 0, remaining |-> 0, response |-> NoResponse]

Work   == [waited: BOOLEAN, runs: Nat, seen: SUBSET ConfigValues, unchanged: BOOLEAN]
NoWork == [waited |-> FALSE, runs |-> 0, seen |-> {}, unchanged |-> FALSE]

Leading == {"fetch", "working", "verify", "publish"}
Active  == {"reading", "lookup", "joined", "queued", "replying"} \cup Leading
PC      == {"away", "backlog", "answered", "refused"} \cup Active

DefaultRoute == CHOOSE r \in Routes : TRUE

TypeOK ==
  /\ config \in ConfigValues
  /\ changes \in Nat
  /\ cache \in [Routes -> [Fingerprints -> CacheEntry]]
  /\ lastGoodRows \in [Routes -> [Fingerprints -> [Accounts -> LastGoodRow]]]
  /\ lastGoodDashboard \in [Routes -> [Fingerprints -> CacheEntry]]
  /\ operations \in [Routes -> Operation]
  /\ nextGeneration \in Nat
  /\ activeClients \in Nat
  /\ asleep \subseteq Requests \cup {Main}
  /\ server \in {"serving", "draining", "stopped"}
  /\ pc \in [Requests -> PC]
  /\ route \in [Requests -> Routes]
  /\ fp \in [Requests -> ConfigValues]
  /\ gen \in [Requests -> Nat]
  /\ work \in [Requests -> Work]
  /\ reply \in [Requests -> Response]

Init ==
  /\ config \in Fingerprints
  /\ changes = 0
  /\ cache = [r \in Routes |-> [f \in Fingerprints |-> NoEntry]]
  /\ lastGoodRows = [r \in Routes |-> [f \in Fingerprints |-> [a \in Accounts |-> NoRow]]]
  /\ lastGoodDashboard = [r \in Routes |-> [f \in Fingerprints |-> NoEntry]]
  /\ operations = [r \in Routes |-> NoOperation]
  /\ nextGeneration = 0
  /\ activeClients = 0
  /\ asleep = {}
  /\ server = "serving"
  /\ pc = [t \in Requests |-> "away"]
  /\ route = [t \in Requests |-> DefaultRoute]
  /\ fp = [t \in Requests |-> NoConfig]
  /\ gen = [t \in Requests |-> 0]
  /\ work = [t \in Requests |-> NoWork]
  /\ reply = [t \in Requests |-> NoResponse]

----------------------------------------------------------------------------
(* The environment: the user's edits, the clock and the scheduler. *)

\* The configuration file is rewritten, or becomes one that does not parse.
RewriteConfig ==
  /\ changes < MaxChanges
  /\ \E c \in ConfigValues \ {config} : config' = c
  /\ changes' = changes + 1
  /\ UNCHANGED <<tables, flights, scheduling, pc, request>>

\* entry->expires_at_us passes.
Expired(entry) == [entry EXCEPT !.age = "expired"]

Expire ==
  /\ \E r \in Routes, f \in Fingerprints :
       \/ /\ cache[r][f].age = "fresh"
          /\ cache' = [cache EXCEPT ![r][f] = Expired(@)]
          /\ UNCHANGED <<lastGoodRows, lastGoodDashboard>>
       \/ /\ \E a \in Accounts :
               /\ lastGoodRows[r][f][a].age = "fresh"
               /\ lastGoodRows' = [lastGoodRows EXCEPT ![r][f][a] = Expired(@)]
          /\ UNCHANGED <<cache, lastGoodDashboard>>
       \/ /\ lastGoodDashboard[r][f].age = "fresh"
          /\ lastGoodDashboard' = [lastGoodDashboard EXCEPT ![r][f] = Expired(@)]
          /\ UNCHANGED <<cache, lastGoodRows>>
  /\ UNCHANGED <<environment, flights, scheduling, pc, request>>

\* POSIX lets a condition wait return without a broadcast.
WakeSpuriously(t) ==
  /\ SpuriousWakes
  /\ t \in asleep
  /\ asleep' = asleep \ {t}
  /\ UNCHANGED <<environment, tables, flights, server, activeClients, pc, request>>

----------------------------------------------------------------------------
(* The main thread. *)

Connect(t) ==
  /\ server = "serving" /\ pc[t] = "away"
  /\ pc' = [pc EXCEPT ![t] = "backlog"]
  /\ UNCHANGED <<environment, tables, flights, scheduling, request>>

AtLimit == activeClients >= MaxClients

Accept(t) ==
  /\ server = "serving" /\ pc[t] = "backlog"
  /\ ~AtLimit
  /\ activeClients' = activeClients + 1
  /\ pc' = [pc EXCEPT ![t] = "reading"]
  /\ UNCHANGED <<environment, tables, flights, asleep, server, request>>

\* 503 "server busy": no thread is started.
Refuse(t) ==
  /\ server = "serving" /\ pc[t] = "backlog"
  /\ AtLimit
  /\ pc' = [pc EXCEPT ![t] = "refused"]
  /\ UNCHANGED <<environment, tables, flights, scheduling, request>>

\* SIGINT, SIGTERM or a failed accept ends the loop; closing the listener
\* resets the connections still in its queue.
Stop ==
  /\ server = "serving"
  /\ server' = "draining"
  /\ pc' = [t \in Requests |-> IF pc[t] = "backlog" THEN "refused" ELSE pc[t]]
  /\ UNCHANGED <<environment, tables, flights, asleep, activeClients, request>>

\* Waits until no client thread is left, then frees the ServeState.
Drain ==
  /\ server = "draining" /\ Main \notin asleep
  /\ IF activeClients > 0
     THEN asleep' = asleep \cup {Main} /\ UNCHANGED server
     ELSE server' = "stopped" /\ UNCHANGED asleep
  /\ UNCHANGED <<environment, tables, flights, activeClients, pc, request>>

----------------------------------------------------------------------------
(* A client thread, before it enters the operation loop. *)

\* /health, and every request that is refused before it reaches the cache:
\* malformed or late (400), foreign host (403), unauthorized (401), method, path.
AnswerDirectly(t) ==
  /\ pc[t] = "reading"
  /\ \E status \in {200, 400} : reply' = [reply EXCEPT ![t] = Plain(status)]
  /\ pc' = [pc EXCEPT ![t] = "replying"]
  /\ UNCHANGED <<environment, tables, flights, scheduling, route, fp, gen, work>>

\* The configuration is loaded once, before the mutex is taken.
LoadConfig(t) ==
  /\ pc[t] = "reading"
  /\ \E r \in Routes : route' = [route EXCEPT ![t] = r]
  /\ IF config = NoConfig
     THEN /\ reply' = [reply EXCEPT ![t] = Plain(500)]
          /\ pc' = [pc EXCEPT ![t] = "replying"]
          /\ UNCHANGED fp
     ELSE /\ fp' = [fp EXCEPT ![t] = config]
          /\ pc' = [pc EXCEPT ![t] = "lookup"]
          /\ UNCHANGED reply
  /\ UNCHANGED <<environment, tables, flights, scheduling, gen, work>>

\* Deviation: any operation of the route is joined, whatever its configuration.
BadCanJoin(t) == operations[route[t]].running

\* The operation of the route runs for the same configuration.
CanJoin(t) ==
  /\ operations[route[t]].running
  /\ operations[route[t]].fingerprint = fp[t]

\* Deviation: an operation for another configuration is displaced, not waited for.
BadRouteIsFree(t) == operations[route[t]].generation = 0 \/ ~CanJoin(t)
RouteIsFree(t) == operations[route[t]].generation = 0

\* One turn of the operation loop: insert an operation and lead it, ...
Lead(t) ==
  /\ RouteIsFree(t)
  /\ nextGeneration' = nextGeneration + 1
  /\ operations' = [operations EXCEPT ![route[t]] =
       [NoOperation EXCEPT !.fingerprint = fp[t], !.generation = nextGeneration + 1,
                           !.running = TRUE]]
  /\ gen' = [gen EXCEPT ![t] = nextGeneration + 1]
  /\ pc' = [pc EXCEPT ![t] = "fetch"]
  /\ UNCHANGED <<asleep, work>>

WithWaiter(op) == [op EXCEPT !.waiters = @ + 1]

\* ... or wait for the one that runs for the same configuration, ...
Join(t) ==
  /\ ~RouteIsFree(t)
  /\ CanJoin(t)
  /\ operations' = [operations EXCEPT ![route[t]] = WithWaiter(@)]
  /\ gen' = [gen EXCEPT ![t] = operations[route[t]].generation]
  /\ pc' = [pc EXCEPT ![t] = "joined"]
  /\ asleep' = asleep \cup {t}
  /\ UNCHANGED <<nextGeneration, work>>

\* ... or wait until the route is free of another's operation.
Queue(t) ==
  /\ ~RouteIsFree(t)
  /\ ~CanJoin(t)
  /\ work' = [work EXCEPT ![t].waited = TRUE]
  /\ pc' = [pc EXCEPT ![t] = "queued"]
  /\ asleep' = asleep \cup {t}
  /\ UNCHANGED <<flights, gen>>

TakeTurn(t) == Lead(t) \/ Join(t) \/ Queue(t)

CacheHit(t) == cache[route[t]][fp[t]].age = "fresh"

HitCache(t) ==
  /\ pc[t] = "lookup"
  /\ CacheHit(t)
  /\ reply' = [reply EXCEPT ![t] = cache[route[t]][fp[t]].response]
  /\ pc' = [pc EXCEPT ![t] = "replying"]
  /\ UNCHANGED <<environment, tables, flights, scheduling, route, fp, gen, work>>

\* An expired entry is removed; the loop starts without giving up the mutex.
MissCache(t) ==
  /\ pc[t] = "lookup"
  /\ ~CacheHit(t)
  /\ cache' = [cache EXCEPT ![route[t]][fp[t]] = NoEntry]
  /\ TakeTurn(t)
  /\ UNCHANGED <<environment, lastGoodRows, lastGoodDashboard, server, activeClients,
                 route, fp, reply>>

\* A thread behind another's operation wakes up; it does not look at the cache again.
RetryTurn(t) ==
  /\ pc[t] = "queued" /\ t \notin asleep
  /\ TakeTurn(t)
  /\ UNCHANGED <<environment, tables, server, activeClients, route, fp, reply>>

TimeOutQueued(t) ==
  /\ HasTimeout
  /\ pc[t] = "queued"
  /\ asleep' = asleep \ {t}
  /\ reply' = [reply EXCEPT ![t] = Plain(504)]
  /\ pc' = [pc EXCEPT ![t] = "replying"]
  /\ UNCHANGED <<environment, tables, flights, server, activeClients, route, fp, gen, work>>

----------------------------------------------------------------------------
(* A thread that joined an operation. *)

Finished(t) ==
  /\ operations[route[t]].generation = gen[t]
  /\ ~operations[route[t]].running

\* The last waiter to collect the result removes the operation and broadcasts.
Collect(t) ==
  LET op == operations[route[t]] IN
  /\ reply' = [reply EXCEPT ![t] = op.response]
  /\ pc' = [pc EXCEPT ![t] = "replying"]
  /\ IF op.remaining = 1
     THEN /\ operations' = [operations EXCEPT ![route[t]] = NoOperation]
          /\ asleep' = {}
     ELSE /\ operations' = [operations EXCEPT ![route[t]].remaining = @ - 1]
          /\ asleep' = asleep \ {t}

WakeJoined(t) ==
  /\ pc[t] = "joined" /\ t \notin asleep
  /\ IF Finished(t)
     THEN Collect(t)
     ELSE asleep' = asleep \cup {t} /\ UNCHANGED <<operations, pc, reply>>
  /\ UNCHANGED <<environment, tables, nextGeneration, server, activeClients, route, fp, gen, work>>

WithoutWaiter(op) == [op EXCEPT !.waiters = @ - 1]

\* The deadline passed, but the result may have arrived before the mutex was retaken.
TimeOutJoined(t) ==
  /\ HasTimeout
  /\ pc[t] = "joined"
  /\ IF Finished(t)
     THEN Collect(t)
     ELSE /\ operations' = IF operations[route[t]].generation = gen[t]
                           THEN [operations EXCEPT ![route[t]] = WithoutWaiter(@)]
                           ELSE operations
          /\ reply' = [reply EXCEPT ![t] = Plain(504)]
          /\ pc' = [pc EXCEPT ![t] = "replying"]
          /\ asleep' = asleep \ {t}
  /\ UNCHANGED <<environment, tables, nextGeneration, server, activeClients, route, fp, gen, work>>

----------------------------------------------------------------------------
(* A leader: fetch in child processes, outside the mutex, then publish. *)

\* execute_dashboard runs a usage worker and then a cost worker.
Workers(r) == IF r \in Dashboards THEN 2 ELSE 1

StartWorker(t) ==
  /\ pc[t] = "fetch"
  /\ pc' = [pc EXCEPT ![t] = "working"]
  /\ UNCHANGED <<environment, tables, flights, scheduling, request>>

\* The error response of a fetch.
Failed(t, status) == [Plain(status) EXCEPT !.gen = gen[t], !.fp = fp[t]]

\* The budget was spent waiting, or on the first of two workers: no worker starts.
LeaderOutOfTime(t) ==
  /\ HasTimeout
  /\ pc[t] = "fetch"
  /\ work[t].waited \/ work[t].runs > 0
  /\ reply' = [reply EXCEPT ![t] = Failed(t, 504)]
  /\ pc' = [pc EXCEPT ![t] = "verify"]
  /\ UNCHANGED <<environment, tables, flights, scheduling, route, fp, gen, work>>

\* A usage worker loads the configuration itself, once for each provider it reads;
\* a cost worker reads local logs only.
ReadsConfig(t) == route[t] \notin Costs /\ work[t].runs = 0

WorkerLoadsConfig(t) ==
  /\ pc[t] = "working"
  /\ 200 \in Outcomes       \* matters only to a worker that prints
  /\ ReadsConfig(t)
  /\ config \notin work[t].seen
  /\ work' = [work EXCEPT ![t].seen = @ \cup {config}]
  /\ UNCHANGED <<environment, tables, flights, scheduling, pc, route, fp, gen, reply>>

\* 504: killed at the deadline; 500: died, or printed no JSON.
WorkerFails(t) ==
  /\ pc[t] = "working"
  /\ \E status \in Outcomes \cap ({500} \cup (IF HasTimeout THEN {504} ELSE {})) :
       reply' = [reply EXCEPT ![t] = Failed(t, status)]
  /\ pc' = [pc EXCEPT ![t] = "verify"]
  /\ UNCHANGED <<environment, tables, flights, scheduling, route, fp, gen, work>>

\* What the worker can print: for every account no row, usage, or an error; and
\* an error that belongs to no account, which is all it prints without a configuration.
Printed(t, rows, bare) ==
  [status |-> 200, gen |-> gen[t], fp |-> fp[t], seen |-> work[t].seen, bare |-> bare,
   rows |-> [a \in Accounts |->
              IF rows[a] = "good"
              THEN [kind |-> "good", gen |-> gen[t], seen |-> work[t].seen]
              ELSE [Absent EXCEPT !.kind = rows[a]]]]

WorkerPrints(t) ==
  /\ pc[t] = "working"
  /\ 200 \in Outcomes
  /\ ReadsConfig(t) => work[t].seen # {}
  /\ \E rows \in [Accounts -> {"absent", "good", "error"}], bare \in BOOLEAN :
       /\ NoConfig \in work[t].seen => bare
       /\ reply' = [reply EXCEPT ![t] = Printed(t, rows, bare)]
  /\ work' = [work EXCEPT ![t].runs = @ + 1]
  /\ pc' = [pc EXCEPT ![t] = IF work[t].runs + 1 < Workers(route[t]) THEN "fetch" ELSE "verify"]
  /\ UNCHANGED <<environment, tables, flights, scheduling, route, fp, gen>>

\* Deviation: it is only checked that some configuration can still be loaded.
BadStillCurrent(t) == config # NoConfig
StillCurrent(t) == config = fp[t]

\* The configuration is loaded again, before the mutex is retaken.
ReloadConfig(t) ==
  /\ pc[t] = "verify"
  /\ work' = [work EXCEPT ![t].unchanged = StillCurrent(t)]
  /\ pc' = [pc EXCEPT ![t] = "publish"]
  /\ UNCHANGED <<environment, tables, flights, scheduling, route, fp, gen, reply>>

HasErrors(response) ==
  response.bare \/ \E a \in Accounts : response.rows[a].kind = "error"

\* apply_row_last_good_locked: an error row is replaced by the row its account last had.
RestoredRow(entry, row) ==
  IF row.kind = "error" /\ entry.age = "fresh" THEN entry.row ELSE row

KeptRow(entry, row) ==
  CASE row.kind = "good" /\ Caching -> [age |-> "fresh", row |-> row]
    [] row.kind = "error" /\ entry.age = "expired" -> NoRow
    [] OTHER -> entry

\* apply_dashboard_last_good_locked: a bad response is replaced as a whole.
IsGood(response) == response.status = 200 /\ ~HasErrors(response)
RestoresDashboard(entry, response) == ~IsGood(response) /\ entry.age = "fresh"

KeptDashboard(entry, response) ==
  CASE IsGood(response) /\ Caching -> [age |-> "fresh", response |-> response]
    [] ~(IsGood(response) /\ Caching) /\ entry.age = "expired" -> NoEntry
    [] OTHER -> entry

\* What the leader answers, and hands to the threads that joined it.
Published(t) ==
  LET r == route[t]  f == fp[t]  response == reply[t] IN
  CASE work[t].unchanged /\ r \in Dashboards ->
         IF RestoresDashboard(lastGoodDashboard[r][f], response)
         THEN lastGoodDashboard[r][f].response ELSE response
    [] work[t].unchanged /\ r \notin Dashboards /\ response.status = 200 ->
         [response EXCEPT !.rows =
            [a \in Accounts |-> RestoredRow(lastGoodRows[r][f][a], response.rows[a])]]
    [] OTHER -> response

\* Deviation: errors are looked for after last-good rows replaced them.
BadCacheable(t) ==
  /\ work[t].unchanged
  /\ Caching
  /\ Published(t).status = 200
  /\ ~HasErrors(Published(t))

Cacheable(t) ==
  /\ work[t].unchanged
  /\ Caching
  /\ reply[t].status = 200
  /\ ~HasErrors(reply[t])

UpdateTables(t) ==
  LET r == route[t]  f == fp[t] IN
  /\ cache' = IF Cacheable(t)
              THEN [cache EXCEPT ![r][f] = [age |-> "fresh", response |-> Published(t)]]
              ELSE cache
  /\ lastGoodDashboard' =
       IF work[t].unchanged /\ r \in Dashboards
       THEN [lastGoodDashboard EXCEPT ![r][f] = KeptDashboard(@, reply[t])]
       ELSE lastGoodDashboard
  /\ lastGoodRows' =
       IF work[t].unchanged /\ r \notin Dashboards /\ reply[t].status = 200
       THEN [lastGoodRows EXCEPT ![r][f] =
               [a \in Accounts |-> KeptRow(lastGoodRows[r][f][a], reply[t].rows[a])]]
       ELSE lastGoodRows

\* Deviation: a finished operation nobody joined stays in the table.
BadSettled(op, response) ==
  [op EXCEPT !.running = FALSE, !.response = response, !.remaining = op.waiters]
\* The operation is marked finished for its waiters, or removed when it has none.
Settled(op, response) ==
  IF op.waiters = 0 THEN NoOperation
  ELSE [op EXCEPT !.running = FALSE, !.response = response, !.remaining = op.waiters]

FinishOperation(t) ==
  IF operations[route[t]].generation = gen[t]
  THEN /\ operations' = [operations EXCEPT ![route[t]] = Settled(@, Published(t))]
       /\ asleep' = {}
  ELSE UNCHANGED <<operations, asleep>>

Publish(t) ==
  /\ pc[t] = "publish"
  /\ UpdateTables(t)
  /\ FinishOperation(t)
  /\ reply' = [reply EXCEPT ![t] = Published(t)]
  /\ pc' = [pc EXCEPT ![t] = "replying"]
  /\ UNCHANGED <<environment, nextGeneration, server, activeClients, route, fp, gen, work>>

\* Deviation: the last thread to leave does not tell the main thread.
BadAsleepAfterSend == asleep
AsleepAfterSend == {}

\* The response is sent, the thread's locals are freed, and the main thread is told.
Send(t) ==
  /\ pc[t] = "replying"
  /\ pc' = [pc EXCEPT ![t] = "answered"]
  /\ route' = [route EXCEPT ![t] = DefaultRoute]
  /\ fp' = [fp EXCEPT ![t] = NoConfig]
  /\ gen' = [gen EXCEPT ![t] = 0]
  /\ work' = [work EXCEPT ![t] = NoWork]
  /\ reply' = [reply EXCEPT ![t] = NoResponse]
  /\ activeClients' = activeClients - 1
  /\ asleep' = AsleepAfterSend
  /\ UNCHANGED <<environment, tables, flights, server>>

----------------------------------------------------------------------------
Client(t) ==
  \/ AnswerDirectly(t) \/ LoadConfig(t)
  \/ HitCache(t) \/ MissCache(t) \/ RetryTurn(t) \/ TimeOutQueued(t)
  \/ WakeJoined(t) \/ TimeOutJoined(t)
  \/ StartWorker(t) \/ LeaderOutOfTime(t) \/ WorkerLoadsConfig(t)
  \/ WorkerFails(t) \/ WorkerPrints(t) \/ ReloadConfig(t) \/ Publish(t) \/ Send(t)

\* The process has exited.
Halted == server = "stopped" /\ UNCHANGED vars

Next ==
  \/ RewriteConfig \/ Expire
  \/ Stop \/ Drain
  \/ \E t \in Requests : Connect(t) \/ Accept(t) \/ Refuse(t) \/ Client(t)
  \/ \E t \in Requests \cup {Main} : WakeSpuriously(t)
  \/ Halted

\* The accept loop runs, and so does every thread that is not asleep; a deadline
\* passes.  Nobody has to connect, to edit the configuration or to stop the server,
\* no entry has to expire, and no wait has to return without a broadcast.
Fairness ==
  /\ WF_vars(Drain)
  /\ \A t \in Requests :
       /\ WF_vars(Accept(t) \/ Refuse(t))
       /\ WF_vars(Client(t))
       /\ WF_vars(TimeOutQueued(t)) /\ WF_vars(TimeOutJoined(t))

Spec == Init /\ [][Next]_vars
FairSpec == Spec /\ Fairness

----------------------------------------------------------------------------
(* Properties *)

Leaders(r) == {t \in Requests : pc[t] \in Leading /\ route[t] = r}
Joined(r)  == {t \in Requests : pc[t] = "joined" /\ route[t] = r}

\* A route never runs two fetches at once, whatever their configurations, and
\* each fetch is the operation in the table (route_response, single flight).
OneFetchPerRoute ==
  /\ \A t, u \in Requests :
       pc[t] \in Leading /\ pc[u] \in Leading /\ route[t] = route[u] => t = u
  /\ \A t \in Requests : pc[t] \in Leading =>
       /\ operations[route[t]].running
       /\ operations[route[t]].generation = gen[t]

\* No operation outlives the threads that need it: a running one has its leader,
\* a finished one has a thread that will still collect it.  Otherwise the route
\* would stay blocked for ever.
OperationsHaveOwners ==
  \A r \in Routes : operations[r].generation # 0 =>
    IF operations[r].running THEN Leaders(r) # {} ELSE Joined(r) # {}

\* A thread that waits for an operation finds that very operation when it wakes
\* up, and the counters decide who removes it: waiters, then remaining_waiters,
\* are exactly the threads still waiting, whoever timed out on the way.
WaitersCounted ==
  /\ \A t \in Requests : pc[t] = "joined" =>
       operations[route[t]].generation = gen[t] /\ gen[t] # 0
  /\ \A r \in Routes :
       (IF operations[r].running THEN operations[r].waiters ELSE operations[r].remaining)
         = Cardinality(Joined(r))

\* The connection limit and the shutdown both rely on active_clients being the
\* number of client threads: the state is freed only when no thread can use it.
ClientsCounted ==
  /\ activeClients = Cardinality({t \in Requests : pc[t] \in Active})
  /\ activeClients <= MaxClients
  /\ server = "stopped" => \A t \in Requests : pc[t] \notin Active

\* Whatever the path (cache, own fetch, a joined operation, last-good), a response
\* was fetched for the configuration the answered thread loaded.
AnsweredForOwnConfig ==
  \A t \in Requests :
    pc[t] = "replying" /\ reply[t].gen # 0 => reply[t].fp = fp[t]

\* Data kept for later requests was read under the configuration it is kept for.
\* Holds while the file does not return to an earlier version.
KeptUnderItsConfig ==
  \A r \in Routes, f \in Fingerprints :
    /\ cache[r][f].response.seen \subseteq {f}
    /\ lastGoodDashboard[r][f].response.seen \subseteq {f}
    /\ \A a \in Accounts : lastGoodRows[r][f][a].row.seen \subseteq {f}

\* Last-good data is only a fallback: it never enters the cache as a fresh response
\* and never renews its own lifetime, and nothing with an error is kept.
OnlyFreshDataKept ==
  \A r \in Routes, f \in Fingerprints :
    \A e \in {cache[r][f], lastGoodDashboard[r][f]} :
      /\ ~HasErrors(e.response)
      /\ \A a \in Accounts : e.response.rows[a].kind = "good" =>
           e.response.rows[a].gen = e.response.gen

\* A slower, older fetch never overwrites what a newer one put under the same key.
CacheMovesForward ==
  [][\A r \in Routes, f \in Fingerprints :
       /\ cache[r][f].age # "none" /\ cache'[r][f].age # "none" =>
            cache'[r][f].response.gen >= cache[r][f].response.gen
       /\ \A a \in Accounts :
            lastGoodRows'[r][f][a].age # "none" =>
              lastGoodRows'[r][f][a].row.gen >= lastGoodRows[r][f][a].row.gen]_vars

\* A thread that becomes the leader found nothing fresh to answer from: two
\* requests that miss together are coalesced into one fetch.
LeaderHasNoFreshEntry ==
  \A t \in Requests : pc[t] = "fetch" => cache[route[t]][fp[t]].age # "fresh"

\* Every connection the kernel queued is answered, refused or reset: no wakeup is
\* lost between the threads that wait on the one condition variable.
EveryClientIsAnswered ==
  \A t \in Requests :
    (pc[t] \notin {"away", "answered", "refused"}) ~> (pc[t] \in {"answered", "refused"})

\* A server told to stop exits once its clients are answered.
ShutdownCompletes == (server = "draining") ~> (server = "stopped")

=============================================================================
