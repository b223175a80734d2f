------------------------------ MODULE Runtime ------------------------------
(***************************************************************************)
(* linux/src/runtime.c: codexbar_runtime_fetch and the tables it keeps     *)
(* between refreshes, for one provider.  A refresh loads the configuration,*)
(* empties the tables if it is a new one, fetches usage without a lock,    *)
(* loads the configuration again, and publishes what it has fetched step   *)
(* by step, each step under the lock, if it has not changed.  Refreshes    *)
(* overlap when the status item replaces one that has not ended.  Hooks    *)
(* and notifications are configured for every event.  A snapshot has a row *)
(* per account; what is remembered of failures, of usage and of sessions,  *)
(* is kept under the name a row gives for its account, if it gives one.    *)
(* What an observation does to a session is the matter of QuotaLane: here  *)
(* a table is the set of configurations whose data it holds or was derived *)
(* from.                                                                   *)
(***************************************************************************)
EXTENDS Integers, Sequences

CONSTANTS
  Workers,      \* the threads that call codexbar_runtime_fetch
  Ids,          \* what identity->account_id of a row may be
  Accounts,     \* what account of a row may be
  NoName,       \* neither: NULL, or the empty string in a key
  MaxRows,      \* bound: the most accounts of the provider in a snapshot
  FirstConfig,  \* the configuration at the start; there is one on disk
  LastConfig,   \* bound: configurations are numbered, none returns after an edit
  RateLimit,    \* RATE_LIMIT_MILLISECONDS, in the unit of time
  MaxTime       \* bound: the last instant

\* config_digest before the first refresh: NULL.
NoDigest == 0
Configs == FirstConfig..LastConfig

ASSUME RuntimeAssumption ==
  /\ FirstConfig \in Nat \ {0} /\ LastConfig \in Nat
  /\ FirstConfig <= LastConfig
  /\ RateLimit \in Nat \ {0}
  /\ MaxTime \in Nat
  /\ MaxRows \in Nat

ASSUME NamesAreNames == NoName \notin Ids \cup Accounts

VARIABLES
  config,    \* the configuration file
  now,       \* the real-time clock
  digest,    \* config_digest of the runtime, and config_revision of its transitions
  lastGood,  \* last_good_statuses
  usage,     \* quota_usage of the transitions, of one window, by lane
  sensed,    \* warning_states
  sessions,  \* session_states
  failures,  \* failure_states, by lane
  outage,    \* whether the provider is in provider_outages
  lastFired, \* last_fired; 0 for none
  fetch,     \* of each worker: its step and local variables
  event,     \* the status or failure hook that the last step dispatched
  told,      \* history: when each rate-limited event was dispatched last; 0 for never
  trail,     \* history: outcome of the last row of each lane since the tables were emptied
  mixed      \* history: whether refreshes under different configurations have overlapped

tables == <<digest, lastGood, usage, sensed, sessions, failures>>
status == <<outage, lastFired>>
history == <<told, trail, mixed>>
vars == <<config, now, tables, status, fetch, event, history>>

Digests == Configs \cup {NoDigest}
Steps == {"load", "reconcile", "fetch", "check", "status", "hook", "failure", "low", "warn", "session"}
Statuses == {"up", "down", "unclear", "failed"}

\* A row that failed names its account only if the account is a managed one, which
\* has an address: for the others provider_error leaves both names out.
Rows ==
  {row \in [id: Ids \cup {NoName}, account: Accounts \cup {NoName}, failed: BOOLEAN] :
     row.failed /\ row.account = NoName => row.id = NoName}

\* transition_lane_key
Lanes == Ids \cup Accounts \cup {NoName}
Lane(row) == IF row.id # NoName THEN row.id ELSE row.account

\* An account that answered is in a snapshot once.
SameAccount(a, b) ==
  /\ ~a.failed /\ ~b.failed
  /\ \/ a.id # NoName /\ a.id = b.id
     \/ a.account # NoName /\ a.account = b.account
Snapshots ==
  {rows \in UNION {[1..n -> Rows] : n \in 1..MaxRows} :
     \A i, j \in DOMAIN rows : i # j => ~SameAccount(rows[i], rows[j])}

\* Events are limited by the account of the row, not by its lane.
Unavailable == <<"provider_unavailable", NoName>>
Recovered == <<"provider_recovered", NoName>>
Nothing == <<"none", NoName>>
FailureOf(row) == <<"refresh_failed", row.account>>
Limited == {Unavailable} \cup ({"refresh_failed"} \X (Accounts \cup {NoName}))

Fetch == [step: Steps, digest: Digests, read: Digests, rows: Seq(Rows), fresh: Statuses]

\* No worker is in codexbar_runtime_fetch.
Resting ==
  [step |-> "load", digest |-> NoDigest, read |-> NoDigest, rows |-> <<>>, fresh |-> "failed"]

Failures == [streak: 0..2, succeeded: BOOLEAN, from: SUBSET Configs]
NoFailures == [lane \in Lanes |-> [streak |-> 0, succeeded |-> FALSE, from |-> {}]]
NoUsage == [lane \in Lanes |-> {}]
NoTrail == [lane \in Lanes |-> "none"]

TypeOK ==
  /\ config \in Configs /\ digest \in Digests
  /\ now \in Nat \ {0}
  /\ lastGood \subseteq Configs /\ usage \in [Lanes -> SUBSET Configs]
  /\ sensed \subseteq Configs /\ sessions \subseteq Configs
  /\ failures \in [Lanes -> Failures]
  /\ outage \in BOOLEAN
  /\ lastFired \in [Limited -> Nat] /\ told \in [Limited -> Nat]
  /\ fetch \in [Workers -> Fetch]
  /\ event \in Limited \cup {Recovered, Nothing}
  /\ trail \in [Lanes -> {"none", "ok", "error"}]
  /\ mixed \in BOOLEAN

Init ==
  /\ config = FirstConfig
  /\ now = 1
  /\ digest = NoDigest
  /\ lastGood = {} /\ usage = NoUsage /\ sensed = {} /\ sessions = {}
  /\ failures = NoFailures
  /\ outage = FALSE /\ lastFired = [e \in Limited |-> 0]
  /\ fetch = [w \in Workers |-> Resting]
  /\ event = Nothing
  /\ told = [e \in Limited |-> 0]
  /\ trail = NoTrail
  /\ mixed = FALSE

----------------------------------------------------------------------------
(* The environment *)

Edit ==
  /\ config < LastConfig
  /\ config' = config + 1
  /\ event' = Nothing
  /\ UNCHANGED <<now, tables, status, fetch, history>>

Tick ==
  /\ now < MaxTime
  /\ now' = now + 1
  /\ event' = Nothing
  /\ UNCHANGED <<config, tables, status, fetch, history>>

----------------------------------------------------------------------------
(* codexbar_runtime_fetch, up to the publication *)

At(w, step) == fetch[w].step = step
GoTo(w, step) == fetch' = [fetch EXCEPT ![w].step = step]
Return(w) == fetch' = [fetch EXCEPT ![w] = Resting]

\* A file that cannot be read or parsed ends the refresh: no state is touched.
Load(w) ==
  /\ At(w, "load")
  /\ fetch' = [fetch EXCEPT ![w] = [Resting EXCEPT !.step = "reconcile", !.digest = config]]
  /\ event' = Nothing
  /\ UNCHANGED <<config, now, tables, status, history>>

\* Deviation: a new digest leaves the tables as they are.
BadInvalidates(new) == FALSE

\* The tables are emptied only if the digest that changes was one.
Invalidates(new) == digest # NoDigest /\ digest # new

Reconcile(w) ==
  LET new == fetch[w].digest IN
  /\ At(w, "reconcile")
  /\ IF Invalidates(new)
     THEN /\ lastGood' = {} /\ sensed' = {} /\ sessions' = {} /\ failures' = NoFailures
          /\ trail' = NoTrail
     ELSE UNCHANGED <<lastGood, sensed, sessions, failures, trail>>
  /\ digest' = new
  /\ usage' = IF digest = new THEN usage ELSE NoUsage
  /\ mixed' = (mixed \/ \E v \in Workers : ~At(v, "load") /\ fetch[v].digest # new)
  /\ GoTo(w, "fetch")
  /\ event' = Nothing
  /\ UNCHANGED <<config, now, status, told>>

\* The usage fetcher reads the configuration for itself.
FetchUsage(w) ==
  /\ At(w, "fetch")
  /\ \E rows \in Snapshots :
       fetch' = [fetch EXCEPT ![w].step = "check", ![w].read = config, ![w].rows = rows]
  /\ event' = Nothing
  /\ UNCHANGED <<config, now, tables, status, history>>

\* No snapshot, or a cancelled fetch.
NoSnapshot(w) ==
  /\ At(w, "fetch")
  /\ Return(w)
  /\ event' = Nothing
  /\ UNCHANGED <<config, now, tables, status, history>>

IsCurrent(w) == fetch[w].digest = config

\* Whether to publish is decided once, before the first step of the publication.
Check(w) ==
  /\ At(w, "check")
  /\ IF IsCurrent(w) THEN GoTo(w, "status") ELSE Return(w)
  /\ event' = Nothing
  /\ UNCHANGED <<config, now, tables, status, history>>

----------------------------------------------------------------------------
(* The publication *)

\* Deviation: the moment at which an event was let through is not kept.
BadFiredAt(e) == lastFired
FiredAt(e) == [lastFired EXCEPT ![e] = now]
Allowed(e) == lastFired[e] = 0 \/ now - lastFired[e] >= RateLimit

\* The hook of an event is dispatched.
Tell(e) ==
  /\ event' = e
  /\ told' = IF e \in Limited THEN [told EXCEPT ![e] = now] ELSE told

TellNothing == event' = Nothing /\ UNCHANGED told

\* published_status: what could not be fetched does not replace the last good status.
PublishStatus(w) ==
  /\ At(w, "status")
  /\ \E fresh \in Statuses :
       /\ fetch' = [fetch EXCEPT ![w].step = "hook", ![w].fresh = fresh]
       /\ lastGood' = IF fresh = "failed" THEN lastGood ELSE {fetch[w].digest}
  /\ event' = Nothing
  /\ UNCHANGED <<config, now, digest, usage, sensed, sessions, failures, status, history>>

\* dispatch_status_hook: an outage that begins too soon after the last one that was
\* told is noted but not told; its end is told. The status is not used any more.
StatusHook(w) ==
  LET begins == fetch[w].fresh = "down" /\ ~outage
      ends   == fetch[w].fresh = "up" /\ outage IN
  /\ At(w, "hook")
  /\ outage' = (begins \/ (outage /\ ~ends))
  /\ lastFired' = IF begins /\ Allowed(Unavailable) THEN FiredAt(Unavailable) ELSE lastFired
  /\ \/ begins /\ Allowed(Unavailable) /\ Tell(Unavailable)
     \/ ends /\ Tell(Recovered)
     \/ ~ends /\ ~(begins /\ Allowed(Unavailable)) /\ TellNothing
  /\ fetch' = [fetch EXCEPT ![w].step = "failure", ![w].fresh = "failed"]
  /\ UNCHANGED <<config, now, tables, trail, mixed>>

\* The row in turn, and the step after it.
Row(w) == Head(fetch[w].rows)
Advance(w) ==
  IF Len(fetch[w].rows) = 1 THEN Return(w)
  ELSE fetch' = [fetch EXCEPT ![w].step = "failure", ![w].rows = Tail(@)]

\* Deviation: a success leaves the streak of failures as it is.
BadAfterSuccess(lane, from) ==
  [failures EXCEPT ![lane] = [@ EXCEPT !.succeeded = TRUE, !.from = @ \cup from]]

AfterSuccess(lane, from) ==
  [failures EXCEPT ![lane] = [streak |-> 0, succeeded |-> TRUE, from |-> @.from \cup from]]

\* Streaks are counted up to two.
AfterFailure(lane, from) ==
  [failures EXCEPT ![lane] = [streak |-> IF @.streak = 0 THEN 1 ELSE 2,
                              succeeded |-> @.succeeded, from |-> @.from \cup from]]

\* dispatch_refresh_failure of a row without an error.
ReportSuccess(w) ==
  LET lane == Lane(Row(w)) IN
  /\ At(w, "failure") /\ ~Row(w).failed
  /\ failures' = AfterSuccess(lane, {fetch[w].read})
  /\ trail' = [trail EXCEPT ![lane] = "ok"]
  /\ GoTo(w, "low")
  /\ TellNothing
  /\ UNCHANGED <<config, now, digest, lastGood, usage, sensed, sessions, status, mixed>>

\* dispatch_refresh_failure of a row with an error, of which nothing else is published.
ReportFailure(w) ==
  LET lane     == Lane(Row(w))
      failed   == FailureOf(Row(w))
      next     == AfterFailure(lane, {fetch[w].read})
      surfaced == (~next[lane].succeeded \/ next[lane].streak > 1) /\ Allowed(failed) IN
  /\ At(w, "failure") /\ Row(w).failed
  /\ failures' = next
  /\ trail' = [trail EXCEPT ![lane] = "error"]
  /\ IF surfaced
     THEN Tell(failed) /\ lastFired' = FiredAt(failed)
     ELSE TellNothing /\ UNCHANGED lastFired
  /\ Advance(w)
  /\ UNCHANGED <<config, now, digest, lastGood, usage, sensed, sessions, outage, mixed>>

\* dispatch_quota_low_transitions, first lock: usage replaces what was known.
ObserveUsage(w) ==
  /\ At(w, "low")
  /\ usage' = [usage EXCEPT ![Lane(Row(w))] = {fetch[w].read}]
  /\ GoTo(w, "warn")
  /\ TellNothing
  /\ UNCHANGED <<config, now, digest, lastGood, sensed, sessions, failures, status, trail, mixed>>

\* dispatch_quota_low_transitions, second lock: bits of earlier observations remain.
ObserveWarning(w) ==
  /\ At(w, "warn")
  /\ sensed' = sensed \cup {fetch[w].read}
  /\ GoTo(w, "session")
  /\ TellNothing
  /\ UNCHANGED <<config, now, digest, lastGood, usage, sessions, failures, status, trail, mixed>>

\* dispatch_session_transition; the trusted boundary of an earlier state may remain.
\* The next row follows.  The history that is recorded after the last one is another store.
ObserveSession(w) ==
  /\ At(w, "session")
  /\ sessions' = sessions \cup {fetch[w].read}
  /\ Advance(w)
  /\ TellNothing
  /\ UNCHANGED <<config, now, digest, lastGood, usage, sensed, failures, status, trail, mixed>>

Next ==
  \/ Edit \/ Tick
  \/ \E w \in Workers :
       \/ Load(w) \/ Reconcile(w) \/ FetchUsage(w) \/ NoSnapshot(w) \/ Check(w)
       \/ PublishStatus(w) \/ StatusHook(w) \/ ReportSuccess(w) \/ ReportFailure(w)
       \/ ObserveUsage(w) \/ ObserveWarning(w) \/ ObserveSession(w)

Spec == Init /\ [][Next]_vars

----------------------------------------------------------------------------
(* Properties *)

\* What the tables hold comes from the configuration the runtime works with.
\* docs/ARCHITECTURE.md: "Runtime state is invalidated when the loaded config digest
\* changes, preventing stale work from publishing into a new configuration."
StateBelongsToConfig ==
  /\ lastGood \cup sensed \cup sessions \subseteq {digest}
  /\ \A lane \in Lanes : usage[lane] \cup failures[lane].from \subseteq {digest}

\* That holds as long as refreshes under different configurations do not overlap.
BelongsUnlessMixed == mixed \/ StateBelongsToConfig

\* No event is told again within the rate limit: not by an overlapping refresh
\* and not after the configuration has changed, which empties every other table.
RateLimited ==
  [][\A e \in Limited : event' = e => told[e] = 0 \/ now - told[e] >= RateLimit]_vars

\* A row that failed is published.
Failing(w) == At(w, "failure") /\ fetch'[w] # fetch[w] /\ Row(w).failed

\* The first failure after a success of the same lane is forgiven; every other one is
\* told unless one of the same account was told within the rate limit, also when
\* refreshes overlap and when rows of several accounts, or of none, take turns.
FailuresReported ==
  [][\A w \in Workers : Failing(w) =>
       LET failed == FailureOf(Row(w)) IN
       (event' = failed) <=>
         /\ trail[Lane(Row(w))] # "ok"
         /\ told[failed] = 0 \/ now - told[failed] >= RateLimit]_vars
=============================================================================
