----------------------------- MODULE StatusItem -----------------------------
(***************************************************************************)
(* The StatusNotifierItem process of linux/src/desktop.c: one main loop    *)
(* that dispatches D-Bus calls, a refresh timer, signals and the results   *)
(* of refreshes, and one worker thread per refresh that was started.  A    *)
(* replaced refresh is cancelled, not awaited: its worker goes on, and its *)
(* result arrives whenever it arrives.  A step is one dispatched callback, *)
(* the end of one worker, or the passing of time.                          *)
(***************************************************************************)
EXTENDS Integers, FiniteSets, RefreshPolicy, RefreshCoordinator

CONSTANTS
  Configured,   \* the refresh frequencies a configuration file may ask for
  Constrained,  \* CODEXBAR_LOW_POWER or CODEXBAR_THERMALLY_CONSTRAINED is set
  TimeStep,     \* bound: the granularity of the clock, in seconds
  MaxTime,      \* bound: when the clock of the model stops
  MaxInputs     \* bound: how many clicks and signals arrive

ASSUME StatusItemAssumption ==
  /\ Configured \subseteq Frequencies
  /\ Constrained \in BOOLEAN
  /\ TimeStep \in Nat \ {0}
  /\ MaxTime \in Nat
  /\ MaxInputs \in Nat

VARIABLES
  phase,         \* of codexbar_status_item_run
  now,           \* g_get_monotonic_time
  inputs,        \* clicks and signals so far
  frequency,     \* item->refresh_frequency
  lastMenuOpen,  \* item->last_menu_open_us; 0 before the first
  coordinator,   \* the state of CODEXBAR_STATUS_REFRESH_KEY
  timer,         \* when item->refresh_timer is due; 0 without a timer
  deadline,      \* item->fixed_refresh_deadline_us
  cancellable,   \* the generation item->refresh_cancellable belongs to; 0 for NULL
  cancelled,     \* generations whose GCancellable was cancelled
  workers,       \* generations whose worker thread runs
  returned,      \* generations whose result waits for the main loop
  stopping,      \* item->stopping
  references,    \* item->references
  shown          \* what the icon and the tooltip show, and which refresh it is of

clock   == <<now, inputs>>
tasks   == <<cancelled, workers, returned>>
refresh == <<coordinator, timer, cancellable, tasks, references>>
vars == <<phase, clock, frequency, lastMenuOpen, refresh, deadline, stopping, shown>>

TypeOK ==
  /\ phase \in {"starting", "running", "quitting", "ended"}
  /\ now \in Nat \ {0}
  /\ inputs \in Nat
  /\ frequency \in Frequencies
  /\ lastMenuOpen \in Nat
  /\ coordinator \in RefreshState
  /\ timer \in Nat /\ deadline \in Nat
  /\ cancellable \in Nat
  /\ cancelled \subseteq Nat /\ workers \subseteq Nat /\ returned \subseteq Nat
  /\ stopping \in BOOLEAN
  /\ references \in Nat
  /\ shown \in [generation: Nat, what: {"loading", "usage", "error"}]

Init ==
  /\ phase = "starting"
  /\ now = TimeStep
  /\ inputs = 0
  /\ frequency \in Configured
  /\ lastMenuOpen = 0
  /\ coordinator = Idle
  /\ timer = 0 /\ deadline = 0
  /\ cancellable = 0
  /\ cancelled = {} /\ workers = {} /\ returned = {}
  /\ stopping = FALSE
  /\ references = 1
  /\ shown = [generation |-> 0, what |-> "loading"]

----------------------------------------------------------------------------
(* Helpers of the callbacks. *)

Tick ==
  /\ phase # "ended"
  /\ now + TimeStep <= MaxTime
  /\ now' = now + TimeStep
  /\ UNCHANGED <<phase, inputs, frequency, lastMenuOpen, refresh, deadline, stopping, shown>>

\* g_main_loop_quit takes effect after the callbacks that are already due.
Dispatching == phase \in {"running", "quitting"}

Input ==
  /\ inputs < MaxInputs
  /\ inputs' = inputs + 1

Delay == DecidedDelay(frequency,
  [hasLastMenuOpen |-> lastMenuOpen # 0, menuAge |-> now - lastMenuOpen,
   hasRecentActivity |-> FALSE, activityAge |-> 0,
   lowPower |-> Constrained, constrained |-> FALSE])

\* Deviation: an overrun deadline is pushed one interval on, not past the present.
BadNextDeadline == IF deadline = 0 THEN now + Delay ELSE deadline + Delay

\* The slots of a fixed frequency keep the phase of the first one.
NextDeadline ==
  CASE deadline = 0 -> now + Delay
    [] deadline # 0 /\ deadline <= now -> NextFixedDeadline(deadline, now, Delay)
    [] OTHER -> deadline

\* schedule_next_refresh, of an item that is not stopping.
ScheduleNextRefresh ==
  IF Delay = 0
  THEN timer' = 0 /\ UNCHANGED deadline
  ELSE IF frequency \in Adaptive
       THEN timer' = now + Delay /\ deadline' = 0
       ELSE timer' = NextDeadline /\ deadline' = NextDeadline

\* Deviation: the timer is left to run while a refresh does.
BadTimerOfRequest == timer

TimerOfRequest == 0

ReferencesOfRequest == references + 1

CancelledBy(state) == IF state.active /\ cancellable # 0 THEN cancelled \cup {cancellable}
                                                         ELSE cancelled

\* request_refresh, when the coordinator lets it start.
StartRefresh ==
  LET next == Requested(coordinator) IN
  /\ coordinator' = next
  /\ timer' = TimerOfRequest
  /\ cancelled' = CancelledBy(coordinator)
  /\ cancellable' = next.generation
  /\ workers' = workers \cup {next.generation}
  /\ references' = ReferencesOfRequest
  /\ UNCHANGED returned

Starts(replace) == ~stopping /\ ShouldStart(coordinator, replace)

\* stop_status_item and status_item_shutdown.
Abandon ==
  /\ stopping' = TRUE
  /\ coordinator' = Invalidated(coordinator)
  /\ cancelled' = IF cancellable # 0 THEN cancelled \cup {cancellable} ELSE cancelled

----------------------------------------------------------------------------
(* The callbacks. *)

\* The bus name is acquired and the objects are registered.
Start ==
  /\ phase = "starting"
  /\ phase' = "running"
  /\ StartRefresh
  /\ UNCHANGED <<clock, frequency, lastMenuOpen, deadline, stopping, shown>>

\* No session bus, or the name is taken; and the orderly end after the loop.
Shutdown ==
  /\ phase \in {"starting", "quitting"}
  /\ phase' = "ended"
  /\ Abandon
  /\ timer' = 0
  /\ references' = references - 1
  /\ UNCHANGED <<clock, frequency, lastMenuOpen, deadline, cancellable, workers, returned, shown>>

\* Activate opens the terminal interface; the timer keeps its time.
Activate ==
  /\ Dispatching
  /\ Input
  /\ lastMenuOpen' = now
  /\ UNCHANGED <<phase, now, frequency, refresh, deadline, stopping, shown>>

\* ContextMenu and SecondaryActivate.
Press ==
  /\ Dispatching
  /\ Input
  /\ IF Starts(TRUE) THEN StartRefresh ELSE UNCHANGED refresh
  /\ UNCHANGED <<phase, now, frequency, lastMenuOpen, deadline, stopping, shown>>

TimerFires ==
  /\ Dispatching
  /\ timer # 0 /\ timer <= now
  /\ IF Starts(FALSE)
     THEN StartRefresh
     ELSE timer' = 0 /\ UNCHANGED <<coordinator, cancellable, tasks, references>>
  /\ UNCHANGED <<phase, clock, frequency, lastMenuOpen, deadline, stopping, shown>>

\* A worker thread ends, with a snapshot or an error, cancelled or not.
WorkerReturns(g) ==
  /\ g \in workers
  /\ workers' = workers \ {g}
  /\ returned' = returned \cup {g}
  /\ UNCHANGED <<phase, clock, frequency, lastMenuOpen, coordinator, timer, cancellable,
                 cancelled, references, deadline, stopping, shown>>

\* GTask replaces the result of a cancelled task by an error.
Results(g) == IF g \in cancelled THEN {"error"} ELSE {"usage", "error"}

\* refresh_complete.
Complete(g) ==
  /\ Dispatching
  /\ g \in returned
  /\ returned' = returned \ {g}
  /\ coordinator' = Completed(coordinator, g)
  /\ cancellable' = IF IsCurrent(coordinator, g) THEN 0 ELSE cancellable
  /\ IF IsCurrent(coordinator, g) /\ ~stopping
     THEN /\ \E what \in Results(g) : shown' = [generation |-> g, what |-> what]
          /\ ScheduleNextRefresh
     ELSE UNCHANGED <<shown, timer, deadline>>
  /\ references' = references - 1
  /\ UNCHANGED <<phase, clock, frequency, lastMenuOpen, cancelled, workers, stopping>>

\* SIGINT or SIGTERM.
Stop ==
  /\ Dispatching
  /\ Input
  /\ phase' = "quitting"
  /\ Abandon
  /\ UNCHANGED <<now, frequency, lastMenuOpen, timer, cancellable, workers, returned,
                 references, deadline, shown>>

\* main returned; or the bounds of the model are used up.
Halted ==
  /\ phase = "ended" \/ (phase = "running" /\ now + TimeStep > MaxTime)
  /\ UNCHANGED vars

Next ==
  \/ Tick \/ Start \/ Shutdown \/ Activate \/ Press \/ TimerFires \/ Stop
  \/ \E g \in workers : WorkerReturns(g)
  \/ \E g \in returned : Complete(g)
  \/ Halted

\* The main loop dispatches what is due, and a fetch ends: every request it makes
\* has a timeout.  Neither the user nor the clock has to do anything.
Fairness ==
  /\ WF_vars(Start) /\ WF_vars(Shutdown)
  /\ WF_vars(\E g \in workers : WorkerReturns(g))
  /\ WF_vars(\E g \in returned : Complete(g))

Spec == Init /\ [][Next]_vars
FairSpec == Spec /\ Fairness

----------------------------------------------------------------------------
(* Properties *)

\* The refresh the coordinator believes in really exists, is not cancelled, and is
\* the one that a replacement or a stop would cancel.  Otherwise no timer would ever
\* be armed again.
CurrentRefreshLives ==
  coordinator.active =>
    /\ coordinator.generation \in workers \cup returned
    /\ coordinator.generation \notin cancelled
    /\ cancellable = coordinator.generation

\* Every other fetch still under way has been told to give up.
SupersededAreCancelled ==
  \A g \in workers \cup returned :
    (coordinator.active /\ g = coordinator.generation) \/ g \in cancelled

\* A running item always has its next refresh ahead: under way, or on the timer
\* (never both, and never neither unless refreshing is manual).
KeepsRefreshing ==
  phase = "running" =>
    IF coordinator.active THEN timer = 0 ELSE timer # 0 \/ frequency = "manual"

\* A late result never replaces what a newer refresh showed, nor is anything shown
\* of a refresh that was replaced or after the item was told to stop.
ShowsOnlyTheCurrent ==
  [][shown' # shown =>
       /\ shown'.generation > shown.generation
       /\ shown'.generation = coordinator.generation
       /\ shown'.generation \notin cancelled
       /\ ~stopping]_vars

\* A fixed frequency keeps its phase however long refreshes take: the deadline only
\* moves by whole intervals, past the present, and skips no slot that is ahead.
PhaseKept ==
  [][deadline # 0 /\ deadline' # deadline =>
       /\ (deadline' - deadline) % FixedDelays[frequency] = 0
       /\ deadline' > now
       /\ deadline' - FixedDelays[frequency] <= now]_vars

\* The item, and the runtime and coordinator it owns, are freed when the last
\* reference goes: no worker is left then that could still use them.
ReferencesCounted ==
  references = (IF phase = "ended" THEN 0 ELSE 1) + Cardinality(workers) + Cardinality(returned)

\* Whatever was requested, that refresh or a newer one is shown, unless the item is
\* told to stop first.
EveryRefreshShows ==
  \A g \in 1..MaxInputs + 1 :
    (coordinator.active /\ coordinator.generation = g) ~> (shown.generation >= g \/ stopping)

=============================================================================
