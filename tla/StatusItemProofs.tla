-------------------------- MODULE StatusItemProofs --------------------------
(***************************************************************************)
(* Theorems about StatusItem, for every set of configured frequencies and  *)
(* every bound.  The invariant adds to the properties how generations are  *)
(* numbered: every generation that was ever used is at most that of the    *)
(* coordinator, so that a new refresh can be confused with none of them.   *)
(***************************************************************************)
EXTENDS StatusItem, FiniteSetTheorems, TLAPS

Numbered ==
  /\ \A g \in workers \cup returned \cup cancelled : 0 < g /\ g <= coordinator.generation
  /\ cancellable <= coordinator.generation
  /\ shown.generation <= coordinator.generation
  /\ coordinator.active => shown.generation < coordinator.generation

\* A generation has one task, whose worker either still runs or has returned.
TasksInv ==
  /\ IsFiniteSet(workers) /\ IsFiniteSet(returned)
  /\ workers \cap returned = {}
  /\ ReferencesCounted

PhaseInv ==
  /\ phase = "starting" =>
       /\ ~coordinator.active /\ timer = 0 /\ cancellable = 0
       /\ workers = {} /\ returned = {}
  /\ stopping <=> phase \in {"quitting", "ended"}
  /\ stopping => ~coordinator.active

DeadlineIsFixed == deadline # 0 => frequency \in DOMAIN FixedDelays

Inv ==
  /\ TypeOK
  /\ Numbered
  /\ TasksInv
  /\ PhaseInv
  /\ CurrentRefreshLives
  /\ SupersededAreCancelled
  /\ KeepsRefreshing
  /\ DeadlineIsFixed

----------------------------------------------------------------------------
(* refresh_policy.c *)

\* The fixed delays are those of the table, and none is zero.
LEMMA FixedDelayFacts ==
  /\ DOMAIN FixedDelays =
       {"oneMinute", "twoMinutes", "fiveMinutes", "fifteenMinutes", "thirtyMinutes"}
  /\ \A f \in DOMAIN FixedDelays : FixedDelays[f] \in {60, 120, 300, 900, 1800}
  /\ "manual" \notin DOMAIN FixedDelays
  /\ Adaptive \cap DOMAIN FixedDelays = {}
BY DEF FixedDelays, Adaptive

\* Whatever the user and the machine do, an adaptive delay lies between two minutes
\* and half an hour (codexbar_refresh_policy_decide).
THEOREM AdaptiveIsBounded ==
  ASSUME NEW input \in PolicyInput, NEW frequency_ \in Adaptive
  PROVE  DecidedDelay(frequency_, input) \in {120, 300, 900, 1800}
<1>1. frequency_ # "manual" /\ frequency_ \notin DOMAIN FixedDelays
  BY FixedDelayFacts DEF Adaptive
<1>2. MenuDelay(input) \in {120, 300, 900, 1800}
  BY DEF MenuDelay
<1>3. AdaptiveDelay(input) \in {120, 300, 900, 1800}
  BY <1>2 DEF AdaptiveDelay, PolicyInput
<1> QED BY <1>1, <1>3 DEF DecidedDelay

\* Opening the menu never makes the next refresh come later: a younger visit gives
\* a delay that is at most that of an older one (codexbar_refresh_policy_decide).
THEOREM AdaptiveIsMonotone ==
  ASSUME NEW older \in PolicyInput, NEW age \in Int, age <= older.menuAge,
         older.hasLastMenuOpen
  PROVE  AdaptiveDelay([older EXCEPT !.menuAge = age]) <= AdaptiveDelay(older)
<1> DEFINE younger == [older EXCEPT !.menuAge = age]
<1>0. /\ younger.hasRecentActivity = older.hasRecentActivity
      /\ younger.activityAge = older.activityAge
      /\ younger.lowPower = older.lowPower /\ younger.constrained = older.constrained
      /\ younger.hasLastMenuOpen
  BY DEF PolicyInput
<1>1. younger.menuAge = age /\ older.menuAge \in Int /\ older.activityAge \in Int
  BY DEF PolicyInput
<1>2. /\ MenuDelay(younger) \in {120, 300, 900, 1800}
      /\ MenuDelay(older) \in {120, 300, 900, 1800}
  BY DEF MenuDelay
<1> HIDE DEF younger
<1>3. MenuDelay(younger) <= MenuDelay(older)
  <2>1. PICK old \in Int : old = older.menuAge
    BY <1>1
  <2>2. MenuDelay(older) = CASE old <= 300 -> 120
                             [] 300 < old /\ old <= 3600 -> 300
                             [] 3600 < old /\ old < 14400 -> 900
                             [] OTHER -> 1800
    BY <2>1 DEF MenuDelay
  <2>3. MenuDelay(younger) = CASE age <= 300 -> 120
                               [] 300 < age /\ age <= 3600 -> 300
                               [] 3600 < age /\ age < 14400 -> 900
                               [] OTHER -> 1800
    BY <1>0, <1>1 DEF MenuDelay
  <2>4. age <= old
    BY <2>1
  <2> HIDE <2>1
  <2> QED BY <2>2, <2>3, <2>4
<1>4. AdaptiveDelay(younger) <= AdaptiveDelay(older)
  <2>1. CASE older.lowPower \/ older.constrained
    BY <2>1, <1>0, <1>1 DEF AdaptiveDelay
  <2>2. CASE /\ ~(older.lowPower \/ older.constrained)
             /\ older.hasRecentActivity /\ older.activityAge < 300
    BY <2>2, <1>0, <1>1, <1>2, <1>3 DEF AdaptiveDelay
  <2>3. CASE /\ ~(older.lowPower \/ older.constrained)
             /\ ~(older.hasRecentActivity /\ older.activityAge < 300)
    BY <2>3, <1>0, <1>1, <1>2, <1>3 DEF AdaptiveDelay
  <2> QED BY <2>1, <2>2, <2>3
<1> QED BY <1>4 DEF younger

\* next is the first slot after completed on the grid that previous lies on.
IsNextSlot(next, previous, completed, interval) ==
  /\ next \in Nat
  /\ completed < next /\ next <= completed + interval
  /\ (next - previous) % interval = 0

\* The slots of a fixed frequency: the next deadline lies ahead, by no more than one
\* interval, and on the grid of the previous one (codexbar_refresh_next_fixed_deadline).
THEOREM NextFixedDeadlineIsNextSlot ==
  \A previous, completed \in Nat : \A interval \in {60, 120, 300, 900, 1800} :
    previous <= completed =>
      IsNextSlot(NextFixedDeadline(previous, completed, interval), previous, completed, interval)
BY SMTT(60) DEF NextFixedDeadline, IsNextSlot

----------------------------------------------------------------------------
(* The helpers of the callbacks *)

\* A delay is a natural number, and positive unless refreshing is manual.
LEMMA DelayFacts ==
  ASSUME TypeOK
  PROVE  /\ Delay \in Nat
         /\ Delay = 0 <=> frequency = "manual"
         /\ frequency \in DOMAIN FixedDelays =>
              Delay = FixedDelays[frequency] /\ Delay \in {60, 120, 300, 900, 1800}
<1> DEFINE input == [hasLastMenuOpen |-> lastMenuOpen # 0, menuAge |-> now - lastMenuOpen,
                     hasRecentActivity |-> FALSE, activityAge |-> 0,
                     lowPower |-> Constrained, constrained |-> FALSE]
<1>1. input \in PolicyInput
  BY StatusItemAssumption DEF TypeOK, PolicyInput
<1>2. Delay = DecidedDelay(frequency, input)
  BY DEF Delay
<1> HIDE DEF input
<1>3. CASE frequency = "manual"
  BY <1>2, <1>3, FixedDelayFacts DEF DecidedDelay
<1>4. CASE frequency \in DOMAIN FixedDelays
  BY <1>2, <1>4, FixedDelayFacts DEF DecidedDelay
<1>5. CASE frequency \in Adaptive
  <2>1. Delay \in {120, 300, 900, 1800}
    BY <1>1, <1>2, <1>5, AdaptiveIsBounded
  <2> QED BY <2>1, <1>5, FixedDelayFacts DEF Adaptive
<1> QED BY <1>3, <1>4, <1>5 DEF TypeOK, Frequencies

\* A new deadline is a slot that lies ahead.
LEMMA NextDeadlineFacts ==
  ASSUME TypeOK, frequency \in DOMAIN FixedDelays
  PROVE  /\ NextDeadline \in Nat /\ NextDeadline > 0
         /\ deadline # 0 /\ NextDeadline # deadline =>
              /\ (NextDeadline - deadline) % FixedDelays[frequency] = 0
              /\ NextDeadline > now
              /\ NextDeadline - FixedDelays[frequency] <= now
<1>1. /\ Delay = FixedDelays[frequency] /\ Delay \in {60, 120, 300, 900, 1800}
      /\ now \in Nat \ {0} /\ deadline \in Nat
  BY DelayFacts DEF TypeOK
<1>2. CASE deadline = 0
  BY <1>1, <1>2 DEF NextDeadline
<1>3. CASE deadline # 0 /\ deadline <= now
  <2>1. PICK d \in Nat, n \in Nat, i \in {60, 120, 300, 900, 1800} :
           d = deadline /\ n = now /\ i = Delay
    BY <1>1
  <2>2. PICK next : next = NextFixedDeadline(d, n, i)
    OBVIOUS
  <2>3. d <= n
    BY <2>1, <1>3
  <2>4. IsNextSlot(next, d, n, i)
    BY <2>2, <2>3, NextFixedDeadlineIsNextSlot
  <2>5. NextDeadline = next
    BY <2>1, <2>2, <1>3 DEF NextDeadline
  <2> QED BY <2>1, <2>4, <2>5, <1>1 DEF IsNextSlot
<1>4. CASE deadline # 0 /\ ~(deadline <= now)
  BY <1>1, <1>4 DEF NextDeadline
<1> QED BY <1>2, <1>3, <1>4

\* The timer is armed unless refreshing is manual.
LEMMA ScheduleFacts ==
  ASSUME TypeOK, DeadlineIsFixed, ScheduleNextRefresh
  PROVE  /\ timer' \in Nat /\ deadline' \in Nat
         /\ timer' # 0 \/ frequency = "manual"
         /\ deadline' # 0 => frequency \in DOMAIN FixedDelays
<1>1. CASE Delay = 0
  BY <1>1, DelayFacts DEF ScheduleNextRefresh, TypeOK, DeadlineIsFixed
<1>2. CASE Delay # 0 /\ frequency \in Adaptive
  BY <1>2, DelayFacts DEF ScheduleNextRefresh, TypeOK
<1>3. CASE Delay # 0 /\ frequency \notin Adaptive
  <2>1. frequency \in DOMAIN FixedDelays
    BY <1>3, DelayFacts DEF TypeOK, Frequencies
  <2>2. timer' = NextDeadline /\ deadline' = NextDeadline
    BY <1>3 DEF ScheduleNextRefresh
  <2> QED BY <2>1, <2>2, NextDeadlineFacts
<1> QED BY <1>1, <1>2, <1>3

\* A refresh that starts is the only one that is not cancelled.
LEMMA StartRefreshFacts ==
  ASSUME TypeOK, Numbered, TasksInv, CurrentRefreshLives, SupersededAreCancelled,
         StartRefresh, phase' # "ended", phase # "ended", UNCHANGED shown
  PROVE  /\ coordinator' \in RefreshState /\ coordinator'.active
         /\ timer' = 0
         /\ cancellable' \in Nat
         /\ cancelled' \subseteq Nat /\ workers' \subseteq Nat /\ returned' \subseteq Nat
         /\ references' \in Nat
         /\ Numbered' /\ TasksInv' /\ CurrentRefreshLives' /\ SupersededAreCancelled'
<1> DEFINE g == coordinator.generation + 1
<1>1. /\ coordinator' = [generation |-> g, active |-> TRUE]
      /\ timer' = 0 /\ cancellable' = g /\ workers' = workers \cup {g}
      /\ references' = references + 1 /\ returned' = returned
  BY DEF StartRefresh, Requested, TimerOfRequest, ReferencesOfRequest
<1>2. /\ g \in Nat /\ g > 0 /\ g > coordinator.generation
      /\ coordinator.generation \in Nat
      /\ g \notin workers /\ g \notin returned /\ g \notin cancelled
  BY DEF TypeOK, RefreshState, Numbered
<1>3. cancelled' = IF coordinator.active /\ cancellable # 0
                   THEN cancelled \cup {cancellable} ELSE cancelled
  BY DEF StartRefresh, CancelledBy
<1>5. g \notin cancelled' /\ cancelled' \subseteq Nat
      /\ (\A h \in cancelled' : 0 < h /\ h <= coordinator.generation)
  BY <1>2, <1>3 DEF TypeOK, RefreshState, Numbered
<1>6. \A h \in workers \cup returned : h \in cancelled'
  <2> SUFFICES ASSUME NEW h \in workers \cup returned PROVE h \in cancelled'
    OBVIOUS
  <2>1. CASE h \in cancelled
    BY <2>1, <1>3
  <2>2. CASE coordinator.active /\ h = coordinator.generation
    BY <2>2, <1>3 DEF CurrentRefreshLives, Numbered
  <2> QED BY <2>1, <2>2 DEF SupersededAreCancelled
<1>7. TasksInv'
  <2>1. IsFiniteSet(workers') /\ Cardinality(workers') = Cardinality(workers) + 1
    BY <1>1, <1>2, FS_AddElement DEF TasksInv
  <2>2. Cardinality(workers) \in Nat /\ Cardinality(returned) \in Nat
    BY FS_CardinalityType DEF TasksInv
  <2>3. ReferencesCounted'
    BY <2>1, <2>2, <1>1 DEF TasksInv, ReferencesCounted
  <2> QED BY <2>1, <2>3, <1>1, <1>2 DEF TasksInv
<1>8. Numbered'
  BY <1>1, <1>2, <1>5 DEF Numbered, TypeOK
<1>9. CurrentRefreshLives' /\ SupersededAreCancelled'
  BY <1>1, <1>5, <1>6 DEF CurrentRefreshLives, SupersededAreCancelled
<1>10. coordinator' \in RefreshState /\ coordinator'.active
  BY <1>1, <1>2 DEF RefreshState
<1>11. timer' = 0 /\ cancellable' \in Nat /\ workers' \subseteq Nat /\ returned' \subseteq Nat
  BY <1>1, <1>2 DEF TypeOK
<1>12. references' \in Nat
  <2>1. references \in Nat /\ references' = references + 1
    BY <1>1 DEF TypeOK
  <2> QED BY <2>1
<1> QED BY <1>5, <1>7, <1>8, <1>9, <1>10, <1>11, <1>12

\* Abandoning leaves no refresh that is not cancelled.
LEMMA AbandonFacts ==
  ASSUME TypeOK, Numbered, CurrentRefreshLives, SupersededAreCancelled,
         Abandon, UNCHANGED <<cancellable, workers, returned, shown>>
  PROVE  /\ coordinator' \in RefreshState /\ ~coordinator'.active
         /\ stopping' = TRUE
         /\ cancelled' \subseteq Nat
         /\ Numbered' /\ CurrentRefreshLives' /\ SupersededAreCancelled'
<1>1. /\ coordinator' = [generation |-> coordinator.generation + 1, active |-> FALSE]
      /\ cancelled' = IF cancellable # 0 THEN cancelled \cup {cancellable} ELSE cancelled
      /\ stopping' = TRUE
  BY DEF Abandon, Invalidated
<1>2. coordinator.generation \in Nat /\ cancellable \in Nat
  BY DEF TypeOK, RefreshState
<1>3. coordinator' \in RefreshState /\ ~coordinator'.active /\ cancelled' \subseteq Nat
  BY <1>1, <1>2 DEF TypeOK, RefreshState
<1>4. Numbered'
  BY <1>1, <1>2 DEF Numbered, TypeOK
<1>5. SupersededAreCancelled'
  BY <1>1, <1>2 DEF SupersededAreCancelled, CurrentRefreshLives, Numbered
<1> QED BY <1>1, <1>3, <1>4, <1>5 DEF CurrentRefreshLives

----------------------------------------------------------------------------
(* Every step preserves the invariant *)

\* A new status item satisfies the invariant.
LEMMA Initially == Init => Inv
<1> SUFFICES ASSUME Init PROVE Inv
  OBVIOUS
<1>1. TypeOK
  BY StatusItemAssumption DEF Init, TypeOK, Idle, RefreshState
<1>2. TasksInv
  BY FS_EmptySet DEF Init, TasksInv, ReferencesCounted
<1>3. Numbered /\ PhaseInv /\ CurrentRefreshLives /\ SupersededAreCancelled /\ KeepsRefreshing
      /\ DeadlineIsFixed
  BY DEF Init, Numbered, PhaseInv, CurrentRefreshLives, SupersededAreCancelled,
         KeepsRefreshing, DeadlineIsFixed, Idle
<1> QED BY <1>1, <1>2, <1>3 DEF Inv

\* What is neither read nor written by a step keeps the invariant.
LEMMA ClockStep ==
  ASSUME Inv, Tick \/ Activate \/ UNCHANGED vars
  PROVE  Inv'
<1>1. UNCHANGED <<phase, frequency, refresh, deadline, stopping, shown>>
  BY DEF Tick, Activate, vars, clock
<1>2. now' \in Nat \ {0} /\ inputs' \in Nat /\ lastMenuOpen' \in Nat
  BY StatusItemAssumption DEF Inv, TypeOK, Tick, Activate, Input, vars, clock
<1>3. TypeOK'
  BY <1>1, <1>2 DEF Inv, TypeOK, refresh, tasks
<1> QED
  BY <1>1, <1>3 DEF Inv, Numbered, TasksInv, PhaseInv, CurrentRefreshLives,
     SupersededAreCancelled, KeepsRefreshing, DeadlineIsFixed, ReferencesCounted, refresh, tasks

\* Requesting a refresh, whatever it replaces, keeps the invariant.
LEMMA RequestStep ==
  ASSUME Inv, Start \/ Press \/ TimerFires
  PROVE  Inv'
<1>0. /\ TypeOK /\ Numbered /\ TasksInv /\ PhaseInv /\ CurrentRefreshLives
      /\ SupersededAreCancelled /\ KeepsRefreshing /\ DeadlineIsFixed
  BY DEF Inv
<1>1. /\ UNCHANGED <<now, frequency, lastMenuOpen, deadline, stopping, shown>>
      /\ inputs' \in Nat
      /\ phase' = IF phase = "starting" THEN "running" ELSE phase
      /\ phase \in {"starting", "running", "quitting"}
  <2>1. inputs \in Nat
    BY <1>0 DEF TypeOK
  <2>2. CASE Start
    BY <2>1, <2>2 DEF Start, clock
  <2>3. CASE Press
    BY <2>1, <2>3 DEF Press, Dispatching, Input
  <2>4. CASE TimerFires
    BY <2>1, <2>4 DEF TimerFires, Dispatching, clock
  <2> QED BY <2>2, <2>3, <2>4
<1>2. CASE StartRefresh /\ ~stopping
  <2>1. /\ coordinator' \in RefreshState /\ coordinator'.active
        /\ timer' = 0
        /\ cancellable' \in Nat
        /\ cancelled' \subseteq Nat /\ workers' \subseteq Nat /\ returned' \subseteq Nat
        /\ references' \in Nat
        /\ Numbered' /\ TasksInv' /\ CurrentRefreshLives' /\ SupersededAreCancelled'
    BY <1>0, <1>1, <1>2, StartRefreshFacts
  <2>2. TypeOK'
    BY <2>1, <1>0, <1>1 DEF TypeOK
  <2>3. PhaseInv'
    BY <1>0, <1>1, <1>2 DEF PhaseInv
  <2>4. KeepsRefreshing' /\ DeadlineIsFixed'
    BY <2>1, <1>0, <1>1 DEF KeepsRefreshing, DeadlineIsFixed
  <2> QED BY <2>1, <2>2, <2>3, <2>4 DEF Inv
<1>3. CASE /\ UNCHANGED <<phase, coordinator, cancellable, tasks, references>>
           /\ timer' \in {0, timer}
           /\ timer' # timer => stopping \/ coordinator.active
  <2>1. TypeOK'
    BY <1>0, <1>1, <1>3 DEF TypeOK, tasks
  <2>2. KeepsRefreshing'
    BY <1>0, <1>1, <1>3 DEF KeepsRefreshing, PhaseInv
  <2> QED
    BY <2>1, <2>2, <1>0, <1>1, <1>3 DEF Inv, Numbered, TasksInv, PhaseInv, CurrentRefreshLives,
       SupersededAreCancelled, DeadlineIsFixed, ReferencesCounted, tasks
<1>4. CASE Start
  BY <1>4, <1>0, <1>2 DEF Start, PhaseInv
<1>5. CASE Press
  BY <1>5, <1>2, <1>3 DEF Press, Starts, refresh
<1>6. CASE TimerFires
  BY <1>6, <1>2, <1>3 DEF TimerFires, Starts, ShouldStart
<1> QED BY <1>4, <1>5, <1>6

\* The end of a worker keeps the invariant: its task is still counted.
LEMMA WorkerStep ==
  ASSUME Inv, NEW g \in workers, WorkerReturns(g)
  PROVE  Inv'
<1>0. /\ TypeOK /\ Numbered /\ TasksInv /\ PhaseInv /\ CurrentRefreshLives
      /\ SupersededAreCancelled /\ KeepsRefreshing /\ DeadlineIsFixed
  BY DEF Inv
<1>1. /\ workers' = workers \ {g} /\ returned' = returned \cup {g}
      /\ UNCHANGED <<phase, clock, frequency, lastMenuOpen, coordinator, timer, cancellable,
                     cancelled, references, deadline, stopping, shown>>
  BY DEF WorkerReturns
<1>2. g \notin returned /\ workers' \cup returned' = workers \cup returned
  BY <1>0, <1>1 DEF TasksInv
<1>3. TypeOK'
  BY <1>0, <1>1 DEF TypeOK, clock
<1>4. TasksInv'
  <2>1. /\ IsFiniteSet(workers') /\ Cardinality(workers') = Cardinality(workers) - 1
    BY <1>0, <1>1, FS_RemoveElement DEF TasksInv
  <2>2. IsFiniteSet(returned') /\ Cardinality(returned') = Cardinality(returned) + 1
    BY <1>0, <1>1, <1>2, FS_AddElement DEF TasksInv
  <2>3. Cardinality(workers) \in Nat /\ Cardinality(returned) \in Nat
    BY <1>0, FS_CardinalityType DEF TasksInv
  <2>4. ReferencesCounted'
    BY <2>1, <2>2, <2>3, <1>0, <1>1 DEF TasksInv, ReferencesCounted
  <2> QED BY <2>1, <2>2, <2>4, <1>0, <1>1, <1>2 DEF TasksInv
<1>5. Numbered' /\ CurrentRefreshLives' /\ SupersededAreCancelled'
  BY <1>0, <1>1, <1>2 DEF Numbered, CurrentRefreshLives, SupersededAreCancelled
<1>6. PhaseInv' /\ KeepsRefreshing' /\ DeadlineIsFixed'
  BY <1>0, <1>1 DEF PhaseInv, KeepsRefreshing, DeadlineIsFixed
<1> QED BY <1>3, <1>4, <1>5, <1>6 DEF Inv

\* A result, current, late or cancelled, keeps the invariant.
LEMMA CompleteStep ==
  ASSUME Inv, NEW g \in returned, Complete(g)
  PROVE  Inv'
<1>0. /\ TypeOK /\ Numbered /\ TasksInv /\ PhaseInv /\ CurrentRefreshLives
      /\ SupersededAreCancelled /\ KeepsRefreshing /\ DeadlineIsFixed
  BY DEF Inv
<1>1. /\ returned' = returned \ {g}
      /\ coordinator' = Completed(coordinator, g)
      /\ cancellable' = IF IsCurrent(coordinator, g) THEN 0 ELSE cancellable
      /\ references' = references - 1
      /\ UNCHANGED <<phase, clock, frequency, lastMenuOpen, cancelled, workers, stopping>>
      /\ phase # "ended" /\ phase # "starting"
  BY DEF Complete, Dispatching
<1>2. TasksInv' /\ references' \in Nat
  <2>1. IsFiniteSet(returned') /\ Cardinality(returned') = Cardinality(returned) - 1
    BY <1>0, <1>1, FS_RemoveElement DEF TasksInv
  <2>2. Cardinality(workers) \in Nat /\ Cardinality(returned) \in Nat /\ Cardinality(returned') \in Nat
    BY <2>1, <1>0, FS_CardinalityType DEF TasksInv
  <2>3. ReferencesCounted' /\ references' \in Nat
    BY <2>1, <2>2, <1>0, <1>1 DEF TasksInv, ReferencesCounted
  <2> QED BY <2>1, <2>3, <1>0, <1>1 DEF TasksInv
<1>3. CASE ~IsCurrent(coordinator, g)
  <2>1. /\ UNCHANGED <<coordinator, cancellable, shown, timer, deadline>>
    BY <1>1, <1>3 DEF Complete, Completed
  <2>2. TypeOK'
    BY <2>1, <1>0, <1>1, <1>2 DEF TypeOK, clock
  <2>3. CurrentRefreshLives'
    BY <2>1, <1>0, <1>1, <1>3 DEF CurrentRefreshLives, IsCurrent
  <2>4. Numbered' /\ SupersededAreCancelled' /\ PhaseInv' /\ KeepsRefreshing' /\ DeadlineIsFixed'
    BY <2>1, <1>0, <1>1 DEF Numbered, SupersededAreCancelled, PhaseInv, KeepsRefreshing,
       DeadlineIsFixed
  <2> QED BY <2>2, <2>3, <2>4, <1>2 DEF Inv
<1>4. CASE IsCurrent(coordinator, g)
  <2>1. /\ coordinator.active /\ coordinator.generation = g /\ ~stopping
        /\ g \notin cancelled /\ g \in Nat
    BY <1>0, <1>4 DEF IsCurrent, PhaseInv, CurrentRefreshLives, TypeOK
  <2>2. /\ ~coordinator'.active /\ coordinator'.generation = g
        /\ coordinator' \in RefreshState
    BY <2>1, <1>0, <1>1, <1>4 DEF Completed, TypeOK, RefreshState
  <2>3. PICK what \in Results(g) : shown' = [generation |-> g, what |-> what]
    BY <2>1, <1>4 DEF Complete
  <2>4. ScheduleNextRefresh
    BY <2>1, <1>4 DEF Complete
  <2>5. /\ timer' \in Nat /\ deadline' \in Nat
        /\ timer' # 0 \/ frequency = "manual"
        /\ deadline' # 0 => frequency \in DOMAIN FixedDelays
    BY <2>4, <1>0, ScheduleFacts
  <2>6. shown' \in [generation: Nat, what: {"loading", "usage", "error"}]
    BY <2>1, <2>3 DEF Results
  <2>7. TypeOK'
    BY <2>2, <2>5, <2>6, <1>0, <1>1, <1>2, <1>4 DEF TypeOK, clock
  <2>8. Numbered'
    BY <2>1, <2>2, <2>3, <1>0, <1>1, <1>4 DEF Numbered
  <2>9. SupersededAreCancelled' /\ CurrentRefreshLives'
    <3>1. g \notin workers
      BY <1>0 DEF TasksInv
    <3> QED BY <3>1, <2>1, <2>2, <1>0, <1>1 DEF SupersededAreCancelled, CurrentRefreshLives
  <2>10. PhaseInv' /\ KeepsRefreshing' /\ DeadlineIsFixed'
    BY <2>1, <2>2, <2>5, <1>0, <1>1 DEF PhaseInv, KeepsRefreshing, DeadlineIsFixed
  <2> QED BY <2>7, <2>8, <2>9, <2>10, <1>2 DEF Inv
<1> QED BY <1>3, <1>4

\* Being told to stop, and the end of the main loop, keep the invariant.
LEMMA StopStep ==
  ASSUME Inv, Stop \/ Shutdown
  PROVE  Inv'
<1>0. /\ TypeOK /\ Numbered /\ TasksInv /\ PhaseInv /\ CurrentRefreshLives
      /\ SupersededAreCancelled /\ KeepsRefreshing /\ DeadlineIsFixed
  BY DEF Inv
<1>1. /\ Abandon
      /\ UNCHANGED <<now, frequency, lastMenuOpen, deadline, cancellable, workers, returned, shown>>
      /\ inputs' \in Nat
      /\ timer' \in {0, timer}
  BY <1>0 DEF Stop, Shutdown, Input, clock, TypeOK
<1>2. /\ coordinator' \in RefreshState /\ ~coordinator'.active
      /\ stopping' = TRUE
      /\ cancelled' \subseteq Nat
      /\ Numbered' /\ CurrentRefreshLives' /\ SupersededAreCancelled'
  BY <1>0, <1>1, AbandonFacts
<1>3. /\ phase' \in {"quitting", "ended"} /\ phase # "ended"
      /\ references' = IF phase' = "ended" THEN references - 1 ELSE references
  BY DEF Stop, Shutdown, Dispatching
<1>4. TasksInv' /\ references' \in Nat
  <2>1. Cardinality(workers) \in Nat /\ Cardinality(returned) \in Nat
    BY <1>0, FS_CardinalityType DEF TasksInv
  <2>2. ReferencesCounted' /\ references' \in Nat
    BY <2>1, <1>0, <1>1, <1>3 DEF TasksInv, ReferencesCounted
  <2> QED BY <2>2, <1>0, <1>1 DEF TasksInv
<1>5. TypeOK'
  BY <1>0, <1>1, <1>2, <1>3, <1>4 DEF TypeOK
<1>6. PhaseInv' /\ KeepsRefreshing' /\ DeadlineIsFixed'
  BY <1>0, <1>1, <1>2, <1>3 DEF PhaseInv, KeepsRefreshing, DeadlineIsFixed
<1> QED BY <1>2, <1>4, <1>5, <1>6 DEF Inv

\* The invariant is inductive.
LEMMA Inductive == Inv /\ [Next]_vars => Inv'
<1> SUFFICES ASSUME Inv, [Next]_vars PROVE Inv'
  OBVIOUS
<1>1. CASE Tick \/ Activate \/ UNCHANGED vars
  BY <1>1, ClockStep
<1>2. CASE Start \/ Press \/ TimerFires
  BY <1>2, RequestStep
<1>3. ASSUME NEW g \in workers, WorkerReturns(g) PROVE Inv'
  BY <1>3, WorkerStep
<1>4. ASSUME NEW g \in returned, Complete(g) PROVE Inv'
  BY <1>4, CompleteStep
<1>5. CASE Stop \/ Shutdown
  BY <1>5, StopStep
<1> QED BY <1>1, <1>2, <1>3, <1>4, <1>5 DEF Next, Halted

\* The invariant holds in every reachable state.
THEOREM Invariance == Spec => []Inv
BY Initially, Inductive, PTL DEF Spec

----------------------------------------------------------------------------
(* The properties *)

\* The state of the item has its types; no reference is dropped twice.
THEOREM TypeCorrect == Spec => []TypeOK
<1>1. Inv => TypeOK
  BY DEF Inv
<1> QED BY <1>1, Invariance, PTL

\* The refresh the coordinator waits for exists, and only that one is not cancelled
\* (request_refresh, stop_status_item).
THEOREM OneLiveRefresh == Spec => [](CurrentRefreshLives /\ SupersededAreCancelled)
<1>1. Inv => CurrentRefreshLives /\ SupersededAreCancelled
  BY DEF Inv
<1> QED BY <1>1, Invariance, PTL

\* Refreshing never ends by itself: the next refresh runs or is on the timer
\* (schedule_next_refresh, refresh_complete).
THEOREM RefreshingGoesOn == Spec => []KeepsRefreshing
<1>1. Inv => KeepsRefreshing
  BY DEF Inv
<1> QED BY <1>1, Invariance, PTL

\* The item is freed exactly when its last worker's result is dropped and the main
\* loop is done (status_item_ref, status_item_unref).
THEOREM ReferencesAreCounted == Spec => []ReferencesCounted
<1>1. Inv => ReferencesCounted
  BY DEF Inv, TasksInv
<1> QED BY <1>1, Invariance, PTL

\* A late result never replaces a newer one (refresh_complete).
THEOREM ShownInOrder == Spec => ShowsOnlyTheCurrent
<1> DEFINE Step == shown' # shown =>
             /\ shown'.generation > shown.generation
             /\ shown'.generation = coordinator.generation
             /\ shown'.generation \notin cancelled
             /\ ~stopping
<1>1. Inv /\ [Next]_vars => [Step]_vars
  <2> SUFFICES ASSUME Inv, Next, shown' # shown PROVE Step
    OBVIOUS
  <2>1. PICK g \in returned : Complete(g)
    BY DEF Next, Halted, vars, Tick, Start, Shutdown, Activate, Press, TimerFires, Stop,
           WorkerReturns
  <2>2. IsCurrent(coordinator, g) /\ ~stopping /\ shown'.generation = g
    BY <2>1 DEF Complete
  <2>3. coordinator.active /\ coordinator.generation = g
    BY <2>2 DEF IsCurrent
  <2> QED BY <2>2, <2>3 DEF Inv, CurrentRefreshLives, Numbered
<1> QED BY <1>1, Invariance, PTL DEF Spec, ShowsOnlyTheCurrent

\* A fixed frequency keeps its phase (schedule_next_refresh).
THEOREM PhaseIsKept == Spec => PhaseKept
<1> DEFINE Step == deadline # 0 /\ deadline' # deadline =>
             /\ (deadline' - deadline) % FixedDelays[frequency] = 0
             /\ deadline' > now
             /\ deadline' - FixedDelays[frequency] <= now
<1>1. Inv /\ [Next]_vars => [Step]_vars
  <2> SUFFICES ASSUME Inv, Next, deadline # 0, deadline' # deadline PROVE Step
    OBVIOUS
  <2>1. PICK g \in returned : Complete(g)
    BY DEF Next, Halted, vars, Tick, Start, Shutdown, Activate, Press, TimerFires, Stop,
           WorkerReturns
  <2>2. ScheduleNextRefresh
    BY <2>1 DEF Complete
  <2>3. frequency \in DOMAIN FixedDelays /\ frequency \notin Adaptive /\ TypeOK
    BY FixedDelayFacts DEF Inv, DeadlineIsFixed
  <2>4. deadline' = NextDeadline
    BY <2>2, <2>3 DEF ScheduleNextRefresh
  <2> QED BY <2>3, <2>4, NextDeadlineFacts
<1> QED BY <1>1, Invariance, PTL DEF Spec, PhaseKept

=============================================================================
