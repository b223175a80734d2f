--------------------------- MODULE RefreshPolicy ---------------------------
(* linux/src/refresh_policy.c: when the next refresh is due, in seconds. *)
EXTENDS Integers

FixedDelays ==
  [oneMinute |-> 60, twoMinutes |-> 120, fiveMinutes |-> 300,
   fifteenMinutes |-> 900, thirtyMinutes |-> 1800]

Adaptive    == {"adaptive", "adaptiveAgentAware"}
Frequencies == {"manual"} \cup DOMAIN FixedDelays \cup Adaptive

\* What the adaptive frequencies look at.
PolicyInput ==
  [hasLastMenuOpen: BOOLEAN, menuAge: Int, hasRecentActivity: BOOLEAN, activityAge: Int,
   lowPower: BOOLEAN, constrained: BOOLEAN]

\* The fresher the last visit to the menu, the shorter the delay.
MenuDelay(input) ==
  CASE input.hasLastMenuOpen /\ input.menuAge <= 300 -> 120
    [] input.hasLastMenuOpen /\ 300 < input.menuAge /\ input.menuAge <= 3600 -> 300
    [] input.hasLastMenuOpen /\ 3600 < input.menuAge /\ input.menuAge < 14400 -> 900
    [] OTHER -> 1800

AdaptiveDelay(input) ==
  LET delay == MenuDelay(input) IN
  CASE input.lowPower \/ input.constrained -> 1800
    [] ~(input.lowPower \/ input.constrained)
       /\ input.hasRecentActivity /\ input.activityAge < 300 /\ delay > 300 -> 300
    [] OTHER -> delay

\* codexbar_refresh_policy_decide; a delay of 0 means no timer.
DecidedDelay(frequency, input) ==
  CASE frequency = "manual" -> 0
    [] frequency \in DOMAIN FixedDelays -> FixedDelays[frequency]
    [] OTHER -> AdaptiveDelay(input)

\* codexbar_refresh_next_fixed_deadline: the first slot of the grid of intervals
\* that is still ahead, however many slots the refresh overran.
NextFixedDeadline(previous, completed, interval) ==
  LET deadline == previous + interval IN
  IF deadline <= completed
  THEN deadline + ((completed - deadline) \div interval + 1) * interval
  ELSE deadline
=============================================================================
