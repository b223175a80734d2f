----------------------------- MODULE QuotaLane -----------------------------
(***************************************************************************)
(* What the user hears of one quota window: the session window of one      *)
(* provider account, as dispatch_snapshot_hooks of linux/src/runtime.c     *)
(* reports it.  Each refresh observes how much of the quota remains; the   *)
(* lane turns observations into events (a threshold was crossed, the quota *)
(* is used up, the quota is back).  Observations need not be in order:     *)
(* what a provider reports may be older than what it reported before.      *)
(* The three parts of the lane (the hook's, the notification's and the     *)
(* session's) are each updated under the runtime's lock and share no state.*)
(* Something is configured for some provider: otherwise                    *)
(* dispatch_snapshot_hooks returns at once and no observation arrives.     *)
(***************************************************************************)
EXTENDS SessionQuota, FiniteSets

CONSTANTS
  Thresholds,   \* the lane's quotaWarnings, in percent remaining
  Percentages,  \* bound: the percentages that are observed
  Boundaries,   \* bound: the reset times a provider may announce; 0 for none
  MaxTime       \* bound: the last minute

ASSUME QuotaLaneAssumption ==
  /\ NoSource \notin Sources
  /\ ResetEquivalence \in Nat \ {0}
  /\ Thresholds \subseteq 1..99 /\ IsFiniteSet(Thresholds)
  /\ Percentages \subseteq 0..100
  /\ Boundaries \subseteq Nat
  /\ MaxTime \in Nat

VARIABLES
  codex,     \* whether the lane's provider is codex
  now,       \* the real-time clock
  settings,  \* what the configuration asks for on this lane
  session,   \* session_states of the lane
  usage,     \* quota_usage of the lane, in percent; -1 for no entry
  last,      \* state->last_remaining; -1 when there is none
  fired,     \* state->fired_low and fired_high
  outcome,   \* what codexbar_session_quota_evaluate returned to the last observation
  warned,    \* the threshold of the notification the last observation caused; 0 for none
  hooked,    \* whether the last observation ran a quota_low hook of the default rule
  announced, \* history: the last of quota_reached and quota_reset since the baseline
  heard,     \* history: thresholds announced, or passed by one that was, since the
             \*   quota was last observed above them
  lastLeft   \* history: when quota was last seen left, if the last fresh observation saw it

warnings == <<usage, last, fired, warned, hooked>>
vars == <<codex, now, settings, session, warnings, outcome, announced, heard, lastLeft>>

\* Quota warnings on the desktop, a default quota_low rule, and a rule for
\* quota_reached or quota_reset.
Settings == {"notifications", "low_rule", "session_rule"}

\* Changes of the session are of interest.
enabled == settings \cap {"notifications", "session_rule"} # {}

Outcomes == {"none", "depleted", "restored", "baseline", "stale", "suppressed", "awaiting"}

TypeOK ==
  /\ codex \in BOOLEAN
  /\ now \in Nat \ {0}
  /\ settings \subseteq Settings
  /\ session \in SessionState
  /\ usage \in -1..100 /\ last \in -1..100
  /\ fired \subseteq Thresholds
  /\ outcome \in Outcomes
  /\ warned \in Thresholds \cup {0}
  /\ hooked \in BOOLEAN
  /\ announced \in {"none", "depleted", "restored"}
  /\ heard \subseteq Thresholds
  /\ lastLeft \in Nat

Init ==
  /\ codex \in BOOLEAN
  /\ now = 1
  /\ settings \in SUBSET Settings
  /\ session = NoSession
  /\ usage = -1 /\ last = -1 /\ fired = {}
  /\ outcome = "none" /\ warned = 0 /\ hooked = FALSE
  /\ announced = "none" /\ heard = {} /\ lastLeft = 0

----------------------------------------------------------------------------
(* codexbar_session_quota_evaluate *)

\* The first observation of the lane.
First(o) ==
  /\ session = NoSession
  /\ session' = BaselineState(o)
  /\ outcome' = IF enabled /\ IsDepleted(o.remaining) THEN "depleted" ELSE "none"

\* Usage read elsewhere is not compared.
Rebase(o) ==
  /\ session # NoSession /\ session.source # o.source
  /\ session' = BaselineState(o)
  /\ outcome' = "baseline"

IsStale(o) == o.codex /\ o.observedAt <= session.observedAt
Comparable(o) == session # NoSession /\ session.source = o.source

Ignore(o) ==
  /\ Comparable(o) /\ IsStale(o)
  /\ UNCHANGED session
  /\ outcome' = "stale"

Fresh(o) == Comparable(o) /\ ~IsStale(o)

FollowSilently(o) ==
  /\ Fresh(o) /\ ~enabled
  /\ session' = UpdatedState(session, o, FALSE)
  /\ outcome' = "none"

\* Quota went down, stays used up, or comes back where that needs no proof.
Follow(o) ==
  /\ Fresh(o) /\ enabled
  /\ ~(o.codex /\ Restores(session, o))
  /\ session' = UpdatedState(session, o,
       \/ BeforeBoundary(session, o)
       \/ session.trusted # 0 /\ IsDepleted(session.remaining) /\ IsDepleted(o.remaining))
  /\ outcome' = CASE Restores(session, o) -> "restored"
                  [] ~IsDepleted(session.remaining) /\ IsDepleted(o.remaining) -> "depleted"
                  [] OTHER -> "none"

\* Codex shows quota left although it was used up.
Claims(o) == Fresh(o) /\ enabled /\ o.codex /\ Restores(session, o)

\* Too early: the window that was used up has not ended.
Suppress(o) ==
  /\ Claims(o) /\ BeforeBoundary(session, o)
  /\ session' = PreservedDepletedState(session, o, 0)
  /\ outcome' = "suppressed"

Credible(o) == NewBoundary(session, o) \/ Confirmed(session, o)

Restore(o) ==
  /\ Claims(o) /\ ~BeforeBoundary(session, o) /\ Credible(o)
  /\ session' = UpdatedState(session, o, FALSE)
  /\ outcome' = "restored"

Await(o) ==
  /\ Claims(o) /\ ~BeforeBoundary(session, o) /\ ~Credible(o)
  /\ session' = PreservedDepletedState(session, o, o.observedAt)
  /\ outcome' = "awaiting"

EvaluateSession(o) ==
  \/ First(o) \/ Rebase(o) \/ Ignore(o) \/ FollowSilently(o) \/ Follow(o)
  \/ Suppress(o) \/ Restore(o) \/ Await(o)

----------------------------------------------------------------------------
(* dispatch_quota_low_transitions *)

Least(S) == CHOOSE t \in S : \A u \in S : t <= u

\* Deviation: what was announced before is not looked at.
BadCrossed(remaining) == {t \in Thresholds : remaining <= t}

\* Thresholds that usage fell to since the last observation, or is found below at first.
\* The fired bit of a threshold is cleared when more than the threshold remains.
Crossed(remaining) ==
  {t \in Thresholds : remaining <= t /\ t \notin fired /\ (last = -1 \/ last > t)}

\* Deviation: the thresholds below the announced one count as fired instead.
BadFiredBy(t) == {u \in Thresholds : u <= t}
FiredBy(t) == {u \in Thresholds : u >= t}

\* notification_crossed_threshold: the lowest threshold that was crossed is announced,
\* and the ones above it count as announced.
NotifyCrossing(remaining) ==
  LET crossed == Crossed(remaining)
      kept    == {t \in fired : remaining <= t} IN
  /\ "notifications" \in settings
  /\ warned' = IF crossed = {} THEN 0 ELSE Least(crossed)
  /\ fired' = IF crossed = {} THEN kept ELSE kept \cup FiredBy(Least(crossed))
  /\ last' = remaining

NoNotification ==
  /\ "notifications" \notin settings
  /\ warned' = 0
  /\ UNCHANGED <<fired, last>>

\* The thresholds of a quota_low rule that names none, in percent used.
DefaultRule == {50, 80}

\* Deviation: usage that is exactly at a threshold has not crossed it.
BadReaches(used) == usage # -1 /\ \E t \in DefaultRule : usage < t /\ used > t

Reaches(used) == usage # -1 /\ \E t \in DefaultRule : usage < t /\ used >= t

\* Usage is followed for notifications as well, which do not look at it.
HookCrossing(used) ==
  /\ settings \cap {"notifications", "low_rule"} # {}
  /\ hooked' = ("low_rule" \in settings /\ Reaches(used))
  /\ usage' = used

NoHook ==
  /\ settings \cap {"notifications", "low_rule"} = {}
  /\ hooked' = FALSE
  /\ UNCHANGED usage

QuotaLow(o) ==
  /\ NotifyCrossing(o.remaining) \/ NoNotification
  /\ HookCrossing(100 - o.remaining) \/ NoHook

----------------------------------------------------------------------------
(* The runtime: dispatch_snapshot_hooks of a provider without an error. *)

Remember(o) ==
  /\ announced' = CASE outcome' \in {"depleted", "restored"} -> outcome'
                    [] outcome' = "baseline" -> "none"
                    [] OTHER -> announced
  /\ heard' = {t \in Thresholds :
       o.remaining <= t /\ (t \in heard \/ (warned' # 0 /\ warned' <= t))}
  /\ lastLeft' = CASE outcome' = "stale" -> lastLeft
                   [] outcome' # "stale" /\ IsDepleted(o.remaining) -> 0
                   [] OTHER -> o.observedAt

Observe(o) ==
  /\ QuotaLow(o)
  /\ EvaluateSession(o)
  /\ Remember(o)
  /\ UNCHANGED <<codex, now, settings>>

Quiet == outcome' = "none" /\ warned' = 0 /\ hooked' = FALSE

\* A new configuration digest empties the tables (reconcile_config_revision).
Reconfigure ==
  /\ settings' \in SUBSET Settings
  /\ session' = NoSession
  /\ usage' = -1 /\ last' = -1 /\ fired' = {}
  /\ announced' = "none" /\ heard' = {} /\ lastLeft' = 0
  /\ Quiet
  /\ UNCHANGED <<codex, now>>

Tick ==
  /\ now < MaxTime
  /\ now' = now + 1
  /\ Quiet
  /\ UNCHANGED <<codex, settings, session, usage, last, fired, announced, heard, lastLeft>>

Next ==
  \/ Tick \/ Reconfigure
  \/ \E percent \in Percentages, source \in Sources, at \in 1..now, boundary \in Boundaries :
       Observe([codex |-> codex, remaining |-> percent, source |-> source,
                observedAt |-> at, evaluatedAt |-> now, boundary |-> boundary])

Spec == Init /\ [][Next]_vars

----------------------------------------------------------------------------
(* Properties *)

\* "Quota reached" and "quota reset" alternate: used-up quota is announced once,
\* however often it is observed, and so is its return.
AnnouncementsAlternate ==
  [][outcome' \in {"depleted", "restored"} => outcome' # announced]_vars

\* A return of codex quota is announced only after the trusted reset time, and only
\* if an earlier observation after that time agreed or a later window has begun.
RestoresAreJustified ==
  [][codex /\ outcome' = "restored" =>
       /\ lastLeft' >= session.trusted
       /\ \/ lastLeft # 0 /\ lastLeft >= session.trusted /\ lastLeft < lastLeft'
          \/ session.trusted # 0 /\ session'.trusted >= session.trusted + ResetEquivalence]_vars

\* The codex state never goes back to an older observation, and its trusted reset
\* time never to an earlier one, while usage is read from the same source.
SessionMovesForward ==
  [][codex /\ session # NoSession /\ session'.source = session.source =>
       /\ session'.observedAt >= session.observedAt
       /\ session'.observedAt = session.observedAt => session' = session
       /\ session'.trusted >= session.trusted]_vars

\* While the lane believes in used-up quota, the last announcement was not its return.
DepletionIsKnown ==
  enabled /\ session # NoSession =>
    /\ announced = "depleted" => IsDepleted(session.remaining)
    /\ announced = "restored" => ~IsDepleted(session.remaining)

\* A threshold is announced once for each fall below it: not again until more than
\* that was observed to remain, and not at all once a lower one was announced.
WarnedOncePerFall == [][warned' \notin heard]_vars

\* No fall below a threshold goes unannounced, and the lowest one is named.
EveryFallIsWarned ==
  [][\A t \in Thresholds :
       last > t /\ last' # -1 /\ last' <= t => warned' # 0 /\ warned' <= t]_vars

\* Hook and notification are both configured and have the default thresholds.
Comparing ==
  {"notifications", "low_rule"} \subseteq settings /\ Thresholds = {100 - t : t \in DefaultRule}

\* With the default thresholds on both sides, the quota_low hook and the desktop
\* notification report the same falls, except that a first observation only notifies.
HookAndNotificationAgree ==
  [][usage # -1 /\ Comparing => (hooked' <=> warned' # 0)]_vars
=============================================================================
