-------------------------- MODULE QuotaLaneProofs --------------------------
(***************************************************************************)
(* Proofs of the properties of QuotaLane, for every set of thresholds,     *)
(* percentages, reset times and sources.                                   *)
(***************************************************************************)
EXTENDS QuotaLane, WellFoundedInduction, NaturalsInduction, TLAPS

\* Only a lane without a session has announced nothing for sure.
SessionInv ==
  /\ session = NoSession => announced = "none"
  /\ session # NoSession => session.source \in Sources

\* A pending restore was seen last, after the boundary.
PendingInv ==
  codex /\ session.pending # 0 => lastLeft = session.pending /\ lastLeft >= session.trusted

\* What was announced, and what has its bit set, is still undercut.
FallenInv ==
  /\ \A t \in heard \cup fired : last # -1 /\ last <= t
  /\ "notifications" \notin settings => heard = {}

\* Hook and notification follow the same usage.
UsageInv ==
  "notifications" \in settings => usage = IF last = -1 THEN -1 ELSE 100 - last

Inv == TypeOK /\ SessionInv /\ PendingInv /\ DepletionIsKnown /\ FallenInv /\ UsageInv

----------------------------------------------------------------------------
(* The operators *)

\* A set of natural numbers that is not empty has a least element.
LEMMA LeastExists ==
  ASSUME NEW S \in SUBSET Nat, S # {}
  PROVE  Least(S) \in S /\ \A u \in S : Least(S) <= u
<1>1. PICK t \in S : \A u \in S : ~(<<u, t>> \in OpToRel(<, Nat))
  BY NatLessThanWellFounded, WFMin, Zenon
<1>2. \A u \in S : ~(u < t)
  BY <1>1, Zenon DEF OpToRel
<1>3. \A u \in S : t <= u
  BY <1>2
<1>. QED
  BY <1>3 DEF Least

\* The states that follow an observation are states.
LEMMA SessionTypes ==
  ASSUME NEW s \in SessionState, NEW o \in Observation
  PROVE  /\ BaselineState(o) \in SessionState
         /\ \A b \in BOOLEAN : UpdatedState(s, o, b) \in SessionState
         /\ \A p \in Nat : PreservedDepletedState(s, o, p) \in SessionState
<1>1. BaselineState(o) \in SessionState
  BY DEF SessionState, Observation, BaselineState
<1>2. ASSUME NEW b \in BOOLEAN PROVE UpdatedState(s, o, b) \in SessionState
  BY <1>1 DEF SessionState, UpdatedState
<1>3. ASSUME NEW p \in Nat PROVE PreservedDepletedState(s, o, p) \in SessionState
  BY DEF SessionState, Observation, PreservedDepletedState
<1>. QED
  BY <1>1, <1>2, <1>3

\* updated_state keeps what was observed, clears a pending restore, and moves the
\* trusted boundary of codex only forward.
LEMMA UpdatedFacts ==
  ASSUME NEW s \in SessionState, NEW o \in Observation, NEW b \in BOOLEAN
  PROVE  LET u == UpdatedState(s, o, b) IN
           /\ u.remaining = o.remaining /\ u.source = o.source
           /\ u.observedAt = o.observedAt /\ u.pending = 0
           /\ o.codex => u.trusted >= s.trusted
<1>. DEFINE n == BaselineState(o)
<1>1. /\ n.remaining = o.remaining /\ n.source = o.source
      /\ n.observedAt = o.observedAt /\ n.pending = 0 /\ n.trusted \in Nat
  BY DEF BaselineState, Observation
<1>2. CASE o.codex /\ (b \/ KeepsBoundary(s, o))
  <2>1. UpdatedState(s, o, b) = [n EXCEPT !.trusted = s.trusted]
    BY <1>2 DEF UpdatedState
  <2>2. n \in SessionState
    BY SessionTypes
  <2>. QED
    BY <2>1, <2>2, <1>1 DEF SessionState
<1>3. CASE ~(o.codex /\ (b \/ KeepsBoundary(s, o)))
  <2>1. UpdatedState(s, o, b) = n
    BY <1>3 DEF UpdatedState
  <2>2. o.codex => n.trusted >= s.trusted
    <3>. SUFFICES ASSUME o.codex PROVE n.trusted >= s.trusted
      OBVIOUS
    <3>1. s.trusted = 0 \/ ~(n.trusted < s.trusted + ResetEquivalence)
      BY <1>3 DEF KeepsBoundary, NotBeyond
    <3>2. s.trusted \in Nat /\ ResetEquivalence \in Nat
      BY QuotaLaneAssumption DEF SessionState
    <3>. QED
      BY <3>1, <3>2, <1>1
  <2>. QED
    BY <2>1, <2>2, <1>1
<1>. QED
  BY <1>2, <1>3

\* A boundary of a later window replaces the trusted one.
LEMMA NewBoundaryFacts ==
  ASSUME NEW s \in SessionState, NEW o \in Observation, o.codex, NewBoundary(s, o)
  PROVE  /\ s.trusted # 0
         /\ UpdatedState(s, o, FALSE).trusted >= s.trusted + ResetEquivalence
<1>1. BaselineState(o).trusted = o.boundary
  BY DEF NewBoundary, BaselineState
<1>2. ~KeepsBoundary(s, o)
  BY <1>1 DEF NewBoundary, KeepsBoundary
<1>3. UpdatedState(s, o, FALSE) = BaselineState(o)
  BY <1>2 DEF UpdatedState
<1>4. s.trusted # 0 /\ ~(o.boundary < s.trusted + ResetEquivalence)
  BY DEF NewBoundary, NotBeyond
<1>5. s.trusted \in Nat /\ o.boundary \in Nat /\ ResetEquivalence \in Nat
  BY QuotaLaneAssumption DEF SessionState, Observation
<1>6. o.boundary >= s.trusted + ResetEquivalence
  BY <1>4, <1>5
<1>. QED
  BY <1>1, <1>3, <1>4, <1>6, Zenon

----------------------------------------------------------------------------
(* The session *)

\* What an observation of the lane is.
Observed(o) == o \in Observation /\ o.codex = codex

\* Types of what an evaluation yields.
LEMMA EvaluateTypes ==
  ASSUME TypeOK, NEW o, Observed(o), EvaluateSession(o)
  PROVE  session' \in SessionState /\ outcome' \in Outcomes
<1>. USE DEF Outcomes
<1>1. /\ BaselineState(o) \in SessionState
      /\ \A b \in BOOLEAN : UpdatedState(session, o, b) \in SessionState
      /\ \A p \in Nat : PreservedDepletedState(session, o, p) \in SessionState
  BY SessionTypes DEF TypeOK, Observed
<1>2. session \in SessionState /\ o.observedAt \in Nat
  BY DEF TypeOK, Observed, Observation
<1>3. CASE First(o)
  BY <1>1, <1>3 DEF First
<1>4. CASE Rebase(o)
  BY <1>1, <1>4 DEF Rebase
<1>5. CASE Ignore(o)
  BY <1>2, <1>5 DEF Ignore
<1>6. CASE FollowSilently(o)
  BY <1>1, <1>6 DEF FollowSilently
<1>7. CASE Follow(o)
  <2>1. (\/ BeforeBoundary(session, o)
         \/ session.trusted # 0 /\ IsDepleted(session.remaining) /\ IsDepleted(o.remaining)) \in BOOLEAN
    BY DEF BeforeBoundary, IsDepleted
  <2>2. session' \in SessionState
    BY <1>1, <1>7, <2>1 DEF Follow
  <2>. QED
    BY <2>2, <1>7 DEF Follow
<1>8. CASE Suppress(o)
  BY <1>1, <1>8 DEF Suppress
<1>9. CASE Restore(o)
  BY <1>1, <1>9 DEF Restore
<1>10. CASE Await(o)
  BY <1>1, <1>2, <1>10 DEF Await
<1>. QED
  BY <1>3, <1>4, <1>5, <1>6, <1>7, <1>8, <1>9, <1>10 DEF EvaluateSession

\* What each way to evaluate an observation does to the fields of the state.
LEMMA EvaluateFacts ==
  ASSUME TypeOK, SessionInv, NEW o, Observed(o), EvaluateSession(o)
  PROVE  /\ session'.source = o.source
         /\ \/ /\ session = NoSession
               /\ session'.remaining = o.remaining /\ session'.pending = 0
               /\ outcome' = IF enabled /\ IsDepleted(o.remaining) THEN "depleted" ELSE "none"
            \/ /\ session # NoSession /\ session.source # o.source
               /\ session'.remaining = o.remaining /\ session'.pending = 0
               /\ outcome' = "baseline"
            \/ /\ codex /\ session # NoSession
               /\ session' = session /\ outcome' = "stale"
            \/ /\ session # NoSession
               /\ codex => session'.observedAt > session.observedAt
               /\ codex => session'.trusted >= session.trusted
               /\ \/ /\ ~enabled \/ (IsDepleted(session.remaining) <=> IsDepleted(o.remaining))
                     /\ outcome' = "none"
                     /\ session'.remaining = o.remaining /\ session'.pending = 0
                  \/ /\ enabled /\ outcome' = "depleted"
                     /\ ~IsDepleted(session.remaining) /\ IsDepleted(o.remaining)
                     /\ session'.remaining = o.remaining /\ session'.pending = 0
                  \/ /\ enabled /\ outcome' = "restored"
                     /\ Restores(session, o)
                     /\ codex => ~BeforeBoundary(session, o)
                     /\ \/ ~codex
                        \/ Confirmed(session, o)
                        \/ /\ session.trusted # 0
                           /\ session'.trusted >= session.trusted + ResetEquivalence
                     /\ session'.remaining = o.remaining /\ session'.pending = 0
                  \/ /\ enabled /\ codex /\ outcome' = "suppressed"
                     /\ Restores(session, o)
                     /\ session'.remaining = session.remaining /\ session'.pending = 0
                  \/ /\ enabled /\ codex /\ outcome' = "awaiting"
                     /\ Restores(session, o) /\ ~BeforeBoundary(session, o)
                     /\ session'.remaining = session.remaining
                     /\ session'.pending = o.observedAt /\ session'.trusted = session.trusted
<1>1. /\ session \in SessionState /\ o \in Observation /\ o.codex = codex
      /\ session.observedAt \in Nat /\ o.observedAt \in Nat /\ session.trusted \in Nat
  BY DEF TypeOK, Observed, Observation, SessionState
<1>2. \A b \in BOOLEAN :
        LET u == UpdatedState(session, o, b) IN
          /\ u.remaining = o.remaining /\ u.source = o.source
          /\ u.observedAt = o.observedAt /\ u.pending = 0
          /\ o.codex => u.trusted >= session.trusted
  BY <1>1, UpdatedFacts
<1>3. /\ BaselineState(o).remaining = o.remaining /\ BaselineState(o).source = o.source
      /\ BaselineState(o).pending = 0
  BY DEF BaselineState
<1>4. \A p \in Nat :
        LET u == PreservedDepletedState(session, o, p) IN
          /\ u.remaining = session.remaining /\ u.source = o.source
          /\ u.observedAt = o.observedAt /\ u.pending = p /\ u.trusted = session.trusted
  BY DEF PreservedDepletedState
<1>5. o.codex /\ NewBoundary(session, o) =>
        /\ session.trusted # 0
        /\ UpdatedState(session, o, FALSE).trusted >= session.trusted + ResetEquivalence
  BY <1>1, NewBoundaryFacts
<1>6. Fresh(o) /\ o.codex => o.observedAt > session.observedAt
  BY <1>1 DEF Fresh, IsStale
<1>7. CASE First(o)
  BY <1>3, <1>7 DEF First
<1>8. CASE Rebase(o)
  BY <1>3, <1>8 DEF Rebase
<1>9. CASE Ignore(o)
  BY <1>1, <1>9 DEF Ignore, Comparable, IsStale
<1>10. CASE FollowSilently(o)
  BY <1>1, <1>2, <1>6, <1>10 DEF FollowSilently, Fresh, Comparable
<1>11. CASE Follow(o)
  <2>1. PICK b \in BOOLEAN : session' = UpdatedState(session, o, b)
    BY <1>11 DEF Follow, BeforeBoundary, IsDepleted
  <2>2. /\ session'.remaining = o.remaining /\ session'.source = o.source
        /\ session'.observedAt = o.observedAt /\ session'.pending = 0
        /\ o.codex => session'.trusted >= session.trusted
    BY <2>1, <1>2
  <2>3. session # NoSession /\ enabled /\ ~(o.codex /\ Restores(session, o))
    BY <1>11 DEF Follow, Fresh, Comparable
  <2>4. o.codex => session'.observedAt > session.observedAt
    BY <2>2, <1>6, <1>11 DEF Follow
  <2>5. outcome' = CASE Restores(session, o) -> "restored"
                     [] ~IsDepleted(session.remaining) /\ IsDepleted(o.remaining) -> "depleted"
                     [] OTHER -> "none"
    BY <1>11 DEF Follow
  <2>6. CASE Restores(session, o)
    <3>1. outcome' = "restored"
      BY <2>5, <2>6 DEF Restores
    <3>. QED
      BY <1>1, <2>2, <2>3, <2>4, <2>6, <3>1
  <2>7. CASE ~Restores(session, o)
    BY <1>1, <2>2, <2>3, <2>4, <2>5, <2>7 DEF Restores
  <2>. QED
    BY <2>6, <2>7
<1>12. CASE Suppress(o)
  BY <1>1, <1>4, <1>6, <1>12 DEF Suppress, Claims, Fresh, Comparable
<1>13. CASE Restore(o)
  BY <1>1, <1>2, <1>5, <1>6, <1>13 DEF Restore, Claims, Fresh, Comparable, Credible
<1>14. CASE Await(o)
  BY <1>1, <1>4, <1>6, <1>14 DEF Await, Claims, Fresh, Comparable
<1>. QED
  BY <1>7, <1>8, <1>9, <1>10, <1>11, <1>12, <1>13, <1>14 DEF EvaluateSession

\* An observation preserves what is known of the session.
LEMMA SessionStep ==
  ASSUME Inv, NEW o, Observed(o), EvaluateSession(o), Remember(o), UNCHANGED <<codex, settings>>
  PROVE  /\ announced' \in {"none", "depleted", "restored"} /\ lastLeft' \in Nat
         /\ SessionInv' /\ PendingInv' /\ DepletionIsKnown'
<1>1. /\ TypeOK /\ SessionInv /\ PendingInv /\ DepletionIsKnown
      /\ o \in Observation /\ o.codex = codex /\ enabled' = enabled
      /\ session \in SessionState /\ session' \in SessionState
      /\ session.trusted \in Nat /\ session'.trusted \in Nat
      /\ o.remaining \in 0..100 /\ o.observedAt \in Nat \ {0} /\ o.source \in Sources
  BY EvaluateTypes DEF Inv, Observed, TypeOK, Observation, SessionState, enabled
<1>2. /\ announced' = CASE outcome' \in {"depleted", "restored"} -> outcome'
                         [] outcome' = "baseline" -> "none"
                         [] OTHER -> announced
      /\ lastLeft' = CASE outcome' = "stale" -> lastLeft
                        [] outcome' # "stale" /\ IsDepleted(o.remaining) -> 0
                        [] OTHER -> o.observedAt
  BY DEF Remember
<1>3. announced' \in {"none", "depleted", "restored"}
  BY <1>1, <1>2 DEF TypeOK
<1>4. lastLeft' \in Nat
  BY <1>1, <1>2 DEF TypeOK
<1>5. session'.source = o.source /\ NoSession.source = NoSource /\ NoSource \notin Sources
  BY <1>1, EvaluateFacts, QuotaLaneAssumption DEF NoSession
<1>6. session' # NoSession /\ session'.source \in Sources
  BY <1>1, <1>5
<1>7. SessionInv'
  BY <1>6 DEF SessionInv
<1>8. PendingInv'
  <2>. SUFFICES ASSUME codex', session'.pending # 0
                PROVE  lastLeft' = session'.pending /\ lastLeft' >= session'.trusted
    BY DEF PendingInv
  <2>1. codex
    OBVIOUS
  <2>2. \/ session' = session /\ outcome' = "stale"
        \/ /\ outcome' = "awaiting" /\ Restores(session, o) /\ ~BeforeBoundary(session, o)
           /\ session'.pending = o.observedAt /\ session'.trusted = session.trusted
    BY <1>1, <2>1, EvaluateFacts
  <2>3. CASE session' = session /\ outcome' = "stale"
    BY <1>1, <1>2, <2>1, <2>3 DEF PendingInv
  <2>4. CASE /\ outcome' = "awaiting" /\ Restores(session, o) /\ ~BeforeBoundary(session, o)
             /\ session'.pending = o.observedAt /\ session'.trusted = session.trusted
    <3>1. lastLeft' = o.observedAt
      BY <1>2, <2>4 DEF Restores
    <3>2. o.observedAt >= session.trusted
      BY <1>1, <2>4 DEF BeforeBoundary
    <3>. QED
      BY <2>4, <3>1, <3>2
  <2>. QED
    BY <2>2, <2>3, <2>4
<1>9. DepletionIsKnown'
  <2>. SUFFICES ASSUME enabled
                PROVE  /\ announced' = "depleted" => IsDepleted(session'.remaining)
                       /\ announced' = "restored" => ~IsDepleted(session'.remaining)
    BY <1>1 DEF DepletionIsKnown
  <2>1. \/ /\ session = NoSession
           /\ session'.remaining = o.remaining
           /\ outcome' = IF IsDepleted(o.remaining) THEN "depleted" ELSE "none"
        \/ outcome' = "baseline"
        \/ session # NoSession /\ session' = session /\ outcome' = "stale"
        \/ /\ session # NoSession /\ outcome' = "none"
           /\ IsDepleted(session.remaining) <=> IsDepleted(session'.remaining)
        \/ outcome' = "depleted" /\ IsDepleted(session'.remaining)
        \/ outcome' = "restored" /\ ~IsDepleted(session'.remaining)
        \/ /\ session # NoSession /\ outcome' \in {"suppressed", "awaiting"}
           /\ session'.remaining = session.remaining
    BY <1>1, EvaluateFacts DEF Restores
  <2>. QED
    BY <1>1, <1>2, <2>1 DEF DepletionIsKnown, SessionInv
<1>. QED
  BY <1>3, <1>4, <1>7, <1>8, <1>9

----------------------------------------------------------------------------
(* The thresholds *)

\* Which thresholds are crossed does not depend on the bits: a bit is set only
\* while no more than its threshold remains.
LEMMA CrossedFacts ==
  ASSUME Inv, NEW remaining \in 0..100
  PROVE  /\ Crossed(remaining) = {t \in Thresholds : remaining <= t /\ (last = -1 \/ last > t)}
         /\ Crossed(remaining) # {} =>
              /\ Least(Crossed(remaining)) \in Crossed(remaining)
              /\ \A t \in Crossed(remaining) : Least(Crossed(remaining)) <= t
<1>1. Thresholds \subseteq 1..99 /\ last \in -1..100
  BY QuotaLaneAssumption DEF Inv, TypeOK
<1>2. \A t \in fired : last # -1 /\ last <= t
  BY DEF Inv, FallenInv
<1>3. Crossed(remaining) = {t \in Thresholds : remaining <= t /\ (last = -1 \/ last > t)}
  <2>1. ASSUME NEW t \in Thresholds, last = -1 \/ last > t PROVE t \notin fired
    <3>1. t \in Int /\ last \in Int
      BY <1>1
    <3>. QED
      BY <1>2, <2>1, <3>1
  <2>. QED
    BY <2>1 DEF Crossed
<1>4. Crossed(remaining) \in SUBSET Nat
  <2>1. \A t \in Thresholds : t \in Nat
    BY <1>1
  <2>. QED
    BY <2>1 DEF Crossed
<1>5. Crossed(remaining) # {} =>
        /\ Least(Crossed(remaining)) \in Crossed(remaining)
        /\ \A t \in Crossed(remaining) : Least(Crossed(remaining)) <= t
  BY <1>4, LeastExists
<1>. QED
  BY <1>3, <1>5

\* What a report does to the notification's part of the lane.
LEMMA NotifyFacts ==
  ASSUME Inv, NEW o, Observed(o), QuotaLow(o), "notifications" \in settings
  PROVE  /\ last' = o.remaining
         /\ \/ /\ Crossed(o.remaining) = {} /\ warned' = 0
               /\ fired' = {t \in fired : o.remaining <= t}
            \/ /\ warned' \in Crossed(o.remaining)
               /\ \A t \in Crossed(o.remaining) : warned' <= t
               /\ fired' = {t \in fired : o.remaining <= t} \cup {t \in Thresholds : t >= warned'}
<1>1. NotifyCrossing(o.remaining)
  BY DEF QuotaLow, NoNotification
<1>2. o.remaining \in 0..100
  BY DEF Observed, Observation
<1>3. Crossed(o.remaining) # {} =>
        /\ Least(Crossed(o.remaining)) \in Crossed(o.remaining)
        /\ \A t \in Crossed(o.remaining) : Least(Crossed(o.remaining)) <= t
  BY <1>2, CrossedFacts
<1>. QED
  BY <1>1, <1>3 DEF NotifyCrossing, FiredBy

\* A report preserves what is known of the thresholds and of the usage.
LEMMA QuotaLowStep ==
  ASSUME Inv, NEW o, Observed(o), QuotaLow(o), Remember(o), UNCHANGED settings
  PROVE  /\ usage' \in -1..100 /\ last' \in -1..100 /\ fired' \subseteq Thresholds
         /\ warned' \in Thresholds \cup {0} /\ hooked' \in BOOLEAN
         /\ heard' \subseteq Thresholds
         /\ FallenInv' /\ UsageInv'
<1>1. /\ TypeOK /\ FallenInv /\ UsageInv
      /\ o.remaining \in 0..100 /\ Thresholds \subseteq 1..99
      /\ settings' = settings /\ settings \subseteq Settings
      /\ usage \in -1..100 /\ last \in -1..100 /\ fired \subseteq Thresholds /\ heard \subseteq Thresholds
  BY QuotaLaneAssumption DEF Inv, Observed, Observation, TypeOK
<1>2. heard' = {t \in Thresholds :
                 o.remaining <= t /\ (t \in heard \/ (warned' # 0 /\ warned' <= t))}
  BY DEF Remember
<1>3. usage' \in -1..100 /\ hooked' \in BOOLEAN
  <2>1. CASE HookCrossing(100 - o.remaining)
    BY <1>1, <2>1 DEF HookCrossing, Reaches
  <2>2. CASE NoHook
    BY <1>1, <2>2 DEF NoHook
  <2>. QED
    BY <2>1, <2>2 DEF QuotaLow
<1>4. CASE "notifications" \in settings
  <2>1. PICK r \in 0..100 : r = o.remaining
    BY <1>1
  <2>2. last' = r
    BY <1>4, <2>1, NotifyFacts
  <2>3. Crossed(r) = {t \in Thresholds : r <= t /\ (last = -1 \/ last > t)}
    BY CrossedFacts
  <2>4. \/ warned' = 0 /\ fired' = {t \in fired : r <= t}
        \/ /\ warned' \in Thresholds /\ r <= warned'
           /\ fired' = {t \in fired : r <= t} \cup {t \in Thresholds : t >= warned'}
    BY <1>4, <2>1, <2>3, NotifyFacts
  <2>5. warned' \in Thresholds \cup {0} /\ fired' \subseteq Thresholds
    BY <1>1, <2>4
  <2>6. \A t \in fired' : r <= t
    <3>. SUFFICES ASSUME NEW t \in fired' PROVE r <= t
      OBVIOUS
    <3>1. t \in 1..99
      BY <1>1, <2>5
    <3>2. CASE t \in {u \in fired : r <= u}
      BY <3>2
    <3>3. CASE warned' \in 1..99 /\ r <= warned' /\ t >= warned'
      BY <3>1, <3>3
    <3>. QED
      BY <1>1, <2>4, <3>2, <3>3
  <2>7. \A t \in heard' : r <= t
    BY <1>2, <2>1
  <2>8. FallenInv'
    BY <1>1, <1>4, <2>2, <2>6, <2>7 DEF FallenInv
  <2>9. usage' = 100 - r
    BY <1>4, <2>1 DEF QuotaLow, HookCrossing, NoHook
  <2>10. UsageInv'
    BY <2>2, <2>9 DEF UsageInv
  <2>. QED
    BY <1>1, <1>2, <1>3, <2>2, <2>5, <2>8, <2>10
<1>5. CASE "notifications" \notin settings
  <2>1. warned' = 0 /\ fired' = fired /\ last' = last
    BY <1>5 DEF QuotaLow, NotifyCrossing, NoNotification
  <2>2. heard = {}
    BY <1>1, <1>5 DEF FallenInv
  <2>3. heard' = {}
    BY <1>2, <2>1, <2>2
  <2>4. FallenInv' /\ UsageInv'
    BY <1>1, <1>5, <2>1, <2>3 DEF FallenInv, UsageInv
  <2>. QED
    BY <1>1, <1>3, <2>1, <2>3, <2>4
<1>. QED
  BY <1>4, <1>5

----------------------------------------------------------------------------
(* The invariant *)

\* A lane without observations satisfies the invariant.
LEMMA InitInv ==
  ASSUME Init PROVE Inv
<1>1. NoSession \in SessionState /\ NoSession.pending = 0
  BY DEF NoSession, SessionState
<1>2. TypeOK
  <2>1. /\ codex \in BOOLEAN /\ settings \subseteq Settings /\ session \in SessionState
        /\ outcome \in Outcomes /\ hooked \in BOOLEAN
        /\ announced \in {"none", "depleted", "restored"}
        /\ fired \subseteq Thresholds /\ heard \subseteq Thresholds
        /\ warned \in Thresholds \cup {0}
    BY <1>1 DEF Init, Outcomes
  <2>2. /\ now \in Nat \ {0} /\ lastLeft \in Nat
        /\ usage \in -1..100 /\ last \in -1..100
    BY DEF Init
  <2>. QED
    BY <2>1, <2>2 DEF TypeOK
<1>3. SessionInv /\ PendingInv /\ DepletionIsKnown /\ FallenInv /\ UsageInv
  BY <1>1 DEF Init, SessionInv, PendingInv, DepletionIsKnown, FallenInv, UsageInv
<1>. QED
  BY <1>2, <1>3 DEF Inv

\* What Next observes is an observation of the lane.
LEMMA ObserveStep ==
  ASSUME Inv, NEW o, Observed(o), Observe(o)
  PROVE  Inv'
<1>1. QuotaLow(o) /\ EvaluateSession(o) /\ Remember(o) /\ UNCHANGED <<codex, now, settings>>
  BY DEF Observe
<1>2. session' \in SessionState /\ outcome' \in Outcomes
  BY <1>1, EvaluateTypes DEF Inv
<1>3. /\ announced' \in {"none", "depleted", "restored"} /\ lastLeft' \in Nat
      /\ SessionInv' /\ PendingInv' /\ DepletionIsKnown'
  BY <1>1, SessionStep
<1>4. /\ usage' \in -1..100 /\ last' \in -1..100 /\ fired' \subseteq Thresholds
      /\ warned' \in Thresholds \cup {0} /\ hooked' \in BOOLEAN
      /\ heard' \subseteq Thresholds
      /\ FallenInv' /\ UsageInv'
  BY <1>1, QuotaLowStep
<1>5. TypeOK'
  BY <1>1, <1>2, <1>3, <1>4 DEF Inv, TypeOK
<1>. QED
  BY <1>3, <1>4, <1>5 DEF Inv

\* Every observation that TLC enumerates is one of SessionQuota, for the lane's provider.
LEMMA NextObserves ==
  ASSUME Inv, Next
  PROVE  Tick \/ Reconfigure \/ \E o \in Observation : o.codex = codex /\ Observe(o)
<1>1. CASE Tick \/ Reconfigure
  BY <1>1
<1>2. CASE \E percent \in Percentages, source \in Sources, at \in 1..now, boundary \in Boundaries :
              Observe([codex |-> codex, remaining |-> percent, source |-> source,
                       observedAt |-> at, evaluatedAt |-> now, boundary |-> boundary])
  <2>1. PICK percent \in Percentages, source \in Sources, at \in 1..now, boundary \in Boundaries :
              Observe([codex |-> codex, remaining |-> percent, source |-> source,
                       observedAt |-> at, evaluatedAt |-> now, boundary |-> boundary])
    BY <1>2
  <2>2. now \in Nat \ {0} /\ codex \in BOOLEAN
    BY DEF Inv, TypeOK
  <2>3. [codex |-> codex, remaining |-> percent, source |-> source,
         observedAt |-> at, evaluatedAt |-> now, boundary |-> boundary] \in Observation
    BY <2>2, QuotaLaneAssumption DEF Observation
  <2>. QED
    BY <2>1, <2>3
<1>. QED
  BY <1>1, <1>2 DEF Next

\* Clock, configuration and observations keep the invariant.
LEMMA NextInv ==
  ASSUME Inv, [Next]_vars PROVE Inv'
<1>1. CASE Tick
  <2>1. TypeOK'
    <3>1. now' \in Nat \ {0}
      BY <1>1 DEF Inv, TypeOK, Tick
    <3>2. outcome' \in Outcomes /\ warned' \in Thresholds \cup {0} /\ hooked' \in BOOLEAN
      BY <1>1 DEF Tick, Quiet, Outcomes
    <3>. QED
      BY <1>1, <3>1, <3>2 DEF Inv, TypeOK, Tick
  <2>2. enabled' = enabled
    BY <1>1 DEF Tick, enabled
  <2>. QED
    BY <1>1, <2>1, <2>2
       DEF Inv, SessionInv, PendingInv, DepletionIsKnown, FallenInv, UsageInv, Tick
<1>2. CASE Reconfigure
  <2>1. NoSession \in SessionState /\ NoSession.pending = 0
    BY DEF NoSession, SessionState
  <2>2. TypeOK'
    <3>1. /\ lastLeft' \in Nat /\ usage' \in -1..100 /\ last' \in -1..100
      BY <1>2 DEF Reconfigure
    <3>2. /\ outcome' \in Outcomes /\ warned' \in Thresholds \cup {0} /\ hooked' \in BOOLEAN
          /\ announced' \in {"none", "depleted", "restored"}
          /\ fired' \subseteq Thresholds /\ heard' \subseteq Thresholds
          /\ settings' \subseteq Settings /\ session' \in SessionState
      BY <1>2, <2>1 DEF Reconfigure, Quiet, Outcomes
    <3>3. now' \in Nat \ {0} /\ codex' \in BOOLEAN
      BY <1>2 DEF Inv, TypeOK, Reconfigure
    <3>. QED
      BY <3>1, <3>2, <3>3 DEF TypeOK
  <2>. QED
    BY <1>2, <2>1, <2>2
       DEF Inv, SessionInv, PendingInv, DepletionIsKnown, FallenInv, UsageInv, Reconfigure
<1>3. CASE \E o \in Observation : o.codex = codex /\ Observe(o)
  BY <1>3, ObserveStep DEF Observed
<1>4. CASE UNCHANGED vars
  BY <1>4 DEF vars, warnings, Inv, TypeOK, SessionInv, PendingInv, DepletionIsKnown,
              FallenInv, UsageInv, enabled
<1>. QED
  BY <1>1, <1>2, <1>3, <1>4, NextObserves

\* The invariant holds in every reachable state.
LEMMA Invariance == Spec => []Inv
<1>1. Init => Inv
  BY InitInv
<1>2. Inv /\ [Next]_vars => Inv'
  BY NextInv
<1>. QED
  BY <1>1, <1>2, PTL DEF Spec

\* Types of the whole state.
THEOREM TypeCorrect == Spec => []TypeOK
<1>1. Inv => TypeOK
  BY DEF Inv
<1>. QED
  BY <1>1, Invariance, PTL

\* The state agrees with what was announced: dispatch_session_transition never
\* believes in used-up quota after it announced the quota's return, nor the reverse.
THEOREM DepletionKnown == Spec => []DepletionIsKnown
<1>1. Inv => DepletionIsKnown
  BY DEF Inv
<1>. QED
  BY <1>1, Invariance, PTL

----------------------------------------------------------------------------
(* What a step may not do *)

\* quota_reached and quota_reset alternate on every lane.
THEOREM Alternation == Spec => AnnouncementsAlternate
<1>. DEFINE A == outcome' \in {"depleted", "restored"} => outcome' # announced
<1>1. ASSUME Inv, [Next]_vars PROVE [A]_vars
  <2>1. CASE Tick \/ Reconfigure
    BY <2>1 DEF Tick, Reconfigure, Quiet
  <2>2. ASSUME NEW o \in Observation, o.codex = codex, Observe(o) PROVE A
    <3>1. Observed(o) /\ EvaluateSession(o) /\ TypeOK /\ SessionInv /\ DepletionIsKnown
      BY <1>1, <2>2 DEF Observed, Observe, Inv
    <3>2. \/ outcome' \notin {"depleted", "restored"}
          \/ session = NoSession /\ outcome' = "depleted"
          \/ /\ session # NoSession /\ enabled /\ outcome' = "depleted"
             /\ ~IsDepleted(session.remaining)
          \/ /\ session # NoSession /\ enabled /\ outcome' = "restored"
             /\ IsDepleted(session.remaining)
      BY <3>1, EvaluateFacts DEF Restores
    <3>. QED
      BY <3>1, <3>2 DEF SessionInv, DepletionIsKnown
  <2>. QED
    BY <1>1, <2>1, <2>2, NextObserves
<1>2. Inv /\ [Next]_vars => [A]_vars
  BY <1>1
<1>. QED
  BY <1>2, Invariance, PTL DEF Spec, AnnouncementsAlternate

\* Codex quota is announced as back only after the trusted reset time, and only with
\* a second observation or a later window.
THEOREM RestoreJustified == Spec => RestoresAreJustified
<1>. DEFINE A == codex /\ outcome' = "restored" =>
       /\ lastLeft' >= session.trusted
       /\ \/ lastLeft # 0 /\ lastLeft >= session.trusted /\ lastLeft < lastLeft'
          \/ session.trusted # 0 /\ session'.trusted >= session.trusted + ResetEquivalence
<1>1. ASSUME Inv, [Next]_vars PROVE [A]_vars
  <2>1. CASE Tick \/ Reconfigure
    BY <2>1 DEF Tick, Reconfigure, Quiet
  <2>2. ASSUME NEW o \in Observation, o.codex = codex, Observe(o), codex, outcome' = "restored"
        PROVE  A
    <3>1. Observed(o) /\ EvaluateSession(o) /\ Remember(o) /\ TypeOK /\ SessionInv /\ PendingInv
      BY <1>1, <2>2 DEF Observed, Observe, Inv
    <3>2. /\ Restores(session, o) /\ ~BeforeBoundary(session, o)
          /\ \/ Confirmed(session, o)
             \/ session.trusted # 0 /\ session'.trusted >= session.trusted + ResetEquivalence
      BY <2>2, <3>1, EvaluateFacts
    <3>3. lastLeft' = o.observedAt
      BY <2>2, <3>1, <3>2 DEF Remember, Restores
    <3>4. session.trusted \in Nat /\ o.observedAt \in Nat /\ session.pending \in Nat
      BY <3>1 DEF TypeOK, SessionState, Observation
    <3>5. lastLeft' >= session.trusted
      BY <3>2, <3>3, <3>4 DEF BeforeBoundary
    <3>6. CASE Confirmed(session, o)
      <4>1. lastLeft = session.pending /\ lastLeft >= session.trusted /\ session.pending # 0
        BY <2>2, <3>1, <3>6 DEF PendingInv, Confirmed
      <4>2. session.pending < o.observedAt
        BY <3>4, <3>6 DEF Confirmed
      <4>. QED
        BY <3>3, <3>5, <4>1, <4>2
    <3>. QED
      BY <3>2, <3>5, <3>6
  <2>. QED
    BY <1>1, <2>1, <2>2, NextObserves
<1>2. Inv /\ [Next]_vars => [A]_vars
  BY <1>1
<1>. QED
  BY <1>2, Invariance, PTL DEF Spec, RestoresAreJustified

\* Observations of codex that come late change nothing, and its trusted reset time
\* never moves back.
THEOREM MovesForward == Spec => SessionMovesForward
<1>. DEFINE A == codex /\ session # NoSession /\ session'.source = session.source =>
       /\ session'.observedAt >= session.observedAt
       /\ session'.observedAt = session.observedAt => session' = session
       /\ session'.trusted >= session.trusted
<1>1. ASSUME Inv, [Next]_vars PROVE [A]_vars
  <2>1. session.observedAt \in Nat /\ session.trusted \in Nat
    <3>1. session \in SessionState
      BY <1>1 DEF Inv, TypeOK
    <3>. QED
      BY <3>1 DEF SessionState
  <2>2. CASE Tick
    BY <2>1, <2>2 DEF Tick
  <2>3. CASE Reconfigure
    BY <1>1, <2>3, QuotaLaneAssumption DEF Reconfigure, NoSession, Inv, SessionInv
  <2>4. ASSUME NEW o \in Observation, o.codex = codex, Observe(o),
               codex, session # NoSession, session'.source = session.source
        PROVE  A
    <3>1. Observed(o) /\ EvaluateSession(o) /\ TypeOK /\ SessionInv
      BY <1>1, <2>4 DEF Observed, Observe, Inv
    <3>2. session'.observedAt \in Nat
      BY <3>1, EvaluateTypes DEF SessionState
    <3>3. \/ session' = session
          \/ session'.observedAt > session.observedAt /\ session'.trusted >= session.trusted
      BY <2>4, <3>1, EvaluateFacts
    <3>. QED
      BY <2>1, <3>2, <3>3
  <2>. QED
    BY <1>1, <2>2, <2>3, <2>4, NextObserves
<1>2. Inv /\ [Next]_vars => [A]_vars
  BY <1>1
<1>. QED
  BY <1>2, Invariance, PTL DEF Spec, SessionMovesForward

\* A threshold is not announced again while no more than that remains
\* (notification_crossed_threshold).
THEOREM WarnedOnce == Spec => WarnedOncePerFall
<1>1. ASSUME Inv, [Next]_vars PROVE [warned' \notin heard]_vars
  <2>1. Thresholds \subseteq 1..99 /\ heard \subseteq Thresholds /\ last \in -1..100
        /\ \A t \in heard : last # -1 /\ last <= t
    BY <1>1, QuotaLaneAssumption DEF Inv, TypeOK, FallenInv
  <2>2. 0 \notin heard
    BY <2>1
  <2>3. CASE Tick \/ Reconfigure
    BY <2>2, <2>3 DEF Tick, Reconfigure, Quiet
  <2>4. ASSUME NEW o \in Observation, o.codex = codex, Observe(o) PROVE warned' \notin heard
    <3>1. Observed(o) /\ QuotaLow(o) /\ o.remaining \in 0..100
      BY <2>4 DEF Observed, Observe, Observation
    <3>2. CASE "notifications" \notin settings
      BY <2>2, <3>1, <3>2 DEF QuotaLow, NotifyCrossing, NoNotification
    <3>3. CASE "notifications" \in settings
      <4>1. warned' = 0 \/ warned' \in Crossed(o.remaining)
        BY <1>1, <3>1, <3>3, NotifyFacts
      <4>2. \A t \in Crossed(o.remaining) : t \in Thresholds /\ (last = -1 \/ last > t)
        BY DEF Crossed
      <4>3. \A t \in Crossed(o.remaining) : t \notin heard
        <5>. SUFFICES ASSUME NEW t \in Crossed(o.remaining), t \in heard PROVE FALSE
          OBVIOUS
        <5>1. t \in Int /\ last \in Int
          BY <2>1
        <5>2. last # -1 /\ last <= t /\ (last = -1 \/ last > t)
          BY <2>1, <4>2
        <5>. QED
          BY <5>1, <5>2
      <4>. QED
        BY <2>2, <4>1, <4>3
    <3>. QED
      BY <3>2, <3>3
  <2>. QED
    BY <1>1, <2>3, <2>4, NextObserves
<1>2. Inv /\ [Next]_vars => [warned' \notin heard]_vars
  BY <1>1
<1>. QED
  BY <1>2, Invariance, PTL DEF Spec, WarnedOncePerFall

\* Each fall below a threshold is announced, by the lowest threshold that was passed.
THEOREM FallsAreWarned == Spec => EveryFallIsWarned
<1>. DEFINE A == \A t \in Thresholds :
                   last > t /\ last' # -1 /\ last' <= t => warned' # 0 /\ warned' <= t
<1>1. ASSUME Inv, [Next]_vars PROVE [A]_vars
  <2>1. Thresholds \subseteq 1..99 /\ last \in -1..100
    BY <1>1, QuotaLaneAssumption DEF Inv, TypeOK
  <2>2. ASSUME UNCHANGED last PROVE A
    <3>1. \A t \in Thresholds : t \in Int /\ last \in Int
      BY <2>1
    <3>. QED
      BY <2>2, <3>1
  <2>3. CASE Tick
    BY <2>2, <2>3 DEF Tick
  <2>4. CASE Reconfigure
    BY <2>4 DEF Reconfigure
  <2>5. ASSUME NEW o \in Observation, o.codex = codex, Observe(o) PROVE A
    <3>1. Observed(o) /\ QuotaLow(o) /\ o.remaining \in 0..100
      BY <2>5 DEF Observed, Observe, Observation
    <3>2. CASE "notifications" \notin settings
      BY <2>2, <3>1, <3>2 DEF QuotaLow, NotifyCrossing, NoNotification
    <3>3. CASE "notifications" \in settings
      <4>. SUFFICES ASSUME NEW t \in Thresholds, last > t, last' <= t
                    PROVE  warned' # 0 /\ warned' <= t
        OBVIOUS
      <4>1. last' = o.remaining
        BY <1>1, <3>1, <3>3, NotifyFacts
      <4>2. t \in Crossed(o.remaining)
        BY <1>1, <3>1, <4>1, CrossedFacts
      <4>3. warned' \in Crossed(o.remaining) /\ warned' <= t
        BY <1>1, <3>1, <3>3, <4>2, NotifyFacts
      <4>4. warned' \in 1..99
        BY <2>1, <4>3 DEF Crossed
      <4>. QED
        BY <4>3, <4>4
    <3>. QED
      BY <3>2, <3>3
  <2>. QED
    BY <1>1, <2>2, <2>3, <2>4, <2>5, NextObserves DEF vars, warnings
<1>2. Inv /\ [Next]_vars => [A]_vars
  BY <1>1
<1>. QED
  BY <1>2, Invariance, PTL DEF Spec, EveryFallIsWarned

\* threshold_crossed of the hook and notification_crossed_threshold agree on what is
\* a fall, although one looks at usage and the other at what remains.
THEOREM BothAgree == Spec => HookAndNotificationAgree
<1>. DEFINE A == usage # -1 /\ Comparing => (hooked' <=> warned' # 0)
<1>1. ASSUME Inv, [Next]_vars PROVE [A]_vars
  <2>1. CASE Tick \/ Reconfigure
    BY <2>1 DEF Tick, Reconfigure, Quiet
  <2>2. ASSUME NEW o \in Observation, o.codex = codex, Observe(o), usage # -1, Comparing
        PROVE  hooked' <=> warned' # 0
    <3>1. /\ Observed(o) /\ QuotaLow(o) /\ o.remaining \in 0..100
          /\ "notifications" \in settings /\ "low_rule" \in settings
          /\ Thresholds = {100 - t : t \in {50, 80}}
      BY <2>2 DEF Observed, Observe, Observation, Comparing, DefaultRule
    <3>2. Thresholds = {50, 20}
      BY <3>1
    <3>3. PICK u \in -1..100 : u = usage
      BY <1>1 DEF Inv, TypeOK
    <3>4. PICK l \in -1..100 : l = last
      BY <1>1 DEF Inv, TypeOK
    <3>5. PICK r \in 0..100 : r = o.remaining
      BY <3>1
    <3>6. u = 100 - l /\ l # -1
      BY <1>1, <2>2, <3>1, <3>3, <3>4 DEF Inv, UsageInv
    <3>7. hooked' <=> Reaches(100 - r)
      BY <3>1, <3>5 DEF QuotaLow, HookCrossing, NoHook
    <3>8. Reaches(100 - r) <=> (u < 50 /\ 100 - r >= 50) \/ (u < 80 /\ 100 - r >= 80)
      BY <2>2, <3>3 DEF Reaches, DefaultRule
    <3>9. Crossed(r) = {t \in {50, 20} : r <= t /\ l > t}
      <4>1. Crossed(r) = {t \in Thresholds : r <= t /\ (last = -1 \/ last > t)}
        BY <1>1, CrossedFacts
      <4>2. last # -1
        BY <3>4, <3>6
      <4>. QED
        BY <3>2, <3>4, <4>1, <4>2, Zenon
    <3>10. warned' # 0 <=> Crossed(r) # {}
      <4>1. \/ Crossed(r) = {} /\ warned' = 0
            \/ warned' \in Crossed(r)
        BY <1>1, <3>1, <3>5, NotifyFacts
      <4>2. 0 \notin Crossed(r)
        BY <3>9
      <4>. QED
        BY <4>1, <4>2
    <3>11. Crossed(r) # {} <=> (r <= 50 /\ l > 50) \/ (r <= 20 /\ l > 20)
      BY <3>9
    <3>12. (u < 50 /\ 100 - r >= 50) \/ (u < 80 /\ 100 - r >= 80)
             <=> (r <= 50 /\ l > 50) \/ (r <= 20 /\ l > 20)
      BY <3>6
    <3>. QED
      BY <3>7, <3>8, <3>10, <3>11, <3>12
  <2>. QED
    BY <1>1, <2>1, <2>2, NextObserves
<1>2. Inv /\ [Next]_vars => [A]_vars
  BY <1>1
<1>. QED
  BY <1>2, Invariance, PTL DEF Spec, HookAndNotificationAgree
=============================================================================
