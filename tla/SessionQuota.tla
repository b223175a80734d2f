---------------------------- MODULE SessionQuota ----------------------------
(***************************************************************************)
(* linux/src/transitions.c: the state kept for the session quota of one    *)
(* provider account, and the state that follows an observation.  Times are *)
(* in minutes and a time of 0 stands for "none"; remaining is in percent.  *)
(***************************************************************************)
EXTENDS Integers

CONSTANTS
  Sources,          \* where usage is read from; the owner is fixed by the lane
  NoSource,
  ResetEquivalence  \* RESET_EQUIVALENCE_MILLISECONDS, in the unit of time

SessionState ==
  [remaining: 0..100, source: Sources \cup {NoSource}, observedAt: Nat, trusted: Nat, pending: Nat]

\* No entry in session_states.
NoSession ==
  [remaining |-> 100, source |-> NoSource, observedAt |-> 0, trusted |-> 0, pending |-> 0]

\* Observations of the provider codex are trusted less than others.
Observation ==
  [codex: BOOLEAN, remaining: 0..100, source: Sources, observedAt: Nat \ {0},
   evaluatedAt: Nat \ {0}, boundary: Nat]

IsDepleted(remaining) == remaining = 0

ValidBoundary(o) == o.boundary > o.observedAt /\ o.boundary > o.evaluatedAt

\* The first of the two is not later, or hardly.
NotBeyond(first, second) == first < second + ResetEquivalence

BaselineState(o) ==
  [remaining |-> o.remaining, source |-> o.source, observedAt |-> o.observedAt,
   trusted |-> IF o.codex /\ ValidBoundary(o) THEN o.boundary ELSE 0, pending |-> 0]

\* A boundary that was trusted gives way only to one that is clearly later.
KeepsBoundary(s, o) ==
  /\ s.trusted # 0
  /\ NotBeyond(BaselineState(o).trusted, s.trusted)

UpdatedState(s, o, preserve) ==
  IF o.codex /\ (preserve \/ KeepsBoundary(s, o))
  THEN [BaselineState(o) EXCEPT !.trusted = s.trusted]
  ELSE BaselineState(o)

\* Deviation: a restore that is not believed yet is stored all the same.
BadPreservedDepletedState(s, o, pending) ==
  [BaselineState(o) EXCEPT !.trusted = s.trusted, !.pending = pending]

PreservedDepletedState(s, o, pending) ==
  [remaining |-> s.remaining, source |-> o.source, observedAt |-> o.observedAt,
   trusted |-> s.trusted, pending |-> pending]

\* The boundary that was trusted still lies ahead.
BeforeBoundary(s, o) ==
  s.trusted # 0 /\ (o.evaluatedAt < s.trusted \/ o.observedAt < s.trusted)

Restores(s, o) == IsDepleted(s.remaining) /\ ~IsDepleted(o.remaining)

\* A later window has begun.
NewBoundary(s, o) ==
  s.trusted # 0 /\ ValidBoundary(o) /\ ~NotBeyond(o.boundary, s.trusted)

\* Deviation: a restore needs no second observation.
BadConfirmed(s, o) == TRUE

\* An earlier observation has already shown the same.
Confirmed(s, o) == s.pending # 0 /\ o.observedAt > s.pending
=============================================================================
