------------------------- MODULE RefreshCoordinator -------------------------
(***************************************************************************)
(* linux/src/refresh_coordinator.c: the state the coordinator keeps for a  *)
(* key, and what each of its operations does to it.  Every operation holds *)
(* the coordinator's mutex from its first access to its last.              *)
(***************************************************************************)
EXTENDS Naturals

RefreshState == [generation: Nat, active: BOOLEAN]
Idle == [generation |-> 0, active |-> FALSE]

\* A request starts work unless other work runs that it does not replace.
ShouldStart(state, replace) == ~state.active \/ replace
Requested(state) == [generation |-> state.generation + 1, active |-> TRUE]

\* Deviation: whichever work ends is taken for the current one.
BadIsCurrent(state, generation) == state.active

IsCurrent(state, generation) == state.active /\ state.generation = generation

Completed(state, generation) ==
  IF IsCurrent(state, generation) THEN [state EXCEPT !.active = FALSE] ELSE state

\* Deviation: the work is renumbered but not given up.
BadInvalidated(state) == [state EXCEPT !.generation = @ + 1]

Invalidated(state) == [generation |-> state.generation + 1, active |-> FALSE]
=============================================================================
