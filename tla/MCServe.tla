------------------------------ MODULE MCServe ------------------------------
(* Small instances of Serve for TLC. *)
EXTENDS ServeRefinement, TLC

Symmetry == Permutations(Requests) \cup Permutations(Fingerprints)

\* Fingerprints are interchangeable, so one of them stands for the first
\* configuration of a run that cannot use symmetry (liveness).
MCInit == Init /\ config = CHOOSE f \in Fingerprints : TRUE

MCFairSpec == MCInit /\ [][Next]_vars /\ Fairness
=============================================================================
