----------------------------- MODULE MCRuntime -----------------------------
(* Small instances of Runtime for TLC: the threads are interchangeable. *)
EXTENDS Runtime, FiniteSets, TLC

CONSTANT MaxExtras  \* bound: how many of the following may come together

Symmetry == Permutations(Workers)

\* The edits that were made, the ticks that have passed and the snapshots of
\* several rows that are being published.
Extras ==
  (config - FirstConfig) + (now - 1) + Cardinality({w \in Workers : Len(fetch[w].rows) > 1})

FewExtras == Extras <= MaxExtras
=============================================================================
