--------------------------- MODULE MCRunLifecycle ---------------------------
(* Values for model checking RunLifecycle.                                 *)
EXTENDS RunLifecycle, TLC

\* Triggers, sources, backfill ids and handlers are interchangeable; for safety.
Symmetry ==
    Permutations(Triggers) \cup Permutations(Sources) \cup Permutations(BackfillIds)
       \cup Permutations(Handlers)
=============================================================================
