------------------------ MODULE MCDatasetMaterialize ------------------------
(* Values for model checking DatasetMaterialize.                           *)
EXTENDS DatasetMaterialize, TLC

\* Requests, runs and outputs are interchangeable.
Symmetry ==
    Permutations(Requests) \cup Permutations(Workers) \cup Permutations(Outputs)
       \cup Permutations(DatasetIds) \cup Permutations(BackfillIds)
=============================================================================
