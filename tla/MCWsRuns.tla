------------------------------ MODULE MCWsRuns ------------------------------
(* Values for model checking WsRuns.                                       *)
EXTENDS WsRuns, TLC

\* Connections, users and runs are interchangeable.
Symmetry == Permutations(Conns) \cup Permutations(Users) \cup Permutations(Runs)
=============================================================================
