------------------------------- MODULE MCLance -------------------------------
(* Values for model checking Synthesis (and LanceChunks, LlmGateway and    *)
(* ChunkWindows, which it extends) together with MinhashClusters.  A team  *)
(* is a set of actors and documents that take part together, so that the   *)
(* states of different teams add instead of multiplying.                   *)
EXTENDS Synthesis, MinhashClusters, FiniteSetsExt, TLC

CONSTANTS s1, d1, d2, d3, k1, k2, k3, tq, tl, tm, g1, g2, v1

MCTeams ==
    { {k1, k2, tq, tl, d1},             \* two generations of one text, two columns
      {k1, k2, tm, d1, d2},             \* two texts, and the duplicates of overlapping runs
      {k1, k2, k3, d2, d3},             \* three runs of chunks
      {k1, tq, v1, d1, "clock"},        \* the tagger and a preview at the rate limit
      {k1, k2, g1, g2, d1},             \* two datasets, over duplicates
      {k1, tq, g1, d1},                 \* a dataset that filters by score
      {"cluster"} }                     \* the clustering of attr_minhash

MCKindOf == tq :> "quality" @@ tl :> "lang" @@ tm :> "minhash"

\* Two windows, the second one short; a text without tokens; two full windows.
MCTokens == d1 :> 3 @@ d2 :> 0 @@ d3 :> 4

MCRecipes == [where : BOOLEAN, fallback : BOOLEAN]

MCBucket(s, n) == IF n = 0 THEN 9 ELSE 10

\* Every symmetric relation on the ids.
MCRelations ==
    {{pair \in Ids \X Ids : {pair[1], pair[2]} \in edges} :
        edges \in SUBSET kSubset(2, Ids)}

clusterTeam == "cluster" \in team

MCInit == SynthInit /\ ClusterInit /\ (clusterTeam \/ near = {})

MCNext ==
    \/ SynthNext /\ UNCHANGED clusterVars
    \/ clusterTeam /\ ClusterNext /\ UNCHANGED synthVars

MCSpec == MCInit /\ [][MCNext]_<<synthVars, clusterVars>>
=============================================================================
