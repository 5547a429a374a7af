-------------------------- MODULE MinhashClusters --------------------------
(***************************************************************************)
(* The clustering of attr_minhash (_cluster_rows): the pairs that the LSH  *)
(* index reports are united in a union-find forest with path compression   *)
(* and union by rank, and each tree becomes a cluster with a head.         *)
(*                                                                         *)
(* Chunk ids are numbers in the order of their strings.  The index is an   *)
(* arbitrary symmetric relation: which pairs it reports is data.           *)
(***************************************************************************)
EXTENDS Integers, FiniteSets

CONSTANTS
    Ids,            \* chunk ids of the source
    Relations       \* the relations that the index may report

ASSUME IdsAreNumbers == Ids \subseteq Nat /\ IsFiniteSet(Ids)

\* Two ids are neighbours if a bucket of the index holds both.
ASSUME NeighboursAreMutual ==
    \A relation \in Relations :
       /\ relation \subseteq Ids \X Ids
       /\ \A a, b \in Ids : <<a, b>> \in relation => <<b, a>> \in relation

VARIABLES
    near,           \* pairs of neighbours
    todo,           \* pairs <<cid, neighbour>> that the loops have not reached
    parent, rank,   \* the forest
    label, head     \* the result, once there is one: cluster and head of each id

clusterVars == <<near, todo, parent, rank, label, head>>
-----------------------------------------------------------------------------
Root(p, x) ==
    LET root[y \in DOMAIN p] == IF p[y] = y THEN y ELSE root[p[y]] IN root[x]

\* The nodes from x up to its root.
Path(p, x) ==
    LET path[y \in DOMAIN p] == IF p[y] = y THEN {y} ELSE {y} \cup path[p[y]]
    IN  path[x]

\* _find: the root, and every node on the path now points to it.
Compress(p, x) == [y \in DOMAIN p |-> IF y \in Path(p, x) THEN Root(p, x) ELSE p[y]]

\* Mutation: the neighbour itself is moved instead of its root.
UniteNodes(a, b) ==
    LET p == Compress(Compress(parent, a), b) IN
    /\ parent' = [p EXCEPT ![b] = p[a]]
    /\ UNCHANGED rank

\* _union: the root of lower rank goes below the other; of two equal ones, that
\* of b goes below that of a, whose rank grows.
Unite(a, b) ==
    LET p == Compress(Compress(parent, a), b)
        ra == p[a]
        rb == p[b]
    IN  \/ /\ ra = rb
           /\ parent' = p
           /\ UNCHANGED rank
        \/ /\ ra # rb /\ rank[ra] < rank[rb]
           /\ parent' = [p EXCEPT ![ra] = rb]
           /\ UNCHANGED rank
        \/ /\ ra # rb /\ rank[ra] >= rank[rb]
           /\ parent' = [p EXCEPT ![rb] = ra]
           /\ rank' = [rank EXCEPT ![ra] = IF rank[ra] = rank[rb] THEN @ + 1 ELSE @]

\* The next pair: ids in order, the neighbours of an id in any order.
UniteNext(a, b) ==
    /\ <<a, b>> \in todo
    /\ \A pair \in todo : a <= pair[1]
    /\ todo' = todo \ {<<a, b>>}
    /\ Unite(a, b)
    /\ UNCHANGED <<near, label, head>>

\* The ids at which a root is met for the first time.
Firsts == {c \in Ids : \A d \in Ids : d < c => Root(parent, d) # Root(parent, c)}

FirstOf(c) == CHOOSE f \in Firsts : Root(parent, f) = Root(parent, c)

\* Phases 4 and 5: labels in the order of the first ids, heads of smallest id.
Assign ==
    /\ todo = {} /\ label = << >>
    /\ label' = [c \in Ids |-> Cardinality({f \in Firsts : f < FirstOf(c)})]
    /\ head' = [c \in Ids |-> FirstOf(c) = c]
    /\ UNCHANGED <<near, todo, parent, rank>>

ClusterInit ==
    /\ near \in Relations
    /\ todo = {pair \in near : pair[1] # pair[2]}
    /\ parent = [c \in Ids |-> c]
    /\ rank = [c \in Ids |-> 0]
    /\ label = << >> /\ head = << >>

ClusterNext == (\E a, b \in Ids : UniteNext(a, b)) \/ Assign

ClusterSpec == ClusterInit /\ [][ClusterNext]_clusterVars
-----------------------------------------------------------------------------
\* The ids that a chain of neighbours joins to c.
Component(c) ==
    LET reach[n \in Nat] ==
          IF n = 0 THEN {c}
          ELSE reach[n - 1] \cup {b \in Ids : \E a \in reach[n - 1] : <<a, b>> \in near}
    IN  reach[Cardinality(Ids)]

\* Whatever the order of the pairs: two ids have the same cluster exactly if a
\* chain of neighbours joins them, the labels are 0, 1, 2, ... without a gap, and
\* the head of a cluster is its smallest id and no other.
ClustersAreComponents ==
    label # << >> =>
        /\ \A c, d \in Ids : label[c] = label[d] <=> d \in Component(c)
        /\ {label[c] : c \in Ids} = 0..(Cardinality({label[c] : c \in Ids}) - 1)
        /\ \A c \in Ids : head[c] <=> \A d \in Component(c) : c <= d
=============================================================================
