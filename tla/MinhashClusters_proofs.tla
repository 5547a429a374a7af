------------------------ MODULE MinhashClusters_proofs ------------------------
(***************************************************************************)
(* Theorems about MinhashClusters, for any finite set of ids and any       *)
(* symmetric relation that the index may report.                           *)
(***************************************************************************)
EXTENDS MinhashClusters, FiniteSetTheorems, TLAPS

(* Smallest numbers.  They stand for induction over numbers.               *)

LEMMA SmallestExists ==
    ASSUME NEW S \in SUBSET Nat, S # {}
    PROVE  \E n \in S : \A m \in S : n <= m
<1>. DEFINE R == StrictSubsetOrdering(Nat)
            F == FiniteSubsetsOf(Nat)
            T == {0..n : n \in S}
<1>1. ASSUME NEW n \in Nat
      PROVE  0..n \in F
  <2>1. IsFiniteSet(0..n)
    BY FS_Interval
  <2>. QED  BY <2>1 DEF FiniteSubsetsOf
<1>2. IsWellFoundedOn(R, F)
  BY FS_StrictSubsetOrderingWellFounded
<1>3. T \subseteq F /\ T # {}
  BY <1>1
<1>4. PICK x \in T : \A y \in T : ~(<<y, x>> \in R)
  <2>. HIDE DEF R, F, T
  <2>. QED  BY <1>2, <1>3, WFMin
<1>5. PICK n \in S : x = 0..n
  OBVIOUS
<1>6. ASSUME NEW m \in S, ~(n <= m)
      PROVE  FALSE
  <2>1. 0..m \in SUBSET Nat /\ 0..n \in SUBSET Nat /\ 0..m \subseteq 0..n
    BY <1>6
  <2>2. n \in 0..n /\ n \notin 0..m
    BY <1>6
  <2>3. 0..m # 0..n
    BY <2>2
  <2>4. <<0..m, 0..n>> \in R
    BY <2>1, <2>3 DEF StrictSubsetOrdering
  <2>. QED  BY <1>4, <1>5, <2>4
<1>. QED  BY <1>6

\* An element of a finite set has the highest number.
LEMMA HighestExists ==
    ASSUME NEW D, IsFiniteSet(D), NEW f \in [D -> Nat], NEW S \in SUBSET D, S # {}
    PROVE  \E x \in S : \A y \in S : f[y] <= f[x]
<1>. DEFINE R == StrictSubsetOrdering(D)
            HasHighest(T) == \E x \in T : \A y \in T : f[y] <= f[x]
            B == {T \in SUBSET D : T # {} /\ ~HasHighest(T)}
<1>. SUFFICES ASSUME B # {}
              PROVE  FALSE
  OBVIOUS
<1>1. IsWellFoundedOn(R, SUBSET D)
  BY FS_StrictSubsetOrderingWellFounded, FS_FiniteSubsetsOfFinite
<1>2. PICK T \in B : \A U \in B : ~(<<U, T>> \in R)
  <2>1. B \subseteq SUBSET D
    OBVIOUS
  <2>. HIDE DEF R, B
  <2>. QED  BY <1>1, <2>1, WFMin
<1>3. T \in SUBSET D /\ T # {} /\ ~HasHighest(T)
  OBVIOUS
<1>4. PICK z \in T : TRUE
  BY <1>3
<1>. DEFINE U == T \ {z}
<1>5. <<U, T>> \in R
  BY <1>3, <1>4 DEF StrictSubsetOrdering
<1>6. U = {} \/ HasHighest(U)
  BY <1>2, <1>3, <1>5
<1>7. CASE U = {}
  <2>1. \A y \in T : y = z
    BY <1>7
  <2>2. f[z] <= f[z]
    BY <1>3, <1>4
  <2>. QED  BY <1>3, <1>4, <2>1, <2>2
<1>8. CASE HasHighest(U)
  <2>1. PICK x \in U : \A y \in U : f[y] <= f[x]
    BY <1>8
  <2>2. x \in T /\ \A y \in T : f[y] \in Nat
    BY <1>3
  <2>3. f[z] <= f[x] => \A y \in T : f[y] <= f[x]
    BY <2>1
  <2>4. ~(f[z] <= f[x]) => \A y \in T : f[y] <= f[z]
    BY <1>4, <2>1, <2>2
  <2>. QED  BY <1>3, <1>4, <2>2, <2>3, <2>4
<1>. QED  BY <1>6, <1>7, <1>8
-----------------------------------------------------------------------------
(* Roots and paths.  The recursive functions of Root and Path satisfy      *)
(* their equations, because the sets above a node give solutions of them.  *)

\* The nodes that cannot be left out of a set that has y and every parent.
Above(p, y) ==
    {z \in Ids : \A S \in SUBSET Ids : y \in S /\ (\A v \in S : p[v] \in S) => z \in S}

RootIs(p, root) == root = [y \in DOMAIN p |-> IF p[y] = y THEN y ELSE root[p[y]]]

PathIs(p, path) == path = [y \in DOMAIN p |-> IF p[y] = y THEN {y} ELSE {y} \cup path[p[y]]]

LEMMA AboveStep ==
    ASSUME NEW p \in [Ids -> Ids], NEW y \in Ids
    PROVE  Above(p, y) = IF p[y] = y THEN {y} ELSE {y} \cup Above(p, p[y])
<1>1. y \in Above(p, y)
  BY DEF Above
<1>2. CASE p[y] = y
  <2>1. {y} \in SUBSET Ids /\ \A v \in {y} : p[v] \in {y}
    BY <1>2
  <2>2. Above(p, y) \subseteq {y}
    BY <2>1 DEF Above
  <2>. QED  BY <1>1, <1>2, <2>2
<1>3. Above(p, p[y]) \subseteq Above(p, y)
  BY DEF Above
<1>4. Above(p, y) \subseteq {y} \cup Above(p, p[y])
  <2>. DEFINE T == {y} \cup Above(p, p[y])
  <2>1. T \in SUBSET Ids /\ p[y] \in T
    BY DEF Above
  <2>2. \A v \in Above(p, p[y]) : p[v] \in Above(p, p[y])
    BY DEF Above
  <2>3. \A v \in T : p[v] \in T
    BY <2>1, <2>2
  <2>. QED  BY <2>1, <2>3 DEF Above
<1>. QED  BY <1>1, <1>2, <1>3, <1>4

LEMMA PathEquation ==
    ASSUME NEW p \in [Ids -> Ids], NEW y \in Ids
    PROVE  Path(p, y) = IF p[y] = y THEN {y} ELSE {y} \cup Path(p, p[y])
<1>. DEFINE g == [x \in Ids |-> Above(p, x)]
            f == CHOOSE path : PathIs(p, path)
<1>1. g = [x \in Ids |-> IF p[x] = x THEN {x} ELSE {x} \cup g[p[x]]]
  BY AboveStep
<1>2. PathIs(p, g)
  BY <1>1 DEF PathIs
<1>3. PathIs(p, f)
  <2>. HIDE DEF g
  <2>. QED  BY <1>2
<1>4. \A x : Path(p, x) = f[x]
  BY DEF Path, PathIs
<1>. HIDE DEF f
<1>5. f[y] = IF p[y] = y THEN {y} ELSE {y} \cup f[p[y]]
  BY <1>3 DEF PathIs
<1>. QED  BY <1>4, <1>5

LEMMA RootEquation ==
    ASSUME NEW p \in [Ids -> Ids], NEW y \in Ids
    PROVE  Root(p, y) = IF p[y] = y THEN y ELSE Root(p, p[y])
<1>. DEFINE Roots(x) == {z \in Above(p, x) : p[z] = z}
            g == [x \in Ids |-> CHOOSE z : z \in Roots(x)]
            f == CHOOSE root : RootIs(p, root)
<1>1. ASSUME NEW x \in Ids
      PROVE  g[x] = IF p[x] = x THEN x ELSE g[p[x]]
  <2>1. CASE p[x] = x
    <3>1. Roots(x) = {x}
      BY <2>1, AboveStep
    <3>. QED  BY <2>1, <3>1
  <2>2. CASE p[x] # x
    <3>1. Roots(x) = Roots(p[x])
      BY <2>2, AboveStep
    <3>. QED  BY <2>2, <3>1
  <2>. QED  BY <2>1, <2>2
<1>2. RootIs(p, g)
  <2>1. g = [x \in Ids |-> g[x]]
    OBVIOUS
  <2>. HIDE DEF g
  <2>. QED  BY <1>1, <2>1 DEF RootIs
<1>3. RootIs(p, f)
  <2>. HIDE DEF g
  <2>. QED  BY <1>2
<1>4. \A x : Root(p, x) = f[x]
  BY DEF Root, RootIs
<1>. HIDE DEF f
<1>5. f[y] = IF p[y] = y THEN y ELSE f[p[y]]
  BY <1>3 DEF RootIs
<1>. QED  BY <1>4, <1>5
-----------------------------------------------------------------------------
(* Forests.                                                                *)

\* Parents have a higher number than their children; only a root is its own parent.
Forest(p, d) ==
    /\ p \in [Ids -> Ids] /\ d \in [Ids -> Nat]
    /\ \A y \in Ids : p[y] # y => d[y] < d[p[y]]

\* Induction from the roots downwards.
LEMMA Topmost ==
    ASSUME NEW p, NEW d, Forest(p, d), NEW S \in SUBSET Ids, S # {}
    PROVE  \E y \in S : p[y] = y \/ p[y] \notin S
<1>1. d \in [Ids -> Nat] /\ p \in [Ids -> Ids]
  BY DEF Forest
<1>2. PICK x \in S : \A y \in S : d[y] <= d[x]
  BY <1>1, HighestExists, IdsAreNumbers
<1>3. d[x] \in Nat /\ d[p[x]] \in Nat
  BY <1>1
<1>4. p[x] = x \/ d[x] < d[p[x]]
  BY DEF Forest
<1>. QED  BY <1>2, <1>3, <1>4

LEMMA RootFound ==
    ASSUME NEW p, NEW d, Forest(p, d), NEW y \in Ids
    PROVE  /\ Root(p, y) \in Ids /\ p[Root(p, y)] = Root(p, y)
           /\ p[y] # y => d[y] < d[Root(p, y)]
<1>. DEFINE Found(x) == /\ Root(p, x) \in Ids /\ p[Root(p, x)] = Root(p, x)
                        /\ p[x] # x => d[x] < d[Root(p, x)]
            S == {x \in Ids : ~Found(x)}
<1>1. p \in [Ids -> Ids] /\ d \in [Ids -> Nat]
  BY DEF Forest
<1>2. ASSUME NEW x \in Ids, p[x] = x \/ Found(p[x])
      PROVE  Found(x)
  <2>1. Root(p, x) = IF p[x] = x THEN x ELSE Root(p, p[x])
    BY <1>1, RootEquation
  <2>2. CASE p[x] = x
    BY <2>1, <2>2
  <2>3. CASE p[x] # x
    <3>1. d[x] < d[p[x]] /\ d[x] \in Nat /\ d[p[x]] \in Nat
      BY <1>1, <2>3 DEF Forest
    <3>2. Root(p, p[x]) = p[x] \/ d[p[x]] < d[Root(p, p[x])]
      <4>1. p[x] \in Ids
        BY <1>1
      <4>2. p[p[x]] = p[x] => Root(p, p[x]) = p[x]
        BY <1>1, <4>1, RootEquation
      <4>. QED  BY <1>2, <2>3, <4>2
    <3>3. d[Root(p, p[x])] \in Nat
      BY <1>1, <1>2, <2>3
    <3>. QED  BY <1>2, <2>1, <2>3, <3>1, <3>2, <3>3
  <2>. QED  BY <2>2, <2>3
<1>3. S = {}
  <2>1. S \in SUBSET Ids
    OBVIOUS
  <2>2. ASSUME NEW x \in S, p[x] = x \/ p[x] \notin S
        PROVE  FALSE
    <3>1. x \in Ids /\ ~Found(x) /\ p[x] \in Ids
      BY <1>1, <2>2
    <3>2. p[x] \notin S => Found(p[x])
      BY <3>1
    <3>. QED  BY <1>2, <2>2, <3>1, <3>2
  <2>. HIDE DEF S
  <2>. QED  BY <2>1, <2>2, Topmost
<1>. QED  BY <1>3

\* Only one function satisfies the equation.
LEMMA RootUnique ==
    ASSUME NEW p, NEW d, Forest(p, d),
           NEW g, \A y \in Ids : g[y] = IF p[y] = y THEN y ELSE g[p[y]]
    PROVE  \A y \in Ids : Root(p, y) = g[y]
<1>. DEFINE S == {y \in Ids : Root(p, y) # g[y]}
<1>1. p \in [Ids -> Ids]
  BY DEF Forest
<1>2. ASSUME NEW y \in S, p[y] = y \/ p[y] \notin S
      PROVE  FALSE
  <2>1. y \in Ids /\ Root(p, y) # g[y] /\ p[y] \in Ids
    BY <1>1
  <2>2. Root(p, y) = IF p[y] = y THEN y ELSE Root(p, p[y])
    BY <1>1, <2>1, RootEquation
  <2>3. g[y] = IF p[y] = y THEN y ELSE g[p[y]]
    BY <2>1
  <2>. QED  BY <1>2, <2>1, <2>2, <2>3
<1>3. S = {}
  <2>1. S \in SUBSET Ids
    OBVIOUS
  <2>. HIDE DEF S
  <2>. QED  BY <1>2, <2>1, Topmost
<1>. QED  BY <1>3

LEMMA PathKeepsRoot ==
    ASSUME NEW p, NEW d, Forest(p, d), NEW x \in Ids
    PROVE  /\ x \in Path(p, x)
           /\ \A y \in Path(p, x) : y \in Ids /\ Root(p, y) = Root(p, x)
<1>. DEFINE Good(v) == \A y \in Path(p, v) : y \in Ids /\ Root(p, y) = Root(p, v)
            S == {v \in Ids : ~Good(v)}
<1>1. p \in [Ids -> Ids]
  BY DEF Forest
<1>2. ASSUME NEW v \in S, p[v] = v \/ p[v] \notin S
      PROVE  FALSE
  <2>1. v \in Ids /\ ~Good(v) /\ p[v] \in Ids
    BY <1>1
  <2>2. /\ Root(p, v) = IF p[v] = v THEN v ELSE Root(p, p[v])
        /\ Path(p, v) = IF p[v] = v THEN {v} ELSE {v} \cup Path(p, p[v])
    BY <1>1, <2>1, RootEquation, PathEquation
  <2>3. CASE p[v] = v
    BY <2>1, <2>2, <2>3
  <2>4. CASE p[v] # v
    <3>1. Good(p[v])
      BY <1>2, <2>1, <2>4
    <3>2. Root(p, v) = Root(p, p[v]) /\ Path(p, v) = {v} \cup Path(p, p[v])
      BY <2>2, <2>4
    <3>3. Good(v)
      BY <2>1, <3>1, <3>2
    <3>. QED  BY <2>1, <3>3
  <2>. QED  BY <2>3, <2>4
<1>3. S = {}
  <2>1. S \in SUBSET Ids
    OBVIOUS
  <2>. HIDE DEF S
  <2>. QED  BY <1>2, <2>1, Topmost
<1>4. x \in Path(p, x)
  BY <1>1, PathEquation
<1>. QED  BY <1>3, <1>4

\* _find leaves the trees as they are.
LEMMA CompressKeepsRoots ==
    ASSUME NEW p, NEW d, Forest(p, d), NEW x \in Ids, NEW q, q = Compress(p, x)
    PROVE  /\ Forest(q, d)
           /\ \A y \in Ids : Root(q, y) = Root(p, y)
           /\ q[x] = Root(p, x)
           /\ \A y \in Ids : p[y] = Root(p, y) => q[y] = Root(p, y)
<1>. DEFINE r == Root(p, x)
<1>1. p \in [Ids -> Ids] /\ d \in [Ids -> Nat] /\ DOMAIN p = Ids
  BY DEF Forest
<1>2. q = [y \in Ids |-> IF y \in Path(p, x) THEN r ELSE p[y]]
  BY <1>1 DEF Compress
<1>3. r \in Ids /\ p[r] = r
  BY RootFound
<1>4. /\ x \in Path(p, x)
      /\ \A y \in Path(p, x) : y \in Ids /\ Root(p, y) = r
  BY PathKeepsRoot
<1>. HIDE DEF r
<1>5. Forest(q, d)
  <2>1. q \in [Ids -> Ids]
    BY <1>1, <1>2, <1>3
  <2>2. ASSUME NEW y \in Ids, q[y] # y
        PROVE  d[y] < d[q[y]]
    <3>1. CASE y \in Path(p, x)
      <4>1. q[y] = r /\ Root(p, y) = r
        BY <1>2, <1>4, <3>1
      <4>2. p[y] # y
        BY <1>1, <2>2, <4>1, RootEquation
      <4>. QED  BY <4>1, <4>2, RootFound
    <3>2. CASE y \notin Path(p, x)
      BY <1>2, <2>2, <3>2 DEF Forest
    <3>. QED  BY <3>1, <3>2
  <2>. QED  BY <1>1, <2>1, <2>2 DEF Forest
<1>. DEFINE g == [y \in Ids |-> Root(p, y)]
<1>6. ASSUME NEW y \in Ids
      PROVE  g[y] = IF q[y] = y THEN y ELSE g[q[y]]
  <2>1. g[y] = Root(p, y) /\ g[r] = Root(p, r) /\ p[y] \in Ids /\ g[p[y]] = Root(p, p[y])
    BY <1>1, <1>3
  <2>2. Root(p, y) = IF p[y] = y THEN y ELSE Root(p, p[y])
    BY <1>1, RootEquation
  <2>3. Root(p, r) = r
    BY <1>1, <1>3, RootEquation
  <2>. HIDE DEF g
  <2>4. CASE y \in Path(p, x)
    BY <1>2, <1>4, <2>1, <2>3, <2>4
  <2>5. CASE y \notin Path(p, x)
    BY <1>2, <2>1, <2>2, <2>5
  <2>. QED  BY <2>4, <2>5
<1>7. \A y \in Ids : Root(q, y) = g[y]
  <2>. HIDE DEF g
  <2>. QED  BY <1>5, <1>6, RootUnique
<1>8. \A y \in Ids : p[y] = Root(p, y) => q[y] = Root(p, y)
  BY <1>2, <1>4
<1>. QED  BY <1>2, <1>4, <1>5, <1>7, <1>8 DEF r

Linked(p, q, r, s) == q = [p EXCEPT ![r] = s]

\* A root that gets a parent takes its tree along.
LEMMA LinkedRoots ==
    ASSUME NEW p, NEW d, Forest(p, d), NEW r \in Ids, NEW s \in Ids,
           p[r] = r, p[s] = s, r # s,
           NEW q, Linked(p, q, r, s), NEW e, Forest(q, e)
    PROVE  \A y \in Ids : Root(q, y) = IF Root(p, y) = r THEN s ELSE Root(p, y)
<1>. DEFINE g == [y \in Ids |-> IF Root(p, y) = r THEN s ELSE Root(p, y)]
<1>1. p \in [Ids -> Ids]
  BY DEF Forest
<1>2. ASSUME NEW y \in Ids
      PROVE  g[y] = IF q[y] = y THEN y ELSE g[q[y]]
  <2>1. Root(p, y) = IF p[y] = y THEN y ELSE Root(p, p[y])
    BY <1>1, RootEquation
  <2>2. Root(p, r) = r /\ Root(p, s) = s
    BY <1>1, RootEquation
  <2>3. q[y] = IF y = r THEN s ELSE p[y]
    BY <1>1 DEF Linked
  <2>4. p[y] \in Ids
    BY <1>1
  <2>5. /\ g[y] = IF Root(p, y) = r THEN s ELSE Root(p, y)
        /\ g[p[y]] = IF Root(p, p[y]) = r THEN s ELSE Root(p, p[y])
        /\ g[s] = s
    BY <2>2, <2>4
  <2>. HIDE DEF g
  <2>6. CASE y = r
    BY <2>2, <2>3, <2>5, <2>6
  <2>7. CASE y # r
    BY <2>1, <2>3, <2>5, <2>7
  <2>. QED  BY <2>6, <2>7
<1>3. \A y \in Ids : Root(q, y) = g[y]
  <2>. HIDE DEF g
  <2>. QED  BY ONLY <1>2, Forest(q, e), RootUnique
<1>. QED  BY <1>3
-----------------------------------------------------------------------------
(* Components.                                                             *)

Neighbours(A) == {b \in Ids : \E a \in A : <<a, b>> \in near}

Grows(h) == \A n \in Nat : h[n] \cup Neighbours(h[n]) \subseteq h[n + 1]

\* The ids that no growing sequence of sets which starts with c can leave out.
Reachable(c, n) == {b \in Ids : \A h \in [Nat -> SUBSET Ids] : c \in h[0] /\ Grows(h) => b \in h[n]}

ReachIs(c, reach) ==
    reach = [n \in Nat |->
                IF n = 0 THEN {c}
                ELSE reach[n - 1] \cup {b \in Ids : \E a \in reach[n - 1] : <<a, b>> \in near}]

LEMMA ReachableStep ==
    ASSUME NEW c \in Ids
    PROVE  /\ Reachable(c, 0) = {c}
           /\ \A n \in Nat : Reachable(c, n + 1) = Reachable(c, n) \cup Neighbours(Reachable(c, n))
<1>1. Reachable(c, 0) = {c}
  <2>. DEFINE h == [n \in Nat |-> IF n = 0 THEN {c} ELSE Ids]
  <2>1. h \in [Nat -> SUBSET Ids] /\ h[0] = {c} /\ \A n \in Nat : h[n + 1] = Ids
    OBVIOUS
  <2>2. Grows(h)
    <3>1. \A n \in Nat : h[n] \in SUBSET Ids
      BY <2>1
    <3>. HIDE DEF h
    <3>. QED  BY <2>1, <3>1 DEF Grows, Neighbours
  <2>. HIDE DEF h
  <2>. QED  BY <2>1, <2>2 DEF Reachable
<1>2. ASSUME NEW n \in Nat
      PROVE  Reachable(c, n) \cup Neighbours(Reachable(c, n)) \subseteq Reachable(c, n + 1)
  <2>1. ASSUME NEW b \in Reachable(c, n) \cup Neighbours(Reachable(c, n)),
               NEW h \in [Nat -> SUBSET Ids], c \in h[0], Grows(h)
        PROVE  b \in h[n + 1]
    <3>1. Reachable(c, n) \subseteq h[n]
      BY <2>1 DEF Reachable
    <3>2. b \in h[n] \cup Neighbours(h[n])
      BY <3>1 DEF Neighbours
    <3>. QED  BY <2>1, <3>2 DEF Grows
  <2>2. Reachable(c, n) \cup Neighbours(Reachable(c, n)) \subseteq Ids
    BY DEF Reachable, Neighbours
  <2>. DEFINE T == Reachable(c, n) \cup Neighbours(Reachable(c, n))
  <2>3. ASSUME NEW b \in T
        PROVE  b \in Reachable(c, n + 1)
    <3>1. b \in Ids /\ \A h \in [Nat -> SUBSET Ids] : c \in h[0] /\ Grows(h) => b \in h[n + 1]
      BY <2>1, <2>2
    <3>. HIDE DEF T
    <3>. QED  BY <3>1 DEF Reachable
  <2>. QED  BY <2>3
<1>3. ASSUME NEW n \in Nat
      PROVE  Reachable(c, n + 1) \subseteq Reachable(c, n) \cup Neighbours(Reachable(c, n))
  <2>. DEFINE T == Reachable(c, n) \cup Neighbours(Reachable(c, n))
              h == [k \in Nat |-> IF k <= n THEN Reachable(c, k) ELSE IF k = n + 1 THEN T ELSE Ids]
  <2>1. T \in SUBSET Ids /\ \A k \in Nat : Reachable(c, k) \in SUBSET Ids
    BY DEF Reachable, Neighbours
  <2>. HIDE DEF T
  <2>2. /\ h \in [Nat -> SUBSET Ids]
        /\ h[n + 1] = T /\ h[0] = {c}
    BY <1>1, <2>1
  <2>3. ASSUME NEW k \in Nat
        PROVE  h[k] \cup Neighbours(h[k]) \subseteq h[k + 1]
    <3>1. CASE k < n
      <4>1. h[k] = Reachable(c, k) /\ h[k + 1] = Reachable(c, k + 1)
        BY <3>1
      <4>. HIDE DEF h
      <4>. QED  BY <1>2, <4>1
    <3>2. CASE k = n
      <4>1. h[k] = Reachable(c, n) /\ h[k + 1] = T
        BY <3>2
      <4>. HIDE DEF h
      <4>. QED  BY <4>1 DEF T
    <3>3. CASE k > n
      <4>1. h[k + 1] = Ids /\ h[k] \in SUBSET Ids
        BY <2>2, <3>3
      <4>. HIDE DEF h
      <4>. QED  BY <4>1 DEF Neighbours
    <3>. QED  BY <3>1, <3>2, <3>3
  <2>. HIDE DEF h
  <2>4. Grows(h)
    BY <2>3 DEF Grows
  <2>. QED  BY <2>2, <2>4 DEF Reachable, T
<1>. QED  BY <1>1, <1>2, <1>3

LEMMA ComponentIsReachable ==
    ASSUME NEW c \in Ids
    PROVE  Component(c) = Reachable(c, Cardinality(Ids))
<1>. DEFINE f == CHOOSE reach : ReachIs(c, reach)
            g == [n \in Nat |-> Reachable(c, n)]
            N == Cardinality(Ids)
<1>1. ReachIs(c, g)
  <2>1. ASSUME NEW n \in Nat
        PROVE  g[n] = IF n = 0 THEN {c}
                      ELSE g[n - 1] \cup {b \in Ids : \E a \in g[n - 1] : <<a, b>> \in near}
    <3>1. CASE n = 0
      BY <3>1, ReachableStep
    <3>2. CASE n # 0
      <4>1. n - 1 \in Nat /\ (n - 1) + 1 = n
        BY <3>2
      <4>2. g[n] = Reachable(c, n) /\ g[n - 1] = Reachable(c, n - 1)
        BY <4>1
      <4>3. Reachable(c, n) = Reachable(c, n - 1) \cup Neighbours(Reachable(c, n - 1))
        BY <4>1, ReachableStep
      <4>. HIDE DEF g
      <4>. QED  BY <3>2, <4>2, <4>3 DEF Neighbours
    <3>. QED  BY <3>1, <3>2
  <2>2. g = [n \in Nat |-> g[n]]
    OBVIOUS
  <2>. HIDE DEF g
  <2>. QED  BY <2>1, <2>2 DEF ReachIs
<1>2. ReachIs(c, f)
  <2>. HIDE DEF g
  <2>. QED  BY <1>1
<1>3. Component(c) = f[N]
  BY DEF Component, ReachIs
<1>. HIDE DEF f
<1>4. f[0] = {c}
  BY <1>2 DEF ReachIs
<1>5. ASSUME NEW n \in Nat
      PROVE  f[n + 1] = f[n] \cup Neighbours(f[n])
  <2>1. n + 1 \in Nat /\ n + 1 # 0 /\ (n + 1) - 1 = n
    OBVIOUS
  <2>. QED  BY <1>2, <2>1 DEF ReachIs, Neighbours
<1>. DEFINE S == {n \in Nat : f[n] # Reachable(c, n)}
<1>6. S = {}
  <2>1. ASSUME NEW n \in S, \A m \in S : n <= m
        PROVE  FALSE
    <3>1. n \in Nat /\ f[n] # Reachable(c, n)
      OBVIOUS
    <3>2. n # 0
      BY <1>4, <3>1, ReachableStep
    <3>3. n - 1 \in Nat /\ (n - 1) + 1 = n /\ n - 1 \notin S
      BY <2>1, <3>1, <3>2
    <3>4. f[n - 1] = Reachable(c, n - 1)
      BY <3>3
    <3>5. f[(n - 1) + 1] = f[n - 1] \cup Neighbours(f[n - 1])
      BY <1>5, <3>3
    <3>6. Reachable(c, (n - 1) + 1) = Reachable(c, n - 1) \cup Neighbours(Reachable(c, n - 1))
      BY <3>3, ReachableStep
    <3>. QED  BY <3>1, <3>3, <3>4, <3>5, <3>6
  <2>2. S \in SUBSET Nat
    OBVIOUS
  <2>. HIDE DEF S
  <2>. QED  BY <2>1, <2>2, SmallestExists
<1>7. N \in Nat
  BY IdsAreNumbers, FS_CardinalityType
<1>. QED  BY <1>3, <1>6, <1>7

\* A chain of neighbours is no longer than the number of ids.
LEMMA ComponentStops ==
    ASSUME NEW c \in Ids
    PROVE  Neighbours(Component(c)) \subseteq Component(c)
<1>. DEFINE N == Cardinality(Ids)
            K == {n \in Nat : Cardinality(Reachable(c, n)) <= n}
<1>1. N \in Nat
  BY IdsAreNumbers, FS_CardinalityType
<1>2. ASSUME NEW n
      PROVE  /\ IsFiniteSet(Reachable(c, n))
             /\ Cardinality(Reachable(c, n)) \in Nat /\ Cardinality(Reachable(c, n)) <= N
  <2>1. Reachable(c, n) \in SUBSET Ids
    BY DEF Reachable
  <2>. QED  BY <2>1, IdsAreNumbers, FS_Subset, FS_CardinalityType
<1>3. PICK k \in K : \A n \in K : k <= n
  <2>1. N \in K /\ K \in SUBSET Nat
    BY <1>1, <1>2
  <2>. HIDE DEF K
  <2>. QED  BY <2>1, SmallestExists
<1>4. k \in Nat /\ k <= N /\ Cardinality(Reachable(c, k)) <= k
  BY <1>1, <1>2, <1>3
<1>5. k # 0
  <2>1. Cardinality(Reachable(c, 0)) = 1
    BY ReachableStep, FS_Singleton
  <2>. QED  BY <1>4, <2>1
<1>. DEFINE j == k - 1
<1>6. j \in Nat /\ j + 1 = k /\ j <= N
  BY <1>1, <1>4, <1>5
<1>7. Cardinality(Reachable(c, j)) > j
  <2>1. j \notin K
    BY <1>3, <1>4, <1>6
  <2>. QED  BY <1>2, <1>6, <2>1
<1>. HIDE DEF j, K
<1>8. Reachable(c, k) = Reachable(c, j)
  <2>1. Reachable(c, j) \in SUBSET Reachable(c, k)
    BY <1>6, ReachableStep
  <2>2. Cardinality(Reachable(c, j)) <= Cardinality(Reachable(c, k))
    BY <1>2, <2>1, FS_Subset
  <2>3. Cardinality(Reachable(c, k)) = Cardinality(Reachable(c, j))
    BY <1>2, <1>4, <1>6, <1>7, <2>2
  <2>. QED  BY <1>2, <2>1, <2>3, FS_Subset
<1>. DEFINE A == Reachable(c, j)
<1>9. Neighbours(A) \subseteq A
  BY <1>6, <1>8, ReachableStep
<1>. DEFINE S == {n \in Nat : n >= j /\ Reachable(c, n) # A}
<1>10. S = {}
  <2>1. ASSUME NEW n \in S, \A m \in S : n <= m
        PROVE  FALSE
    <3>1. n \in Nat /\ n >= j /\ Reachable(c, n) # A
      OBVIOUS
    <3>2. n # j
      BY <3>1
    <3>3. n - 1 \in Nat /\ (n - 1) + 1 = n /\ n - 1 >= j /\ n - 1 \notin S
      BY <1>6, <2>1, <3>1, <3>2
    <3>4. Reachable(c, n - 1) = A
      BY <3>3
    <3>5. Reachable(c, (n - 1) + 1) = Reachable(c, n - 1) \cup Neighbours(Reachable(c, n - 1))
      BY <3>3, ReachableStep
    <3>. QED  BY <1>9, <3>1, <3>3, <3>4, <3>5
  <2>2. S \in SUBSET Nat
    OBVIOUS
  <2>. HIDE DEF S
  <2>. QED  BY <2>1, <2>2, SmallestExists
<1>11. Reachable(c, N) = A
  BY <1>1, <1>6, <1>10
<1>. QED  BY <1>9, <1>11, ComponentIsReachable

\* The component of c is the smallest set that has c and all neighbours of its ids.
LEMMA ComponentSmallest ==
    ASSUME NEW c \in Ids
    PROVE  /\ c \in Component(c) /\ Component(c) \subseteq Ids
           /\ Neighbours(Component(c)) \subseteq Component(c)
           /\ \A S \in SUBSET Ids : c \in S /\ Neighbours(S) \subseteq S => Component(c) \subseteq S
<1>. DEFINE N == Cardinality(Ids)
<1>1. N \in Nat
  BY IdsAreNumbers, FS_CardinalityType
<1>2. Component(c) = Reachable(c, N) /\ Neighbours(Component(c)) \subseteq Component(c)
  BY ComponentIsReachable, ComponentStops
<1>3. ASSUME NEW S \in SUBSET Ids, c \in S, Neighbours(S) \subseteq S
      PROVE  Component(c) \subseteq S
  <2>. DEFINE h == [n \in Nat |-> S]
  <2>1. h \in [Nat -> SUBSET Ids] /\ \A n \in Nat : h[n] = S
    OBVIOUS
  <2>. HIDE DEF h
  <2>2. c \in h[0] /\ Grows(h) /\ h[N] = S
    BY <1>1, <1>3, <2>1 DEF Grows
  <2>. QED  BY <1>2, <2>1, <2>2 DEF Reachable
<1>4. c \in Reachable(c, N)
  <2>. SUFFICES ASSUME NEW h \in [Nat -> SUBSET Ids], c \in h[0], Grows(h)
                PROVE  c \in h[N]
    BY DEF Reachable
  <2>. DEFINE S == {n \in Nat : c \notin h[n]}
  <2>1. ASSUME NEW n \in S, \A m \in S : n <= m
        PROVE  FALSE
    <3>1. n \in Nat /\ c \notin h[n] /\ n # 0
      OBVIOUS
    <3>2. n - 1 \in Nat /\ (n - 1) + 1 = n /\ n - 1 \notin S
      BY <2>1, <3>1
    <3>3. c \in h[n - 1]
      BY <3>2
    <3>. QED  BY <3>1, <3>2, <3>3 DEF Grows
  <2>2. S \in SUBSET Nat
    OBVIOUS
  <2>3. S = {}
    <3>. HIDE DEF S
    <3>. QED  BY <2>1, <2>2, SmallestExists
  <2>. QED  BY <1>1, <2>3
<1>. QED  BY <1>2, <1>3, <1>4 DEF Reachable
-----------------------------------------------------------------------------
(* The union of two trees.                                                 *)

SameTree(p, y, z) == Root(p, y) = Root(p, z)

\* Nothing but the trees of a and b are now one.
Joins(p, q, a, b) ==
    \A y, z \in Ids :
       SameTree(q, y, z) <=> \/ SameTree(p, y, z)
                             \/ SameTree(p, y, a) /\ SameTree(p, z, b)
                             \/ SameTree(p, y, b) /\ SameTree(p, z, a)

\* _union joins two trees, and ranks still grow towards the roots.
LEMMA UniteJoins ==
    ASSUME Forest(parent, rank), NEW a \in Ids, NEW b \in Ids, Unite(a, b)
    PROVE  Forest(parent', rank') /\ Joins(parent, parent', a, b)
<1>. DEFINE o == Compress(parent, a)
            p == Compress(o, b)
            ra == Root(parent, a)
            rb == Root(parent, b)
<1>1. /\ Forest(o, rank)
      /\ \A y \in Ids : Root(o, y) = Root(parent, y)
      /\ o[a] = ra
      /\ \A y \in Ids : parent[y] = Root(parent, y) => o[y] = Root(parent, y)
  <2>. HIDE DEF ra, rb
  <2>. QED  BY CompressKeepsRoots DEF ra
<1>2. o = Compress(parent, a) /\ p = Compress(o, b)
  OBVIOUS
<1>. HIDE DEF o, p
<1>3. /\ Forest(p, rank)
      /\ \A y \in Ids : Root(p, y) = Root(o, y)
      /\ p[b] = Root(o, b)
      /\ \A y \in Ids : o[y] = Root(o, y) => p[y] = Root(o, y)
  BY ONLY <1>1, <1>2, b \in Ids, CompressKeepsRoots
<1>4. /\ ra \in Ids /\ parent[ra] = ra
      /\ rb \in Ids /\ parent[rb] = rb
  BY RootFound
<1>5. Root(parent, ra) = ra /\ Root(parent, rb) = rb
  BY <1>4, RootEquation DEF Forest
<1>6. \A y \in Ids : Root(p, y) = Root(parent, y)
  BY <1>1, <1>3
<1>. HIDE DEF ra, rb
<1>7. p[a] = ra /\ p[b] = rb /\ p[ra] = ra /\ p[rb] = rb
  BY <1>1, <1>3, <1>4, <1>5 DEF ra, rb
<1>8. /\ p \in [Ids -> Ids] /\ rank \in [Ids -> Nat]
      /\ \A y \in Ids : p[y] # y => rank[y] < rank[p[y]]
  BY <1>3 DEF Forest
<1>9. CASE ra = rb
  <2>1. parent' = p /\ rank' = rank
    BY <1>2, <1>7, <1>9 DEF Unite
  <2>2. Joins(parent, p, a, b)
    BY <1>6, <1>9 DEF Joins, SameTree, ra, rb
  <2>. QED  BY <1>3, <2>1, <2>2
<1>10. ASSUME NEW r \in {ra, rb}, NEW s \in {ra, rb}, r # s,
              NEW q, q = [p EXCEPT ![r] = s], NEW e, Forest(q, e)
       PROVE  Joins(parent, q, a, b)
  <2>1. r \in Ids /\ s \in Ids /\ p[r] = r /\ p[s] = s
    BY <1>4, <1>7
  <2>2. \A y \in Ids : Root(q, y) = IF Root(p, y) = r THEN s ELSE Root(p, y)
    <3>1. Forest(p, rank)
      BY <1>3
    <3>2. Linked(p, q, r, s) /\ Forest(q, e) /\ r # s
      BY <1>10 DEF Linked
    <3>. QED  BY ONLY <2>1, <3>1, <3>2, LinkedRoots
  <2>3. \A y \in Ids : Root(q, y) = IF Root(parent, y) = r THEN s ELSE Root(parent, y)
    BY <1>6, <2>2
  <2>4. (r = ra /\ s = rb) \/ (r = rb /\ s = ra)
    BY <1>10
  <2>5. ASSUME NEW y \in Ids, NEW z \in Ids
        PROVE  SameTree(q, y, z) <=> \/ SameTree(parent, y, z)
                                     \/ SameTree(parent, y, a) /\ SameTree(parent, z, b)
                                     \/ SameTree(parent, y, b) /\ SameTree(parent, z, a)
    BY ONLY <2>3, <2>4, <2>5 DEF SameTree, ra, rb
  <2>. QED  BY <2>5 DEF Joins
<1>11. CASE ra # rb /\ rank[ra] < rank[rb]
  <2>1. parent' = [p EXCEPT ![ra] = rb] /\ rank' = rank
    BY <1>2, <1>4, <1>7, <1>8, <1>11 DEF Unite
  <2>2. Forest(parent', rank')
    BY <1>4, <1>8, <1>11, <2>1 DEF Forest
  <2>. QED  BY <1>10, <1>11, <2>1, <2>2
<1>12. CASE ra # rb /\ rank[ra] >= rank[rb]
  <2>1. /\ parent' = [p EXCEPT ![rb] = ra]
        /\ rank' = [rank EXCEPT ![ra] = IF rank[ra] = rank[rb] THEN rank[ra] + 1 ELSE rank[ra]]
    BY <1>2, <1>4, <1>7, <1>8, <1>12 DEF Unite
  <2>2. /\ parent' \in [Ids -> Ids] /\ rank' \in [Ids -> Nat]
        /\ \A y \in Ids : rank'[y] >= rank[y] /\ (y # ra => rank'[y] = rank[y])
        /\ rank'[ra] > rank[rb]
    BY <1>4, <1>8, <1>12, <2>1
  <2>3. ASSUME NEW y \in Ids, parent'[y] # y
        PROVE  rank'[y] < rank'[parent'[y]]
    <3>1. y # ra
      BY <1>4, <1>7, <1>8, <1>12, <2>1, <2>3
    <3>2. CASE y = rb
      BY <1>4, <1>8, <1>12, <2>1, <2>2, <3>2
    <3>3. CASE y # rb
      <4>1. parent'[y] = p[y] /\ p[y] \in Ids
        BY <1>8, <2>1, <3>3
      <4>2. rank[y] < rank[p[y]] /\ rank'[y] = rank[y] /\ rank'[p[y]] >= rank[p[y]]
        BY <1>8, <2>2, <2>3, <3>1, <4>1
      <4>. QED  BY <1>8, <2>2, <4>1, <4>2
    <3>. QED  BY <3>2, <3>3
  <2>4. Forest(parent', rank')
    BY <2>2, <2>3 DEF Forest
  <2>. QED  BY <1>10, <1>12, <2>1, <2>4
<1>13. rank[ra] < rank[rb] \/ rank[ra] >= rank[rb]
  BY <1>4, <1>8
<1>. QED  BY <1>9, <1>11, <1>12, <1>13
-----------------------------------------------------------------------------
(* The inductive invariant.                                                *)

\* The loops have put the ids of a pair into one tree.
UnitedPairs == \A pair \in near \ todo : SameTree(parent, pair[1], pair[2])

\* A tree does not leave a set which has every neighbour of its ids.
TreesInComponents ==
    \A S \in SUBSET Ids : Neighbours(S) \subseteq S =>
       \A c, d \in Ids : SameTree(parent, c, d) => (c \in S <=> d \in S)

ClusterInv ==
    /\ near \in Relations /\ todo \subseteq near
    /\ Forest(parent, rank)
    /\ UnitedPairs
    /\ TreesInComponents
    /\ label # << >> => todo = {}

LEMMA ClustersInit == ClusterInit => ClusterInv /\ ClustersAreComponents
<1>. SUFFICES ASSUME ClusterInit
              PROVE  ClusterInv /\ ClustersAreComponents
  OBVIOUS
<1>1. Forest(parent, rank)
  BY DEF ClusterInit, Forest
<1>2. \A c \in Ids : Root(parent, c) = c
  BY RootEquation DEF ClusterInit
<1>3. near \subseteq Ids \X Ids
  BY NeighboursAreMutual DEF ClusterInit
<1>4. UnitedPairs
  BY <1>3 DEF UnitedPairs, SameTree, ClusterInit
<1>5. TreesInComponents
  BY <1>2 DEF TreesInComponents, SameTree
<1>. QED  BY <1>1, <1>4, <1>5 DEF ClusterInv, ClusterInit, ClustersAreComponents

LEMMA ResultKept ==
    ASSUME ClustersAreComponents, near' = near, label' = label, head' = head
    PROVE  ClustersAreComponents'
<1>1. \A c : Component(c)' = Component(c)
  BY DEF Component
<1>2. (label' # << >>) = (label # << >>) /\ \A c : label'[c] = label[c] /\ head'[c] = head[c]
  OBVIOUS
<1>3. {label'[c] : c \in Ids} = {label[c] : c \in Ids}
  OBVIOUS
<1>. QED  BY <1>1, <1>2, <1>3 DEF ClustersAreComponents

LEMMA UniteNextKeeps ==
    ASSUME ClusterInv, ClustersAreComponents, NEW a \in Ids, NEW b \in Ids, UniteNext(a, b)
    PROVE  (ClusterInv /\ ClustersAreComponents)'
<1>1. /\ <<a, b>> \in todo /\ todo' = todo \ {<<a, b>>} /\ Unite(a, b)
      /\ near' = near /\ label' = label /\ head' = head
  BY DEF UniteNext
<1>2. /\ near \in Relations /\ todo \subseteq near /\ Forest(parent, rank)
      /\ UnitedPairs /\ TreesInComponents /\ (label # << >> => todo = {})
  BY DEF ClusterInv
<1>3. Forest(parent', rank') /\ Joins(parent, parent', a, b)
  BY <1>1, <1>2, UniteJoins
<1>4. near \subseteq Ids \X Ids /\ <<a, b>> \in near /\ <<b, a>> \in near
  BY <1>1, <1>2, NeighboursAreMutual
<1>5. UnitedPairs'
  <2>1. ASSUME NEW pair \in near, pair \notin todo \/ pair = <<a, b>>
        PROVE  SameTree(parent', pair[1], pair[2])
    <3>1. pair[1] \in Ids /\ pair[2] \in Ids
      BY <1>4
    <3>2. CASE pair = <<a, b>>
      <4>1. SameTree(parent, a, a) /\ SameTree(parent, b, b)
        BY DEF SameTree
      <4>2. SameTree(parent', a, b)
        BY <1>3, <4>1 DEF Joins
      <4>. QED  BY <3>2, <4>2
    <3>3. CASE pair \notin todo
      <4>1. SameTree(parent, pair[1], pair[2])
        BY <1>2, <3>3 DEF UnitedPairs
      <4>. QED  BY <1>3, <3>1, <4>1 DEF Joins
    <3>. QED  BY <2>1, <3>2, <3>3
  <2>. QED  BY <1>1, <2>1 DEF UnitedPairs, SameTree
<1>6. TreesInComponents'
  <2>1. ASSUME NEW S \in SUBSET Ids, Neighbours(S) \subseteq S,
               NEW c \in Ids, NEW d \in Ids, SameTree(parent', c, d)
        PROVE  c \in S <=> d \in S
    <3>1. a \in S <=> b \in S
      BY <1>4, <2>1 DEF Neighbours
    <3>2. \A y, z \in Ids : SameTree(parent, y, z) => (y \in S <=> z \in S)
      BY <1>2, <2>1 DEF TreesInComponents
    <3>3. \/ SameTree(parent, c, d)
          \/ SameTree(parent, c, a) /\ SameTree(parent, d, b)
          \/ SameTree(parent, c, b) /\ SameTree(parent, d, a)
      BY <1>3, <2>1 DEF Joins
    <3>. QED  BY <3>1, <3>2, <3>3
  <2>2. \A S : Neighbours(S)' = Neighbours(S)
    BY <1>1 DEF Neighbours
  <2>. QED  BY <2>1, <2>2 DEF TreesInComponents, SameTree
<1>7. ClusterInv'
  BY <1>1, <1>2, <1>3, <1>5, <1>6 DEF ClusterInv, Forest
<1>8. ClustersAreComponents'
  BY <1>1, ResultKept
<1>. QED  BY <1>7, <1>8
-----------------------------------------------------------------------------
(* Labels.                                                                 *)

Position(F, g) == Cardinality({f \in F : f < g})

LEMMA CardinalityOfPositions ==
    ASSUME NEW n \in Nat
    PROVE  IsFiniteSet(0..(n - 1)) /\ Cardinality(0..(n - 1)) = n
<1>. DEFINE m == n - 1
<1>1. 0 \in Int /\ m \in Int /\ m >= -1 /\ n = m + 1
  OBVIOUS
<1>. HIDE DEF m
<1>2. IsFiniteSet(0..m) /\ Cardinality(0..m) = IF 0 > m THEN 0 ELSE m - 0 + 1
  BY ONLY <1>1, FS_Interval, Zenon
<1>3. Cardinality(0..m) = n
  BY <1>1, <1>2
<1>. QED  BY <1>2, <1>3 DEF m

\* The positions of n numbers are 0 to n - 1.
LEMMA Positions ==
    ASSUME NEW F \in SUBSET Nat, IsFiniteSet(F)
    PROVE  /\ Cardinality(F) \in Nat
           /\ \A g \in F : Position(F, g) \in 0..(Cardinality(F) - 1)
           /\ \A g, h \in F : Position(F, g) = Position(F, h) => g = h
           /\ \A n \in 0..(Cardinality(F) - 1) : \E g \in F : Position(F, g) = n
<1>. DEFINE Below(g) == {f \in F : f < g}
            T == 0..(Cardinality(F) - 1)
            pos == [g \in F |-> Position(F, g)]
<1>1. Cardinality(F) \in Nat
  BY FS_CardinalityType
<1>2. ASSUME NEW A \in SUBSET F, NEW B \in SUBSET A, A # B
      PROVE  /\ Cardinality(A) \in Nat /\ Cardinality(B) \in Nat
             /\ Cardinality(B) < Cardinality(A)
  <2>1. IsFiniteSet(A) /\ IsFiniteSet(B)
    BY FS_Subset
  <2>2. Cardinality(A) \in Nat /\ Cardinality(B) \in Nat
    BY <2>1, FS_CardinalityType
  <2>3. Cardinality(B) <= Cardinality(A) /\ Cardinality(A) # Cardinality(B)
    BY <1>2, <2>1, FS_Subset
  <2>. QED  BY <2>2, <2>3
<1>3. ASSUME NEW g \in F
      PROVE  Position(F, g) \in T
  <2>1. Below(g) \in SUBSET F /\ g \notin Below(g)
    OBVIOUS
  <2>. HIDE DEF Below
  <2>2. /\ Cardinality(Below(g)) \in Nat
        /\ Cardinality(Below(g)) < Cardinality(F)
    BY <1>2, <2>1
  <2>3. Position(F, g) = Cardinality(Below(g))
    BY DEF Position, Below
  <2>. QED  BY <1>1, <2>2, <2>3
<1>4. ASSUME NEW g \in F, NEW h \in F, g < h
      PROVE  Position(F, g) # Position(F, h)
  <2>1. Below(h) \in SUBSET F /\ Below(g) \in SUBSET Below(h)
    <3>1. ASSUME NEW f \in F, f < g
          PROVE  f < h
      <4>1. f \in Nat /\ g \in Nat /\ h \in Nat
        OBVIOUS
      <4>. QED  BY ONLY <1>4, <3>1, <4>1
    <3>. QED  BY <3>1
  <2>2. g \in Below(h) /\ g \notin Below(g)
    BY <1>4
  <2>. HIDE DEF Below
  <2>3. Below(g) # Below(h)
    BY <2>2
  <2>4. /\ Cardinality(Below(h)) \in Nat /\ Cardinality(Below(g)) \in Nat
        /\ Cardinality(Below(g)) < Cardinality(Below(h))
    BY <1>2, <2>1, <2>3
  <2>5. Position(F, g) = Cardinality(Below(g)) /\ Position(F, h) = Cardinality(Below(h))
    BY DEF Position, Below
  <2>. QED  BY <2>4, <2>5
<1>5. \A g, h \in F : Position(F, g) = Position(F, h) => g = h
  BY <1>4
<1>6. pos \in Injection(F, T)
  BY <1>3, <1>5 DEF Injection, IsInjective
<1>7. IsFiniteSet(T) /\ Cardinality(T) = Cardinality(F)
  BY <1>1, CardinalityOfPositions
<1>8. pos \in Surjection(F, T)
  <2>. HIDE DEF pos, T
  <2>. QED  BY <1>6, <1>7, FS_Injection
<1>9. \A n \in T : \E g \in F : Position(F, g) = n
  BY <1>8 DEF Surjection
<1>. QED  BY <1>1, <1>3, <1>5, <1>9

\* The first id of a tree is its smallest one.
LEMMA FirstOfTree ==
    ASSUME NEW c \in Ids
    PROVE  /\ FirstOf(c) \in Firsts /\ SameTree(parent, FirstOf(c), c)
           /\ \A d \in Ids : SameTree(parent, d, c) => FirstOf(c) <= d
<1>. DEFINE tree == {d \in Ids : SameTree(parent, d, c)}
<1>1. c \in tree /\ tree \in SUBSET Nat
  BY IdsAreNumbers DEF SameTree
<1>2. PICK f \in tree : \A d \in tree : f <= d
  <2>. HIDE DEF tree
  <2>. QED  BY <1>1, SmallestExists
<1>3. f \in Firsts /\ Root(parent, f) = Root(parent, c)
  BY <1>2, IdsAreNumbers DEF Firsts, SameTree
<1>4. FirstOf(c) \in Firsts /\ Root(parent, FirstOf(c)) = Root(parent, c)
  BY <1>3 DEF FirstOf
<1>5. \A d \in Ids : SameTree(parent, d, c) => FirstOf(c) <= d
  <2>1. FirstOf(c) \in Ids /\ \A d \in Ids : d < FirstOf(c) => ~SameTree(parent, d, c)
    BY <1>4 DEF Firsts, SameTree
  <2>2. ASSUME NEW d \in Ids, SameTree(parent, d, c)
        PROVE  FirstOf(c) <= d
    <3>1. d \in Nat /\ FirstOf(c) \in Nat /\ ~(d < FirstOf(c))
      BY <2>1, <2>2, IdsAreNumbers
    <3>. QED  BY <3>1
  <2>. QED  BY <2>2
<1>. QED  BY <1>4, <1>5 DEF SameTree

\* The trees are the components once every pair is united.
LEMMA TreesAreComponents ==
    ASSUME ClusterInv, todo = {}, NEW c \in Ids, NEW d \in Ids
    PROVE  SameTree(parent, c, d) <=> d \in Component(c)
<1>1. near \in Relations /\ near \subseteq Ids \X Ids /\ UnitedPairs /\ TreesInComponents
  BY NeighboursAreMutual DEF ClusterInv
<1>2. /\ c \in Component(c) /\ Component(c) \in SUBSET Ids
      /\ Neighbours(Component(c)) \subseteq Component(c)
      /\ \A S \in SUBSET Ids : c \in S /\ Neighbours(S) \subseteq S => Component(c) \subseteq S
  BY ComponentSmallest
<1>3. ASSUME SameTree(parent, c, d)
      PROVE  d \in Component(c)
  BY <1>1, <1>2, <1>3 DEF TreesInComponents
<1>4. ASSUME d \in Component(c)
      PROVE  SameTree(parent, c, d)
  <2>. DEFINE tree == {y \in Ids : SameTree(parent, c, y)}
  <2>1. ASSUME NEW y \in tree, NEW z \in Ids, <<y, z>> \in near
        PROVE  z \in tree
    <3>1. SameTree(parent, y, z)
      <4>1. <<y, z>> \in near \ todo
        BY <2>1
      <4>. QED  BY <1>1, <4>1 DEF UnitedPairs
    <3>. QED  BY <2>1, <3>1 DEF SameTree
  <2>2. Neighbours(tree) \subseteq tree /\ tree \in SUBSET Ids
    BY <2>1 DEF Neighbours
  <2>3. c \in tree
    BY DEF SameTree
  <2>. QED  BY <1>2, <1>4, <2>2, <2>3
<1>. QED  BY <1>3, <1>4

\* Two ids have the same first id exactly if they are in one tree.
LEMMA FirstOfSame ==
    ASSUME NEW c \in Ids, NEW d \in Ids
    PROVE  FirstOf(c) = FirstOf(d) <=> SameTree(parent, c, d)
<1>1. SameTree(parent, FirstOf(c), c) /\ SameTree(parent, FirstOf(d), d)
  BY FirstOfTree
<1>2. ASSUME SameTree(parent, c, d)
      PROVE  FirstOf(c) = FirstOf(d)
  BY <1>2 DEF FirstOf, SameTree
<1>. QED  BY <1>1, <1>2 DEF SameTree

LEMMA AssignKeeps ==
    ASSUME ClusterInv, Assign
    PROVE  (ClusterInv /\ ClustersAreComponents)'
<1>. DEFINE n == Cardinality(Firsts)
<1>1. /\ todo = {} /\ todo' = todo /\ near' = near /\ parent' = parent /\ rank' = rank
      /\ \A c \in Ids : label'[c] = Position(Firsts, FirstOf(c))
      /\ \A c \in Ids : head'[c] = (FirstOf(c) = c)
  BY DEF Assign, Position
<1>2. ClusterInv'
  BY <1>1 DEF ClusterInv, Forest, UnitedPairs, TreesInComponents, SameTree, Neighbours
<1>3. Firsts \in SUBSET Ids /\ Firsts \in SUBSET Nat /\ IsFiniteSet(Firsts)
  <2>1. Firsts \in SUBSET Ids
    BY DEF Firsts
  <2>. QED  BY <2>1, IdsAreNumbers, FS_Subset
<1>4. /\ n \in Nat
      /\ \A g \in Firsts : Position(Firsts, g) \in 0..(n - 1)
      /\ \A g, h \in Firsts : Position(Firsts, g) = Position(Firsts, h) => g = h
      /\ \A k \in 0..(n - 1) : \E g \in Firsts : Position(Firsts, g) = k
  BY <1>3, Positions
<1>5. ASSUME NEW c \in Ids, NEW d \in Ids
      PROVE  label'[c] = label'[d] <=> d \in Component(c)
  <2>1. FirstOf(c) \in Firsts /\ FirstOf(d) \in Firsts
    BY FirstOfTree
  <2>2. label'[c] = label'[d] <=> FirstOf(c) = FirstOf(d)
    BY <1>1, <1>4, <2>1
  <2>. QED  BY <1>1, <2>2, FirstOfSame, TreesAreComponents
<1>6. {label'[c] : c \in Ids} = 0..(n - 1)
  <2>1. ASSUME NEW c \in Ids
        PROVE  label'[c] \in 0..(n - 1)
    BY <1>1, <1>4, FirstOfTree
  <2>2. ASSUME NEW k \in 0..(n - 1)
        PROVE  \E c \in Ids : label'[c] = k
    <3>1. PICK g \in Firsts : Position(Firsts, g) = k
      BY <1>4
    <3>2. g \in Ids
      BY <1>3
    <3>3. FirstOf(g) = g
      <4>1. FirstOf(g) \in Firsts /\ Root(parent, FirstOf(g)) = Root(parent, g)
        BY <3>2, FirstOfTree DEF SameTree
      <4>2. ~(g < FirstOf(g)) /\ ~(FirstOf(g) < g)
        BY <3>2, <4>1 DEF Firsts
      <4>3. g \in Nat /\ FirstOf(g) \in Nat
        BY <1>3, <4>1
      <4>. QED  BY <4>2, <4>3
    <3>. QED  BY <1>1, <3>1, <3>2, <3>3
  <2>. QED  BY <2>1, <2>2
<1>7. Cardinality(0..(n - 1)) = n
  BY <1>4, CardinalityOfPositions
<1>8. ASSUME NEW c \in Ids
      PROVE  head'[c] <=> \A d \in Component(c) : c <= d
  <2>1. /\ FirstOf(c) \in Firsts /\ SameTree(parent, FirstOf(c), c)
        /\ \A d \in Ids : SameTree(parent, d, c) => FirstOf(c) <= d
    BY FirstOfTree
  <2>2. /\ SameTree(parent, c, FirstOf(c))
        /\ \A d \in Ids : d \in Component(c) => SameTree(parent, d, c)
    BY <1>1, <2>1, TreesAreComponents DEF SameTree
  <2>3. FirstOf(c) \in Ids /\ FirstOf(c) \in Nat /\ c \in Nat
    BY <1>3, <2>1, IdsAreNumbers
  <2>4. FirstOf(c) <= c
    BY <2>1 DEF SameTree
  <2>5. FirstOf(c) \in Component(c) /\ Component(c) \subseteq Ids
    BY <1>1, <2>2, <2>3, TreesAreComponents, ComponentSmallest
  <2>6. ASSUME \A d \in Component(c) : c <= d
        PROVE  FirstOf(c) = c
    <3>1. c <= FirstOf(c)
      BY <2>5, <2>6
    <3>. QED  BY <2>3, <2>4, <3>1
  <2>7. ASSUME FirstOf(c) = c, NEW d \in Component(c)
        PROVE  c <= d
    BY <2>1, <2>2, <2>5, <2>7
  <2>. QED  BY <1>1, <2>6, <2>7
<1>9. \A c : Component(c)' = Component(c)
  BY <1>1 DEF Component
<1>. HIDE DEF n
<1>10. ClustersAreComponents'
  BY <1>5, <1>6, <1>7, <1>8, <1>9 DEF ClustersAreComponents
<1>. QED  BY <1>2, <1>10

\* In every state of the clustering: when the pairs are united in any order, two
\* ids have one cluster exactly if a chain of neighbours joins them, the labels
\* have no gap, and the head of a cluster is its smallest id (_cluster_rows).
THEOREM Clusters == ClusterSpec => []ClustersAreComponents
<1>1. ClusterInit => ClusterInv /\ ClustersAreComponents
  BY ClustersInit
<1>2. ClusterInv /\ ClustersAreComponents /\ [ClusterNext]_clusterVars
      => (ClusterInv /\ ClustersAreComponents)'
  <2>. SUFFICES ASSUME ClusterInv, ClustersAreComponents, [ClusterNext]_clusterVars
                PROVE  (ClusterInv /\ ClustersAreComponents)'
    OBVIOUS
  <2>1. ASSUME NEW a \in Ids, NEW b \in Ids, UniteNext(a, b)
        PROVE  (ClusterInv /\ ClustersAreComponents)'
    BY <2>1, UniteNextKeeps
  <2>2. CASE Assign
    BY <2>2, AssignKeeps
  <2>3. CASE UNCHANGED clusterVars
    <3>1. /\ near' = near /\ todo' = todo /\ parent' = parent /\ rank' = rank
          /\ label' = label /\ head' = head
      BY <2>3 DEF clusterVars
    <3>2. ClusterInv'
      BY <3>1 DEF ClusterInv, Forest, UnitedPairs, TreesInComponents, SameTree, Neighbours
    <3>3. ClustersAreComponents'
      BY <3>1, ResultKept
    <3>. QED  BY <3>2, <3>3
  <2>. QED  BY <2>1, <2>2, <2>3 DEF ClusterNext
<1>. QED  BY <1>1, <1>2, PTL DEF ClusterSpec
=============================================================================
