---------------------- MODULE DatasetMaterialize_proofs ----------------------
(***************************************************************************)
(* Theorems about DatasetMaterialize, for any number of recipes, requests, *)
(* rows, backfills and runs.                                               *)
(***************************************************************************)
EXTENDS DatasetMaterialize, FiniteSetTheorems, TLAPS

Owning == {"partition", "launch", "tombstone", "record"}

\* Not type correctness alone: a key is a pair of a recipe and a number because
\* a request that reaches the Dagster calls names a recipe.
TypeInv ==
    /\ TypeOK
    /\ \A p \in Requests : request[p].pc # "idle" => request[p].recipe \in Recipes

LEMMA CountIsNat ==
    ASSUME NEW r
    PROVE  /\ IsFiniteSet(Rows(r))
           /\ Cardinality(Rows(r)) \in Nat
<1>1. Rows(r) \subseteq DatasetIds
  BY DEF Rows
<1>2. IsFiniteSet(Rows(r))
  BY <1>1, IdsAreFinite, FS_Subset
<1>. QED  BY <1>2, FS_CardinalityType

LEMMA InitTypeInv == Init => TypeInv
BY DEF Init, TypeInv, TypeOK, AbsentRow, IdleRequest, IdleRun, Row, Request, Run,
       Statuses, PcValues, Objects, Artifacts, Keys

\* What TypeInv says of the request variable alone.
RequestsTyped ==
    /\ request \in [Requests -> Request]
    /\ \A p \in Requests : request[p].pc # "idle" => request[p].recipe \in Recipes

\* The fields a step gives a request or a row are of their types.
LEMMA RequestFields ==
    ASSUME NEW x \in Request, NEW pc \in PcValues
    PROVE  /\ [x EXCEPT !.pc = pc] \in Request
           /\ \A c \in SUBSET DatasetIds : [x EXCEPT !.pc = pc, !.cleared = c] \in Request
           /\ \A n \in Nat : [x EXCEPT !.pc = pc, !.version = n] \in Request
           /\ \A i \in DatasetIds : [x EXCEPT !.pc = pc, !.row = i] \in Request
           /\ \A b \in BackfillIds : [x EXCEPT !.pc = pc, !.run = b] \in Request
BY DEF Request

LEMMA RowFields ==
    ASSUME NEW x \in Row
    PROVE  /\ [x EXCEPT !.status = "failed"] \in Row
           /\ \A b \in BackfillIds \cup {Null} : [x EXCEPT !.run = b] \in Row
           /\ \A y \in Outputs \cup {Null} :
                 [x EXCEPT !.status = "done", !.stats = y] \in Row
BY DEF Row, Statuses

\* A step that gives one request a well-typed state with a recipe.
LEMMA StepTyped ==
    ASSUME RequestsTyped, NEW p \in Requests, NEW x \in Request,
           x.recipe \in Recipes, request' = [request EXCEPT ![p] = x]
    PROVE  RequestsTyped'
BY DEF RequestsTyped

LEMMA GotoTyped ==
    ASSUME RequestsTyped, NEW p \in Requests, request[p].pc # "idle",
           NEW pc \in PcValues, Goto(p, pc)
    PROVE  RequestsTyped'
BY DEF RequestsTyped, Request, Goto

LEMMA EndTyped ==
    ASSUME RequestsTyped, NEW p \in Requests, EndRequest(p)
    PROVE  RequestsTyped'
BY DEF RequestsTyped, Request, EndRequest, IdleRequest, PcValues

LEMMA NextTypeInv ==
    ASSUME TypeInv, [Next]_vars
    PROVE  TypeInv'
<1>0. RequestsTyped
  BY DEF TypeInv, TypeOK, RequestsTyped
<1>. SUFFICES RequestsTyped' /\ TypeOK'
  BY DEF TypeInv, RequestsTyped
<1>. USE DEF TypeInv, TypeOK
<1>1. CASE UNCHANGED vars
  BY <1>0, <1>1 DEF vars, RequestsTyped
<1>2. ASSUME NEW r \in Recipes, CreateRecipe(r)
      PROVE  RequestsTyped' /\ TypeOK'
  BY <1>0, <1>2 DEF CreateRecipe, dagsterVars, RequestsTyped
<1>3. ASSUME NEW p \in Requests, NEW r \in Recipes, UpdateLoad(p, r)
      PROVE  RequestsTyped' /\ TypeOK'
  <2>1. RequestsTyped'
    BY <1>0, <1>3 DEF UpdateLoad, RequestsTyped, Request, IdleRequest, PcValues
  <2>. QED  BY <1>3, <2>1 DEF UpdateLoad, dagsterVars, RequestsTyped
<1>4. ASSUME NEW p \in Requests, NEW r \in Recipes, MaterializeLoad(p, r)
      PROVE  RequestsTyped' /\ TypeOK'
  <2>1. RequestsTyped'
    BY <1>0, <1>4 DEF MaterializeLoad, RequestsTyped, Request, IdleRequest, PcValues
  <2>. QED  BY <1>4, <2>1 DEF MaterializeLoad, dagsterVars, RequestsTyped
<1>5. ASSUME NEW p \in Requests,
             \/ UpdateRejected(p)
             \/ UpdateCommit(p)
             \/ MaterializeConflict(p)
             \/ RequestDies(p)
      PROVE  RequestsTyped' /\ TypeOK'
  <2>1. RequestsTyped'
    BY <1>0, <1>5, EndTyped
    DEF UpdateRejected, UpdateCommit, MaterializeConflict, RequestDies
  <2>2. definition' \in [Recipes -> Definitions \cup {Null}]
    BY <1>5 DEF UpdateRejected, UpdateCommit, MaterializeConflict, RequestDies
  <2>. QED
    BY <1>5, <2>1, <2>2
    DEF UpdateRejected, UpdateCommit, MaterializeConflict, RequestDies, dagsterVars,
        RequestsTyped
<1>6. ASSUME NEW p \in Requests, UpdateCleared(p)
      PROVE  RequestsTyped' /\ TypeOK'
  <2>1. RequestsTyped'
    <3>1. Rows(request[p].recipe) \in SUBSET DatasetIds
      BY DEF Rows
    <3>. DEFINE x == [request[p] EXCEPT !.pc = "edit", !.cleared = Rows(request[p].recipe)]
    <3>2. x \in Request
      BY <3>1, RequestFields DEF PcValues
    <3>3. x.recipe \in Recipes
      BY <1>6 DEF UpdateCleared, Request
    <3>4. request' = [request EXCEPT ![p] = x]
      BY <1>6 DEF UpdateCleared
    <3>. HIDE DEF x
    <3>. QED  BY <1>0, <3>2, <3>3, <3>4, StepTyped
  <2>. QED  BY <1>6, <2>1 DEF UpdateCleared, dagsterVars, RequestsTyped
<1>7. ASSUME NEW p \in Requests, MaterializeCount(p)
      PROVE  RequestsTyped' /\ TypeOK'
  <2>1. RequestsTyped'
    <3>1. Cardinality(Rows(request[p].recipe)) + 1 \in Nat
      BY CountIsNat
    <3>. DEFINE x == [request[p] EXCEPT !.pc = "insert",
                            !.version = Cardinality(Rows(request[p].recipe)) + 1]
    <3>2. x \in Request
      BY <3>1, RequestFields DEF PcValues
    <3>3. x.recipe \in Recipes
      BY <1>7 DEF MaterializeCount, Request
    <3>4. request' = [request EXCEPT ![p] = x]
      BY <1>7 DEF MaterializeCount
    <3>. HIDE DEF x
    <3>. QED  BY <1>0, <3>2, <3>3, <3>4, StepTyped
  <2>. QED  BY <1>7, <2>1 DEF MaterializeCount, dagsterVars, RequestsTyped
<1>8. ASSUME NEW p \in Requests, MaterializeInsert(p)
      PROVE  RequestsTyped' /\ TypeOK'
  <2>1. RequestsTyped'
    <3>1. PICK i \in DatasetIds :
             request' = [request EXCEPT ![p] = [@ EXCEPT !.pc = "partition", !.row = i]]
      BY <1>8 DEF MaterializeInsert
    <3>. DEFINE x == [request[p] EXCEPT !.pc = "partition", !.row = i]
    <3>2. x \in Request
      BY RequestFields DEF PcValues
    <3>3. x.recipe \in Recipes
      BY <1>8 DEF MaterializeInsert, Request
    <3>4. request' = [request EXCEPT ![p] = x]
      BY <3>1
    <3>. HIDE DEF x
    <3>. QED  BY <1>0, <3>2, <3>3, <3>4, StepTyped
  <2>2. dataset' \in [DatasetIds -> Row]
    BY <1>8 DEF MaterializeInsert, Row, Statuses, Request
  <2>. QED  BY <1>8, <2>1, <2>2 DEF MaterializeInsert, dagsterVars, RequestsTyped
<1>9. ASSUME NEW p \in Requests, request[p].pc # "idle"
      PROVE  RequestKey(p) \in Keys
  BY <1>9 DEF RequestKey, Keys, Request
<1>10. ASSUME NEW p \in Requests, MaterializePartition(p)
       PROVE  RequestsTyped' /\ TypeOK'
  <2>1. PICK o \in CallOutcomes :
           /\ registered' = AddDatasetPartition(registered, RequestKey(p), o)
           /\ Goto(p, IF Raises(o) THEN "tombstone" ELSE "launch")
    BY <1>10 DEF MaterializePartition
  <2>2. request[p].pc # "idle"
    BY <1>10 DEF MaterializePartition
  <2>3. RequestsTyped'
    <3>1. (IF Raises(o) THEN "tombstone" ELSE "launch") \in PcValues
      BY DEF PcValues
    <3>. QED  BY <1>0, <2>1, <2>2, <3>1, GotoTyped
  <2>4. registered' \in SUBSET Keys
    BY <1>9, <2>1, <2>2 DEF AddDatasetPartition
  <2>. QED  BY <1>10, <2>3, <2>4 DEF MaterializePartition, RequestsTyped
<1>11. ASSUME NEW p \in Requests, MaterializeLaunch(p)
       PROVE  RequestsTyped' /\ TypeOK'
  <2>1. PICK o \in LaunchOutcomes(registered, RequestKey(p)),
             b \in {x \in BackfillIds : backfills[x] = Null} :
           /\ backfills' = LaunchDatasetBackfill(backfills, b, RequestKey(p), o)
           /\ request' = IF Raises(o)
                         THEN [request EXCEPT ![p].pc = "tombstone"]
                         ELSE [request EXCEPT ![p] =
                                  [@ EXCEPT !.pc = "record", !.run = b]]
    BY <1>11 DEF MaterializeLaunch
  <2>2. request[p].pc # "idle"
    BY <1>11 DEF MaterializeLaunch
  <2>3. RequestsTyped'
    <3>1. CASE Raises(o)
      <4>1. Goto(p, "tombstone")
        BY <2>1, <3>1 DEF Goto
      <4>. QED  BY <1>0, <2>2, <4>1, GotoTyped DEF PcValues
    <3>2. CASE ~Raises(o)
      <4>. DEFINE x == [request[p] EXCEPT !.pc = "record", !.run = b]
      <4>1. x \in Request
        BY RequestFields DEF PcValues
      <4>2. x.recipe \in Recipes
        BY <2>2 DEF Request
      <4>3. request' = [request EXCEPT ![p] = x]
        BY <2>1, <3>2
      <4>. HIDE DEF x
      <4>. QED  BY <1>0, <4>1, <4>2, <4>3, StepTyped
    <3>. QED  BY <3>1, <3>2
  <2>4. backfills' \in [BackfillIds -> Keys \cup {Null}]
    BY <1>9, <2>1, <2>2 DEF LaunchDatasetBackfill
  <2>. QED  BY <1>11, <2>3, <2>4 DEF MaterializeLaunch, RequestsTyped
<1>12. ASSUME NEW p \in Requests, MaterializeTombstone(p) \/ MaterializeRecord(p)
       PROVE  RequestsTyped' /\ TypeOK'
  <2>1. RequestsTyped'
    BY <1>0, <1>12, EndTyped DEF MaterializeTombstone, MaterializeRecord
  <2>2. dataset' \in [DatasetIds -> Row]
    <3>1. CASE MaterializeTombstone(p)
      <4>1. \A i \in DatasetIds : [dataset[i] EXCEPT !.status = "failed"] \in Row
        BY RowFields
      <4>. QED  BY <3>1, <4>1 DEF MaterializeTombstone
    <3>2. CASE MaterializeRecord(p)
      <4>1. request[p].run \in BackfillIds \cup {Null}
        BY DEF Request
      <4>2. \A i \in DatasetIds : [dataset[i] EXCEPT !.run = request[p].run] \in Row
        BY <4>1, RowFields
      <4>. QED  BY <3>2, <4>2 DEF MaterializeRecord
    <3>. QED  BY <1>12, <3>1, <3>2
  <2>. QED
    BY <1>12, <2>1, <2>2
    DEF MaterializeTombstone, MaterializeRecord, dagsterVars, RequestsTyped
<1>13. ASSUME NEW w \in Workers, NEW b \in BackfillIds, RunStart(w, b)
       PROVE  RequestsTyped' /\ TypeOK'
  <2>1. run' \in [Workers -> Run]
    BY <1>13 DEF RunStart, Run, Train, Row
  <2>2. orderly' \in [DatasetIds -> BOOLEAN]
    BY <1>13 DEF RunStart
  <2>3. attempts' \in [BackfillIds -> Nat]
    BY <1>13 DEF RunStart
  <2>. QED  BY <1>0, <1>13, <2>1, <2>2, <2>3 DEF RunStart, RequestsTyped
<1>14. ASSUME NEW w \in Workers, RunPut(w)
       PROVE  RequestsTyped' /\ TypeOK'
  <2>1. PICK i \in DatasetIds, k \in Artifacts : i = run[w].row /\ k = run[w].next
    BY <1>14 DEF RunPut, Run
  <2>2. Body(k, run[w].snapshot, run[w].output) \in Objects
    BY DEF Body, Objects, Run
  <2>3. store' \in [DatasetIds -> [Artifacts -> Objects]]
    BY <1>14, <2>1, <2>2 DEF RunPut
  <2>4. run' \in [Workers -> Run]
    <3>1. k + 1 \in 1..6
      BY DEF Artifacts
    <3>. QED  BY <1>14, <2>1, <3>1 DEF RunPut, Run
  <2>. QED  BY <1>0, <1>14, <2>3, <2>4 DEF RunPut, apiVars, RequestsTyped
<1>15. ASSUME NEW w \in Workers, RunFinish(w) \/ RunFails(w)
       PROVE  RequestsTyped' /\ TypeOK'
  <2>1. run' \in [Workers -> Run]
    BY <1>15 DEF RunFinish, RunFails, Run, IdleRun
  <2>2. dataset' \in [DatasetIds -> Row]
    <3>1. CASE RunFails(w)
      BY <3>1 DEF RunFails
    <3>2. CASE RunFinish(w)
      <4>1. run[w].row \in DatasetIds /\ run[w].output \in Outputs \cup {Null}
        BY <3>2 DEF RunFinish, Run
      <4>2. [dataset[run[w].row] EXCEPT !.status = "done", !.stats = run[w].output] \in Row
        BY <4>1, RowFields
      <4>. QED  BY <3>2, <4>1, <4>2 DEF RunFinish, Publish
    <3>. QED  BY <1>15, <3>1, <3>2
  <2>. QED
    BY <1>0, <1>15, <2>1, <2>2 DEF RunFinish, RunFails, apiVars, RequestsTyped
<1>. QED
  BY <1>1, <1>2, <1>3, <1>4, <1>5, <1>6, <1>7, <1>8, <1>10, <1>11, <1>12, <1>13,
     <1>14, <1>15
  DEF Next, RequestNext, RunNext

\* Every table, request, backfill, run and object is of its type.
THEOREM TypeCorrect == Spec => []TypeOK
<1>1. Init => TypeInv
  BY InitTypeInv
<1>2. TypeInv /\ [Next]_vars => TypeInv'
  BY NextTypeInv
<1>3. TypeInv => TypeOK
  BY DEF TypeInv
<1>. QED  BY <1>1, <1>2, <1>3, PTL DEF Spec
-----------------------------------------------------------------------------
(* The identity of rows and their launches.                                *)

\* A request that committed a row owns it until it is answered: the row is not
\* a tombstone, has no backfill id yet and carries the request's key.
OwnersHaveRows ==
    \A p \in Requests : request[p].pc \in Owning =>
       /\ request[p].row \in DatasetIds
       /\ dataset[request[p].row].status \in {"pending", "done"}
       /\ dataset[request[p].row].run = Null
       /\ RowKey(request[p].row) = RequestKey(p)

OwnersAreDistinct ==
    \A p, q \in Requests :
       /\ request[p].pc \in Owning
       /\ request[q].pc \in Owning
       /\ request[p].row = request[q].row
       => p = q

\* The count a request has read may be old, but it was never too high.
CountIsNoLead ==
    \A p \in Requests : request[p].pc = "insert" =>
       request[p].version \in 1 .. (Cardinality(Rows(request[p].recipe)) + 1)

NotYetLaunched ==
    \A p \in Requests : request[p].pc \in {"partition", "launch"} =>
       \A b \in BackfillIds : backfills[b] # RequestKey(p)

RecordsItsBackfill ==
    \A p \in Requests : request[p].pc = "record" =>
       request[p].run \in BackfillIds /\ backfills[request[p].run] = RequestKey(p)

RequestInv ==
    /\ OwnersHaveRows
    /\ OwnersAreDistinct
    /\ CountIsNoLead
    /\ NotYetLaunched
    /\ RecordsItsBackfill
    /\ ClearedRowsStayFailed

RowsHaveRecipes == \A i \in DatasetIds : Exists(i) => dataset[i].recipe \in Recipes

TableInv ==
    /\ RowsHaveRecipes
    /\ VersionsAreDense
    /\ LaunchedRowsExist
    /\ OneBackfillPerVersion
    /\ AcceptedIsNeverTombstoned

LaunchInv == TypeInv /\ RequestInv /\ TableInv

LEMMA InitLaunchInv == Init => RequestInv /\ TableInv
<1>. SUFFICES ASSUME Init  PROVE RequestInv /\ TableInv
  OBVIOUS
<1>1. \A r : Rows(r) = {}
  BY DEF Init, Rows, Exists, AbsentRow
<1>2. RequestInv
  BY DEF Init, IdleRequest, Owning, RequestInv, OwnersHaveRows, OwnersAreDistinct,
         CountIsNoLead, NotYetLaunched, RecordsItsBackfill, ClearedRowsStayFailed
<1>3. TableInv
  BY <1>1
  DEF Init, AbsentRow, TableInv, RowsHaveRecipes, VersionsAreDense, LaunchedRowsExist,
      OneBackfillPerVersion, AcceptedIsNeverTombstoned, Exists
<1>. QED  BY <1>2, <1>3

\* The three columns that make up a row's identity are written by INSERT only.
IdentityUnchanged ==
    \A i \in DatasetIds :
       /\ (dataset'[i].status = "absent") <=> (dataset[i].status = "absent")
       /\ dataset'[i].recipe = dataset[i].recipe
       /\ dataset'[i].version = dataset[i].version

LEMMA IdentityKept ==
    ASSUME IdentityUnchanged
    PROVE  /\ \A r : Rows(r)' = Rows(r)
           /\ \A i \in DatasetIds : RowKey(i)' = RowKey(i) /\ (Exists(i)' <=> Exists(i))
BY DEF IdentityUnchanged, Rows, Exists, RowKey

\* Steps that leave both tables alone.
LEMMA TableUnchanged ==
    ASSUME TableInv, dataset' = dataset, backfills' = backfills
    PROVE  TableInv'
BY DEF TableInv, RowsHaveRecipes, VersionsAreDense, LaunchedRowsExist,
       OneBackfillPerVersion, AcceptedIsNeverTombstoned, Rows, Exists, RowKey

LEMMA RequestsUnchanged ==
    ASSUME RequestInv, request' = request, dataset' = dataset, backfills' = backfills
    PROVE  RequestInv'
BY DEF RequestInv, OwnersHaveRows, OwnersAreDistinct, CountIsNoLead, NotYetLaunched,
       RecordsItsBackfill, ClearedRowsStayFailed, Rows, Exists, RowKey, RequestKey

\* Steps of a request that owns no row afterwards and leave both tables alone.
LEMMA RequestStep ==
    ASSUME TypeInv, RequestInv, NEW p \in Requests, NEW x \in Request,
           request' = [request EXCEPT ![p] = x],
           dataset' = dataset, backfills' = backfills,
           x.pc \notin Owning,
           x.pc = "insert" => x.version \in 1 .. (Cardinality(Rows(x.recipe)) + 1),
           x.pc = "edit" => \A i \in x.cleared : dataset[i].status = "failed"
    PROVE  RequestInv'
<1>1. request \in [Requests -> Request]
  BY DEF TypeInv, TypeOK
<1>2. \A q \in Requests : request'[q] = IF q = p THEN x ELSE request[q]
  BY <1>1
<1>3. \A r : Rows(r)' = Rows(r)
  BY DEF Rows, Exists
<1>4. OwnersHaveRows'
  BY <1>2 DEF RequestInv, OwnersHaveRows, RowKey, RequestKey
<1>5. OwnersAreDistinct'
  BY <1>2 DEF RequestInv, OwnersAreDistinct
<1>6. CountIsNoLead'
  BY <1>2, <1>3 DEF RequestInv, CountIsNoLead
<1>7. NotYetLaunched'
  BY <1>2 DEF RequestInv, NotYetLaunched, RequestKey, Owning
<1>8. RecordsItsBackfill'
  BY <1>2 DEF RequestInv, RecordsItsBackfill, RequestKey, Owning
<1>9. ClearedRowsStayFailed'
  BY <1>2 DEF RequestInv, ClearedRowsStayFailed
<1>. QED  BY <1>4, <1>5, <1>6, <1>7, <1>8, <1>9 DEF RequestInv

\* ... in particular when a request ends.
LEMMA RequestEnds ==
    ASSUME TypeInv, RequestInv, NEW p \in Requests, EndRequest(p),
           dataset' = dataset, backfills' = backfills
    PROVE  RequestInv'
<1>1. IdleRequest \in Request
  BY DEF IdleRequest, Request, PcValues
<1>2. IdleRequest.pc \notin Owning /\ IdleRequest.pc # "insert" /\ IdleRequest.pc # "edit"
  BY DEF IdleRequest, Owning
<1>. QED  BY <1>1, <1>2, RequestStep DEF EndRequest

\* INSERT takes a version nobody has: no row, no request and no backfill.
LEMMA InsertKeeps ==
    ASSUME LaunchInv, NEW p \in Requests, MaterializeInsert(p)
    PROVE  RequestInv' /\ TableInv'
<1>0. PICK r, n : r = request[p].recipe /\ n = request[p].version
  OBVIOUS
<1>1. PICK i \in DatasetIds :
         /\ ~Exists(i)
         /\ dataset' = [dataset EXCEPT ![i] =
                           [status |-> "pending", recipe |-> r, version |-> n,
                            snapshot |-> request[p].definition,
                            run |-> Null, stats |-> Null]]
         /\ request' = [request EXCEPT ![p] =
                           [@ EXCEPT !.pc = "partition", !.row = i]]
  BY <1>0 DEF MaterializeInsert
<1>2. /\ request[p].pc = "insert"
      /\ ~VersionTaken(r, n)
      /\ backfills' = backfills
  BY <1>0 DEF MaterializeInsert, dagsterVars
<1>3. /\ r \in Recipes
      /\ n \in 1 .. (Cardinality(Rows(r)) + 1)
  BY <1>0, <1>2 DEF LaunchInv, TypeInv, RequestInv, CountIsNoLead
<1>4. /\ dataset \in [DatasetIds -> Row]
      /\ request \in [Requests -> Request]
      /\ \A q \in Requests : request[q].pc \in PcValues
  BY DEF LaunchInv, TypeInv, TypeOK, Request
<1>5. /\ dataset'[i].status = "pending" /\ dataset'[i].recipe = r
      /\ dataset'[i].version = n /\ dataset'[i].run = Null
      /\ \A j \in DatasetIds : j # i => dataset'[j] = dataset[j]
  BY <1>1, <1>4
<1>6. /\ request'[p].pc = "partition" /\ request'[p].row = i
      /\ request'[p].recipe = r /\ request'[p].version = n
      /\ \A q \in Requests : q # p => request'[q] = request[q]
  BY <1>0, <1>1, <1>4 DEF Request
<1>7. /\ Rows(r)' = Rows(r) \cup {i}
      /\ i \notin Rows(r)
      /\ \A q : q # r => Rows(q)' = Rows(q)
  BY <1>1, <1>5 DEF Rows, Exists
<1>8. \A q : /\ Cardinality(Rows(q)) \in Nat
             /\ Cardinality(Rows(q)') \in Nat
             /\ Cardinality(Rows(q)') >= Cardinality(Rows(q))
  <2>1. IsFiniteSet(Rows(r)) /\ \A q : Cardinality(Rows(q)) \in Nat
    BY CountIsNat
  <2>2. Cardinality(Rows(r)') = Cardinality(Rows(r)) + 1
    BY <2>1, <1>7, FS_AddElement
  <2>. SUFFICES ASSUME NEW q
                PROVE  /\ Cardinality(Rows(q)) \in Nat
                       /\ Cardinality(Rows(q)') \in Nat
                       /\ Cardinality(Rows(q)') >= Cardinality(Rows(q))
    OBVIOUS
  <2>3. Cardinality(Rows(q)) \in Nat
    BY <2>1
  <2>4. CASE q = r
    BY <2>2, <2>3, <2>4
  <2>5. CASE q # r
    <3>1. Rows(q)' = Rows(q)
      BY <1>7, <2>5
    <3>. QED  BY <2>3, <3>1
  <2>. QED  BY <2>4, <2>5
<1>9. Cardinality(Rows(r)') = Cardinality(Rows(r)) + 1
  BY CountIsNat, <1>7, FS_AddElement
<1>10. \A j \in DatasetIds : Exists(j) =>
         /\ j # i
         /\ Exists(j)'
         /\ RowKey(j)' = RowKey(j)
         /\ RowKey(j) # <<r, n>>
  BY <1>1, <1>2, <1>5 DEF Exists, RowKey, VersionTaken, Rows
<1>11. Exists(i)' /\ RowKey(i)' = <<r, n>>
  BY <1>5 DEF Exists, RowKey
<1>12. \A q \in Requests : request[q].pc \in Owning =>
          /\ q # p
          /\ request[q].row \in DatasetIds /\ Exists(request[q].row)
          /\ request[q].row # i
  BY <1>1, <1>2 DEF LaunchInv, RequestInv, OwnersHaveRows, Exists, Owning
<1>13. \A b \in BackfillIds : backfills[b] # <<r, n>>
  <2>1. <<r, n>> # Null
    BY <1>3, CountIsNat, NullIsNoValue
  <2>. SUFFICES ASSUME NEW b \in BackfillIds, backfills[b] = <<r, n>>  PROVE FALSE
    OBVIOUS
  <2>. QED  BY <1>10, <2>1 DEF LaunchInv, TableInv, LaunchedRowsExist
<1>14. OwnersHaveRows'
  BY <1>5, <1>6, <1>12 DEF LaunchInv, RequestInv, OwnersHaveRows, RowKey, RequestKey
<1>15. OwnersAreDistinct'
  BY <1>6, <1>12 DEF LaunchInv, RequestInv, OwnersAreDistinct
<1>16. CountIsNoLead'
  BY <1>6, <1>8 DEF LaunchInv, RequestInv, CountIsNoLead
<1>17. NotYetLaunched'
  BY <1>2, <1>6, <1>13 DEF LaunchInv, RequestInv, NotYetLaunched, RequestKey
<1>18. RecordsItsBackfill'
  BY <1>2, <1>6 DEF LaunchInv, RequestInv, RecordsItsBackfill, RequestKey
<1>19. ClearedRowsStayFailed'
  BY <1>1, <1>5, <1>6, <1>4
  DEF LaunchInv, RequestInv, ClearedRowsStayFailed, Exists, Request
<1>20. VersionsAreDense'
  <2>. SUFFICES ASSUME NEW q \in Recipes
                PROVE  /\ \A j, k \in Rows(q)' :
                            dataset'[j].version = dataset'[k].version => j = k
                       /\ \A j \in Rows(q)' :
                            dataset'[j].version \in 1 .. Cardinality(Rows(q)')
    BY DEF VersionsAreDense
  <2>1. /\ \A j, k \in Rows(q) : dataset[j].version = dataset[k].version => j = k
        /\ \A j \in Rows(q) : dataset[j].version \in 1 .. Cardinality(Rows(q))
    BY DEF LaunchInv, TableInv, VersionsAreDense
  <2>2. \A j \in Rows(q) : j \in DatasetIds /\ j # i
    BY <1>1 DEF Rows
  <2>3. CASE q # r
    BY <2>1, <2>2, <2>3, <1>5, <1>7
  <2>4. CASE q = r
    <3>1. \A j \in Rows(r) : dataset[j].version # n
      BY <1>2 DEF VersionTaken
    <3>. QED  BY <2>1, <2>2, <2>4, <3>1, <1>3, <1>5, <1>7, <1>8, <1>9
  <2>. QED  BY <2>3, <2>4
<1>21. LaunchedRowsExist'
  BY <1>2, <1>10 DEF LaunchInv, TableInv, LaunchedRowsExist
<1>22. OneBackfillPerVersion'
  BY <1>2 DEF LaunchInv, TableInv, OneBackfillPerVersion
<1>23. AcceptedIsNeverTombstoned'
  BY <1>2, <1>5 DEF LaunchInv, TableInv, AcceptedIsNeverTombstoned, RowKey
<1>24. RowsHaveRecipes'
  BY <1>3, <1>5 DEF LaunchInv, TableInv, RowsHaveRecipes, Exists
<1>. QED
  BY <1>14, <1>15, <1>16, <1>17, <1>18, <1>19, <1>20, <1>21, <1>22, <1>23, <1>24
  DEF RequestInv, TableInv

\* A request that stays the owner of its row and leaves both tables alone: it
\* goes on to the launch, or an error sends it to the tombstone.
LEMMA OwnerStep ==
    ASSUME TypeInv, RequestInv, NEW p \in Requests,
           NEW pc \in {"launch", "tombstone"}, Goto(p, pc),
           request[p].pc \in {"partition", "launch"},
           dataset' = dataset, backfills' = backfills
    PROVE  RequestInv'
<1>1. /\ request'[p] = [request[p] EXCEPT !.pc = pc]
      /\ \A q \in Requests : q # p => request'[q] = request[q]
      /\ request[p] \in Request
  BY DEF TypeInv, TypeOK, Goto
<1>2. /\ request'[p].pc = pc
      /\ \A q \in Requests : /\ request'[q].row = request[q].row
                             /\ request'[q].run = request[q].run
                             /\ RequestKey(q)' = RequestKey(q)
  BY <1>1 DEF Request, RequestKey
<1>3. /\ \A r : Rows(r)' = Rows(r)
      /\ \A j : RowKey(j)' = RowKey(j)
  BY DEF Rows, Exists, RowKey
<1>4. OwnersHaveRows'
  BY <1>1, <1>2, <1>3 DEF RequestInv, OwnersHaveRows, Owning
<1>5. OwnersAreDistinct'
  BY <1>1, <1>2 DEF RequestInv, OwnersAreDistinct, Owning
<1>6. CountIsNoLead'
  BY <1>1, <1>2, <1>3 DEF RequestInv, CountIsNoLead
<1>7. NotYetLaunched'
  BY <1>1, <1>2 DEF RequestInv, NotYetLaunched
<1>8. RecordsItsBackfill'
  BY <1>1, <1>2 DEF RequestInv, RecordsItsBackfill
<1>9. ClearedRowsStayFailed'
  BY <1>1, <1>2 DEF RequestInv, ClearedRowsStayFailed
<1>. QED  BY <1>4, <1>5, <1>6, <1>7, <1>8, <1>9 DEF RequestInv

\* A launch is executed once per version: the request that owns the row is the
\* only one with its key, and it leaves "launch" whatever it is answered.
LEMMA LaunchKeeps ==
    ASSUME LaunchInv, NEW p \in Requests, MaterializeLaunch(p)
    PROVE  RequestInv' /\ TableInv'
<1>1. PICK o \in LaunchOutcomes(registered, RequestKey(p)), b \in BackfillIds :
         /\ backfills[b] = Null
         /\ backfills' = LaunchDatasetBackfill(backfills, b, RequestKey(p), o)
         /\ request' = IF Raises(o)
                       THEN [request EXCEPT ![p].pc = "tombstone"]
                       ELSE [request EXCEPT ![p] =
                                [@ EXCEPT !.pc = "record", !.run = b]]
  BY DEF MaterializeLaunch
<1>2. request[p].pc = "launch" /\ dataset' = dataset
  BY DEF MaterializeLaunch
<1>3. /\ request \in [Requests -> Request]
      /\ backfills \in [BackfillIds -> Keys \cup {Null}]
      /\ RequestKey(p) \in Keys
  BY <1>2 DEF LaunchInv, TypeInv, TypeOK, RequestKey, Keys, Request
<1>4. RequestKey(p) # Null
  BY <1>3, NullIsNoValue DEF Keys
<1>5. PICK i \in DatasetIds : i = request[p].row /\ Exists(i) /\ RowKey(i) = RequestKey(p)
  BY <1>2 DEF LaunchInv, RequestInv, OwnersHaveRows, Owning, Exists
<1>6. /\ request'[p].pc \in {"tombstone", "record"}
      /\ request'[p].pc = "record" => request'[p].run = b /\ ~Raises(o)
      /\ \A q \in Requests : q # p => request'[q] = request[q]
      /\ \A q \in Requests : request'[q].row = request[q].row /\ RequestKey(q)' = RequestKey(q)
  <2>1. \A q \in Requests : q # p => request'[q] = request[q]
    BY <1>1, <1>3
  <2>2. CASE Raises(o)
    <3>1. request'[p] = [request[p] EXCEPT !.pc = "tombstone"]
      BY <1>1, <1>3, <2>2
    <3>2. /\ request'[p].pc = "tombstone" /\ request'[p].row = request[p].row
          /\ RequestKey(p)' = RequestKey(p)
      BY <1>3, <3>1 DEF Request, RequestKey
    <3>3. \A q \in Requests : q # p => RequestKey(q)' = RequestKey(q)
      BY <2>1 DEF RequestKey
    <3>. QED  BY <2>1, <3>2, <3>3
  <2>3. CASE ~Raises(o)
    <3>1. request'[p] = [request[p] EXCEPT !.pc = "record", !.run = b]
      BY <1>1, <1>3, <2>3
    <3>2. /\ request'[p].pc = "record" /\ request'[p].run = b
          /\ request'[p].row = request[p].row /\ RequestKey(p)' = RequestKey(p)
      BY <1>3, <3>1 DEF Request, RequestKey
    <3>3. \A q \in Requests : q # p => RequestKey(q)' = RequestKey(q)
      BY <2>1 DEF RequestKey
    <3>. QED  BY <2>1, <2>3, <3>2, <3>3
  <2>. QED  BY <2>2, <2>3
<1>7. \A c \in BackfillIds : \/ backfills'[c] = backfills[c]
                             \/ c = b /\ backfills'[c] = RequestKey(p)
  BY <1>1, <1>3 DEF LaunchDatasetBackfill
<1>8. ~Raises(o) => backfills'[b] = RequestKey(p)
  BY <1>1, <1>3 DEF LaunchDatasetBackfill, Raises, Executed
<1>9. \A c \in BackfillIds : backfills[c] # RequestKey(p)
  BY <1>2 DEF LaunchInv, RequestInv, NotYetLaunched
<1>10. \A q \in Requests : q # p /\ request[q].pc \in Owning => RequestKey(q) # RequestKey(p)
  <2>. SUFFICES ASSUME NEW q \in Requests, q # p, request[q].pc \in Owning,
                       RequestKey(q) = RequestKey(p)
                PROVE  FALSE
    OBVIOUS
  <2>1. PICK j \in DatasetIds : j = request[q].row /\ Exists(j) /\ RowKey(j) = RequestKey(q)
    BY DEF LaunchInv, RequestInv, OwnersHaveRows, Exists
  <2>2. dataset[i].recipe \in Recipes
    BY <1>2, <1>5 DEF LaunchInv, TypeInv, RowKey, RequestKey
  <2>3. i = j
    BY <1>5, <2>1, <2>2 DEF LaunchInv, TableInv, VersionsAreDense, Rows, RowKey
  <2>. QED  BY <1>2, <1>5, <2>1, <2>3 DEF LaunchInv, RequestInv, OwnersAreDistinct, Owning
<1>11. /\ \A r : Rows(r)' = Rows(r)
       /\ \A j : RowKey(j)' = RowKey(j) /\ (Exists(j)' <=> Exists(j))
  BY <1>2 DEF Rows, Exists, RowKey
<1>12. OwnersHaveRows'
  BY <1>2, <1>6, <1>11 DEF LaunchInv, RequestInv, OwnersHaveRows, Owning
<1>13. OwnersAreDistinct'
  BY <1>2, <1>6 DEF LaunchInv, RequestInv, OwnersAreDistinct, Owning
<1>14. CountIsNoLead'
  BY <1>6, <1>11 DEF LaunchInv, RequestInv, CountIsNoLead
<1>15. NotYetLaunched'
  BY <1>6, <1>7, <1>10 DEF LaunchInv, RequestInv, NotYetLaunched, Owning
<1>16. RecordsItsBackfill'
  <2>1. \A q \in Requests : q # p /\ request[q].pc = "record" =>
           request[q].run \in BackfillIds /\ backfills'[request[q].run] = RequestKey(q)
    <3>1. \A q \in Requests : request[q].pc = "record" =>
             request[q].run \in BackfillIds /\ backfills[request[q].run] = RequestKey(q)
      BY DEF LaunchInv, RequestInv, RecordsItsBackfill
    <3>2. \A q \in Requests : request[q].pc # "idle" => RequestKey(q) # Null
      BY <1>3, NullIsNoValue DEF LaunchInv, TypeInv, RequestKey, Request
    <3>. QED  BY <1>1, <1>7, <3>1, <3>2
  <2>. QED  BY <1>6, <1>8, <2>1 DEF RecordsItsBackfill
<1>17. ClearedRowsStayFailed'
  BY <1>2, <1>6 DEF LaunchInv, RequestInv, ClearedRowsStayFailed
<1>18. VersionsAreDense'
  BY <1>2, <1>11 DEF LaunchInv, TableInv, VersionsAreDense
<1>19. LaunchedRowsExist'
  BY <1>5, <1>7, <1>11 DEF LaunchInv, TableInv, LaunchedRowsExist
<1>20. OneBackfillPerVersion'
  BY <1>7, <1>9 DEF LaunchInv, TableInv, OneBackfillPerVersion
<1>21. AcceptedIsNeverTombstoned'
  <2>1. \A j \in DatasetIds : dataset[j].run # Null =>
           /\ dataset[j].run \in BackfillIds
           /\ Exists(j)
           /\ RowKey(j) # Null
           /\ backfills[dataset[j].run] = RowKey(j)
    <3>1. \A j \in DatasetIds : dataset[j].run \in BackfillIds \cup {Null}
      BY DEF LaunchInv, TypeInv, TypeOK, Row
    <3>2. ASSUME NEW j \in DatasetIds, dataset[j].run # Null
          PROVE  backfills[dataset[j].run] = RowKey(j) /\ Exists(j)
      BY <3>2 DEF LaunchInv, TableInv, AcceptedIsNeverTombstoned, Exists
    <3>3. \A j \in DatasetIds : Exists(j) => RowKey(j) # Null
      BY NullIsNoValue DEF LaunchInv, TypeInv, TypeOK, Row, TableInv, RowsHaveRecipes, RowKey
    <3>. QED  BY <3>1, <3>2, <3>3
  <2>. QED  BY <1>1, <1>2, <1>7, <1>11, <2>1 DEF LaunchInv, TableInv, AcceptedIsNeverTombstoned
<1>22. RowsHaveRecipes'
  BY <1>2, <1>11 DEF LaunchInv, TableInv, RowsHaveRecipes
<1>. QED
  BY <1>12, <1>13, <1>14, <1>15, <1>16, <1>17, <1>18, <1>19, <1>20, <1>21, <1>22
  DEF RequestInv, TableInv

\* What the owner of a row writes to it when it is answered.
LEMMA OwnerEnds ==
    ASSUME LaunchInv, NEW p \in Requests, MaterializeTombstone(p) \/ MaterializeRecord(p)
    PROVE  RequestInv' /\ TableInv'
<1>1. /\ request[p].pc \in {"tombstone", "record"}
      /\ request' = [request EXCEPT ![p] = IdleRequest]
      /\ backfills' = backfills
  BY DEF MaterializeTombstone, MaterializeRecord, EndRequest, dagsterVars
<1>2. /\ request \in [Requests -> Request]
      /\ dataset \in [DatasetIds -> Row]
  BY DEF LaunchInv, TypeInv, TypeOK
<1>3. PICK i \in DatasetIds : /\ i = request[p].row
                              /\ dataset[i].status \in {"pending", "done"}
                              /\ dataset[i].run = Null
                              /\ RowKey(i) = RequestKey(p)
  BY <1>1 DEF LaunchInv, RequestInv, OwnersHaveRows, Owning
<1>4. /\ \A j \in DatasetIds : j # i => dataset'[j] = dataset[j]
      /\ dataset'[i].recipe = dataset[i].recipe
      /\ dataset'[i].version = dataset[i].version
      /\ \/ /\ request[p].pc = "tombstone"
            /\ dataset'[i].status = "failed"
            /\ dataset'[i].run = Null
         \/ /\ request[p].pc = "record"
            /\ dataset'[i].status = dataset[i].status
            /\ dataset'[i].run = request[p].run
  <2>1. dataset[i] \in Row
    BY <1>2
  <2>2. CASE MaterializeTombstone(p)
    <3>1. dataset' = [dataset EXCEPT ![i] = [dataset[i] EXCEPT !.status = "failed"]]
      BY <1>3, <2>2 DEF MaterializeTombstone
    <3>. QED  BY <1>2, <1>3, <2>1, <2>2, <3>1 DEF MaterializeTombstone, Row
  <2>3. CASE MaterializeRecord(p)
    <3>1. dataset' = [dataset EXCEPT ![i] = [dataset[i] EXCEPT !.run = request[p].run]]
      BY <1>3, <2>3 DEF MaterializeRecord
    <3>. QED  BY <1>2, <1>3, <2>1, <2>3, <3>1 DEF MaterializeRecord, Row
  <2>. QED  BY <2>2, <2>3
<1>5. IdentityUnchanged
  BY <1>3, <1>4 DEF IdentityUnchanged
<1>6. /\ \A r : Rows(r)' = Rows(r)
      /\ \A j \in DatasetIds : RowKey(j)' = RowKey(j) /\ (Exists(j)' <=> Exists(j))
  BY <1>5, IdentityKept
<1>7. /\ request'[p].pc = "idle"
      /\ \A q \in Requests : q # p => request'[q] = request[q]
  BY <1>1, <1>2 DEF IdleRequest
<1>8. \A q \in Requests : q # p /\ request[q].pc \in Owning => request[q].row # i
  BY <1>1, <1>3 DEF LaunchInv, RequestInv, OwnersAreDistinct, Owning
<1>9. OwnersHaveRows'
  BY <1>4, <1>6, <1>7, <1>8 DEF LaunchInv, RequestInv, OwnersHaveRows, RequestKey, Owning
<1>10. OwnersAreDistinct'
  BY <1>7 DEF LaunchInv, RequestInv, OwnersAreDistinct, Owning
<1>11. CountIsNoLead'
  BY <1>6, <1>7 DEF LaunchInv, RequestInv, CountIsNoLead
<1>12. NotYetLaunched'
  BY <1>1, <1>7 DEF LaunchInv, RequestInv, NotYetLaunched, RequestKey
<1>13. RecordsItsBackfill'
  BY <1>1, <1>7 DEF LaunchInv, RequestInv, RecordsItsBackfill, RequestKey
<1>14. ClearedRowsStayFailed'
  BY <1>2, <1>3, <1>4, <1>7 DEF LaunchInv, RequestInv, ClearedRowsStayFailed, Request
<1>15. RowsHaveRecipes'
  BY <1>4, <1>6 DEF LaunchInv, TableInv, RowsHaveRecipes
<1>16. VersionsAreDense'
  <2>1. \A j \in DatasetIds : dataset'[j].version = dataset[j].version
    BY <1>4
  <2>2. \A r : Rows(r) \subseteq DatasetIds
    BY DEF Rows
  <2>. QED  BY <1>6, <2>1, <2>2 DEF LaunchInv, TableInv, VersionsAreDense
<1>17. LaunchedRowsExist'
  BY <1>1, <1>6 DEF LaunchInv, TableInv, LaunchedRowsExist
<1>18. OneBackfillPerVersion'
  BY <1>1 DEF LaunchInv, TableInv, OneBackfillPerVersion
<1>19. AcceptedIsNeverTombstoned'
  <2>1. request[p].pc = "record" => backfills[request[p].run] = RowKey(i)
    BY <1>3 DEF LaunchInv, RequestInv, RecordsItsBackfill
  <2>. QED
    BY <1>1, <1>3, <1>4, <1>6, <2>1 DEF LaunchInv, TableInv, AcceptedIsNeverTombstoned
<1>. QED
  BY <1>9, <1>10, <1>11, <1>12, <1>13, <1>14, <1>15, <1>16, <1>17, <1>18, <1>19
  DEF RequestInv, TableInv

\* update_dataset_row turns 'pending' into 'done' and changes no other status.
LEMMA PublishKeeps ==
    ASSUME LaunchInv, NEW w \in Workers, RunFinish(w)
    PROVE  RequestInv' /\ TableInv'
<1>1. request' = request /\ backfills' = backfills
  BY DEF RunFinish, apiVars
<1>2. dataset \in [DatasetIds -> Row]
  BY DEF LaunchInv, TypeInv, TypeOK
<1>3. PICK i \in DatasetIds : i = run[w].row
  BY DEF RunFinish, LaunchInv, TypeInv, TypeOK, Run
<1>4. \A j \in DatasetIds :
         /\ dataset'[j].recipe = dataset[j].recipe
         /\ dataset'[j].version = dataset[j].version
         /\ dataset'[j].run = dataset[j].run
         /\ \/ dataset'[j].status = dataset[j].status
            \/ dataset[j].status = "pending" /\ dataset'[j].status = "done"
  <2>1. dataset[i] \in Row
    BY <1>2
  <2>2. \/ dataset' = dataset
        \/ /\ dataset[i].status = "pending"
           /\ dataset' = [dataset EXCEPT ![i] =
                  [dataset[i] EXCEPT !.status = "done", !.stats = run[w].output]]
    BY <1>3 DEF RunFinish, Publish
  <2>3. CASE dataset' = dataset
    BY <2>3
  <2>4. CASE dataset' # dataset
    <3>. DEFINE x == [dataset[i] EXCEPT !.status = "done", !.stats = run[w].output]
    <3>1. /\ x.recipe = dataset[i].recipe /\ x.version = dataset[i].version
          /\ x.run = dataset[i].run /\ x.status = "done"
      BY <2>1 DEF Row
    <3>2. dataset[i].status = "pending" /\ dataset' = [dataset EXCEPT ![i] = x]
      BY <2>2, <2>4
    <3>. HIDE DEF x
    <3>3. \A j \in DatasetIds : dataset'[j] = IF j = i THEN x ELSE dataset[j]
      BY <1>2, <3>2
    <3>. QED  BY <3>1, <3>2, <3>3
  <2>. QED  BY <2>3, <2>4
<1>5. IdentityUnchanged
  BY <1>4 DEF IdentityUnchanged
<1>6. /\ \A r : Rows(r)' = Rows(r)
      /\ \A j \in DatasetIds : RowKey(j)' = RowKey(j) /\ (Exists(j)' <=> Exists(j))
  BY <1>5, IdentityKept
<1>7. OwnersHaveRows'
  BY <1>1, <1>4, <1>6 DEF LaunchInv, RequestInv, OwnersHaveRows, RequestKey
<1>8. OwnersAreDistinct'
  BY <1>1 DEF LaunchInv, RequestInv, OwnersAreDistinct
<1>9. CountIsNoLead'
  BY <1>1, <1>6 DEF LaunchInv, RequestInv, CountIsNoLead
<1>10. NotYetLaunched' /\ RecordsItsBackfill'
  BY <1>1 DEF LaunchInv, RequestInv, NotYetLaunched, RecordsItsBackfill, RequestKey
<1>11. ClearedRowsStayFailed'
  BY <1>1, <1>4 DEF LaunchInv, TypeInv, TypeOK, RequestInv, ClearedRowsStayFailed, Request
<1>12. RowsHaveRecipes'
  BY <1>4, <1>6 DEF LaunchInv, TableInv, RowsHaveRecipes
<1>13. VersionsAreDense'
  <2>1. \A r : Rows(r) \subseteq DatasetIds
    BY DEF Rows
  <2>. QED  BY <1>4, <1>6, <2>1 DEF LaunchInv, TableInv, VersionsAreDense
<1>14. LaunchedRowsExist' /\ OneBackfillPerVersion'
  BY <1>1, <1>6 DEF LaunchInv, TableInv, LaunchedRowsExist, OneBackfillPerVersion
<1>15. AcceptedIsNeverTombstoned'
  BY <1>1, <1>4, <1>6 DEF LaunchInv, TableInv, AcceptedIsNeverTombstoned
<1>. QED
  BY <1>7, <1>8, <1>9, <1>10, <1>11, <1>12, <1>13, <1>14, <1>15 DEF RequestInv, TableInv

\* A request that has just loaded its recipe.
LEMMA LoadedFields ==
    ASSUME NEW r \in Recipes, NEW d \in Definitions \cup {Null}, NEW x,
           \/ x = [IdleRequest EXCEPT !.pc = "check", !.recipe = r]
           \/ x = [IdleRequest EXCEPT !.pc = "count", !.recipe = r, !.definition = d]
    PROVE  x \in Request /\ x.pc \in {"check", "count"}
<1>1. CASE x = [IdleRequest EXCEPT !.pc = "check", !.recipe = r]
  BY <1>1 DEF IdleRequest, Request, PcValues
<1>2. CASE x = [IdleRequest EXCEPT !.pc = "count", !.recipe = r, !.definition = d]
  BY <1>2 DEF IdleRequest, Request, PcValues
<1>. QED  BY <1>1, <1>2

LEMMA NextLaunchInv ==
    ASSUME LaunchInv, [Next]_vars
    PROVE  LaunchInv'
<1>1. TypeInv'
  BY NextTypeInv DEF LaunchInv
<1>2. TypeInv /\ RequestInv /\ TableInv
  BY DEF LaunchInv
<1>. SUFFICES RequestInv' /\ TableInv'
  BY <1>1 DEF LaunchInv
<1>3. CASE UNCHANGED vars
  BY <1>2, <1>3, TableUnchanged, RequestsUnchanged DEF vars
<1>4. ASSUME NEW r \in Recipes, CreateRecipe(r)
      PROVE  RequestInv' /\ TableInv'
  BY <1>2, <1>4, TableUnchanged, RequestsUnchanged DEF CreateRecipe, dagsterVars
<1>5. ASSUME NEW p \in Requests, NEW r \in Recipes, UpdateLoad(p, r) \/ MaterializeLoad(p, r)
      PROVE  RequestInv' /\ TableInv'
  <2>1. PICK x \in {[IdleRequest EXCEPT !.pc = "check", !.recipe = r],
                    [IdleRequest EXCEPT !.pc = "count", !.recipe = r,
                                        !.definition = definition[r]]} :
           request' = [request EXCEPT ![p] = x]
    BY <1>5 DEF UpdateLoad, MaterializeLoad
  <2>2. x.pc \in {"check", "count"} /\ x \in Request
    <3>1. definition[r] \in Definitions \cup {Null}
      BY DEF LaunchInv, TypeInv, TypeOK
    <3>. QED  BY <2>1, <3>1, LoadedFields
  <2>3. dataset' = dataset /\ backfills' = backfills
    BY <1>5 DEF UpdateLoad, MaterializeLoad, dagsterVars
  <2>. QED  BY <1>2, <2>1, <2>2, <2>3, RequestStep, TableUnchanged DEF Owning
<1>6. ASSUME NEW p \in Requests,
             \/ UpdateRejected(p)
             \/ UpdateCommit(p)
             \/ MaterializeConflict(p)
             \/ RequestDies(p)
      PROVE  RequestInv' /\ TableInv'
  <2>1. EndRequest(p) /\ dataset' = dataset /\ backfills' = backfills
    BY <1>6 DEF UpdateRejected, UpdateCommit, MaterializeConflict, RequestDies, dagsterVars
  <2>. QED  BY <1>2, <2>1, RequestEnds, TableUnchanged
<1>7. ASSUME NEW p \in Requests, UpdateCleared(p)
      PROVE  RequestInv' /\ TableInv'
  <2>. DEFINE x == [request[p] EXCEPT !.pc = "edit", !.cleared = Rows(request[p].recipe)]
  <2>1. request[p] \in Request /\ Rows(request[p].recipe) \in SUBSET DatasetIds
    BY DEF LaunchInv, TypeInv, TypeOK, Rows
  <2>2. x \in Request /\ x.pc = "edit" /\ x.cleared = Rows(request[p].recipe)
    <3>1. x \in Request
      BY <2>1, RequestFields DEF PcValues
    <3>2. x.pc = "edit" /\ x.cleared = Rows(request[p].recipe)
      BY <2>1 DEF Request
    <3>. QED  BY <3>1, <3>2
  <2>3. \A i \in Rows(request[p].recipe) : dataset[i].status = "failed"
    BY <1>7 DEF UpdateCleared, Live
  <2>4. /\ request' = [request EXCEPT ![p] = x]
        /\ dataset' = dataset /\ backfills' = backfills
    BY <1>7 DEF UpdateCleared, dagsterVars
  <2>. HIDE DEF x
  <2>. QED  BY <1>2, <2>2, <2>3, <2>4, RequestStep, TableUnchanged DEF Owning
<1>8. ASSUME NEW p \in Requests, MaterializeCount(p)
      PROVE  RequestInv' /\ TableInv'
  <2>1. PICK n : n = Cardinality(Rows(request[p].recipe)) + 1
    OBVIOUS
  <2>. DEFINE x == [request[p] EXCEPT !.pc = "insert", !.version = n]
  <2>2. request[p] \in Request /\ n \in Nat /\ n \in 1 .. n
    BY <2>1, CountIsNat DEF LaunchInv, TypeInv, TypeOK
  <2>3. x \in Request /\ x.pc = "insert" /\ x.version = n /\ x.recipe = request[p].recipe
    <3>1. x \in Request
      BY <2>2, RequestFields DEF PcValues
    <3>2. x.pc = "insert" /\ x.version = n /\ x.recipe = request[p].recipe
      BY <2>2 DEF Request
    <3>. QED  BY <3>1, <3>2
  <2>4. /\ request' = [request EXCEPT ![p] = x]
        /\ dataset' = dataset /\ backfills' = backfills
    BY <1>8, <2>1 DEF MaterializeCount, dagsterVars
  <2>. HIDE DEF x
  <2>. QED  BY <1>2, <2>1, <2>2, <2>3, <2>4, RequestStep, TableUnchanged DEF Owning
<1>9. ASSUME NEW p \in Requests, MaterializeInsert(p)
      PROVE  RequestInv' /\ TableInv'
  BY <1>9, InsertKeeps
<1>10. ASSUME NEW p \in Requests, MaterializePartition(p)
       PROVE  RequestInv' /\ TableInv'
  <2>1. PICK o \in CallOutcomes : Goto(p, IF Raises(o) THEN "tombstone" ELSE "launch")
    BY <1>10 DEF MaterializePartition
  <2>2. (IF Raises(o) THEN "tombstone" ELSE "launch") \in {"launch", "tombstone"}
    OBVIOUS
  <2>3. request[p].pc = "partition" /\ dataset' = dataset /\ backfills' = backfills
    BY <1>10 DEF MaterializePartition
  <2>. QED  BY <1>2, <2>1, <2>2, <2>3, OwnerStep, TableUnchanged
<1>11. ASSUME NEW p \in Requests, MaterializeLaunch(p)
       PROVE  RequestInv' /\ TableInv'
  BY <1>11, LaunchKeeps
<1>12. ASSUME NEW p \in Requests, MaterializeTombstone(p) \/ MaterializeRecord(p)
       PROVE  RequestInv' /\ TableInv'
  BY <1>12, OwnerEnds
<1>13. ASSUME NEW w \in Workers,
              \/ \E b \in BackfillIds : RunStart(w, b)
              \/ RunPut(w)
              \/ RunFails(w)
       PROVE  RequestInv' /\ TableInv'
  <2>1. request' = request /\ dataset' = dataset /\ backfills' = backfills
    BY <1>13 DEF RunStart, RunPut, RunFails, apiVars
  <2>. QED  BY <1>2, <2>1, TableUnchanged, RequestsUnchanged
<1>14. ASSUME NEW w \in Workers, RunFinish(w)
       PROVE  RequestInv' /\ TableInv'
  BY <1>14, PublishKeeps
<1>. QED
  BY <1>3, <1>4, <1>5, <1>6, <1>7, <1>8, <1>9, <1>10, <1>11, <1>12, <1>13, <1>14
  DEF Next, RequestNext, RunNext

LEMMA LaunchInvariant == Spec => []LaunchInv
<1>1. Init => LaunchInv
  BY InitTypeInv, InitLaunchInv DEF LaunchInv
<1>2. LaunchInv /\ [Next]_vars => LaunchInv'
  BY NextLaunchInv
<1>. QED  BY <1>1, <1>2, PTL DEF Spec

\* Versions of a recipe are numbered 1, 2, 3, ... without a gap or a repetition,
\* for any number of concurrent materialize requests.
THEOREM Versions == Spec => []VersionsAreDense
<1>1. LaunchInv => VersionsAreDense
  BY DEF LaunchInv, TableInv
<1>. QED  BY <1>1, LaunchInvariant, PTL

\* No Dagster run looks for a row that is not there.
THEOREM LaunchedRows == Spec => []LaunchedRowsExist
<1>1. LaunchInv => LaunchedRowsExist
  BY DEF LaunchInv, TableInv
<1>. QED  BY <1>1, LaunchInvariant, PTL

\* No version is launched twice.
THEOREM LaunchedOnce == Spec => []OneBackfillPerVersion
<1>1. LaunchInv => OneBackfillPerVersion
  BY DEF LaunchInv, TableInv
<1>. QED  BY <1>1, LaunchInvariant, PTL

\* A row whose request was accepted is not a tombstone and names its own backfill.
THEOREM Accepted == Spec => []AcceptedIsNeverTombstoned
<1>1. LaunchInv => AcceptedIsNeverTombstoned
  BY DEF LaunchInv, TableInv
<1>. QED  BY <1>1, LaunchInvariant, PTL

\* The rows a recipe update was cleared against stay tombstones.
THEOREM Cleared == Spec => []ClearedRowsStayFailed
<1>1. LaunchInv => ClearedRowsStayFailed
  BY DEF LaunchInv, RequestInv
<1>. QED  BY <1>1, LaunchInvariant, PTL

-----------------------------------------------------------------------------
(* The life of one row, and what it says about the uploads.                *)

\* Everything a step can do to row i.
RowInserted(i) == \E p \in Requests :
    /\ request[p].pc = "insert"
    /\ ~VersionTaken(request[p].recipe, request[p].version)
    /\ ~Exists(i)
    /\ dataset' = [dataset EXCEPT ![i] =
                      [status |-> "pending", recipe |-> request[p].recipe,
                       version |-> request[p].version,
                       snapshot |-> request[p].definition,
                       run |-> Null, stats |-> Null]]

RowTombstoned(i) ==
    /\ dataset[i].status \in {"pending", "done"}
    /\ dataset[i].run = Null
    /\ dataset' = [dataset EXCEPT ![i] = [dataset[i] EXCEPT !.status = "failed"]]

RowAccepted(i) == \E b \in BackfillIds :
    /\ dataset[i].status \in {"pending", "done"}
    /\ dataset[i].run = Null
    /\ backfills[b] = RowKey(i)
    /\ dataset' = [dataset EXCEPT ![i] = [dataset[i] EXCEPT !.run = b]]

RowPublished(i) == \E w \in Workers :
    /\ run[w].row = i
    /\ run[w].next = Infos + 1
    /\ dataset[i].status = "pending"
    /\ dataset' = [dataset EXCEPT ![i] =
                      [dataset[i] EXCEPT !.status = "done", !.stats = run[w].output]]

LEMMA RowStep ==
    ASSUME LaunchInv, [Next]_vars
    PROVE  \/ dataset' = dataset
           \/ \E i \in DatasetIds : \/ RowInserted(i)
                                    \/ RowTombstoned(i)
                                    \/ RowAccepted(i)
                                    \/ RowPublished(i)
<1>. DEFINE Goal == \/ dataset' = dataset
                    \/ \E i \in DatasetIds : \/ RowInserted(i)
                                             \/ RowTombstoned(i)
                                             \/ RowAccepted(i)
                                             \/ RowPublished(i)
<1>1. ASSUME UNCHANGED vars \/ \E r \in Recipes : CreateRecipe(r)
      PROVE  Goal
  BY <1>1 DEF vars, CreateRecipe
<1>2. ASSUME NEW p \in Requests,
             \/ \E r \in Recipes : UpdateLoad(p, r) \/ MaterializeLoad(p, r)
             \/ UpdateRejected(p)
             \/ UpdateCleared(p)
             \/ UpdateCommit(p)
             \/ MaterializeCount(p)
             \/ MaterializeConflict(p)
             \/ MaterializePartition(p)
             \/ MaterializeLaunch(p)
             \/ RequestDies(p)
      PROVE  Goal
  BY <1>2
  DEF UpdateLoad, MaterializeLoad, UpdateRejected, UpdateCleared, UpdateCommit,
      MaterializeCount, MaterializeConflict, MaterializePartition, MaterializeLaunch,
      RequestDies
<1>3. ASSUME NEW p \in Requests, MaterializeInsert(p)
      PROVE  Goal
  BY <1>3 DEF MaterializeInsert, RowInserted
<1>4. ASSUME NEW p \in Requests, MaterializeTombstone(p) \/ MaterializeRecord(p)
      PROVE  Goal
  <2>1. request[p].pc \in Owning
    BY <1>4 DEF MaterializeTombstone, MaterializeRecord, Owning
  <2>2. PICK i \in DatasetIds : /\ i = request[p].row
                                /\ dataset[i].status \in {"pending", "done"}
                                /\ dataset[i].run = Null
                                /\ RowKey(i) = RequestKey(p)
    BY <2>1 DEF LaunchInv, RequestInv, OwnersHaveRows
  <2>3. CASE MaterializeTombstone(p)
    <3>1. RowTombstoned(i)
      BY <2>2, <2>3 DEF MaterializeTombstone, RowTombstoned
    <3>. QED  BY <3>1
  <2>4. CASE MaterializeRecord(p)
    <3>1. request[p].run \in BackfillIds /\ backfills[request[p].run] = RowKey(i)
      BY <2>2, <2>4 DEF LaunchInv, RequestInv, RecordsItsBackfill, MaterializeRecord
    <3>2. RowAccepted(i)
      BY <2>2, <2>4, <3>1 DEF MaterializeRecord, RowAccepted
    <3>. QED  BY <3>2
  <2>. QED  BY <1>4, <2>3, <2>4
<1>5. ASSUME NEW w \in Workers,
             \/ \E b \in BackfillIds : RunStart(w, b)
             \/ RunPut(w)
             \/ RunFails(w)
      PROVE  Goal
  BY <1>5 DEF RunStart, RunPut, RunFails
<1>6. ASSUME NEW w \in Workers, RunFinish(w)
      PROVE  Goal
  <2>1. PICK i \in DatasetIds : i = run[w].row
    BY <1>6 DEF RunFinish, LaunchInv, TypeInv, TypeOK, Run
  <2>2. dataset' = dataset \/ RowPublished(i)
    BY <1>6, <2>1 DEF RunFinish, Publish, RowPublished
  <2>. QED  BY <2>2
<1>. QED
  BY <1>1, <1>2, <1>3, <1>4, <1>5, <1>6 DEF Next, RequestNext, RunNext

\* A snapshot is a definition, never Null: it was read from an existing recipe.
SnapshotsAreDefinitions ==
    /\ \A p \in Requests : request[p].pc \in {"count", "insert"} =>
          request[p].definition \in Definitions
    /\ \A i \in DatasetIds : Exists(i) => dataset[i].snapshot \in Definitions

\* A run works for a committed row, with that row's snapshot, and whatever it has
\* put so far is in MinIO: its own object or that of another run of the row.
RunsUploadInOrder ==
    \A w \in Workers : run[w].row # Null =>
       /\ Exists(run[w].row)
       /\ run[w].snapshot = dataset[run[w].row].snapshot
       /\ run[w].output \in Outputs
       /\ \A k \in Artifacts : k < run[w].next => store[run[w].row][k] # Null

\* recipe.json does not depend on the run that put it.
RecipeJsonIsSnapshot ==
    \A i \in DatasetIds : store[i][RecipeJson] \in {Null, dataset[i].snapshot}

UploadInv ==
    /\ SnapshotsAreDefinitions
    /\ RunsUploadInOrder
    /\ RecipeJsonIsSnapshot
    /\ \A i \in DatasetIds : ~Exists(i) => \A k \in Artifacts : store[i][k] = Null
    /\ DoneIsComplete

LEMMA InitUploadInv == Init => UploadInv
BY DEF Init, AbsentRow, IdleRequest, IdleRun, UploadInv, SnapshotsAreDefinitions,
       RunsUploadInOrder, RecipeJsonIsSnapshot, DoneIsComplete, Exists, Artifacts, RecipeJson

LEMMA NextSnapshots ==
    ASSUME LaunchInv, SnapshotsAreDefinitions, [Next]_vars
    PROVE  /\ SnapshotsAreDefinitions'
           /\ \A i \in DatasetIds : Exists(i) =>
                 Exists(i)' /\ dataset'[i].snapshot = dataset[i].snapshot
<1>1. /\ dataset \in [DatasetIds -> Row]
      /\ request \in [Requests -> Request]
      /\ definition \in [Recipes -> Definitions \cup {Null}]
  BY DEF LaunchInv, TypeInv, TypeOK
<1>2. \A i \in DatasetIds :
         /\ Exists(i) => Exists(i)' /\ dataset'[i].snapshot = dataset[i].snapshot
         /\ Exists(i)' => dataset'[i].snapshot \in Definitions
  <2>1. \A i \in DatasetIds : Exists(i) => dataset[i].snapshot \in Definitions
    BY DEF SnapshotsAreDefinitions
  <2>2. CASE dataset' = dataset
    BY <2>1, <2>2 DEF Exists
  <2>3. ASSUME NEW i \in DatasetIds, RowInserted(i)
        PROVE  \A j \in DatasetIds :
                  /\ Exists(j) => Exists(j)' /\ dataset'[j].snapshot = dataset[j].snapshot
                  /\ Exists(j)' => dataset'[j].snapshot \in Definitions
    <3>1. PICK d \in Definitions :
             /\ ~Exists(i)
             /\ dataset'[i].snapshot = d
             /\ \A j \in DatasetIds : j # i => dataset'[j] = dataset[j]
      BY <1>1, <2>3 DEF RowInserted, SnapshotsAreDefinitions
    <3>. QED  BY <2>1, <3>1 DEF Exists
  <2>4. ASSUME NEW i \in DatasetIds, RowTombstoned(i) \/ RowAccepted(i) \/ RowPublished(i)
        PROVE  \A j \in DatasetIds :
                  /\ Exists(j) => Exists(j)' /\ dataset'[j].snapshot = dataset[j].snapshot
                  /\ Exists(j)' => dataset'[j].snapshot \in Definitions
    <3>1. Exists(i) /\ dataset[i] \in Row
      BY <1>1, <2>4 DEF RowTombstoned, RowAccepted, RowPublished, Exists
    <3>2. /\ \A j \in DatasetIds : j # i => dataset'[j] = dataset[j]
          /\ dataset'[i].snapshot = dataset[i].snapshot
          /\ dataset'[i].status # "absent"
      <4>1. CASE RowTombstoned(i)
        BY <1>1, <3>1, <4>1 DEF RowTombstoned, Row
      <4>2. CASE RowAccepted(i)
        BY <1>1, <3>1, <4>2 DEF RowAccepted, Row
      <4>3. CASE RowPublished(i)
        BY <1>1, <3>1, <4>3 DEF RowPublished, Row
      <4>. QED  BY <2>4, <4>1, <4>2, <4>3
    <3>. QED  BY <2>1, <3>1, <3>2 DEF Exists
  <2>. QED  BY <2>2, <2>3, <2>4, RowStep
<1>3. \A p \in Requests : request'[p].pc \in {"count", "insert"} =>
         request'[p].definition \in Definitions
  <2>1. \A p \in Requests : request[p].pc \in {"count", "insert"} =>
           request[p].definition \in Definitions
    BY DEF SnapshotsAreDefinitions
  <2>2. ASSUME NEW p \in Requests, NEW x, request' = [request EXCEPT ![p] = x],
               x.pc \in {"count", "insert"} => x.definition \in Definitions
        PROVE  \A q \in Requests : request'[q].pc \in {"count", "insert"} =>
                  request'[q].definition \in Definitions
    BY <1>1, <2>1, <2>2
  <2>3. CASE request' = request
    BY <2>1, <2>3
  <2>4. ASSUME NEW p \in Requests, NEW r \in Recipes, MaterializeLoad(p, r)
        PROVE  \A q \in Requests : request'[q].pc \in {"count", "insert"} =>
                  request'[q].definition \in Definitions
    <3>. DEFINE x == [IdleRequest EXCEPT !.pc = "count", !.recipe = r,
                                          !.definition = definition[r]]
    <3>1. x.definition \in Definitions
      BY <1>1, <2>4 DEF MaterializeLoad, IdleRequest
    <3>2. request' = [request EXCEPT ![p] = x]
      BY <2>4 DEF MaterializeLoad
    <3>. HIDE DEF x
    <3>. QED  BY <2>2, <3>1, <3>2
  <2>5. ASSUME NEW p \in Requests, MaterializeCount(p)
        PROVE  \A q \in Requests : request'[q].pc \in {"count", "insert"} =>
                  request'[q].definition \in Definitions
    <3>. DEFINE x == [request[p] EXCEPT !.pc = "insert",
                            !.version = Cardinality(Rows(request[p].recipe)) + 1]
    <3>1. x.definition = request[p].definition
      BY <1>1 DEF Request
    <3>2. request' = [request EXCEPT ![p] = x] /\ request[p].pc = "count"
      BY <2>5 DEF MaterializeCount
    <3>. HIDE DEF x
    <3>. QED  BY <2>1, <2>2, <3>1, <3>2
  <2>6. ASSUME NEW p \in Requests,
               \/ \E r \in Recipes : UpdateLoad(p, r)
               \/ UpdateCleared(p)
               \/ MaterializeInsert(p)
               \/ MaterializePartition(p)
               \/ MaterializeLaunch(p)
               \/ UpdateRejected(p)
               \/ UpdateCommit(p)
               \/ MaterializeConflict(p)
               \/ MaterializeTombstone(p)
               \/ MaterializeRecord(p)
               \/ RequestDies(p)
        PROVE  \A q \in Requests : request'[q].pc \in {"count", "insert"} =>
                  request'[q].definition \in Definitions
    <3>1. /\ \A q \in Requests : q # p => request'[q] = request[q]
          /\ request'[p].pc \notin {"count", "insert"}
      <4>1. CASE \E r \in Recipes : UpdateLoad(p, r)
        BY <1>1, <4>1 DEF UpdateLoad, IdleRequest
      <4>2. CASE UpdateCleared(p)
        BY <1>1, <4>2 DEF UpdateCleared, Request
      <4>3. CASE MaterializeInsert(p)
        BY <1>1, <4>3 DEF MaterializeInsert, Request
      <4>4. CASE MaterializePartition(p)
        BY <1>1, <4>4 DEF MaterializePartition, Goto, Request
      <4>5. CASE MaterializeLaunch(p)
        BY <1>1, <4>5 DEF MaterializeLaunch, Request
      <4>6. CASE \/ UpdateRejected(p)
                 \/ UpdateCommit(p)
                 \/ MaterializeConflict(p)
                 \/ MaterializeTombstone(p)
                 \/ MaterializeRecord(p)
                 \/ RequestDies(p)
        BY <1>1, <4>6
        DEF UpdateRejected, UpdateCommit, MaterializeConflict, MaterializeTombstone,
            MaterializeRecord, RequestDies, EndRequest, IdleRequest
      <4>. QED  BY <2>6, <4>1, <4>2, <4>3, <4>4, <4>5, <4>6
    <3>. QED  BY <2>1, <3>1
  <2>7. ASSUME \/ UNCHANGED vars
               \/ \E r \in Recipes : CreateRecipe(r)
               \/ \E w \in Workers : RunNext(w)
        PROVE  request' = request
    BY <2>7
    DEF vars, CreateRecipe, RunNext, RunStart, RunPut, RunFinish, RunFails, apiVars
  <2>. QED
    BY <2>3, <2>4, <2>5, <2>6, <2>7 DEF Next, RequestNext
<1>. QED  BY <1>2, <1>3 DEF SnapshotsAreDefinitions

\* Steps that start no run and put no object.
LEMMA UploadUnchanged ==
    ASSUME LaunchInv, UploadInv, [Next]_vars, store' = store,
           \A w \in Workers : run'[w] = run[w] \/ run'[w] = IdleRun
    PROVE  UploadInv'
<1>1. /\ SnapshotsAreDefinitions'
      /\ \A i \in DatasetIds : Exists(i) =>
            Exists(i)' /\ dataset'[i].snapshot = dataset[i].snapshot
  BY NextSnapshots DEF UploadInv
<1>2. \A w \in Workers : run[w].row # Null => run[w].row \in DatasetIds
  BY DEF LaunchInv, TypeInv, TypeOK, Run
<1>3. RunsUploadInOrder'
  BY <1>1, <1>2 DEF UploadInv, RunsUploadInOrder, IdleRun
<1>4. RecipeJsonIsSnapshot'
  <2>1. RecipeJson \in Artifacts
    BY DEF RecipeJson, Artifacts
  <2>. QED  BY <1>1, <2>1 DEF UploadInv, RecipeJsonIsSnapshot
<1>5. \A i \in DatasetIds : ~Exists(i)' => \A k \in Artifacts : store'[i][k] = Null
  BY <1>1 DEF UploadInv
<1>6. DoneIsComplete'
  <2>1. dataset \in [DatasetIds -> Row]
    BY DEF LaunchInv, TypeInv, TypeOK
  <2>2. \A i \in DatasetIds : dataset'[i].status = "done" =>
           \/ dataset[i].status = "done"
           \/ \E w \in Workers : run[w].row = i /\ run[w].next = Infos + 1
    <3>1. CASE dataset' = dataset
      BY <3>1
    <3>2. ASSUME NEW i \in DatasetIds,
                 RowInserted(i) \/ RowTombstoned(i) \/ RowAccepted(i) \/ RowPublished(i),
                 NEW j \in DatasetIds, dataset'[j].status = "done"
          PROVE  \/ dataset[j].status = "done"
                 \/ \E w \in Workers : run[w].row = j /\ run[w].next = Infos + 1
      <4>1. CASE RowInserted(i)
        BY <2>1, <3>2, <4>1 DEF RowInserted
      <4>2. CASE RowTombstoned(i)
        BY <2>1, <3>2, <4>2 DEF RowTombstoned, Row
      <4>3. CASE RowAccepted(i)
        BY <2>1, <3>2, <4>3 DEF RowAccepted, Row
      <4>4. CASE RowPublished(i)
        BY <2>1, <3>2, <4>4 DEF RowPublished
      <4>. QED  BY <3>2, <4>1, <4>2, <4>3, <4>4
    <3>. QED  BY <3>1, <3>2, RowStep
  <2>3. ASSUME NEW i \in DatasetIds, NEW w \in Workers,
               run[w].row = i, run[w].next = Infos + 1
        PROVE  /\ \A k \in Artifacts : store[i][k] # Null
               /\ store[i][RecipeJson] = dataset'[i].snapshot
    <3>1. i # Null
      BY NullIsNoValue
    <3>2. Exists(i) /\ \A k \in Artifacts : store[i][k] # Null
      BY <2>3, <3>1 DEF UploadInv, RunsUploadInOrder, Artifacts, Infos
    <3>3. RecipeJson \in Artifacts
      BY DEF RecipeJson, Artifacts
    <3>. QED  BY <1>1, <3>2, <3>3 DEF UploadInv, RecipeJsonIsSnapshot
  <2>4. ASSUME NEW i \in DatasetIds, dataset[i].status = "done"
        PROVE  /\ \A k \in Artifacts : store[i][k] # Null
               /\ store[i][RecipeJson] = dataset'[i].snapshot
    BY <1>1, <2>4 DEF UploadInv, DoneIsComplete, Exists
  <2>. QED  BY <2>2, <2>3, <2>4 DEF DoneIsComplete
<1>. QED  BY <1>1, <1>3, <1>4, <1>5, <1>6 DEF UploadInv

LEMMA NextUploadInv ==
    ASSUME LaunchInv, UploadInv, [Next]_vars
    PROVE  UploadInv'
<1>1. /\ run \in [Workers -> Run]
      /\ store \in [DatasetIds -> [Artifacts -> Objects]]
  BY DEF LaunchInv, TypeInv, TypeOK
<1>2. /\ SnapshotsAreDefinitions'
      /\ \A i \in DatasetIds : Exists(i) =>
            Exists(i)' /\ dataset'[i].snapshot = dataset[i].snapshot
  BY NextSnapshots DEF UploadInv
<1>3. RecipeJson \in Artifacts /\ Train \in Artifacts
  BY DEF RecipeJson, Train, Artifacts
<1>4. CASE \/ UNCHANGED vars
           \/ \E r \in Recipes : CreateRecipe(r)
           \/ \E p \in Requests : RequestNext(p)
  <2>1. store' = store /\ run' = run
    BY <1>4
    DEF vars, CreateRecipe, RequestNext, UpdateLoad, MaterializeLoad, UpdateRejected,
        UpdateCleared, UpdateCommit, MaterializeCount, MaterializeConflict,
        MaterializeInsert, MaterializePartition, MaterializeLaunch, MaterializeTombstone,
        MaterializeRecord, RequestDies, dagsterVars
  <2>. QED  BY <2>1, UploadUnchanged
<1>5. ASSUME NEW w \in Workers, RunFinish(w) \/ RunFails(w)
      PROVE  UploadInv'
  <2>1. store' = store /\ run' = [run EXCEPT ![w] = IdleRun]
    BY <1>5 DEF RunFinish, RunFails
  <2>. QED  BY <1>1, <2>1, UploadUnchanged
<1>6. ASSUME NEW w \in Workers, NEW b \in BackfillIds, RunStart(w, b)
      PROVE  UploadInv'
  <2>1. PICK i \in DatasetIds, x \in Outputs :
           /\ Exists(i)
           /\ run' = [run EXCEPT ![w] = [row |-> i, snapshot |-> dataset[i].snapshot,
                                         output |-> x, next |-> Train]]
    BY <1>6 DEF RunStart
  <2>2. store' = store /\ dataset' = dataset
    BY <1>6 DEF RunStart
  <2>3. \A k \in Artifacts : ~(k < Train)
    BY DEF Artifacts, Train
  <2>4. RunsUploadInOrder'
    BY <1>1, <2>1, <2>2, <2>3 DEF UploadInv, RunsUploadInOrder, Exists
  <2>. QED
    BY <1>2, <2>2, <2>4 DEF UploadInv, RecipeJsonIsSnapshot, DoneIsComplete, Exists
<1>7. ASSUME NEW w \in Workers, RunPut(w)
      PROVE  UploadInv'
  <2>1. PICK i \in DatasetIds, k \in Artifacts :
           /\ i = run[w].row /\ k = run[w].next
           /\ store' = [store EXCEPT ![i][k] = Body(k, run[w].snapshot, run[w].output)]
           /\ run' = [run EXCEPT ![w] = [run[w] EXCEPT !.next = k + 1]]
           /\ dataset' = dataset
    BY <1>1, <1>7 DEF RunPut, Run
  <2>2. i # Null
    BY NullIsNoValue
  <2>3. /\ Exists(i)
        /\ run[w].snapshot = dataset[i].snapshot
        /\ run[w].output \in Outputs
        /\ \A m \in Artifacts : m < k => store[i][m] # Null
    BY <2>1, <2>2 DEF UploadInv, RunsUploadInOrder
  <2>4. dataset[i].snapshot \in Definitions
    BY <2>3 DEF UploadInv, SnapshotsAreDefinitions
  <2>5. Body(k, run[w].snapshot, run[w].output) # Null
    BY <2>3, <2>4, NullIsNoValue DEF Body
  <2>6. /\ \A j \in DatasetIds, m \in Artifacts : j # i \/ m # k => store'[j][m] = store[j][m]
        /\ store'[i][k] = Body(k, run[w].snapshot, run[w].output)
    BY <1>1, <2>1
  <2>7. \A j \in DatasetIds, m \in Artifacts : store[j][m] # Null => store'[j][m] # Null
    BY <2>5, <2>6
  <2>8. \A v \in Workers :
           /\ run'[v].row = run[v].row
           /\ run'[v].snapshot = run[v].snapshot
           /\ run'[v].output = run[v].output
           /\ v # w => run'[v] = run[v]
    BY <1>1, <2>1 DEF Run
  <2>9. run'[w].next = k + 1
    BY <1>1, <2>1 DEF Run
  <2>10. RunsUploadInOrder'
    <3>. SUFFICES ASSUME NEW v \in Workers, run'[v].row # Null
                  PROVE  /\ Exists(run[v].row)'
                         /\ run'[v].snapshot = dataset'[run'[v].row].snapshot
                         /\ run'[v].output \in Outputs
                         /\ \A m \in Artifacts : m < run'[v].next =>
                               store'[run'[v].row][m] # Null
      BY DEF RunsUploadInOrder, Exists
    <3>1. run[v].row \in DatasetIds /\ run'[v].row = run[v].row
      BY <1>1, <2>8 DEF Run
    <3>2. CASE v # w
      BY <2>1, <2>7, <2>8, <3>1, <3>2 DEF UploadInv, RunsUploadInOrder, Exists
    <3>3. CASE v = w
      <4>1. \A m \in Artifacts : m < k + 1 => m < k \/ m = k
        BY DEF Artifacts
      <4>2. \A m \in Artifacts : m < k + 1 => store'[i][m] # Null
        BY <2>3, <2>5, <2>6, <2>7, <4>1
      <4>. QED  BY <2>1, <2>3, <2>8, <2>9, <3>3, <4>2 DEF Exists
    <3>. QED  BY <3>2, <3>3
  <2>11. RecipeJsonIsSnapshot'
    <3>1. Body(RecipeJson, run[w].snapshot, run[w].output) = dataset[i].snapshot
      BY <2>3 DEF Body
    <3>. QED  BY <1>3, <2>1, <2>6, <3>1 DEF UploadInv, RecipeJsonIsSnapshot
  <2>12. \A j \in DatasetIds : ~Exists(j)' => \A m \in Artifacts : store'[j][m] = Null
    BY <2>1, <2>3, <2>6 DEF UploadInv, Exists
  <2>13. DoneIsComplete'
    BY <1>3, <2>1, <2>7, <2>11, <2>4
    DEF UploadInv, DoneIsComplete, RecipeJsonIsSnapshot
  <2>. QED  BY <1>2, <2>10, <2>11, <2>12, <2>13 DEF UploadInv
<1>. QED
  BY <1>4, <1>5, <1>6, <1>7 DEF Next, RunNext

\* A dataset is shown as 'done' only when its five objects are in MinIO, with the
\* row's own snapshot as recipe.json, however runs fail, are repeated or overlap.
THEOREM Complete == Spec => []DoneIsComplete
<1>1. Init => LaunchInv /\ UploadInv
  BY InitTypeInv, InitLaunchInv, InitUploadInv DEF LaunchInv
<1>2. LaunchInv /\ UploadInv /\ [Next]_vars => LaunchInv' /\ UploadInv'
  BY NextLaunchInv, NextUploadInv
<1>3. UploadInv => DoneIsComplete
  BY DEF UploadInv
<1>. QED  BY <1>1, <1>2, <1>3, PTL DEF Spec
-----------------------------------------------------------------------------
(* The objects of a dataset whose runs came one after another.             *)

\* A row whose runs were orderly has one run at most while it is not 'done', and
\* the objects up to the next one to put are that run's.
OrderlyRuns ==
    \A i \in DatasetIds : orderly[i] => \A w \in Workers : run[w].row = i =>
       /\ dataset[i].status # "done"
       /\ \A v \in Workers : run[v].row = i => v = w
       /\ \A k \in Artifacts : k < run[w].next =>
             store[i][k] = Body(k, run[w].snapshot, run[w].output)

OrderlyInv == OrderlyRuns /\ DoneIsCoherent

\* Only the end of a run makes a row 'done'.
LEMMA BecomesDone ==
    ASSUME LaunchInv, [Next]_vars, NEW i \in DatasetIds, dataset'[i].status = "done"
    PROVE  \/ /\ dataset[i].status = "done"
              /\ dataset'[i].snapshot = dataset[i].snapshot
              /\ dataset'[i].stats = dataset[i].stats
           \/ \E w \in Workers :
                 /\ RunFinish(w) /\ run[w].row = i
                 /\ dataset'[i].snapshot = dataset[i].snapshot
                 /\ dataset'[i].stats = run[w].output
<1>1. dataset \in [DatasetIds -> Row] /\ dataset[i] \in Row
  BY DEF LaunchInv, TypeInv, TypeOK
<1>2. CASE dataset' = dataset
  BY <1>2
<1>3. ASSUME NEW p \in Requests, MaterializeInsert(p)
      PROVE  dataset'[i] = dataset[i]
  BY <1>1, <1>3 DEF MaterializeInsert
<1>4. ASSUME NEW p \in Requests, MaterializeTombstone(p)
      PROVE  dataset'[i] = dataset[i]
  BY <1>1, <1>4 DEF MaterializeTombstone, Row
<1>5. ASSUME NEW p \in Requests, MaterializeRecord(p)
      PROVE  /\ dataset'[i].status = dataset[i].status
             /\ dataset'[i].snapshot = dataset[i].snapshot
             /\ dataset'[i].stats = dataset[i].stats
  BY <1>1, <1>5 DEF MaterializeRecord, Row
<1>6. ASSUME NEW w \in Workers, RunFinish(w)
      PROVE  \/ dataset'[i] = dataset[i]
             \/ /\ run[w].row = i
                /\ dataset'[i].snapshot = dataset[i].snapshot
                /\ dataset'[i].stats = run[w].output
  BY <1>1, <1>6 DEF RunFinish, Publish, Row
<1>7. ASSUME NEW p \in Requests,
             \/ \E r \in Recipes : UpdateLoad(p, r) \/ MaterializeLoad(p, r)
             \/ UpdateRejected(p)
             \/ UpdateCleared(p)
             \/ UpdateCommit(p)
             \/ MaterializeCount(p)
             \/ MaterializeConflict(p)
             \/ MaterializePartition(p)
             \/ MaterializeLaunch(p)
             \/ RequestDies(p)
      PROVE  dataset' = dataset
  BY <1>7
  DEF UpdateLoad, MaterializeLoad, UpdateRejected, UpdateCleared, UpdateCommit,
      MaterializeCount, MaterializeConflict, MaterializePartition, MaterializeLaunch,
      RequestDies
<1>8. ASSUME NEW w \in Workers, (\E b \in BackfillIds : RunStart(w, b)) \/ RunPut(w) \/ RunFails(w)
      PROVE  dataset' = dataset
  BY <1>8 DEF RunStart, RunPut, RunFails
<1>9. ASSUME UNCHANGED vars \/ \E r \in Recipes : CreateRecipe(r)
      PROVE  dataset' = dataset
  BY <1>9 DEF vars, CreateRecipe
<1>. QED
  BY <1>2, <1>3, <1>4, <1>5, <1>6, <1>7, <1>8, <1>9 DEF Next, RequestNext, RunNext

\* Steps that start no run and put no object.
LEMMA OrderlyUnchanged ==
    ASSUME LaunchInv, UploadInv, OrderlyInv, [Next]_vars, store' = store, orderly' = orderly,
           \A w \in Workers : run'[w] = run[w] \/ run'[w] = IdleRun,
           \A w \in Workers : RunFinish(w) => run'[w] = IdleRun
    PROVE  OrderlyInv'
<1>1. ASSUME NEW i \in DatasetIds PROVE i # Null /\ IdleRun.row # i
  BY NullIsNoValue DEF IdleRun
<1>2. OrderlyRuns'
  <2>. SUFFICES ASSUME NEW i \in DatasetIds, orderly[i], NEW w \in Workers, run'[w].row = i
                PROVE  /\ dataset'[i].status # "done"
                       /\ \A v \in Workers : run'[v].row = i => v = w
                       /\ \A k \in Artifacts : k < run'[w].next =>
                             store[i][k] = Body(k, run'[w].snapshot, run'[w].output)
    BY DEF OrderlyRuns
  <2>1. run'[w] = run[w] /\ \A v \in Workers : run'[v].row = i => run[v].row = i
    BY <1>1
  <2>2. /\ dataset[i].status # "done"
        /\ \A v \in Workers : run[v].row = i => v = w
        /\ \A k \in Artifacts : k < run[w].next =>
              store[i][k] = Body(k, run[w].snapshot, run[w].output)
    BY <2>1 DEF OrderlyInv, OrderlyRuns
  <2>3. ~\E v \in Workers : RunFinish(v) /\ run[v].row = i
    BY <1>1, <2>2
  <2>4. dataset'[i].status # "done"
    BY <2>2, <2>3, BecomesDone
  <2>. QED  BY <2>1, <2>2, <2>4
<1>3. DoneIsCoherent'
  <2>. SUFFICES ASSUME NEW i \in DatasetIds, dataset'[i].status = "done", orderly[i],
                       NEW k \in Artifacts
                PROVE  store[i][k] = Body(k, dataset'[i].snapshot, dataset'[i].stats)
    BY DEF DoneIsCoherent
  <2>1. CASE /\ dataset[i].status = "done"
             /\ dataset'[i].snapshot = dataset[i].snapshot
             /\ dataset'[i].stats = dataset[i].stats
    BY <2>1 DEF OrderlyInv, DoneIsCoherent
  <2>2. ASSUME NEW w \in Workers, RunFinish(w), run[w].row = i,
               dataset'[i].snapshot = dataset[i].snapshot,
               dataset'[i].stats = run[w].output
        PROVE  store[i][k] = Body(k, dataset'[i].snapshot, dataset'[i].stats)
    <3>1. k < run[w].next
      BY <2>2 DEF RunFinish, Infos, Artifacts
    <3>2. run[w].snapshot = dataset[i].snapshot
      BY <1>1, <2>2 DEF UploadInv, RunsUploadInOrder
    <3>. QED  BY <2>2, <3>1, <3>2 DEF OrderlyInv, OrderlyRuns
  <2>. QED  BY <2>1, <2>2, BecomesDone
<1>. QED  BY <1>2, <1>3 DEF OrderlyInv

LEMMA NextOrderlyInv ==
    ASSUME LaunchInv, UploadInv, OrderlyInv, [Next]_vars
    PROVE  OrderlyInv'
<1>1. /\ run \in [Workers -> Run]
      /\ store \in [DatasetIds -> [Artifacts -> Objects]]
      /\ orderly \in [DatasetIds -> BOOLEAN]
      /\ \A i \in DatasetIds : i # Null
  BY NullIsNoValue DEF LaunchInv, TypeInv, TypeOK
<1>2. CASE \/ UNCHANGED vars
           \/ \E r \in Recipes : CreateRecipe(r)
           \/ \E p \in Requests : RequestNext(p)
  <2>1. store' = store /\ run' = run /\ orderly' = orderly
    BY <1>2
    DEF vars, CreateRecipe, RequestNext, UpdateLoad, MaterializeLoad, UpdateRejected,
        UpdateCleared, UpdateCommit, MaterializeCount, MaterializeConflict,
        MaterializeInsert, MaterializePartition, MaterializeLaunch, MaterializeTombstone,
        MaterializeRecord, RequestDies, dagsterVars
  <2>2. \A w \in Workers : RunFinish(w) => run'[w] = IdleRun
    BY <1>1 DEF RunFinish
  <2>. QED  BY <2>1, <2>2, OrderlyUnchanged
<1>3. ASSUME NEW w \in Workers, RunFinish(w) \/ RunFails(w)
      PROVE  OrderlyInv'
  <2>1. store' = store /\ orderly' = orderly /\ run' = [run EXCEPT ![w] = IdleRun]
    BY <1>3 DEF RunFinish, RunFails
  <2>2. \A v \in Workers : RunFinish(v) => run'[v] = IdleRun
    BY <1>1 DEF RunFinish
  <2>. QED  BY <1>1, <2>1, <2>2, OrderlyUnchanged
<1>4. ASSUME NEW w \in Workers, NEW b \in BackfillIds, RunStart(w, b)
      PROVE  OrderlyInv'
  <2>1. PICK i \in DatasetIds, x \in Outputs :
           /\ run' = [run EXCEPT ![w] = [row |-> i, snapshot |-> dataset[i].snapshot,
                                         output |-> x, next |-> Train]]
           /\ orderly' = [orderly EXCEPT ![i] = /\ orderly[i]
                                                /\ dataset[i].status = "pending"
                                                /\ \A v \in Workers : run[v].row # i]
    BY <1>4 DEF RunStart
  <2>2. store' = store /\ dataset' = dataset /\ run[w].row = Null
    BY <1>4 DEF RunStart
  <2>3. /\ \A v \in Workers : v # w => run'[v] = run[v]
        /\ run'[w].row = i /\ run'[w].next = Train
    BY <1>1, <2>1
  <2>4. /\ \A j \in DatasetIds : j # i => orderly'[j] = orderly[j]
        /\ orderly'[i] => /\ orderly[i] /\ dataset[i].status = "pending"
                          /\ \A v \in Workers : run[v].row # i
    BY <1>1, <2>1
  <2>5. \A k \in Artifacts : ~(k < Train)
    BY DEF Artifacts, Train
  <2>6. OrderlyRuns'
    <3>. SUFFICES ASSUME NEW j \in DatasetIds, orderly'[j], NEW v \in Workers, run'[v].row = j
                  PROVE  /\ dataset[j].status # "done"
                         /\ \A u \in Workers : run'[u].row = j => u = v
                         /\ \A k \in Artifacts : k < run'[v].next =>
                               store[j][k] = Body(k, run'[v].snapshot, run'[v].output)
      BY <2>2 DEF OrderlyRuns
    <3>1. CASE j = i
      BY <2>3, <2>4, <2>5, <3>1
    <3>2. CASE j # i
      BY <2>3, <2>4, <3>2 DEF OrderlyInv, OrderlyRuns
    <3>. QED  BY <3>1, <3>2
  <2>7. DoneIsCoherent'
    BY <2>2, <2>4 DEF OrderlyInv, DoneIsCoherent
  <2>. QED  BY <2>6, <2>7 DEF OrderlyInv
<1>5. ASSUME NEW w \in Workers, RunPut(w)
      PROVE  OrderlyInv'
  <2>1. PICK i \in DatasetIds, k \in Artifacts :
           /\ i = run[w].row /\ k = run[w].next
           /\ store' = [store EXCEPT ![i][k] = Body(k, run[w].snapshot, run[w].output)]
           /\ run' = [run EXCEPT ![w] = [run[w] EXCEPT !.next = k + 1]]
           /\ dataset' = dataset /\ orderly' = orderly
    BY <1>1, <1>5 DEF RunPut, Run
  <2>2. /\ \A j \in DatasetIds, m \in Artifacts : j # i \/ m # k => store'[j][m] = store[j][m]
        /\ store'[i][k] = Body(k, run[w].snapshot, run[w].output)
    BY <1>1, <2>1
  <2>3. \A v \in Workers :
           /\ run'[v].row = run[v].row
           /\ run'[v].snapshot = run[v].snapshot
           /\ run'[v].output = run[v].output
           /\ v # w => run'[v] = run[v]
    BY <1>1, <2>1 DEF Run
  <2>4. run'[w].next = k + 1
    BY <1>1, <2>1 DEF Run
  <2>5. OrderlyRuns'
    <3>. SUFFICES ASSUME NEW j \in DatasetIds, orderly[j], NEW v \in Workers, run[v].row = j
                  PROVE  /\ dataset[j].status # "done"
                         /\ \A u \in Workers : run[u].row = j => u = v
                         /\ \A m \in Artifacts : m < run'[v].next =>
                               store'[j][m] = Body(m, run[v].snapshot, run[v].output)
      BY <2>1, <2>3 DEF OrderlyRuns
    <3>1. /\ dataset[j].status # "done"
          /\ \A u \in Workers : run[u].row = j => u = v
          /\ \A m \in Artifacts : m < run[v].next =>
                store[j][m] = Body(m, run[v].snapshot, run[v].output)
      BY DEF OrderlyInv, OrderlyRuns
    <3>2. CASE j # i
      BY <2>1, <2>2, <2>3, <3>1, <3>2
    <3>3. CASE j = i
      <4>1. v = w
        BY <2>1, <3>1, <3>3
      <4>2. \A m \in Artifacts : m < k + 1 => m < k \/ m = k
        BY DEF Artifacts
      <4>. QED  BY <2>1, <2>2, <2>4, <3>1, <3>3, <4>1, <4>2
    <3>. QED  BY <3>2, <3>3
  <2>6. DoneIsCoherent'
    <3>1. orderly[i] => dataset[i].status # "done"
      BY <2>1 DEF OrderlyInv, OrderlyRuns
    <3>. QED  BY <2>1, <2>2, <3>1 DEF OrderlyInv, DoneIsCoherent
  <2>. QED  BY <2>5, <2>6 DEF OrderlyInv
<1>. QED
  BY <1>2, <1>3, <1>4, <1>5 DEF Next, RunNext

\* As long as no run of a dataset overlapped another or followed its success, all
\* objects of a 'done' dataset are those of the run whose counts its row shows,
\* whatever earlier runs left behind when they failed.
THEOREM Coherent == Spec => []DoneIsCoherent
<1>1. Init => LaunchInv /\ UploadInv /\ OrderlyInv
  <2>1. Init => OrderlyInv
    BY NullIsNoValue DEF Init, OrderlyInv, OrderlyRuns, DoneIsCoherent, IdleRun, AbsentRow
  <2>. QED  BY <2>1, InitTypeInv, InitLaunchInv, InitUploadInv DEF LaunchInv
<1>2. LaunchInv /\ UploadInv /\ OrderlyInv /\ [Next]_vars
         => LaunchInv' /\ UploadInv' /\ OrderlyInv'
  BY NextLaunchInv, NextUploadInv, NextOrderlyInv
<1>3. OrderlyInv => DoneIsCoherent
  BY DEF OrderlyInv
<1>. QED  BY <1>1, <1>2, <1>3, PTL DEF Spec

-----------------------------------------------------------------------------
(* The interleaved handlers implement the atomic catalogue.                *)

\* The version an INSERT succeeds with is exactly the one after the last, for
\* the versions up to COUNT(*) are all taken: a stale count always collides.
LEMMA FreeVersionIsNext ==
    ASSUME LaunchInv, NEW r \in Recipes,
           NEW n \in 1 .. (Cardinality(Rows(r)) + 1), ~VersionTaken(r, n)
    PROVE  n = Cardinality(Rows(r)) + 1
<1>. DEFINE S == Rows(r)
            T == 1 .. Cardinality(Rows(r))
            f == [i \in S |-> dataset[i].version]
<1>1. IsFiniteSet(S) /\ Cardinality(S) \in Nat
  BY CountIsNat
<1>2. IsFiniteSet(T) /\ Cardinality(T) = Cardinality(S)
  <2>1. /\ 1 \in Int /\ Cardinality(S) \in Int
        /\ (IF 1 > Cardinality(S) THEN 0 ELSE Cardinality(S) - 1 + 1) = Cardinality(S)
    BY <1>1
  <2>. QED  BY <2>1, FS_Interval
<1>3. f \in Injection(S, T)
  BY DEF LaunchInv, TableInv, VersionsAreDense, Injection, IsInjective
<1>4. f \in Surjection(S, T)
  BY <1>1, <1>2, <1>3, FS_Injection
<1>5. \A m \in T : \E i \in S : dataset[i].version = m
  BY <1>4 DEF Surjection
<1>. QED  BY <1>1, <1>5 DEF VersionTaken

Listing == [i \in DatasetIds |-> Listed(i)]

LEMMA InitImplements == Init => Catalogue!Init
BY DEF Init, Catalogue!Init, Catalogue!Absent, AbsentRow, Listed

LEMMA CatalogueVersions ==
    ASSUME NEW r
    PROVE  Catalogue!Cardinality(Catalogue!VersionsOf(r)) = Cardinality(Rows(r))
<1>1. Catalogue!VersionsOf(r) = Rows(r)
  BY DEF Catalogue!VersionsOf, Rows, Exists, Listed
<1>2. Catalogue!Cardinality(Rows(r)) = Cardinality(Rows(r))
  BY DEF Catalogue!Cardinality, Cardinality
<1>. QED  BY <1>1, <1>2

\* One row changes as in the catalogue when its listed columns do.
LEMMA ListingStep ==
    ASSUME NEW i \in DatasetIds, NEW x, dataset \in [DatasetIds -> Row],
           dataset' = [dataset EXCEPT ![i] = x]
    PROVE  Listing' = [Listing EXCEPT ![i] =
                          [status |-> x.status, recipe |-> x.recipe,
                           version |-> x.version, snapshot |-> x.snapshot,
                           run |-> x.run]]
BY DEF Listing, Listed

LEMMA StepImplements ==
    ASSUME LaunchInv, SnapshotsAreDefinitions, [Next]_vars
    PROVE  Catalogue!Next \/ Listing' = Listing
<1>1. dataset \in [DatasetIds -> Row]
  BY DEF LaunchInv, TypeInv, TypeOK
<1>2. CASE dataset' = dataset
  BY <1>2 DEF Listing, Listed
<1>3. ASSUME NEW i \in DatasetIds, RowInserted(i)
      PROVE  Catalogue!Next
  <2>1. PICK p \in Requests :
           /\ request[p].pc = "insert"
           /\ ~VersionTaken(request[p].recipe, request[p].version)
           /\ ~Exists(i)
           /\ dataset' = [dataset EXCEPT ![i] =
                             [status |-> "pending", recipe |-> request[p].recipe,
                              version |-> request[p].version,
                              snapshot |-> request[p].definition,
                              run |-> Null, stats |-> Null]]
    BY <1>3 DEF RowInserted
  <2>2. PICK r \in Recipes, d \in Definitions, n \in Nat :
           r = request[p].recipe /\ d = request[p].definition /\ n = request[p].version
    BY <2>1 DEF LaunchInv, TypeInv, TypeOK, Request, SnapshotsAreDefinitions
  <2>3. n = Cardinality(Rows(r)) + 1
    <3>1. n \in 1 .. (Cardinality(Rows(r)) + 1)
      BY <2>1, <2>2 DEF LaunchInv, RequestInv, CountIsNoLead
    <3>. QED  BY <2>1, <2>2, <3>1, FreeVersionIsNext
  <2>4. Listing' = [Listing EXCEPT ![i] =
                       [status |-> "pending", recipe |-> r, version |-> n,
                        snapshot |-> d, run |-> Null]]
    <3>. DEFINE x == [status |-> "pending", recipe |-> r, version |-> n,
                      snapshot |-> d, run |-> Null, stats |-> Null]
    <3>1. /\ x.status = "pending" /\ x.recipe = r /\ x.version = n
          /\ x.snapshot = d /\ x.run = Null
      OBVIOUS
    <3>2. dataset' = [dataset EXCEPT ![i] = x]
      BY <2>1, <2>2
    <3>. HIDE DEF x
    <3>3. Listing' = [Listing EXCEPT ![i] =
                         [status |-> x.status, recipe |-> x.recipe,
                          version |-> x.version, snapshot |-> x.snapshot,
                          run |-> x.run]]
      BY <1>1, <3>2, ListingStep
    <3>. QED  BY <3>1, <3>3
  <2>5. Listing[i].status = "absent"
    BY <2>1 DEF Listing, Listed, Exists
  <2>6. n = Catalogue!Cardinality(Catalogue!VersionsOf(r)) + 1
    BY <2>3, CatalogueVersions
  <2>7. Catalogue!Create(i, r, d)
    <3>1. Listing' = [Listing EXCEPT ![i] =
                         [status |-> "pending", recipe |-> r,
                          version |-> Catalogue!Cardinality(Catalogue!VersionsOf(r)) + 1,
                          snapshot |-> d, run |-> Null]]
      BY <2>4, <2>6
    <3>. QED  BY <2>5, <3>1 DEF Catalogue!Create, Listing
  <2>. QED  BY <2>7 DEF Catalogue!Next
<1>4. ASSUME NEW i \in DatasetIds, RowTombstoned(i)
      PROVE  Catalogue!Next
  <2>1. dataset[i] \in Row
    BY <1>1
  <2>2. Listing' = [Listing EXCEPT ![i] =
                       [status |-> "failed", recipe |-> dataset[i].recipe,
                        version |-> dataset[i].version,
                        snapshot |-> dataset[i].snapshot, run |-> dataset[i].run]]
    <3>. DEFINE x == [dataset[i] EXCEPT !.status = "failed"]
    <3>1. /\ x.status = "failed" /\ x.recipe = dataset[i].recipe
          /\ x.version = dataset[i].version /\ x.snapshot = dataset[i].snapshot
          /\ x.run = dataset[i].run
      BY <2>1 DEF Row
    <3>2. dataset' = [dataset EXCEPT ![i] = x]
      BY <1>4 DEF RowTombstoned
    <3>. HIDE DEF x
    <3>3. Listing' = [Listing EXCEPT ![i] =
                         [status |-> x.status, recipe |-> x.recipe,
                          version |-> x.version, snapshot |-> x.snapshot,
                          run |-> x.run]]
      BY <1>1, <3>2, ListingStep
    <3>. QED  BY <3>1, <3>3
  <2>3. Listing' = [Listing EXCEPT ![i] = [Listing[i] EXCEPT !.status = "failed"]]
    BY <2>2 DEF Listing, Listed
  <2>4. Listing[i].status \in {"pending", "done"} /\ Listing[i].run = Null
    BY <1>4 DEF RowTombstoned, Listing, Listed
  <2>5. Catalogue!Withdraw(i)
    BY <2>3, <2>4 DEF Catalogue!Withdraw, Listing
  <2>. QED  BY <2>5 DEF Catalogue!Next
<1>5. ASSUME NEW i \in DatasetIds, RowAccepted(i)
      PROVE  Catalogue!Next
  <2>1. PICK b \in BackfillIds :
           /\ dataset[i].status \in {"pending", "done"}
           /\ dataset[i].run = Null
           /\ backfills[b] = RowKey(i)
           /\ dataset' = [dataset EXCEPT ![i] = [dataset[i] EXCEPT !.run = b]]
    BY <1>5 DEF RowAccepted
  <2>2. dataset[i] \in Row
    BY <1>1
  <2>3. Listing' = [Listing EXCEPT ![i] =
                       [status |-> dataset[i].status, recipe |-> dataset[i].recipe,
                        version |-> dataset[i].version,
                        snapshot |-> dataset[i].snapshot, run |-> b]]
    <3>. DEFINE x == [dataset[i] EXCEPT !.run = b]
    <3>1. /\ x.status = dataset[i].status /\ x.recipe = dataset[i].recipe
          /\ x.version = dataset[i].version /\ x.snapshot = dataset[i].snapshot
          /\ x.run = b
      BY <2>2 DEF Row
    <3>2. dataset' = [dataset EXCEPT ![i] = x]
      BY <2>1
    <3>. HIDE DEF x
    <3>3. Listing' = [Listing EXCEPT ![i] =
                         [status |-> x.status, recipe |-> x.recipe,
                          version |-> x.version, snapshot |-> x.snapshot,
                          run |-> x.run]]
      BY <1>1, <3>2, ListingStep
    <3>. QED  BY <3>1, <3>3
  <2>4. Listing' = [Listing EXCEPT ![i] = [Listing[i] EXCEPT !.run = b]]
    BY <2>3 DEF Listing, Listed
  <2>5. \A j \in DatasetIds : dataset[j].run # b
    <3>. SUFFICES ASSUME NEW j \in DatasetIds, dataset[j].run = b  PROVE FALSE
      OBVIOUS
    <3>1. b # Null
      BY NullIsNoValue
    <3>2. RowKey(j) = RowKey(i) /\ Exists(j) /\ Exists(i)
      BY <2>1, <3>1 DEF LaunchInv, TableInv, AcceptedIsNeverTombstoned, Exists
    <3>3. dataset[i].recipe \in Recipes
      BY <3>2 DEF LaunchInv, TableInv, RowsHaveRecipes
    <3>4. i = j
      BY <3>2, <3>3 DEF LaunchInv, TableInv, VersionsAreDense, Rows, RowKey
    <3>. QED  BY <2>1, <3>1, <3>4
  <2>6. /\ Listing[i].status \in {"pending", "done"}
        /\ Listing[i].run = Null
        /\ \A j \in DatasetIds : Listing[j].run # b
    BY <2>1, <2>5 DEF Listing, Listed
  <2>7. Catalogue!Accept(i, b)
    BY <2>4, <2>6 DEF Catalogue!Accept, Listing
  <2>. QED  BY <2>7 DEF Catalogue!Next
<1>6. ASSUME NEW i \in DatasetIds, RowPublished(i)
      PROVE  Catalogue!Next
  <2>1. dataset[i] \in Row
    BY <1>1
  <2>2. PICK z : dataset' = [dataset EXCEPT ![i] =
                                [dataset[i] EXCEPT !.status = "done", !.stats = z]]
    BY <1>6 DEF RowPublished
  <2>3. Listing' = [Listing EXCEPT ![i] =
                       [status |-> "done", recipe |-> dataset[i].recipe,
                        version |-> dataset[i].version,
                        snapshot |-> dataset[i].snapshot, run |-> dataset[i].run]]
    <3>. DEFINE x == [dataset[i] EXCEPT !.status = "done", !.stats = z]
    <3>1. /\ x.status = "done" /\ x.recipe = dataset[i].recipe
          /\ x.version = dataset[i].version /\ x.snapshot = dataset[i].snapshot
          /\ x.run = dataset[i].run
      BY <2>1 DEF Row
    <3>2. dataset' = [dataset EXCEPT ![i] = x]
      BY <2>2
    <3>. HIDE DEF x
    <3>3. Listing' = [Listing EXCEPT ![i] =
                         [status |-> x.status, recipe |-> x.recipe,
                          version |-> x.version, snapshot |-> x.snapshot,
                          run |-> x.run]]
      BY <1>1, <3>2, ListingStep
    <3>. QED  BY <3>1, <3>3
  <2>4. Listing' = [Listing EXCEPT ![i] = [Listing[i] EXCEPT !.status = "done"]]
    BY <2>3 DEF Listing, Listed
  <2>5. Listing[i].status = "pending"
    BY <1>6 DEF RowPublished, Listing, Listed
  <2>6. Catalogue!Publish(i)
    BY <2>4, <2>5 DEF Catalogue!Publish, Listing
  <2>. QED  BY <2>6 DEF Catalogue!Next
<1>. QED  BY <1>2, <1>3, <1>4, <1>5, <1>6, RowStep

\* Every behaviour of the concurrent handlers and runs is one of the catalogue
\* with its atomic numbering, final tombstones and final acceptance.
THEOREM Implements == Spec => ImplementsCatalogue
<1>1. Init => LaunchInv /\ UploadInv /\ Catalogue!Init
  BY InitTypeInv, InitLaunchInv, InitUploadInv, InitImplements DEF LaunchInv
<1>2. LaunchInv /\ UploadInv /\ [Next]_vars => LaunchInv' /\ UploadInv'
  BY NextLaunchInv, NextUploadInv
<1>3. LaunchInv /\ UploadInv /\ [Next]_vars =>
         [Catalogue!Next]_([i \in DatasetIds |-> Listed(i)])
  BY StepImplements DEF UploadInv, Listing
<1>. QED  BY <1>1, <1>2, <1>3, PTL DEF Spec, ImplementsCatalogue, Catalogue!Spec
-----------------------------------------------------------------------------
(* What a client concludes from the catalogue alone.                       *)

\* From one answer of GET /api/datasets to a later one.
Settles(x, y) ==
    x.status # "absent" =>
       /\ y.recipe = x.recipe /\ y.version = x.version /\ y.snapshot = x.snapshot
       /\ x.status = "failed" => y = x
       /\ x.run # Null =>
             /\ y.run = x.run
             /\ y.status = x.status \/ (x.status = "pending" /\ y.status = "done")

LEMMA CatalogueSettles ==
    ASSUME Catalogue!Next \/ Listing' = Listing, NEW j \in DatasetIds
    PROVE  Settles(Listed(j), Listed(j)')
<1>. DEFINE Fields == {"status", "recipe", "version", "snapshot", "run"}
<1>1. /\ Listing[j] = Listed(j) /\ Listing'[j] = Listed(j)'
      /\ \A i \in DatasetIds : DOMAIN Listing[i] = Fields
  BY DEF Listing, Listed
<1>2. CASE Listing' = Listing
  BY <1>1, <1>2 DEF Settles
<1>3. ASSUME NEW i \in DatasetIds, NEW r, NEW d, Catalogue!Create(i, r, d)
      PROVE  Settles(Listing[j], Listing'[j])
  <2>1. Listing[i].status = "absent" /\ (j # i => Listing'[j] = Listing[j])
    BY <1>3 DEF Catalogue!Create, Listing
  <2>. QED  BY <2>1 DEF Settles
<1>4. ASSUME NEW i \in DatasetIds, NEW b, Catalogue!Accept(i, b)
      PROVE  Settles(Listing[j], Listing'[j])
  <2>1. /\ Listing[i].status \in {"pending", "done"} /\ Listing[i].run = Null
        /\ Listing' = [Listing EXCEPT ![i].run = b]
    BY <1>4 DEF Catalogue!Accept, Listing
  <2>2. Listing \in [DatasetIds -> {Listing[k] : k \in DatasetIds}]
    BY DEF Listing
  <2>. QED  BY <1>1, <2>1, <2>2 DEF Settles
<1>5. ASSUME NEW i \in DatasetIds, Catalogue!Publish(i)
      PROVE  Settles(Listing[j], Listing'[j])
  <2>1. /\ Listing[i].status = "pending"
        /\ Listing' = [Listing EXCEPT ![i].status = "done"]
    BY <1>5 DEF Catalogue!Publish, Listing
  <2>2. Listing \in [DatasetIds -> {Listing[k] : k \in DatasetIds}]
    BY DEF Listing
  <2>. QED  BY <1>1, <2>1, <2>2 DEF Settles
<1>6. ASSUME NEW i \in DatasetIds, Catalogue!Withdraw(i)
      PROVE  Settles(Listing[j], Listing'[j])
  <2>1. /\ Listing[i].status \in {"pending", "done"} /\ Listing[i].run = Null
        /\ Listing' = [Listing EXCEPT ![i].status = "failed"]
    BY <1>6 DEF Catalogue!Withdraw, Listing
  <2>2. Listing \in [DatasetIds -> {Listing[k] : k \in DatasetIds}]
    BY DEF Listing
  <2>. QED  BY <1>1, <2>1, <2>2 DEF Settles
<1>. QED  BY <1>1, <1>2, <1>3, <1>4, <1>5, <1>6 DEF Catalogue!Next

\* Whatever requests and runs do: a listed version keeps its recipe, number and
\* snapshot, a tombstone stays as it is, and a version whose backfill the client was
\* told (202) keeps it and can only go from 'pending' to 'done'.
THEOREM ListedVersionsSettle ==
    Spec => [][\A i \in DatasetIds : Settles(Listed(i), Listed(i)')]_vars
<1>1. Init => LaunchInv /\ UploadInv
  BY InitTypeInv, InitLaunchInv, InitUploadInv DEF LaunchInv
<1>2. LaunchInv /\ UploadInv /\ [Next]_vars => LaunchInv' /\ UploadInv'
  BY NextLaunchInv, NextUploadInv
<1>3. LaunchInv /\ UploadInv /\ [Next]_vars =>
         \A i \in DatasetIds : Settles(Listed(i), Listed(i)')
  BY StepImplements, CatalogueSettles DEF UploadInv
<1>. QED  BY <1>1, <1>2, <1>3, PTL DEF Spec
=============================================================================
