------------------------- MODULE DatasetMaterialize -------------------------
(***************************************************************************)
(* Producing a dataset from a recipe: PUT /api/recipes/{id} and            *)
(* POST /api/datasets/{id}/materialize on the API side, the `dataset`      *)
(* asset with its HFDatasetIOManager on the Dagster side, the Postgres     *)
(* tables recipe and dataset and the MinIO bucket `datasets` between them. *)
(*                                                                         *)
(* One action is one step between two awaits of a handler.  A request that *)
(* is answered without a change of state (404, 422) is a stuttering step.  *)
(* A statement and the commit that publishes it are one step.              *)
(***************************************************************************)
EXTENDS Integers, FiniteSets, DagsterGateway

CONSTANTS
    Recipes,        \* recipe ids
    Definitions,    \* values of recipe.definition
    Requests,       \* API requests in progress at the same time
    DatasetIds,     \* ids the dataset table can hand out (a bound for TLC)
    BackfillIds,    \* ids Dagster can hand out (a bound for TLC)
    Workers,        \* Dagster runs in progress at the same time
    Outputs,        \* what a run may synthesise: train, validation, counts
    Card,           \* the README.md of a dataset
    MaxAttempts,    \* runs per backfill, re-executions included (a bound for TLC)
    Null

ASSUME IdsAreFinite == IsFiniteSet(DatasetIds)

ASSUME NullIsNoValue ==
    Null \notin Recipes \cup Definitions \cup DatasetIds \cup BackfillIds
                 \cup Outputs \cup {Card} \cup (Recipes \X Nat)

ASSUME AttemptsBound == MaxAttempts \in Nat

VARIABLES
    definition,     \* recipe.definition, Null before the recipe is created
    dataset,        \* the dataset table, one record per id
    request,        \* handler state of each API request
    registered,     \* keys of Dagster's dynamic partitions "dataset_versions"
    backfills,      \* Dagster's backfills: the partition key each was launched for
    attempts,       \* runs started per backfill
    run,            \* state of each Dagster run of the asset
    store,          \* MinIO: the five objects under each dataset's prefix
    orderly         \* history: no run of this dataset began beside or after another's success

vars == <<definition, dataset, request, registered, backfills, attempts, run,
          store, orderly>>

apiVars == <<definition, request>>
dagsterVars == <<registered, backfills, attempts, run, store, orderly>>
-----------------------------------------------------------------------------
\* The five objects in the order handle_output puts them.
Train == 1
Validation == 2
RecipeJson == 3
Readme == 4
Infos == 5
Artifacts == 1..5

AbsentRow ==
    [status |-> "absent", recipe |-> Null, version |-> 0, snapshot |-> Null,
     run |-> Null, stats |-> Null]

IdleRequest ==
    [pc |-> "idle", recipe |-> Null, definition |-> Null, version |-> 0,
     row |-> Null, run |-> Null, cleared |-> {}]

IdleRun == [row |-> Null, snapshot |-> Null, output |-> Null, next |-> 1]

Exists(i) == dataset[i].status # "absent"

\* SELECT ... FROM dataset WHERE recipe_id = r
Rows(r) == {i \in DatasetIds : Exists(i) /\ dataset[i].recipe = r}

\* Mutation: the freeze check looks for published datasets only.
LivePublishedOnly(r) == {i \in Rows(r) : dataset[i].status = "done"}

\* The rows that lock a recipe: WHERE status != 'failed'.
Live(r) == {i \in Rows(r) : dataset[i].status # "failed"}

\* The partition key "ds_{recipe}_v{n}": both numbers can be read back from it.
RowKey(i) == <<dataset[i].recipe, dataset[i].version>>

\* Mutation: the key is built from COUNT(*) and not from COUNT(*) + 1.
StaleKey(p) == <<request[p].recipe, request[p].version - 1>>

RequestKey(p) == <<request[p].recipe, request[p].version>>

\* Mutation: no UNIQUE (recipe_id, version_tag).
NeverTaken(r, n) == FALSE

\* uq_dataset_recipe_version rejects the INSERT.
VersionTaken(r, n) == \E i \in Rows(r) : dataset[i].version = n

Goto(p, pc) == request' = [request EXCEPT ![p].pc = pc]

EndRequest(p) == request' = [request EXCEPT ![p] = IdleRequest]
-----------------------------------------------------------------------------
(* POST /api/recipes and PUT /api/recipes/{id}.                            *)

CreateRecipe(r) ==
    /\ definition[r] = Null
    /\ \E d \in Definitions : definition' = [definition EXCEPT ![r] = d]
    /\ UNCHANGED <<dataset, request, dagsterVars>>

UpdateLoad(p, r) ==
    /\ request[p].pc = "idle"
    /\ definition[r] # Null
    /\ request' = [request EXCEPT ![p] = [IdleRequest EXCEPT !.pc = "check",
                                                            !.recipe = r]]
    /\ UNCHANGED <<definition, dataset, dagsterVars>>

\* 409: a dataset that is not 'failed' locks the recipe.
UpdateRejected(p) ==
    /\ request[p].pc = "check"
    /\ Live(request[p].recipe) # {}
    /\ EndRequest(p)
    /\ UNCHANGED <<definition, dataset, dagsterVars>>

\* The check passes; `cleared` remembers the rows it saw, all tombstones.
UpdateCleared(p) ==
    /\ request[p].pc = "check"
    /\ Live(request[p].recipe) = {}
    /\ request' = [request EXCEPT ![p] =
                      [@ EXCEPT !.pc = "edit", !.cleared = Rows(request[p].recipe)]]
    /\ UNCHANGED <<definition, dataset, dagsterVars>>

UpdateCommit(p) ==
    /\ request[p].pc = "edit"
    /\ \E d \in Definitions :
          definition' = [definition EXCEPT ![request[p].recipe] = d]
    /\ EndRequest(p)
    /\ UNCHANGED <<dataset, dagsterVars>>
-----------------------------------------------------------------------------
(* POST /api/datasets/{recipe_id}/materialize.                             *)

\* Step 2: load the recipe.
MaterializeLoad(p, r) ==
    /\ request[p].pc = "idle"
    /\ definition[r] # Null
    /\ request' = [request EXCEPT ![p] =
                      [IdleRequest EXCEPT !.pc = "count", !.recipe = r,
                                          !.definition = definition[r]]]
    /\ UNCHANGED <<definition, dataset, dagsterVars>>

\* Step 3: the version is COUNT(*) + 1, failed rows included.
MaterializeCount(p) ==
    /\ request[p].pc = "count"
    /\ request' = [request EXCEPT ![p] =
                      [@ EXCEPT !.pc = "insert",
                                !.version = Cardinality(Rows(request[p].recipe)) + 1]]
    /\ UNCHANGED <<definition, dataset, dagsterVars>>

\* Steps 4-6 when another request took the version: rollback and 409.
MaterializeConflict(p) ==
    /\ request[p].pc = "insert"
    /\ VersionTaken(request[p].recipe, request[p].version)
    /\ EndRequest(p)
    /\ UNCHANGED <<definition, dataset, dagsterVars>>

\* Steps 4-6: INSERT the row with its frozen snapshot and commit.
MaterializeInsert(p) ==
    /\ request[p].pc = "insert"
    /\ ~VersionTaken(request[p].recipe, request[p].version)
    /\ \E i \in DatasetIds :
          /\ ~Exists(i)
          /\ dataset' = [dataset EXCEPT ![i] =
                            [status |-> "pending", recipe |-> request[p].recipe,
                             version |-> request[p].version,
                             snapshot |-> request[p].definition,
                             run |-> Null, stats |-> Null]]
          /\ request' = [request EXCEPT ![p] =
                            [@ EXCEPT !.pc = "partition", !.row = i]]
    /\ UNCHANGED <<definition, dagsterVars>>

\* Step 7: register the partition; an error leads to the tombstone.
MaterializePartition(p) ==
    /\ request[p].pc = "partition"
    /\ \E o \in CallOutcomes :
          /\ registered' = AddDatasetPartition(registered, RequestKey(p), o)
          /\ Goto(p, IF Raises(o) THEN "tombstone" ELSE "launch")
    /\ UNCHANGED <<definition, dataset, backfills, attempts, run, store, orderly>>

\* Mutation: a failed launch is tried again.
MaterializeLaunchRetried(p) ==
    /\ request[p].pc = "launch"
    /\ \E o \in LaunchOutcomes(registered, RequestKey(p)),
          b \in {x \in BackfillIds : backfills[x] = Null} :
          /\ backfills' = LaunchDatasetBackfill(backfills, b, RequestKey(p), o)
          /\ request' = IF Raises(o) THEN request
                        ELSE [request EXCEPT ![p] =
                                 [@ EXCEPT !.pc = "record", !.run = b]]
    /\ UNCHANGED <<definition, dataset, registered, attempts, run, store, orderly>>

\* Step 8: launch the backfill; an error leads to the tombstone.
MaterializeLaunch(p) ==
    /\ request[p].pc = "launch"
    /\ \E o \in LaunchOutcomes(registered, RequestKey(p)),
          b \in {x \in BackfillIds : backfills[x] = Null} :
          /\ backfills' = LaunchDatasetBackfill(backfills, b, RequestKey(p), o)
          /\ request' = IF Raises(o)
                        THEN [request EXCEPT ![p].pc = "tombstone"]
                        ELSE [request EXCEPT ![p] =
                                 [@ EXCEPT !.pc = "record", !.run = b]]
    /\ UNCHANGED <<definition, dataset, registered, attempts, run, store, orderly>>

\* Mutation: UPDATE ... WHERE recipe_id = r instead of WHERE id = i.
TombstoneAllOfRecipe(p) ==
    /\ request[p].pc = "tombstone"
    /\ dataset' = [i \in DatasetIds |->
                      IF i \in Rows(request[p].recipe)
                      THEN [dataset[i] EXCEPT !.status = "failed"] ELSE dataset[i]]
    /\ EndRequest(p)
    /\ UNCHANGED <<definition, dagsterVars>>

\* Steps 7 and 8, the error path: UPDATE status = 'failed' WHERE id = i,
\* whatever the status has become in the meantime; 503.
MaterializeTombstone(p) ==
    /\ request[p].pc = "tombstone"
    /\ dataset' = [dataset EXCEPT ![request[p].row].status = "failed"]
    /\ EndRequest(p)
    /\ UNCHANGED <<definition, dagsterVars>>

\* Mutation: the row records its partition key instead of the backfill id.
RecordKey(p) ==
    /\ request[p].pc = "record"
    /\ dataset' = [dataset EXCEPT ![request[p].row].run = RequestKey(p)]
    /\ EndRequest(p)
    /\ UNCHANGED <<definition, dagsterVars>>

\* Steps 9 and 10: write the backfill id back; 202.
MaterializeRecord(p) ==
    /\ request[p].pc = "record"
    /\ dataset' = [dataset EXCEPT ![request[p].row].run = request[p].run]
    /\ EndRequest(p)
    /\ UNCHANGED <<definition, dagsterVars>>

\* The API process stops, or a database call raises: what was committed stays.
RequestDies(p) ==
    /\ request[p].pc # "idle"
    /\ EndRequest(p)
    /\ UNCHANGED <<definition, dataset, dagsterVars>>
-----------------------------------------------------------------------------
(* A Dagster run of the asset `dataset` for the partition of a backfill.   *)

\* The asset body: fetch_dataset_row, read the chunks, ask the LLM, split.
\* A backfill's run may be re-executed by an operator at any time.
RunStart(w, b) ==
    /\ run[w].row = Null
    /\ backfills[b] # Null
    /\ attempts[b] < MaxAttempts
    /\ \E i \in DatasetIds, x \in Outputs :
          /\ Exists(i) /\ RowKey(i) = backfills[b]
          /\ run' = [run EXCEPT ![w] = [row |-> i, snapshot |-> dataset[i].snapshot,
                                        output |-> x, next |-> Train]]
          /\ orderly' = [orderly EXCEPT ![i] =
                            /\ orderly[i]
                            /\ dataset[i].status = "pending"
                            /\ \A v \in Workers : run[v].row # i]
    /\ attempts' = [attempts EXCEPT ![b] = attempts[b] + 1]
    /\ UNCHANGED <<definition, dataset, request, registered, backfills, store>>

\* What the k-th put_object of a run uploads.
Body(k, snapshot, output) ==
    IF k = RecipeJson THEN snapshot ELSE IF k = Readme THEN Card ELSE output

\* Mutation: an object that is already there is not uploaded again.
RunPutMissing(w) ==
    /\ run[w].row # Null
    /\ run[w].next \in Artifacts
    /\ store' = IF store[run[w].row][run[w].next] # Null THEN store
                ELSE [store EXCEPT ![run[w].row][run[w].next] =
                         Body(run[w].next, run[w].snapshot, run[w].output)]
    /\ run' = [run EXCEPT ![w].next = run[w].next + 1]
    /\ UNCHANGED <<apiVars, dataset, registered, backfills, attempts, orderly>>

\* HFDatasetIOManager.handle_output: the next of the five put_object calls.
RunPut(w) ==
    /\ run[w].row # Null
    /\ run[w].next \in Artifacts
    /\ store' = [store EXCEPT ![run[w].row][run[w].next] =
                    Body(run[w].next, run[w].snapshot, run[w].output)]
    /\ run' = [run EXCEPT ![w].next = run[w].next + 1]
    /\ UNCHANGED <<apiVars, dataset, registered, backfills, attempts, orderly>>

\* Mutation: the row is marked 'done' whatever its status.
PublishAlways(i, output) ==
    dataset' = [dataset EXCEPT ![i] =
                      [@ EXCEPT !.status = "done", !.stats = output]]

\* update_dataset_row: a no-op unless the row is still 'pending'.
Publish(i, output) ==
    dataset' = IF dataset[i].status = "pending"
               THEN [dataset EXCEPT ![i] =
                      [@ EXCEPT !.status = "done", !.stats = output]]
               ELSE dataset

\* Mutation: the row is updated before dataset_infos.json is uploaded.
RunFinishEarly(w) ==
    /\ run[w].row # Null
    /\ run[w].next \in {Infos, Infos + 1}
    /\ Publish(run[w].row, run[w].output)
    /\ run' = [run EXCEPT ![w] = IdleRun]
    /\ UNCHANGED <<apiVars, registered, backfills, attempts, store, orderly>>

\* HFDatasetIOManager.handle_output, after the last upload.
RunFinish(w) ==
    /\ run[w].row # Null
    /\ run[w].next = Infos + 1
    /\ Publish(run[w].row, run[w].output)
    /\ run' = [run EXCEPT ![w] = IdleRun]
    /\ UNCHANGED <<apiVars, registered, backfills, attempts, store, orderly>>

\* An upload, the update or the worker process fails; nothing is undone.
RunFails(w) ==
    /\ run[w].row # Null
    /\ run' = [run EXCEPT ![w] = IdleRun]
    /\ UNCHANGED <<apiVars, dataset, registered, backfills, attempts, store, orderly>>
-----------------------------------------------------------------------------
Init ==
    /\ definition = [r \in Recipes |-> Null]
    /\ dataset = [i \in DatasetIds |-> AbsentRow]
    /\ request = [p \in Requests |-> IdleRequest]
    /\ registered = {}
    /\ backfills = [b \in BackfillIds |-> Null]
    /\ attempts = [b \in BackfillIds |-> 0]
    /\ run = [w \in Workers |-> IdleRun]
    /\ store = [i \in DatasetIds |-> [k \in Artifacts |-> Null]]
    /\ orderly = [i \in DatasetIds |-> TRUE]

RequestNext(p) ==
    \/ \E r \in Recipes : UpdateLoad(p, r) \/ MaterializeLoad(p, r)
    \/ UpdateRejected(p)
    \/ UpdateCleared(p)
    \/ UpdateCommit(p)
    \/ MaterializeCount(p)
    \/ MaterializeConflict(p)
    \/ MaterializeInsert(p)
    \/ MaterializePartition(p)
    \/ MaterializeLaunch(p)
    \/ MaterializeTombstone(p)
    \/ MaterializeRecord(p)
    \/ RequestDies(p)

RunNext(w) ==
    \/ \E b \in BackfillIds : RunStart(w, b)
    \/ RunPut(w)
    \/ RunFinish(w)
    \/ RunFails(w)

Next ==
    \/ \E r \in Recipes : CreateRecipe(r)
    \/ \E p \in Requests : RequestNext(p)
    \/ \E w \in Workers : RunNext(w)

Spec == Init /\ [][Next]_vars
-----------------------------------------------------------------------------
Statuses == {"absent", "pending", "done", "failed"}

Keys == Recipes \X Nat

Row == [status : Statuses, recipe : Recipes \cup {Null}, version : Nat,
        snapshot : Definitions \cup {Null}, run : BackfillIds \cup {Null},
        stats : Outputs \cup {Null}]

PcValues == {"idle", "check", "edit", "count", "insert", "partition", "launch",
             "tombstone", "record"}

Request == [pc : PcValues,
            recipe : Recipes \cup {Null}, definition : Definitions \cup {Null},
            version : Nat, row : DatasetIds \cup {Null},
            run : BackfillIds \cup {Null}, cleared : SUBSET DatasetIds]

Run == [row : DatasetIds \cup {Null}, snapshot : Definitions \cup {Null},
        output : Outputs \cup {Null}, next : 1..6]

Objects == Definitions \cup Outputs \cup {Card, Null}

\* Every table, request and object holds values of its type; a recipe that is
\* Null only occurs where there is no row and no request.
TypeOK ==
    /\ definition \in [Recipes -> Definitions \cup {Null}]
    /\ dataset \in [DatasetIds -> Row]
    /\ request \in [Requests -> Request]
    /\ registered \in SUBSET Keys
    /\ backfills \in [BackfillIds -> Keys \cup {Null}]
    /\ attempts \in [BackfillIds -> Nat]
    /\ run \in [Workers -> Run]
    /\ store \in [DatasetIds -> [Artifacts -> Objects]]
    /\ orderly \in [DatasetIds -> BOOLEAN]

\* COUNT(*) + 1 numbering (datasets.py) never repeats nor skips a version: the
\* rows of a recipe carry the versions 1..COUNT(*), each once, although the
\* count is read in one statement and used in a later one.
VersionsAreDense ==
    \A r \in Recipes :
       /\ \A i, j \in Rows(r) : dataset[i].version = dataset[j].version => i = j
       /\ \A i \in Rows(r) : dataset[i].version \in 1..Cardinality(Rows(r))

\* fetch_dataset_row always finds the row its run was launched for: no backfill
\* exists for a partition whose row is not committed.
LaunchedRowsExist ==
    \A b \in BackfillIds : backfills[b] # Null =>
       \E i \in DatasetIds : Exists(i) /\ RowKey(i) = backfills[b]

\* A version is launched at most once, also when the answer of a launch is lost.
OneBackfillPerVersion ==
    \A b, c \in BackfillIds :
       backfills[b] # Null /\ backfills[b] = backfills[c] => b = c

\* A request that was answered 202 wrote its backfill id: from then on the row
\* is never a tombstone, and the id names a backfill of the row's partition.
AcceptedIsNeverTombstoned ==
    \A i \in DatasetIds : dataset[i].run # Null =>
       /\ dataset[i].status \in {"pending", "done"}
       /\ backfills[dataset[i].run] = RowKey(i)

\* A dataset shown as 'done' has its five objects in MinIO, and the recipe.json
\* among them is the snapshot frozen in its row.
DoneIsComplete ==
    \A i \in DatasetIds : dataset[i].status = "done" =>
       /\ \A k \in Artifacts : store[i][k] # Null
       /\ store[i][RecipeJson] = dataset[i].snapshot

\* Failed runs and their retries leave no trace: as long as no run overlapped
\* another or followed its success, the objects of a 'done' dataset are one
\* run's and agree with the counts in the row.
DoneIsCoherent ==
    \A i \in DatasetIds : dataset[i].status = "done" /\ orderly[i] =>
       \A k \in Artifacts :
          store[i][k] = Body(k, dataset[i].snapshot, dataset[i].stats)

\* The freeze check (recipes.py) is only ever overtaken by newer rows: what an
\* update saw before it commits are tombstones, and they still are.
ClearedRowsStayFailed ==
    \A p \in Requests : request[p].pc = "edit" =>
       \A i \in request[p].cleared : dataset[i].status = "failed"

\* The rows as GET /api/datasets shows them, without the counts.
Listed(i) == [status |-> dataset[i].status, recipe |-> dataset[i].recipe,
              version |-> dataset[i].version, snapshot |-> dataset[i].snapshot,
              run |-> dataset[i].run]

Catalogue == INSTANCE DatasetCatalogue WITH row <- [i \in DatasetIds |-> Listed(i)]

\* The interleaved handlers and runs look to a client like the atomic catalogue:
\* a stale COUNT(*) is either rejected or still the right one, a tombstone is
\* final, and so is 'done' once a client was told its backfill.
ImplementsCatalogue == Catalogue!Spec
-----------------------------------------------------------------------------
(* What the comments of the source say and the code does not guarantee.    *)

\* recipes.py: a row with status 'failed' has no data in MinIO.
TombstoneHasNoData ==
    \A i \in DatasetIds : dataset[i].status = "failed" =>
       \A k \in Artifacts : store[i][k] = Null

\* recipes.py: the definition does not change after a dataset has been
\* produced from the recipe.
DefinitionIsFrozen ==
    [][\A r \in Recipes :
          (\E i \in Rows(r) : dataset[i].status = "done")
             => definition'[r] = definition[r]]_vars
=============================================================================
