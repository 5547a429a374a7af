# Dataplat in TLA+

This directory is a verification project for Dataplat, a data platform for LLM
training data.  It models the parts of the program in which several processes
share state, checks the models with TLC on small instances, and proves theorems
about them with TLAPS for every size.  Source paths are relative to the
repository; `api/` stands for `apps/api/dataplat_api/` and `dag/` for
`dagster/dagster_platform/`.

- [1 The system](#1-the-system)
- [2 The models](#2-the-models)
- [3 What the runs check](#3-what-the-runs-check)
- [4 What is proved](#4-what-is-proved)
- [5 What the models found](#5-what-the-models-found)
- [6 What is not modelled](#6-what-is-not-modelled)
- [7 The plan](#7-the-plan)

## 1 The system

Three processes and three stores:

    browser --HTTP, WebSocket--> API (FastAPI, one uvicorn worker)
    API     --GraphQL, 10 s timeout--> Dagster webserver
    Dagster --HTTP, 5 s timeout--> API   (sensors: POST /api/dagster/events)
    API, Dagster runs --> Postgres, MinIO, Lance

The API is one asyncio process: two handlers interleave at every `await`, and
only there.  Dagster consists of a daemon that evaluates sensors and a process
for every run.  Neither side has a transaction that covers the other, and no
call between them has an idempotency key.

### Inventory

| Component | State it keeps | Operations that change it | Hard behaviour | What makes it correct |
|---|---|---|---|---|
| Recipes (`api/routers/recipes.py`) | table `recipe` | create, update | the freeze check and the update are separate statements | a recipe does not change under a live dataset |
| Dataset materialization (`api/routers/datasets.py`) | table `dataset` | materialize: count, insert, register partition, launch, record or tombstone | two requests count the same rows; a launch whose answer is lost | versions are numbered without gap or repeat; a row that was answered 202 has a backfill |
| Dataset asset and IO manager (`dag/definitions.py`, `dag/hf_dataset_io_manager.py`, `dag/sft_synthesis_qa.py`) | five objects per dataset in MinIO, the row's status | put the objects one by one, then update the row | a crash between uploads; a re-execution beside or after a success | a `done` dataset is complete and is the one the row describes |
| Dagster gateway (`api/dagster/gateway.py`) | none of its own: Dagster's partitions and backfills | add partition, launch backfill | a timeout hides whether the mutation ran | callers survive both outcomes |
| Run trigger (`api/routers/runs.py`) | table `run` | trigger: register partitions, launch, insert | the backfill runs before its row exists | a row names the one backfill that covers its keys |
| Run-status sensors (`dag/definitions.py`) | a cursor per sensor in Dagster's storage | post an event, advance | four cursors over one log; a post has the status the run has by then, not the one the sensor is for; lost and repeated posts | a row is up to date after the last event, if its post was handled |
| Event webhook (`api/routers/dagster_events.py`) | `run.status`, timestamps | load, compare, commit, publish | overlapping handlers of one row; events in the wrong order | a row says what happened to its own backfill, and subscribers what the row says |
| Event brokers (`api/realtime/`) | subscriber lists, bounded queues | subscribe, unsubscribe, publish with drop-oldest | a queue several times in a list; queues shared by subscriptions | an event is lost only to a full queue of newer ones, of whichever run |
| `ws/runs` (`api/routers/ws_runs.py`) | connection, dictionary of subscriptions, sender task | subscribe, unsubscribe, send, clean up | the ownership check awaits; a failed sender; a restart | only owners get events; an acknowledged subscription is live |
| `ws/notifications`, asset sensors | connection, queue; sensor cursors | connect, publish, send | lost posts; a user with several tabs | at most one notification per materialization and open tab, unless a process ends |
| Source upload, canonical variants (`api/routers/sources.py`) | tables `source`, `document_variant`; MinIO `raw` | upload, set_canonical | object before row, row before partition; the partial unique index | one canonical variant per source |
| Extraction, Docling IO manager (`dag/extractor.py`, `dag/docling_io_manager.py`) | objects of a variant; its row | put in order with the manifest last, clean up on failure, insert | cleanup deletes what another run wrote | an object is lost only to the cleanup of a run that wrote it |
| Chunking, Lance IO manager, taggers (`dag/chunker.py`, `dag/lance_io_manager.py`, `dag/*_tagger.py`) | the Lance table `chunks` | delete then add; merge columns | two commits; a merge computed from replaced rows | chunks of a source are those of one run |
| LLM gateway (`api/llm/gateway.py`) | times of the calls in the last minute, one list for all callers | prune, refuse with 429 or count, call | entries that expire just now; callers in two processes | the limit holds in every stretch of a minute |
| Synthesis (`dag/sft_synthesis_qa.py`, `api/recipes/preview.py`) | samples of a dataset run or of a preview | read the chunks, call the gateway per chunk, split | some calls fail; tasks outlive their request | every chunk is a sample or left out because the recipe says so; no chunk in both splits |
| Chunk queries, rendering, auth, operators, web | none | reads | - | - |

## 2 The models

| Module | Models | Is |
|---|---|---|
| `DagsterGateway` | `api/dagster/gateway.py`: what one call does and what it tells its caller | operators, used by the state machines that call Dagster |
| `DatasetMaterialize` | recipes, materialize requests, Dagster's runs of the dataset asset, MinIO | a composition of API handlers and Dagster runs |
| `DatasetCatalogue` | what a client of `GET /api/datasets` may rely on | the abstract specification of `DatasetMaterialize` |
| `DatasetMaterialize_proofs` | - | theorems about `DatasetMaterialize` |
| `RunLifecycle` | trigger, Dagster's tasks and log, sensors, webhook handlers | a composition of three processes |
| `RunLifecycle_proofs` | - | theorems about `RunLifecycle` |
| `EventBroker` | `api/realtime/broker.py` (and `notification_broker.py`, the same code keyed by user) | operators |
| `WsRuns` | `api/routers/ws_runs.py` over the broker | a state machine |
| `WsRuns_proofs` | - | theorems about `WsRuns` |
| `Documents` | upload, `extract_mineru` with its IO manager, `set_canonical` | a composition of API handlers and Dagster runs on one table |
| `CanonicalChoice` | what a reader of `document_variant` may rely on | the abstract specification of `Documents` |
| `Documents_proofs` | - | theorems about `Documents` |
| `Notifications` | asset sensors, the webhook's asset branch, `ws/notifications`; over `Documents` and `EventBroker` | a composition of three processes |
| `Notifications_proofs` | - | theorems about `Notifications`, with what is proved of `Documents` |
| `ChunkWindows` | the loop of `fixed_size_chunk` | operators |
| `LlmGateway` | `api/llm/gateway.py` and its HTTP endpoint | a state machine of its own, and the operators its callers use |
| `LanceChunks` | the assets `chunks`, `attr_quality`, `attr_lang`, `attr_minhash` and `dag/lance_io_manager.py`; over `LlmGateway` and `ChunkWindows` | a state machine |
| `LanceChunks_proofs` | - | theorems about `LlmGateway`, `ChunkWindows` and `LanceChunks` |
| `Synthesis` | the body of the asset `dataset` and recipe previews; over `LanceChunks` | a composition of Dagster runs and API requests |
| `Synthesis_proofs` | - | theorems about `Synthesis`, with what is proved of `LanceChunks` |
| `MinhashClusters` | the clustering of `dag/minhash_tagger.py` | a state machine |
| `MinhashClusters_proofs` | - | theorems about `MinhashClusters` |
| `MC*` | values of constants, symmetry sets, and the choice of who takes part | models for TLC |

The unit of an action is the code between two awaits of a handler, or one
remote call of a Dagster process, because nothing else interleaves.  A SELECT, an
INSERT with its commit, an UPDATE with its commit and a GraphQL call are one
action each.  A stop of the API process ends a request at any of these
points (`RequestDies`, `TriggerDies`, `HandlerDies`, `Restart`); what was
committed stays.  The same actions stand for a database error, which leaves the
same state behind.

### DagsterGateway

Every method turns network errors, timeouts, bad bodies and error typenames into
one exception.  A call therefore has three outcomes: `ok`, `refused` (raises, not
executed) and `lost` (raises, executed).  A launch for an unknown partition key is always
refused, and registering a key twice is a success.

### DatasetMaterialize

`dataset` is the table, with status `absent` for an unused id.  `request[p]` is a
handler: `pc` is the step it will take next, the other fields are its local
variables.  The actions follow the numbered steps of `materialize_dataset`
(`MaterializeLoad` 2, `Count` 3, `Insert`/`Conflict` 4-6, `Partition` 7, `Launch`
8, `Record` 9-10, `Tombstone` the error path) and of `update_recipe`
(`UpdateLoad`, `UpdateRejected`/`UpdateCleared`, `UpdateCommit`).  A partition key
`ds_{recipe}_v{n}` is the pair of its numbers, since both can be read back.

`run[w]` is a Dagster run.  `RunStart` reads the row (`fetch_dataset_row`, which
does not look at its status) and fixes what the run will synthesise, an opaque
value; `RunPut` uploads the next of five objects; `RunFinish` is the status-guarded
UPDATE; `RunFails` can happen anywhere.  Runs of a backfill can be repeated
and can overlap, because Dagster's UI offers it and nothing in the code excludes it.
`orderly[i]` is a history variable: no run of dataset `i` began beside another one or
after a success.

### RunLifecycle

`request[t]` is a trigger and `run[t]` the row it inserts.  The trigger registers
the keys one by one (errors are swallowed), launches, and inserts; the backfill runs
from the launch on, so events can arrive before the row.  `task[b][k]` is
Dagster's run record of one partition, `log` the event log.  Each of the four
sensors has a cursor.  What a sensor posts about an event is not the event's type but
`_EVENT_TYPE_MAP[context.dagster_run.status]`, the status in the run record at the time of the
evaluation (`StatusNow`): a start that is evaluated after the run has ended is posted as `RUN_SUCCESS`, say, and
the success is posted again by its own sensor.  A status that the map does not have (`CANCELING`, from
`TaskCancel`) raises a KeyError; Dagster records the error and goes on, so the event is dropped.

`SensorPost` starts a webhook handler and moves the cursor at
once: the sensor waits for at most five seconds, and an unanswered
call counts as done, so the next event can be posted while the handler is still at work.
`SensorDrop` is a KeyError or a call that never arrived, `SensorPostUnsaved` a stop of
the daemon between call and cursor.  A handler loads the row (`HandlerSelect`),
commits (`HandlerCommit`) and publishes (`HandlerPublish`); it can die before its commit
(`HandlerDies`) or after it (`HandlerDiesUntold`, which is also a commit whose answer is lost).  The session writes
changed attributes only, hence the comparison with the loaded status in `Updated`.

Timestamps are the log positions of the events they were set for; statuses are the
code's.  Two history variables say when more can be expected of a row than that it is true.  `reported[b]`
is the last event of backfill `b` that was posted, and `Null` while its
outcome is lost or it overlapped another one; the next post that meets no handler of `b` sets it again.  `untold` has
the backfills whose subscribers may have missed a change: after an overlap or `HandlerDiesUntold`, until a handler that is alone publishes one.

### EventBroker and WsRuns

A subscriber list is a bag of queues, because `subscribe` appends without looking
and `unsubscribe` removes one occurrence.  The order of the list is not observable:
`publish` does not await.  `WsRuns` has the connection's handler (`conn[c]`), its dictionary
(`conn[c].subscriptions`), the queue all its subscriptions share, the
sender task and what the client received.  The ownership check is two actions,
`SubscribeSelect` (the await) and `SubscribeReject`/`SubscribeRegister`.
`RunPublish` stands for the webhook's publish, which `RunLifecycle` models
from the other side.

### Documents and CanonicalChoice

An upload is `upload_source` from its checks to the 201: put the PDF, commit the row,
register the partition, report the materialization.  Each call has the three outcomes above; the last two
are best effort.  `extract[e]` is a run of `extract_mineru` with `DoclingDocIOManager.handle_output`:
two puts under keys that all runs of the source share (`object[s][part]` says who wrote last), the
cleanup of the *remembered* keys after a put that raised, and the transaction of
`insert_document_variant`.  `pick[p]` is a `set_canonical` request.

Postgres runs at READ COMMITTED.  The model has the effects the two transactions can have on each other,
and no more: an INSERT waits for an uncommitted row with the same key of `uq_document_variant`
or of the partial index `idx_doc_canonical` (`InsertWaits`) and then conflicts with what was
committed; CLEAR takes its snapshot (`PickSnapshot`) before it waits for the row locks (`ClearWaits`), and then
passes over rows that have changed; SET waits (`SetWaits`) and can violate the index.  An uncommitted change is
part of the transaction's local state and reaches `variants` and `canonical` with the commit only.

`CanonicalChoice` has two actions, `Add` and `Choose`.  The mapping takes a variant for the
run that made it and the canonical id for the variant that has it.

### Notifications

`Record` is the last step of an extract run and appends to Dagster's `log`; a run of `chunks`
has this step only.  An asset sensor evaluates (`SensorTick`, the newest entry after its cursor), posts
(`SensorPost`, whose exceptions the code swallows) and advances (`SensorAdvance`); `SensorCrash` in between
repeats the entry.  A post carries the number of ends so far (`after`, history), which tells it from other posts of its entry.  The webhook looks the run up and publishes to the user who triggered it (`HookPublish`): no row, no
message.  A run stands for a backfill of one partition with a row of its own.  The connection
is `WsRuns` without subscriptions: it subscribes when it opens.

### LanceChunks, ChunkWindows and MinhashClusters

`rows` is the table `chunks`.  A text is not spelled out: a row names its document, its window and the run
that added it.  A run of `chunks` reads, deletes the rows of its source and adds its own, two Lance
commits; a tagger reads the rows of its source, computes, and merges a column by `chunk_id`, one commit.
Row order, embeddings and the values of `attr_lang` and `attr_minhash` are left out; what a value was
computed *from* is kept (`Value`), since this is what can be wrong.  `chunk[k].met` is a history
variable: the runs that were under way at the same time.  Scores count halves; `nan` is a class of its own,
since `max(0.0, min(1.0, nan))` is `1.0` in Python.

`MinhashClusters` is `_cluster_rows`: one action per pair that the LSH index reports, in any order of the
neighbours, with `_find`'s path compression and `_union`'s ranks; then labels and heads.  The index itself is an
arbitrary symmetric relation.

### LlmGateway and Synthesis

`_check_rate_limit` has no await between its prune and its append, so a call is one action
(`Complete`); `Post` is the same call over HTTP, which may not arrive.  The window
belongs to the API process: `GatewayRestart` empties it.  `admitted` is a history variable.
A dataset run (`make[g]`) calls the gateway chunk by chunk and splits by a hash; a preview
(`preview[v]`) starts all its calls at once, and `asyncio.gather` ends with the first failure while the other
tasks go on.  Which answers are a sample differs between the two, and so does the default of
`fallback_on_failure`; the model follows each.  Rows and objects of a dataset are in `DatasetMaterialize`,
where a run's output is an opaque value: `Synthesis` is what is inside this value.

## 3 What the runs check

All passing runs are exhaustive; all are without deadlock check, since a
finite instance uses up its ids and then stops.

| Run | Instance | Distinct states | Checks |
|---|---|---|---|
| `dataset_requests` | 1 recipe, 2 requests, 2 rows, 2 backfills, 1 run at a time | 89,528 | `TypeOK`, `VersionsAreDense`, `LaunchedRowsExist`, `OneBackfillPerVersion`, `AcceptedIsNeverTombstoned`, `ClearedRowsStayFailed`, `ImplementsCatalogue` |
| `dataset_runs` | 1 row, 2 runs at a time, 3 attempts, 2 outputs | 41,675 | `DoneIsComplete`, `DoneIsCoherent` |
| `run_pair` | 2 triggers, 2 backfills, 1 handler, 1 source, fair | 616,900 | `TypeOK`, `RowsAreLaunched`, `StatusIsReported`, `StatusSettles` |
| `run_events` | 1 trigger, 2 sources, 2 handlers, symmetry | 531,195 | `PublishedWasCommitted`, `SerialIsCurrent`, `ToldIsPublished`, `ToldIsChained` |
| `ws_clients` | 2 connections of 2 users, 1 run, queue of 1 | 48,871 | `TypeOK`, `OwnersOnly`, `AckedIsRegistered` |
| `ws_queue` | 1 connection, 2 runs, queue of 2, 4 events | 385,217 | `DeliveredInOrder`, `LostByOverflowOnly` |
| `corpus` | 5 casts (below) of 2 sources, 2 extract runs, 2 requests, 2 chunk runs, 2 users, 2 connections; queue of 1; fair | 264,826 | `TypeOK`, `SourceIsComplete`, `OneCanonical`, `LostOnlyToCleanup`, `ToldIsTrue`, `ToldOnce`, `SubscribedWhileOpen`, `ImplementsCanonicalChoice`, `TransactionsEnd` |
| `lance` | 7 teams (below) of 1 source, 3 texts, 3 chunk runs, 3 taggers, 2 dataset runs, 1 preview; 2 calls per 2 ticks; 4 ids to cluster | 205,484 | `LanceTypeOK`, `OneGeneration`, `GenerationsAreWhole`, `TagsFollowTheRead`, `RateLimit`, `ErrorsAreFilteredOut`, `SamplesAreAccountedFor`, `ClustersAreComponents`, `TaggersKeepRows` |
| `dataset_tombstone`, `dataset_frozen`, `run_ended`, `ws_leak` | as small as the counterexample allows | - | one statement of the documentation each, violated (section 5) |

What they show:

- **Numbering.** `COUNT(*) + 1` is read in one statement and inserted in a later one.
  It still numbers densely, because the UNIQUE constraint turns a stale count
  into a 409 and rows are never deleted: a count that was overtaken is a number that is taken.
- **Launching.** A backfill is only launched for a committed row, a version at most
  once, and a row that names a backfill is never a tombstone.
- **Catalogue.** To clients, the interleaved handlers and runs look like atomic
  versions: `Create`, `Accept`, `Publish`, `Withdraw`.  `Withdraw` has to allow `done -> failed`:
  a launch whose answer is lost may be published before its tombstone is written.
- **Objects.** A `done` dataset has all five objects and the `recipe.json` of its row.
  The other objects agree with the counts in the row only as long as no run overlapped
  another or followed its success; `DoneIsCoherent` states exactly this condition.
- **Status.** Whatever is lost, repeated or reordered, a row only says what has happened to a task of
  its own backfill, and a published change had both its ends in the row.  When the sensors are done with a backfill
  and its last post met no other handler and was committed, the row shows what the task of that
  post has come to, in whatever order the sensors ran and whatever went wrong before: it is the post of the *current* status
  that makes up for swapped and lost events.  A mutant that posts the type of the log entry breaks this.
  Subscribers know what a poll returns, and were led there without a gap, unless handlers overlapped or one stopped between
  commit and publication, and until the next change that is published alone.
- **Subscriptions.** Restarts, double subscriptions and failing senders do not
  give a client another user's events, nor leave an acknowledged subscription without an entry.
- **Queues.** Drop-oldest loses an event only to a full queue of newer ones, of whichever run of the connection; the
  last status of one run can be pushed out by events of another.  This needs the condition that
  the client never subscribed to a run twice: a queue that is in the list twice gets every
  event twice, and the copies push out others.

- **Uploads.** Put, commit, register, report, in this order, and no call is retried: whatever is lost, a
  partition has a row and a row has its PDF.  (The converse fails by design: a 201 may leave a source without a partition.)
- **Canonical variants.** Counting, inserting, clearing and setting are separate statements of
  concurrent transactions.  The partial index, the row locks and the order CLEAR, SET keep exactly one
  canonical variant from the first variant on, and to readers each transaction is one step.
  A cycle of waits does not exist: `TransactionsEnd`.
- **Lost objects.** The keys do not name the run, so the cleanup of one run can take the document of another
  one's variant.  `LostOnlyToCleanup` says that this is the only way to lose one.  A mutant
  whose cleanup takes the whole prefix breaks it.
- **Notifications.** Only the user who triggered a run is told, of the run's source, and not before the variant
  is committed; twice only if the daemon or the API ended between the two posts, never for a lost answer.  That somebody is told at all is best effort.
- **Chunks.** Two generations of chunks are in the table at a time only if their runs overlapped, and a
  chunked source is empty only between the two commits of a run or after a failure there.  What is in the
  table of a run tiles the whole text.
- **Tags.** A column may belong to another text only if its row is newer than the tagger's read (the code
  does not compare); a merge never adds or removes rows, nor touches another column.
- **Rate limit.** Every stretch of a period has at most `Limit` calls, with mixed callers, calls
  whose tasks outlived their request, and entries at the edge of the window.
- **Samples.** No failed call becomes a sample of a filtered dataset, a chunk is left out only if the recipe allows
  it, and the split of one ratio is the same in every run, even over duplicate ids.
- **Clusters.** For every relation on four ids and every order of the pairs the clusters are its connected components.

### Bounds, and why they are enough

Ids are used up and not recycled, so the number of ids bounds the length of a
behaviour.  Two requests and two rows are what a race on a version number,
a tombstone beside an accepted row and a stale freeze check need;
the invariants about them are proved for any number (section 4).  `MaxAttempts = 3`
with two workers lets a run follow a failed one while a third overlaps.  Two sources
under one backfill make two tasks write one row, and two handlers make their commits
overlap (`run_events`).  `run_pair` is about orphans, retries and progress and has one handler.  Each has one kind of end
only (`Ends`): two kinds differ in the status that is written, and with two partitions, two handlers and all ends the states
are too many for TLC; the invariants are proved for all of them.
With a queue of two and four events a queue overflows while the sender holds one.
`MaxEntries` limits repeated subscription, `MaxEvents` the number of events.


In `corpus` and `lance` a *cast* or *team* is a set of actors that take part together, chosen in the initial state, so
that the states of different questions add instead of multiplying.  Each hazard has a cast with
all the actors it needs, and no more: two runs with two requests for the canonical variant; two
runs of one asset with two users and the daemon for notifications, and one run with two connections of one user or two; two generations with two taggers; three runs of chunks; a tagger, a preview
and the clock for the limiter (two calls in two ticks, three moments: an entry that just expires, one that
just does not, and a full window); two datasets over duplicates.  Texts have 3, 0 and 4 tokens with a budget of 2: a short last window, the fallback
for an empty text, an exact multiple.  Three runs and requests and more on one source are covered by proof.

### Fairness

`StatusSettles` and `TransactionsEnd` are the liveness properties.  The first assumes weak fairness of every
sensor and of every handler: the daemon evaluates each sensor on a timer and does not stop before its cursor is
stored every time (`SensorDrop` or `SensorPost`), and the
event loop resumes each handler when its statement returns.  Both include their
failures, so fairness does not make a call succeed.  Nothing is assumed
of triggers, nor of Dagster's tasks: a backfill may never start or never end.

`TransactionsEnd` assumes weak fairness of the statements of each transaction: a statement that is not
waiting for a lock returns, with or without an error, and the handler sends the next one.  A statement that
waits for ever is not helped by it, so the property is about the absence of deadlock and of endless conflicts.  Uploads, puts, sensors
and connections need no fairness.

### What is assumed of the outside

Dagster hands an asset sensor the newest entry after its cursor, and runs a partition only if it is
registered.  It stores an event together with the run record that it changes, so a sensor
that is given an event reads a record at least as recent.  A partition of a backfill is
run once in `RunLifecycle`: re-executions from Dagster's UI are left out there (`DatasetMaterialize` has them).  Lance commits are atomic, and `merge_insert` raises on two values for one row.  Postgres at READ COMMITTED
as described above.  LSH may report any symmetric relation.

## 4 What is proved

The theorems hold for any finite or infinite sets of requests, runs, ids, handlers
and connections (`DatasetIds` and the `Ids` of `MinhashClusters` have to be finite, since they are counted), and all
are checked by TLAPS to the last leaf.  Assumptions are the named ASSUMEs of the modules: `Null` is not a
value, bounds are numbers; chunk ids of `MinhashClusters` are numbers (`IdsAreNumbers`), and its
relations are symmetric (`NeighboursAreMutual`), as neighbours in a bucket of an index are.

`DatasetMaterialize_proofs`: `TypeCorrect`, `Versions`, `LaunchedRows`,
`LaunchedOnce`, `Accepted`, `Cleared`, `Complete`, `Coherent` and `Implements`.  They rest on three inductive invariants.

- `LaunchInv` relates requests and tables.  `OneBackfillPerVersion` alone is not
  inductive: a request about to launch must know that no backfill has its key.  So the
  invariant says that a request between insert and end owns its row, alone
  (`OwnersHaveRows`, `OwnersAreDistinct`), that before its launch no backfill has its
  key (`NotYetLaunched`), and that the id it records is that of its key
  (`RecordsItsBackfill`).  `CountIsNoLead` says that a count held by a request is at most the
  real one; with density, an unused number is then exactly the next one.  That step is a
  pigeonhole argument over the finite set of rows (`FreeVersionIsNext`).
- `UploadInv` relates a run's progress to the store: the objects before `next`
  are there, and `recipe.json` is the row's snapshot.
- `OrderlyInv` is for `DoneIsCoherent`.  As long as a dataset is `orderly`, a run of it is alone and the row is not
  `done`, so every object below the run's `next` is the run's own (`OrderlyRuns`); the step that makes the row
  `done` is the end of this run (`BecomesDone`), and its counts are those of the objects.

`RunLifecycle_proofs`: `TypeCorrect`, `Launched`, `Reported`, `Committed`, `Current`,
`Published` and `Chained`, from one invariant, `LifecycleInv`.

- `RowInv` is about triggers.  `RowsAreLaunched` needs to know what happens between launch and insert:
  the backfill belongs to its trigger alone (`LaunchIsOwned`), and the row is not there (`InsertedLast`).
- `HandlerInv` is about overlapping handlers.  `StatusIsReported` would fail if a handler
  could skip the write of the status and set only a timestamp on a row that has become pending again;
  `PrevIsNoLead` excludes that: a row is not pending once a handler has loaded another status.
- `DagsterInv` and `PostsAreTrue`: the log and the run records agree, and since a task that has ended stays ended, what a post says of
  an end stays true; a post of a start may be overtaken, which is where `StatusIsReported` claims only that a task has started.
- `TrackInv` is about a backfill whose last post was alone (`Tracked`): one handler at most is at work, on this post, and at each of
  its steps the row is the one it loaded or wrote.  `IsFresh` is the heart of `SerialIsCurrent`: what the row shows, or the
  handler will write, is what the task has come to, *or a sensor has an event of the backfill still to deal with*.  When a task goes on,
  its new event is that one; when the sensors are done, only the first case is left.  `MetItsRow` covers events that
  arrive before the row, `NoneDealtWith` a backfill without a post.
- `ToldInv` says the same of subscribers for a backfill that is not in `untold`: before the commit they know what the row shows,
  after it the status the handler loaded.
- Types; a handler's event is in the log, which only grows.

`WsRuns_proofs`: `TypeCorrect`, `Owners`, `Acked`, `InOrder` and `Overflow`.

- `OwnersOnly` follows from the queues: an entry of the broker, and so every event of a queue, is of
  a run of the connection's user (`EntriesAreOwned`), and the answer of an ownership check
  stays right across the await (`AnswersAreCurrent`), because a run keeps its owner.
- `DeliveredInOrder` needs the whole way of an event: what was delivered, what the
  sender holds and what is queued, one after the other, is in the order of publication.
  The lemmas on the drop-oldest queue (`DroppedQueue`, `PublishedQueue`) say that a publication leaves
  an end of the old queue followed by copies of the new event.
- `LostByOverflowOnly` counts the events that are due to a client and newer than a lost one.  A lost event
  was pushed out of a *full* queue, and what was in the queue then is newer, due, and all different.  So `OverflowInv` says
  that without a double subscription the broker has one entry per subscription (`SingleEntries`),
  that the queue is strictly increasing and a part of what is due (`Accounted`); a pigeonhole argument makes the queue's length
  a lower bound of the count (`IncreasingCount`).  Later publications only add to the count.

`Documents_proofs`: `TypeCorrect`, `Complete`, `OnlyCleanupLoses`, `Canonical` and `Implements`, for any number
of sources, runs and requests, from the ASSUMEs `UploadedIsKnown` and `NullIsNoActor`.

- `UploadInv` adds to `SourceIsComplete` what each step of an upload knows of the steps before it.
- `WrittenInv`: a run past its puts has written both objects (`RunsHaveWritten`), a variant's run is
  past its commit (`VariantsAreWritten`), and *whatever a run has written* is there or was taken away by a failed
  run that had written it as well (`WroteOrLost`).  The last part has to hold for all runs, not only for those with a variant.
- `TransInv` is `OneCanonical` with what the transactions know before they commit.  A first variant is
  inserted by one transaction alone, on a source without any (`FirstIsAlone`, from the index); a run that is not
  first has a source with variants (`CountIsNoLead`); one request at a time has changed rows of a source
  (`OneChanges`, from the locks), and what it changed is still current (`ChangesAreCurrent`).  The step
  that matters is CLEAR: its snapshot is older than its locks, and the proof shows that a request which cleared a row
  under `ClearWaits` cannot meet another one that has changed rows of the source.
- `IdInv`: ids are given once.  With it the canonical id names one row, and `Implements` follows, commit by commit.

`Notifications_proofs`: `CorpusIsDocuments`, `ToldTruly`, `TellsOnce`, `Subscribed` and `DocumentsInCorpus`, for any
corpus, users, connections, queue size and number of crashes.

- `CorpusIsDocuments` shows that every step of the composition is a step of `Documents` or a stutter; the theorems of
  `Documents_proofs` then hold of the composition, and its invariants are at hand for the rest.
- `ToldIsTrue` depends on the order of two processes: a run that is about to be recorded in Dagster's log
  has a variant to show for it (`RunsHaveVariants`), hence so does every entry of the log (`LogIsTrue`); what is on the
  way to a client is the event of an entry whose run the client's user triggered (`ToldAsMeant`), since a run keeps its owner
  and the log only grows.
- `ToldOnce` needs the whole way of a post.  An entry that was posted since the last end of a process is behind the cursor or is the one
  of the current evaluation (`Sent`, `Posted`), a sensor posts only entries that are neither
  (`TicksAhead`), and the event of a post is in one place: webhook, queue, sender or client (`OnceInv`, `OnePlace`).
  That the queue gets one copy is `SubscribedWhileOpen`.

`LanceChunks_proofs`, about the gateway: `Limited`, for any limit and period.  `RateLimit` speaks of every stretch of the history, the code keeps
a window only.  `WindowCounts` ties them: the window is the history without a prefix of calls that are all
a period old.  A call is admitted when the window has room, and a stretch that ends with it and lies within
a period starts after that prefix.

`LanceChunks_proofs`, about the table: `LanceTypeCorrect`, `Generation`, `Whole`, `Tagged`, `ColumnsOnly` and `LanceLimited`, for any sources,
texts, runs and taggers, any budget, and any interleaving with gateway calls.

- `WindowsTile` is about the loop of `fixed_size_chunk` alone: for every length of a text and every budget, each token is in
  exactly one window, and no window is empty or longer than the budget.
- `OneGeneration`: a row in the table comes from a run that is done (`RowsKnown`); two runs under way at a time know of
  each other (`RunsMeet`); and what a run finds in its source when it adds, after its own delete, was
  added by runs it has met (`AddsMeet`).  This last part is why the history variable `met` has to be symmetric and to grow.
- `GenerationsAreWhole` is not inductive in itself, because a reader sees windows only: `RowsWhole` says that a row has
  all the other rows of its run beside it, which one commit that adds and one commit that deletes a source keep.
- `TagsFollowTheRead`: a result pairs a position with a value of the text read there (`ResultsKnown`), and what was read are
  whole generations (`ReadsWhole`), so that a merge by `chunk_id` gives each row that was read its own value.

`Synthesis_proofs`: `NoErrors`, `Accounted`, `TableAmongReaders` and `ColumnsAmongReaders`.  The datasets and previews read the table
and share the gateway, so the invariants of the two modules before are kept (`TableAmongReaders`).
`ErrorsAreFilteredOut` rests on a property of the *table*: every error a tagger stores has the score 0.0
(`ErrorsScoreZero`), in its results as in the rows.  `SamplesAreAccountedFor` follows from `MakeOK`: read rows are samples, skipped or to do,
each exactly one of these, and nothing is skipped without the recipe's fallback.

`MinhashClusters_proofs`: `Clusters`, for any finite set of ids, any symmetric relation and any order of its pairs.  `Root`, `Path` and
`Component` are recursive functions, and the provers cannot apply the library's induction theorems.  What replaces them
is that a set of numbers has a smallest and a finite set a highest element (`SmallestExists`, `HighestExists`, from a well-founded
ordering of finite sets).

- The recursive functions satisfy their equations: `PathEquation` and `RootEquation` exhibit a solution, so the
  CHOOSE behind a recursive function finds one.
- `Forest` says that ranks grow towards the roots.  Hence every node has a root (`RootFound`), `_find` keeps
  all roots (`CompressKeepsRoots`), and a root that gets a parent takes its tree along (`LinkedRoots`); so `_union` joins the trees
  of its two ids, no others, and keeps `Forest` (`UniteJoins`).
- `ComponentSmallest`: the reference definition, a chain of at most as many steps as there are ids, is the smallest set that
  has the id and all neighbours of its members (`ComponentStops` counts).
- `ClusterInv`, the inductive invariant: what the loops have united is in one tree (`UnitedPairs`), and no tree leaves
  a set that is closed under neighbours (`TreesInComponents`).  The first gives one half of the theorem when no pair is left, the
  second the other.  `NeighboursAreMutual` is needed for the second.
- `Positions`: labels count the first ids of trees that are smaller, so n trees have the labels 0 to n - 1.

Consequences, which no run checks:

- `ListedVersionsSettle` (`DatasetMaterialize_proofs`) and `LaterRunsKeepChoice` (`Documents_proofs`) say what a client concludes from the abstract
  specifications alone: what is listed of a version stays, an accepted one only goes from `pending` to `done`; a
  later extraction never changes the canonical variant.  The refinements carry them over to the detailed models.
- `NoWaitCycle` (`Documents_proofs`) is the safety half of `TransactionsEnd`: whoever waits for a lock has before it a transaction
  on the same source that waits for nobody.  It follows from `OneChanges`.

Only model-checked: `StatusSettles` and `TransactionsEnd`, since TLAPS does not reason about liveness under fairness (nor about
ENABLED).

## 5 What the models found

Four statements of the documentation that the code does not keep; each has a run
that TLC ends with a counterexample.

1. `TombstoneHasNoData`: `recipes.py` says that failed rows have no data in MinIO.
   A launch that was executed and whose answer timed out makes a tombstone, and then its data.
2. `DefinitionIsFrozen`: `recipes.py` says that the definition does not change after a dataset
   was produced.  A dataset can be inserted and published between the check and the commit of an update.
3. `EndedStaysEnded`: `contracts/S050-F-050/feedback.md` accepts that there is no guard on
   status transitions, "given Dagster delivers events in order within a run".  Posted in order is not handled in order: a sensor
   waits five seconds for an answer and goes on.  A slow handler of `RUN_START` that has loaded the row can commit
   after the handler of `RUN_SUCCESS`, and an ended run then shows `running` for good.  (A start that is merely
   *evaluated* late does no harm, since it is posted with the status that the run has by then.)
4. `ClosedLeavesNothing`: `contracts/S051-F-051/agreed.md` says that the `finally` block cleans up on all paths.
   A second subscribe to the same run leaves an entry of a dead queue in the broker.

Remarks from reading and modelling, without a run of their own:

- A comment of `dag/docling_io_manager.py` (171-173) says of concurrent runs' keys that "cleanup cannot affect them".  The runs
  of a source write the same keys, so it can; `LostOnlyToCleanup` says exactly when.
- `api/routers/documents.py` reads `documents/{source}/extract_mineru/...` inside the bucket `documents`, while the IO manager
  writes `{source}/extract_mineru/...`.
- A source without a collection cannot be chunked (`int(None)` in the asset `chunks`), and the chunker reads a fixed path, not the canonical variant.
- A failed re-scoring overwrites a good score with 0.0; a 429 is not retried.  `nan` scores 1.0.
- Texts of fewer than three words share the empty MinHash and form one cluster.
- `int(val_ratio * 100)` turns 0.29 into 28.
- `fallback_on_failure` is on by default in a dataset run and off in a preview; the placeholders are `{chunk_text}` and `{text}`.
  In mock mode (`"0.5"`) datasets are therefore empty, and previews without fallback fail.
- An asset sensor passes over all but the newest materialization of an evaluation, although its docstring says that it fires after each.
- An upload whose partition was not registered is answered 201 and never retried.

## 6 What is not modelled

- Read-only endpoints (lists, details, chunk queries, document rendering): no state.  The lineage walk of `chunks.py` follows
  `augmented_from`, which nothing sets, so it ends at once.
- `create_collection`, a plain insert.
- `update_*_in_lance` and `write_chunks_to_lance`, which nothing calls any more.
- The content of documents and chunks, prompts, costs, and the protocols of LLM providers.
- `get_run_status`, `get_dagster_version` and the hello-world job.
- Authentication beyond the ownership test of `ws/runs`, operators, the seeding CLI.
- The schema apart from the constraints that guard inserts; storage clients.
- The web front end, which has login and placeholder pages.

## 7 The plan

Done, in this order: `DatasetMaterialize` with `DatasetCatalogue` and its proofs, `RunLifecycle`, `EventBroker`, `WsRuns`,
`Documents` with `CanonicalChoice` and its proofs, `Notifications`, `LanceChunks` with `ChunkWindows`, `LlmGateway` and
`Synthesis`, `MinhashClusters`; then the proofs about `LlmGateway`, `LanceChunks`, `Synthesis` and `Notifications`, and those of
`DoneIsCoherent`, `LostByOverflowOnly` and `ClustersAreComponents`; last, what clients conclude from the abstract specifications.
Of what the passing runs check, every invariant, the action properties and both refinements are proved.

Next: `RunEvents`, webhook, broker and `ws/runs` composed: what a client that polls after its acknowledgement knows.
