---------------------------- MODULE RunLifecycle ----------------------------
(***************************************************************************)
(* A pipeline run from POST /api/runs to its terminal status.  The trigger *)
(* launches a Dagster backfill and inserts a row of the table `run`;       *)
(* Dagster executes one task per partition of the backfill; four status    *)
(* sensors read Dagster's event log, each with its own cursor, and post to *)
(* POST /api/dagster/events what the task of an event has come to by then. *)
(* Its handlers update the row that has the backfill's id and publish the  *)
(* change to the event broker.                                             *)
(*                                                                         *)
(* One action is one step between two awaits of a handler, one HTTP call   *)
(* of a sensor or one event of Dagster.  A timestamp is represented by the *)
(* log position of the event it was posted for, 0 for NULL.                *)
(***************************************************************************)
EXTENDS Integers, Sequences, FiniteSets, DagsterGateway

CONSTANTS
    Triggers,       \* POST /api/runs requests, and the run row each inserts
    Sources,        \* source ids, which are also the partition keys
    BackfillIds,    \* ids Dagster can hand out (a bound for TLC)
    Handlers,       \* webhook requests in progress at the same time
    Ends,           \* the ways a task may end (a bound for TLC)
    Null

\* One sensor per type.
EndTypes == {"RUN_SUCCESS", "RUN_FAILURE", "RUN_CANCELED"}
EventTypes == {"RUN_START"} \cup EndTypes

\* The status of a task in Dagster's run record; "QUEUED" is all before STARTED.
Ended == {"SUCCESS", "FAILURE", "CANCELED"}
TaskStatuses == {"NONE", "QUEUED", "STARTED", "CANCELING"} \cup Ended

\* _EVENT_TYPE_MAP, by the status of the run record.
EventTypeMap ==
    [status \in {"STARTED"} \cup Ended |->
        CASE status = "STARTED" -> "RUN_START"
          [] status = "SUCCESS" -> "RUN_SUCCESS"
          [] status = "FAILURE" -> "RUN_FAILURE"
          [] status = "CANCELED" -> "RUN_CANCELED"]

ASSUME EndsAreStatuses == Ends \subseteq Ended

ASSUME NullIsNoValue == Null \notin Triggers \cup BackfillIds \cup Nat

VARIABLES
    request,        \* handler state of each trigger
    run,            \* the run table, one record per trigger
    registered,     \* keys of Dagster's dynamic partitions "sources"
    backfills,      \* Dagster's backfills: the keys of each, {} before its launch
    task,           \* Dagster's run record of each partition of each backfill
    log,            \* Dagster's event log, status events only
    cursor,         \* the last log position each sensor has dealt with
    handler,        \* webhook handlers
    published,      \* history: the last broker event of each run
    shown,          \* history: the statuses each row has had
    reported,       \* history: the last event of each backfill that was posted, 0
                    \* before the first; Null while its outcome is lost or overlapped
    untold          \* history: backfills whose last change may not have been published

triggerVars == <<request, registered, backfills>>
dagsterVars == <<task, log>>
historyVars == <<published, shown, reported, untold>>
vars == <<request, run, registered, backfills, task, log, cursor, handler,
          published, shown, reported, untold>>
-----------------------------------------------------------------------------
\* Mutation: the row gets Dagster's word for the state.
StatusOfDagster(type) ==
    CASE type = "RUN_START" -> "started"
      [] type = "RUN_SUCCESS" -> "success"
      [] type = "RUN_FAILURE" -> "failure"
      [] type = "RUN_CANCELED" -> "canceled"

\* The status a webhook event writes.
StatusOf(type) ==
    CASE type = "RUN_START" -> "running"
      [] type = "RUN_SUCCESS" -> "success"
      [] type \in {"RUN_FAILURE", "RUN_CANCELED"} -> "failure"

Statuses == {"pending", "running", "success", "failure"}

AbsentRun == [status |-> "absent", run |-> Null, keys |-> {}, started |-> 0, ended |-> 0]

IdleRequest == [pc |-> "idle", keys |-> {}, todo |-> {}, run |-> Null]

\* What a subscriber knows before the first event of a run.
NoEvent == [from |-> "pending", to |-> "pending"]

IdleHandler == [pc |-> "idle", event |-> 0, type |-> "none", row |-> Null, prev |-> "pending"]

Inserted(t) == run[t].status # "absent"

\* The events that the sensor of a type has not dealt with yet.
Pending(type) == {n \in (cursor[type] + 1)..Len(log) : log[n].type = type}

NextEvent(type) == CHOOSE n \in Pending(type) : \A m \in Pending(type) : n <= m

\* Webhook handlers at work on events of backfill b.
Busy(b) == {h \in Handlers : handler[h].pc # "idle" /\ log[handler[h].event].run = b}

\* The status that context.dagster_run has when event n is evaluated: the run
\* record of the task that logged it, as it is now.
StatusNow(n) == task[log[n].run][log[n].key]

\* History: event n is posted, and either meets no handler of its backfill ...
Report(n) ==
    LET b == log[n].run
    IN  /\ reported' = [reported EXCEPT ![b] = IF Busy(b) = {} THEN n ELSE Null]
        /\ untold' = IF Busy(b) = {} THEN untold ELSE untold \cup {b}

\* ... or its outcome is lost.
Lose(n) == reported' = [reported EXCEPT ![log[n].run] = Null] /\ untold' = untold
-----------------------------------------------------------------------------
(* POST /api/runs.                                                         *)

\* Steps 1 and 2: all sources exist; their ids become partition keys.
TriggerStart(t) ==
    /\ request[t].pc = "idle"
    /\ \E keys \in (SUBSET Sources) \ {{}} :
          request' = [request EXCEPT ![t] = [pc |-> "partitions", keys |-> keys,
                                             todo |-> keys, run |-> Null]]
    /\ UNCHANGED <<run, registered, backfills, dagsterVars, cursor, handler, historyVars>>

\* Step 3: register the partition keys one by one; errors are swallowed.
TriggerPartition(t) ==
    /\ request[t].pc = "partitions"
    /\ \E k \in request[t].todo, o \in CallOutcomes :
          /\ registered' = AddSourcePartition(registered, k, o)
          /\ request' = [request EXCEPT
                ![t].todo = @ \ {k},
                ![t].pc = IF request[t].todo = {k} THEN "launch" ELSE @]
    /\ UNCHANGED <<run, backfills, dagsterVars, cursor, handler, historyVars>>

\* Mutation: keys whose registration failed are left out of the backfill.
TriggerLaunchRegistered(t) ==
    /\ request[t].pc = "launch"
    /\ LET keys == request[t].keys \cap registered
       IN  \E o \in SourceLaunchOutcomes(registered, keys),
              b \in {x \in BackfillIds : backfills[x] = {}} :
              /\ backfills' = LaunchSourceBackfill(backfills, b, keys, o)
              /\ task' = IF Executed(o)
                         THEN [task EXCEPT ![b] = [k \in Sources |->
                                  IF k \in keys THEN "QUEUED" ELSE "NONE"]]
                         ELSE task
              /\ request' = [request EXCEPT ![t] =
                                [@ EXCEPT !.pc = IF Raises(o) THEN "done" ELSE "insert",
                                          !.run = IF Raises(o) THEN Null ELSE b]]
    /\ UNCHANGED <<run, registered, log, cursor, handler, historyVars>>

\* Step 4: launch the backfill; an error ends the request with 503 and no row.
TriggerLaunch(t) ==
    /\ request[t].pc = "launch"
    /\ \E o \in SourceLaunchOutcomes(registered, request[t].keys),
          b \in {x \in BackfillIds : backfills[x] = {}} :
          /\ backfills' = LaunchSourceBackfill(backfills, b, request[t].keys, o)
          /\ task' = IF Executed(o)
                     THEN [task EXCEPT ![b] = [k \in Sources |->
                              IF k \in request[t].keys THEN "QUEUED" ELSE "NONE"]]
                     ELSE task
          /\ request' = [request EXCEPT ![t] =
                            [@ EXCEPT !.pc = IF Raises(o) THEN "done" ELSE "insert",
                                      !.run = IF Raises(o) THEN Null ELSE b]]
    /\ UNCHANGED <<run, registered, log, cursor, handler, historyVars>>

\* Step 5: insert the row, commit, 202.
TriggerInsert(t) ==
    /\ request[t].pc = "insert"
    /\ run' = [run EXCEPT ![t] = [status |-> "pending", run |-> request[t].run,
                                  keys |-> request[t].keys, started |-> 0, ended |-> 0]]
    /\ shown' = [shown EXCEPT ![t] = {"pending"}]
    /\ request' = [request EXCEPT ![t].pc = "done"]
    /\ UNCHANGED <<registered, backfills, dagsterVars, cursor, handler, published, reported,
                   untold>>

\* The API process stops, or the insert fails: a launched backfill has no row.
TriggerDies(t) ==
    /\ request[t].pc \in {"partitions", "launch", "insert"}
    /\ request' = [request EXCEPT ![t].pc = "done"]
    /\ UNCHANGED <<run, registered, backfills, dagsterVars, cursor, handler, historyVars>>
-----------------------------------------------------------------------------
(* Dagster: one task per backfill and partition key.                       *)

TaskStart(b, k) ==
    /\ task[b][k] = "QUEUED"
    /\ task' = [task EXCEPT ![b][k] = "STARTED"]
    /\ log' = Append(log, [run |-> b, key |-> k, type |-> "RUN_START"])
    /\ UNCHANGED <<triggerVars, run, cursor, handler, historyVars>>

\* A request to terminate a task: a status that _EVENT_TYPE_MAP does not have.
TaskCancel(b, k) ==
    /\ task[b][k] = "STARTED"
    /\ task' = [task EXCEPT ![b][k] = "CANCELING"]
    /\ UNCHANGED <<triggerVars, run, log, cursor, handler, historyVars>>

\* A task that did not start can fail to launch or be canceled.
TaskEnd(b, k) ==
    /\ \E status \in Ends :
          /\ \/ task[b][k] \in {"STARTED", "CANCELING"}
             \/ task[b][k] = "QUEUED" /\ status # "SUCCESS"
          /\ task' = [task EXCEPT ![b][k] = status]
          /\ log' = Append(log, [run |-> b, key |-> k, type |-> EventTypeMap[status]])
    /\ UNCHANGED <<triggerVars, run, cursor, handler, historyVars>>
-----------------------------------------------------------------------------
(* The sensors: fastapi_run_{started,success,failure,canceled}_sensor.     *)

\* A handler that has received a post of the given type for event n.
Receiving(n, type) == [IdleHandler EXCEPT !.pc = "select", !.event = n, !.type = type]

\* Mutation: the cursor moves to the end of the log.
SensorPostSkipping(type, h) ==
    /\ Pending(type) # {}
    /\ handler[h].pc = "idle"
    /\ LET n == NextEvent(type)
       IN  /\ StatusNow(n) \in DOMAIN EventTypeMap
           /\ handler' = [handler EXCEPT ![h] = Receiving(n, EventTypeMap[StatusNow(n)])]
           /\ Report(n)
    /\ cursor' = [cursor EXCEPT ![type] = Len(log)]
    /\ UNCHANGED <<triggerVars, run, dagsterVars, published, shown>>

\* Mutation: the post has the type of the log entry, whatever happened since.
SensorPostLogged(type, h) ==
    /\ Pending(type) # {}
    /\ handler[h].pc = "idle"
    /\ LET n == NextEvent(type)
       IN  /\ handler' = [handler EXCEPT ![h] = Receiving(n, log[n].type)]
           /\ cursor' = [cursor EXCEPT ![type] = n]
           /\ Report(n)
    /\ UNCHANGED <<triggerVars, run, dagsterVars, published, shown>>

\* The request arrives, with the type of the task's status at this moment, which
\* need not be the status that the sensor is for.  The sensor waits at most 5
\* seconds for the answer, so the handler may still be running when it goes on.
SensorPost(type, h) ==
    /\ Pending(type) # {}
    /\ handler[h].pc = "idle"
    /\ LET n == NextEvent(type)
       IN  /\ StatusNow(n) \in DOMAIN EventTypeMap
           /\ handler' = [handler EXCEPT ![h] = Receiving(n, EventTypeMap[StatusNow(n)])]
           /\ cursor' = [cursor EXCEPT ![type] = n]
           /\ Report(n)
    /\ UNCHANGED <<triggerVars, run, dagsterVars, published, shown>>

\* The event is dropped for good: the call fails before it arrives, or the status
\* is none of the map (KeyError, which Dagster records before it goes on).
SensorDrop(type) ==
    /\ Pending(type) # {}
    /\ cursor' = [cursor EXCEPT ![type] = NextEvent(type)]
    /\ Lose(NextEvent(type))
    /\ UNCHANGED <<triggerVars, run, dagsterVars, handler, published, shown>>

\* The daemon stops after the call and before its cursor is stored.
SensorPostUnsaved(type, h) ==
    /\ Pending(type) # {}
    /\ handler[h].pc = "idle"
    /\ LET n == NextEvent(type)
       IN  /\ StatusNow(n) \in DOMAIN EventTypeMap
           /\ handler' = [handler EXCEPT ![h] = Receiving(n, EventTypeMap[StatusNow(n)])]
           /\ Report(n)
    /\ UNCHANGED <<triggerVars, run, dagsterVars, cursor, published, shown>>
-----------------------------------------------------------------------------
(* POST /api/dagster/events, run-status events.                            *)

\* Mutation: the row is looked up by the state of the trigger, not by the id.
SelectPendingRow(h) ==
    /\ handler[h].pc = "select"
    /\ \E t \in Triggers :
          /\ Inserted(t)
          /\ handler' = [handler EXCEPT ![h] = [@ EXCEPT !.pc = "commit", !.row = t,
                                                         !.prev = run[t].status]]
    /\ UNCHANGED <<triggerVars, run, dagsterVars, cursor, historyVars>>

\* Check 4: load the row and remember its status.
HandlerSelect(h) ==
    /\ handler[h].pc = "select"
    /\ \E t \in Triggers :
          /\ run[t].run = log[handler[h].event].run
          /\ handler' = [handler EXCEPT ![h] = [@ EXCEPT !.pc = "commit", !.row = t,
                                                         !.prev = run[t].status]]
    /\ UNCHANGED <<triggerVars, run, dagsterVars, cursor, historyVars>>

\* Check 4, no row: 200 with processed = false, which drops the event.
HandlerUnknownRun(h) ==
    /\ handler[h].pc = "select"
    /\ \A t \in Triggers : run[t].run # log[handler[h].event].run
    /\ handler' = [handler EXCEPT ![h] = IdleHandler]
    /\ Lose(handler[h].event)
    /\ UNCHANGED <<triggerVars, run, dagsterVars, cursor, published, shown>>

\* The UPDATE of a post: a status equal to the loaded one is not written (the
\* session writes changed attributes only), a timestamp always is.
Updated(row, prev, n, type) ==
    [row EXCEPT !.status = IF StatusOf(type) # prev THEN StatusOf(type) ELSE @,
                !.started = IF type = "RUN_START" THEN n ELSE @,
                !.ended = IF type \in EndTypes THEN n ELSE @]

\* Mutation: a failed commit is swallowed.
CommitSwallowed(h) ==
    /\ handler[h].pc = "commit"
    /\ LET t == handler[h].row
           post == handler[h]
       IN  /\ run' \in {run, [run EXCEPT ![t] = Updated(@, post.prev, post.event, post.type)]}
           /\ shown' = [shown EXCEPT ![t] = @ \cup {run'[t].status}]
           /\ handler' = [handler EXCEPT ![h] =
                 IF StatusOf(post.type) # post.prev THEN [@ EXCEPT !.pc = "publish"]
                 ELSE IdleHandler]
    /\ UNCHANGED <<triggerVars, dagsterVars, cursor, published, reported, untold>>

\* Check 5a up to the commit.
HandlerCommit(h) ==
    /\ handler[h].pc = "commit"
    /\ LET t == handler[h].row
           post == handler[h]
       IN  /\ run' = [run EXCEPT ![t] = Updated(@, post.prev, post.event, post.type)]
           /\ shown' = [shown EXCEPT ![t] = @ \cup {run'[t].status}]
           /\ handler' = [handler EXCEPT ![h] =
                 IF StatusOf(post.type) # post.prev THEN [@ EXCEPT !.pc = "publish"]
                 ELSE IdleHandler]
    /\ UNCHANGED <<triggerVars, dagsterVars, cursor, published, reported, untold>>

\* History: a handler that was alone all the time has told its change.
Tell(h) ==
    LET b == log[handler[h].event].run
    IN  untold' = IF reported[b] # Null THEN untold \ {b} ELSE untold

\* Mutation: `from` is read after the commit.
PublishFromCurrent(h) ==
    /\ handler[h].pc = "publish"
    /\ published' = [published EXCEPT ![handler[h].row] =
                        [from |-> run[handler[h].row].status, to |-> StatusOf(handler[h].type)]]
    /\ handler' = [handler EXCEPT ![h] = IdleHandler]
    /\ Tell(h)
    /\ UNCHANGED <<triggerVars, run, dagsterVars, cursor, shown, reported>>

\* Check 5a after the commit: the status changed, so tell the subscribers.
HandlerPublish(h) ==
    /\ handler[h].pc = "publish"
    /\ published' = [published EXCEPT ![handler[h].row] =
                        [from |-> handler[h].prev, to |-> StatusOf(handler[h].type)]]
    /\ handler' = [handler EXCEPT ![h] = IdleHandler]
    /\ Tell(h)
    /\ UNCHANGED <<triggerVars, run, dagsterVars, cursor, shown, reported>>

\* A database error (500, which the sensor ignores) or a stop of the process.
HandlerDies(h) ==
    /\ handler[h].pc \in {"select", "commit"}
    /\ handler' = [handler EXCEPT ![h] = IdleHandler]
    /\ Lose(handler[h].event)
    /\ UNCHANGED <<triggerVars, run, dagsterVars, cursor, published, shown>>

\* ... when the row is committed, or was and the answer of the commit is lost.
HandlerDiesUntold(h) ==
    /\ handler[h].pc = "publish"
    /\ handler' = [handler EXCEPT ![h] = IdleHandler]
    /\ untold' = untold \cup {log[handler[h].event].run}
    /\ UNCHANGED <<triggerVars, run, dagsterVars, cursor, published, shown, reported>>
-----------------------------------------------------------------------------
Init ==
    /\ request = [t \in Triggers |-> IdleRequest]
    /\ run = [t \in Triggers |-> AbsentRun]
    /\ registered = {}
    /\ backfills = [b \in BackfillIds |-> {}]
    /\ task = [b \in BackfillIds |-> [k \in Sources |-> "NONE"]]
    /\ log = << >>
    /\ cursor = [type \in EventTypes |-> 0]
    /\ handler = [h \in Handlers |-> IdleHandler]
    /\ published = [t \in Triggers |-> NoEvent]
    /\ shown = [t \in Triggers |-> {}]
    /\ reported = [b \in BackfillIds |-> 0]
    /\ untold = {}

TriggerNext(t) ==
    \/ TriggerStart(t)
    \/ TriggerPartition(t)
    \/ TriggerLaunch(t)
    \/ TriggerInsert(t)
    \/ TriggerDies(t)

TaskNext(b, k) == TaskStart(b, k) \/ TaskCancel(b, k) \/ TaskEnd(b, k)

SensorNext(type) ==
    \/ \E h \in Handlers : SensorPost(type, h)
    \/ \E h \in Handlers : SensorPostUnsaved(type, h)
    \/ SensorDrop(type)

HandlerNext(h) ==
    \/ HandlerSelect(h)
    \/ HandlerUnknownRun(h)
    \/ HandlerCommit(h)
    \/ HandlerPublish(h)
    \/ HandlerDies(h)
    \/ HandlerDiesUntold(h)

Next ==
    \/ \E t \in Triggers : TriggerNext(t)
    \/ \E b \in BackfillIds, k \in Sources : TaskNext(b, k)
    \/ \E type \in EventTypes : SensorNext(type)
    \/ \E h \in Handlers : HandlerNext(h)

Spec == Init /\ [][Next]_vars

\* The daemon evaluates every sensor again and again and does not stop before its
\* cursor is stored every time; the event loop resumes every handler.  Nothing
\* makes a backfill start or end.
Fairness ==
    /\ \A type \in EventTypes :
          WF_vars(SensorDrop(type) \/ \E h \in Handlers : SensorPost(type, h))
    /\ \A h \in Handlers : WF_vars(HandlerNext(h))

FairSpec == Spec /\ Fairness
-----------------------------------------------------------------------------
Row == [status : Statuses \cup {"absent"}, run : BackfillIds \cup {Null},
        keys : SUBSET Sources, started : Nat, ended : Nat]

TypeOK ==
    /\ request \in [Triggers -> [pc : {"idle", "partitions", "launch", "insert", "done"},
                                 keys : SUBSET Sources, todo : SUBSET Sources,
                                 run : BackfillIds \cup {Null}]]
    /\ run \in [Triggers -> Row]
    /\ registered \in SUBSET Sources
    /\ backfills \in [BackfillIds -> SUBSET Sources]
    /\ task \in [BackfillIds -> [Sources -> TaskStatuses]]
    /\ log \in Seq([run : BackfillIds, key : Sources, type : EventTypes])
    /\ cursor \in [EventTypes -> Nat]
    /\ handler \in [Handlers -> [pc : {"idle", "select", "commit", "publish"},
                                 event : Nat, type : EventTypes \cup {"none"},
                                 row : Triggers \cup {Null}, prev : Statuses]]
    /\ published \in [Triggers -> [from : Statuses, to : Statuses]]
    /\ shown \in [Triggers -> SUBSET Statuses]
    /\ reported \in [BackfillIds -> Nat \cup {Null}]
    /\ untold \in SUBSET BackfillIds

\* A row names one backfill that was launched for exactly its partitions, and no
\* other row names it, although launch and insert are separate steps.
RowsAreLaunched ==
    \A t \in Triggers : Inserted(t) =>
       /\ run[t].keys # {} /\ backfills[run[t].run] = run[t].keys
       /\ \A u \in Triggers : run[u].run = run[t].run => u = t

\* However webhook requests overlap, repeat, come late or get lost, a row says
\* nothing that did not happen to its own backfill: it has started if a task has,
\* it has ended well or badly only if a task has, with an end time only then, and
\* it is pending as long as nothing has reached it.
StatusIsReported ==
    \A t \in Triggers : Inserted(t) =>
       LET b == run[t].run
           own(n) == n \in 1..Len(log) /\ log[n].run = b
           came(statuses) == \E k \in Sources : task[b][k] \in statuses
       IN  /\ run[t].started # 0 => own(run[t].started) /\ log[run[t].started].type = "RUN_START"
           /\ run[t].ended # 0 => own(run[t].ended) /\ StatusNow(run[t].ended) \in Ended
           /\ run[t].status = "running" => run[t].started # 0
           /\ run[t].status = "success" => run[t].ended # 0 /\ came({"SUCCESS"})
           /\ run[t].status = "failure" => run[t].ended # 0 /\ came({"FAILURE", "CANCELED"})
           /\ run[t].status = "pending" => run[t].started = 0 /\ run[t].ended = 0

\* What the row of a task in a given status should show.
ShownFor(status) ==
    CASE status \in {"NONE", "QUEUED"} -> "pending"
      [] status \in {"STARTED", "CANCELING"} -> "running"
      [] status = "SUCCESS" -> "success"
      [] status \in {"FAILURE", "CANCELED"} -> "failure"

\* No handler is at work for row t, and the last one was alone and committed.
Serial(t) == Inserted(t) /\ reported[run[t].run] # Null /\ Busy(run[t].run) = {}

\* The row shows what the task of its last event has come to.
IsCurrent(t) ==
    LET b == run[t].run
    IN  IF reported[b] = 0 THEN run[t].status = "pending"
                                /\ \A k \in Sources : ShownFor(task[b][k]) = "pending"
        ELSE run[t].status = ShownFor(StatusNow(reported[b]))

\* When the sensors have dealt with all events of a backfill, in whatever order of
\* the sensors, and the last one was handled alone, its row is up to date.  Earlier
\* events may have been lost, and their handlers may have overlapped.
SerialIsCurrent ==
    \A t \in Triggers :
       /\ Serial(t)
       /\ \A n \in 1..Len(log) : log[n].run = run[t].run => n <= cursor[log[n].type]
       => IsCurrent(t)

\* A subscriber who gets every event of a row knows what a poll would return, if no
\* handlers overlapped and none stopped between its commit and its publication, or
\* a handler that was alone has published a change since.
ToldIsPublished ==
    \A t \in Triggers :
       Inserted(t) /\ run[t].run \notin untold /\ Busy(run[t].run) = {}
          => published[t].to = run[t].status

\* ... and got there by changes that follow each other without a gap.
ToldIsChained ==
    [][\A t \in Triggers :
          Inserted(t) /\ run[t].run \notin untold /\ published'[t] # published[t]
             => published'[t].from = published[t].to]_vars

\* A subscriber is never told of a status that a poll could not have returned:
\* both ends of a published change have been in the row.
PublishedWasCommitted ==
    \A t \in Triggers : published[t] # NoEvent =>
       /\ published[t].from # published[t].to
       /\ {published[t].from, published[t].to} \subseteq shown[t]

\* A row catches up with Dagster, whatever was lost or overlapped before the last
\* event that is handled.
StatusSettles == \A t \in Triggers : <>[](Serial(t) => IsCurrent(t))
-----------------------------------------------------------------------------
(* What the documentation of the source says and the code does not ensure. *)

\* The run of a single partition does not go back to "running" once it has ended:
\* contracts/S050-F-050/feedback.md has no guard against it because "Dagster
\* delivers events in order within a run".  In order or not, the handler of the
\* first post can still be at work when the second is handled.
EndedStaysEnded ==
    [][\A t \in Triggers :
          Cardinality(run[t].keys) = 1 /\ run[t].status \in {"success", "failure"}
             => run'[t].status # "running"]_vars
=============================================================================
