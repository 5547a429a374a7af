------------------------- MODULE RunLifecycle_proofs -------------------------
(***************************************************************************)
(* Theorems about RunLifecycle, for any number of triggers, sources,       *)
(* backfills and webhook handlers.                                         *)
(***************************************************************************)
EXTENDS RunLifecycle, WellFoundedInduction, TLAPS

-----------------------------------------------------------------------------
(* The inductive invariant.                                                *)

\* A trigger at work has keys to launch, and has not inserted its row.
RequestsAreTyped ==
    \A t \in Triggers :
       /\ request[t].pc \in {"partitions", "launch", "insert"} => request[t].keys # {}
       /\ request[t].pc = "insert" => request[t].run \in BackfillIds

\* A handler at work has a post about an event of the log, and after its SELECT a row.
HandlersAreTyped ==
    \A h \in Handlers :
       /\ handler[h].pc # "idle" => /\ handler[h].event \in 1..Len(log)
                                    /\ handler[h].type \in EventTypes
       /\ handler[h].pc \in {"commit", "publish"} => handler[h].row \in Triggers

TypeInv == TypeOK /\ RequestsAreTyped /\ HandlersAreTyped

\* Dagster's log and its run records agree: an event says what its task came to, ...
EventIsTrue(n) ==
    /\ StatusNow(n) \notin {"NONE", "QUEUED"}
    /\ log[n].type \in EndTypes =>
          StatusNow(n) \in Ended /\ log[n].type = EventTypeMap[StatusNow(n)]

\* ... and a task that came to something has an event.
TaskIsLogged(b, k) ==
    task[b][k] \notin {"NONE", "QUEUED"} =>
       \E n \in 1..Len(log) : log[n].run = b /\ log[n].key = k

DagsterInv ==
    /\ \A n \in 1..Len(log) : EventIsTrue(n)
    /\ \A b \in BackfillIds, k \in Sources : TaskIsLogged(b, k)
    /\ \A b \in BackfillIds : backfills[b] = {} => \A k \in Sources : task[b][k] = "NONE"
    /\ \A type \in EventTypes : cursor[type] <= Len(log)

\* The row of a trigger is inserted by its last step.
InsertedLast == \A t \in Triggers : request[t].pc # "done" => ~Inserted(t)

\* What is not inserted is empty, and what is names a backfill.
AbsentIsEmpty ==
    \A t \in Triggers :
       IF Inserted(t) THEN run[t].run \in BackfillIds
       ELSE run[t] = AbsentRun /\ shown[t] = {} /\ published[t] = NoEvent

\* Between launch and insert the backfill belongs to the trigger alone.
LaunchIsOwned ==
    \A t \in Triggers : request[t].pc = "insert" =>
       /\ backfills[request[t].run] = request[t].keys
       /\ \A u \in Triggers : run[u].run # request[t].run
       /\ \A u \in Triggers : request[u].pc = "insert" /\ request[u].run = request[t].run => u = t

RowInv == InsertedLast /\ AbsentIsEmpty /\ LaunchIsOwned /\ RowsAreLaunched

\* A post of the given type about event n says what is true of the task.
PostIsTrue(n, type) ==
    /\ type = "RUN_START" => log[n].type = "RUN_START"
    /\ type \in EndTypes => StatusNow(n) \in Ended /\ type = EventTypeMap[StatusNow(n)]

PostsAreTrue ==
    \A h \in Handlers : handler[h].pc # "idle" => PostIsTrue(handler[h].event, handler[h].type)

\* A handler that has a row works on an event of the row's backfill.
HandlersHaveTheirRow ==
    \A h \in Handlers : handler[h].pc \in {"commit", "publish"} =>
       /\ Inserted(handler[h].row)
       /\ run[handler[h].row].run = log[handler[h].event].run

\* A row never becomes pending again behind a handler's back.
PrevIsNoLead ==
    \A h \in Handlers : handler[h].pc = "commit" /\ handler[h].prev # "pending" =>
       run[handler[h].row].status # "pending"

\* The statuses a handler has loaded or written have been in its row.
HandlersWereShown ==
    \A h \in Handlers :
       LET new == StatusOf(handler[h].type)
       IN  /\ handler[h].pc \in {"commit", "publish"} => handler[h].prev \in shown[handler[h].row]
           /\ handler[h].pc = "publish" => /\ new \in shown[handler[h].row]
                                           /\ new # handler[h].prev

StatusIsShown == \A t \in Triggers : Inserted(t) => run[t].status \in shown[t]

HandlerInv == HandlersHaveTheirRow /\ PrevIsNoLead /\ HandlersWereShown /\ StatusIsShown
              /\ StatusIsReported /\ PublishedWasCommitted

\* One handler at a time, which works on the last event reported.
IsAlone(b) ==
    /\ reported[b] \in 0..Len(log)
    /\ reported[b] # 0 => log[reported[b]].run = b
    /\ \A h \in Busy(b) : handler[h].event = reported[b]
    /\ \A g, h \in Busy(b) : g = h

\* An event that was reported and handled met its row.
MetItsRow(b) ==
    reported[b] # 0 /\ Busy(b) = {} => \E t \in Triggers : run[t].run = b

\* Before the first event of a backfill is reported, none is dealt with.
NoneDealtWith(b) == \A m \in 1..Len(log) : log[m].run = b => cursor[log[m].type] < m

\* Some event of a backfill is not dealt with.
Undealt(b) == \E m \in 1..Len(log) : log[m].run = b /\ cursor[log[m].type] < m

\* The status is what the task of event n has come to, or a sensor will report more.
IsFresh(n, status) == status = ShownFor(StatusNow(n)) \/ Undealt(log[n].run)

\* The row between events, and while a handler is at work on it.
RowFollows(t, b) ==
    /\ Busy(b) = {} => IF reported[b] = 0 THEN run[t].status = "pending"
                       ELSE IsFresh(reported[b], run[t].status)
    /\ \A h \in Busy(b) :
          /\ handler[h].pc = "commit" => handler[h].prev = run[t].status
          /\ handler[h].pc = "publish" => run[t].status = StatusOf(handler[h].type)

Tracked(b) ==
    /\ IsAlone(b)
    /\ MetItsRow(b)
    /\ reported[b] = 0 => NoneDealtWith(b)
    /\ \A h \in Busy(b) : IsFresh(handler[h].event, StatusOf(handler[h].type))
    /\ \A t \in Triggers : run[t].run = b => RowFollows(t, b)

TrackInv == \A b \in BackfillIds : reported[b] # Null => Tracked(b)

\* A row whose last change the subscribers know, between events and while a handler
\* is at work on it.
RowIsTold(t, b) ==
    /\ Busy(b) = {} => published[t].to = run[t].status
    /\ \A h \in Busy(b) :
          /\ handler[h].pc \in {"select", "commit"} => published[t].to = run[t].status
          /\ handler[h].pc = "commit" => handler[h].prev = run[t].status
          /\ handler[h].pc = "publish" => /\ run[t].status = StatusOf(handler[h].type)
                                          /\ published[t].to = handler[h].prev

Told(b) ==
    /\ \A g, h \in Busy(b) : g = h
    /\ \A t \in Triggers : run[t].run = b => RowIsTold(t, b)

ToldInv == \A b \in BackfillIds \ untold : Told(b)
-----------------------------------------------------------------------------
(* Type correctness.                                                       *)

\* The sensor has a next event if it has a pending one: the log is a sequence.
LEMMA NextEventIsFirst ==
    ASSUME TypeOK, NEW type \in EventTypes, Pending(type) # {}
    PROVE  NextEvent(type) \in Pending(type) /\ \A m \in Pending(type) : NextEvent(type) <= m
<1>1. Len(log) \in Nat /\ cursor[type] \in Nat
  BY DEF TypeOK
<1>2. Pending(type) \subseteq Nat
  BY <1>1 DEF Pending
<1>3. \E n \in Pending(type) : \A m \in Pending(type) : ~(<<m, n>> \in OpToRel(<, Nat))
  BY <1>2, NatLessThanWellFounded, WFMin
<1>4. \E n \in Pending(type) : \A m \in Pending(type) : n <= m
  <2>1. \A m, n \in Nat : m < n => <<m, n>> \in OpToRel(<, Nat)
    BY DEF OpToRel
  <2>2. PICK n \in Pending(type) :
           \A m \in Pending(type) : ~(<<m, n>> \in OpToRel(<, Nat))
    BY <1>3
  <2>3. \A m \in Pending(type) : ~(m < n)
    BY <1>2, <2>1, <2>2
  <2>. QED  BY <1>2, <2>3
<1>. QED  BY <1>4 DEF NextEvent

LEMMA NextEventExists ==
    ASSUME TypeOK, NEW type \in EventTypes, Pending(type) # {}
    PROVE  NextEvent(type) \in 1..Len(log) /\ log[NextEvent(type)].type = type
<1>1. Len(log) \in Nat /\ cursor[type] \in Nat
  BY DEF TypeOK
<1>. QED  BY <1>1, NextEventIsFirst DEF Pending

LEMMA InitTypeInv == Init => TypeInv
BY DEF Init, TypeInv, TypeOK, RequestsAreTyped, HandlersAreTyped, IdleRequest, AbsentRun,
       IdleHandler, NoEvent, Row, Statuses, EventTypes, EndTypes, TaskStatuses

\* The types of the variables by the process that writes them.
RequestTypes == [pc : {"idle", "partitions", "launch", "insert", "done"},
                 keys : SUBSET Sources, todo : SUBSET Sources, run : BackfillIds \cup {Null}]

RequestsTyped == request \in [Triggers -> RequestTypes] /\ RequestsAreTyped

LogEntry == [run : BackfillIds, key : Sources, type : EventTypes]

DagsterTyped ==
    /\ registered \in SUBSET Sources
    /\ backfills \in [BackfillIds -> SUBSET Sources]
    /\ task \in [BackfillIds -> [Sources -> TaskStatuses]]
    /\ log \in Seq(LogEntry)

HandlerTypes == [pc : {"idle", "select", "commit", "publish"},
                 event : Nat, type : EventTypes \cup {"none"},
                 row : Triggers \cup {Null}, prev : Statuses]

HandlersTyped == handler \in [Handlers -> HandlerTypes] /\ HandlersAreTyped

RowsTyped ==
    /\ run \in [Triggers -> Row]
    /\ published \in [Triggers -> [from : Statuses, to : Statuses]]
    /\ shown \in [Triggers -> SUBSET Statuses]

ReportsTyped ==
    /\ cursor \in [EventTypes -> Nat]
    /\ reported \in [BackfillIds -> Nat \cup {Null}]
    /\ untold \in SUBSET BackfillIds

LEMMA TypeParts ==
    TypeInv <=> RequestsTyped /\ DagsterTyped /\ HandlersTyped /\ RowsTyped /\ ReportsTyped
BY DEF TypeInv, TypeOK, RequestsTyped, DagsterTyped, HandlersTyped, RowsTyped, ReportsTyped,
       RequestTypes, HandlerTypes, LogEntry

LEMMA TypePartsNext ==
    TypeInv' <=> RequestsTyped' /\ DagsterTyped' /\ HandlersTyped' /\ RowsTyped' /\ ReportsTyped'
BY DEF TypeInv, TypeOK, RequestsTyped, DagsterTyped, HandlersTyped, RowsTyped, ReportsTyped,
       RequestTypes, HandlerTypes, LogEntry

LEMMA RequestsUnchanged == RequestsTyped /\ request' = request => RequestsTyped'
BY DEF RequestsTyped, RequestsAreTyped

LEMMA HandlersUnchanged ==
    HandlersTyped /\ UNCHANGED <<handler, log>> => HandlersTyped'
BY DEF HandlersTyped, HandlersAreTyped

LEMMA DagsterUnchanged ==
    DagsterTyped /\ UNCHANGED <<registered, backfills, task, log>> => DagsterTyped'
BY DEF DagsterTyped

LEMMA RowsUnchanged == RowsTyped /\ UNCHANGED <<run, published, shown>> => RowsTyped'
BY DEF RowsTyped

LEMMA ReportsUnchanged == ReportsTyped /\ UNCHANGED <<cursor, reported, untold>> => ReportsTyped'
BY DEF ReportsTyped

\* A step of one trigger or of one handler that leaves the others alone.
LEMMA StepRequest ==
    ASSUME RequestsTyped, NEW t \in Triggers, NEW x \in RequestTypes,
           request' = [request EXCEPT ![t] = x],
           x.pc \in {"partitions", "launch", "insert"} => x.keys # {},
           x.pc = "insert" => x.run \in BackfillIds
    PROVE  RequestsTyped'
BY DEF RequestsTyped, RequestsAreTyped

LEMMA StepHandler ==
    ASSUME HandlersTyped, NEW h \in Handlers, NEW x \in HandlerTypes,
           handler' = [handler EXCEPT ![h] = x], log' = log,
           x.pc # "idle" => x.event \in 1..Len(log) /\ x.type \in EventTypes,
           x.pc \in {"commit", "publish"} => x.row \in Triggers
    PROVE  HandlersTyped'
BY DEF HandlersTyped, HandlersAreTyped

LEMMA TriggerTyped ==
    ASSUME TypeInv, NEW t \in Triggers, TriggerNext(t)
    PROVE  TypeInv'
<1>0. RequestsTyped /\ DagsterTyped /\ HandlersTyped /\ RowsTyped /\ ReportsTyped
  BY TypeParts
<1>a. request[t] \in RequestTypes
  BY <1>0 DEF RequestsTyped
<1>b. request[t].pc \in {"partitions", "launch", "insert"} => request[t].keys # {}
  BY <1>0 DEF RequestsTyped, RequestsAreTyped
<1>1. CASE TriggerStart(t)
  <2>1. PICK keys \in (SUBSET Sources) \ {{}} :
           request' = [request EXCEPT ![t] = [pc |-> "partitions", keys |-> keys,
                                              todo |-> keys, run |-> Null]]
    BY <1>1 DEF TriggerStart
  <2>2. RequestsTyped'
    <3>. DEFINE x == [pc |-> "partitions", keys |-> keys, todo |-> keys, run |-> Null]
    <3>0. keys \subseteq Sources /\ keys # {}
      OBVIOUS
    <3>1. x \in RequestTypes /\ x.pc = "partitions" /\ x.keys # {}
      BY <3>0 DEF RequestTypes
    <3>. HIDE DEF x
    <3>. QED  BY <1>0, <2>1, <3>1, StepRequest DEF x
  <2>3. UNCHANGED <<run, registered, backfills, task, log, cursor, handler, published,
                    shown, reported, untold>>
    BY <1>1 DEF TriggerStart, dagsterVars, historyVars
  <2>. QED
    BY <1>0, <2>2, <2>3, TypePartsNext, DagsterUnchanged, HandlersUnchanged, RowsUnchanged,
       ReportsUnchanged
<1>2. CASE TriggerPartition(t)
  <2>1. PICK k \in request[t].todo, o \in CallOutcomes :
          /\ registered' = AddSourcePartition(registered, k, o)
          /\ request' = [request EXCEPT
                ![t].todo = @ \ {k},
                ![t].pc = IF request[t].todo = {k} THEN "launch" ELSE @]
    BY <1>2 DEF TriggerPartition
  <2>2. request[t].pc = "partitions" /\ request[t].keys # {}
    BY <1>2, <1>b DEF TriggerPartition
  <2>3. RequestsTyped'
    <3>. DEFINE x == [request[t] EXCEPT !.todo = request[t].todo \ {k},
                         !.pc = IF request[t].todo = {k} THEN "launch" ELSE request[t].pc]
    <3>1. /\ x \in RequestTypes /\ x.keys = request[t].keys
          /\ x.pc \in {"launch", "partitions"}
      BY <1>a, <2>2 DEF RequestTypes
    <3>2. request' = [request EXCEPT ![t] =
                         [request[t] EXCEPT !.todo = request[t].todo \ {k},
                             !.pc = IF request[t].todo = {k} THEN "launch" ELSE request[t].pc]]
      BY <2>1, <1>0, <1>a DEF RequestsTyped
    <3>3. request' = [request EXCEPT ![t] = x]
      BY <3>2
    <3>. HIDE DEF x
    <3>. QED  BY <1>0, <2>2, <3>1, <3>3, StepRequest
  <2>4. registered' \in SUBSET Sources
    BY <1>0, <1>a, <2>1 DEF DagsterTyped, AddSourcePartition, RequestTypes
  <2>5. UNCHANGED <<run, backfills, task, log, cursor, handler, published, shown, reported,
                    untold>>
    BY <1>2 DEF TriggerPartition, dagsterVars, historyVars
  <2>6. DagsterTyped'
    BY <1>0, <2>4, <2>5 DEF DagsterTyped
  <2>. QED
    BY <1>0, <2>3, <2>5, <2>6, TypePartsNext, HandlersUnchanged, RowsUnchanged,
       ReportsUnchanged
<1>3. CASE TriggerLaunch(t)
  <2>1. PICK o \in SourceLaunchOutcomes(registered, request[t].keys),
             b \in {x \in BackfillIds : backfills[x] = {}} :
          /\ backfills' = LaunchSourceBackfill(backfills, b, request[t].keys, o)
          /\ task' = IF Executed(o)
                     THEN [task EXCEPT ![b] = [k \in Sources |->
                              IF k \in request[t].keys THEN "QUEUED" ELSE "NONE"]]
                     ELSE task
          /\ request' = [request EXCEPT ![t] =
                            [@ EXCEPT !.pc = IF Raises(o) THEN "done" ELSE "insert",
                                      !.run = IF Raises(o) THEN Null ELSE b]]
    BY <1>3 DEF TriggerLaunch
  <2>2. request[t].pc = "launch" /\ request[t].keys # {}
    BY <1>3, <1>b DEF TriggerLaunch
  <2>3. RequestsTyped'
    <3>. DEFINE x == [request[t] EXCEPT !.pc = IF Raises(o) THEN "done" ELSE "insert",
                                        !.run = IF Raises(o) THEN Null ELSE b]
    <3>1. /\ x \in RequestTypes /\ x.keys = request[t].keys
          /\ x.pc = "done" \/ (x.pc = "insert" /\ x.run \in BackfillIds)
      BY <1>a DEF RequestTypes
    <3>2. request' = [request EXCEPT ![t] = x]
      BY <1>0, <2>1 DEF RequestsTyped
    <3>. HIDE DEF x
    <3>. QED  BY <1>0, <2>2, <3>1, <3>2, StepRequest
  <2>4. backfills' \in [BackfillIds -> SUBSET Sources]
    BY <1>0, <1>a, <2>1 DEF DagsterTyped, LaunchSourceBackfill, RequestTypes
  <2>5. task' \in [BackfillIds -> [Sources -> TaskStatuses]]
    BY <1>0, <2>1 DEF DagsterTyped, TaskStatuses
  <2>6. UNCHANGED <<run, registered, log, cursor, handler, published, shown, reported,
                    untold>>
    BY <1>3 DEF TriggerLaunch, historyVars
  <2>7. DagsterTyped'
    BY <1>0, <2>4, <2>5, <2>6 DEF DagsterTyped
  <2>. QED
    BY <1>0, <2>3, <2>6, <2>7, TypePartsNext, HandlersUnchanged, RowsUnchanged,
       ReportsUnchanged
<1>4. CASE TriggerInsert(t)
  <2>1. request[t].pc = "insert" /\ request[t].run \in BackfillIds
    BY <1>0, <1>4 DEF TriggerInsert, RequestsTyped, RequestsAreTyped
  <2>2. RequestsTyped'
    <3>. DEFINE x == [request[t] EXCEPT !.pc = "done"]
    <3>1. x \in RequestTypes /\ x.pc = "done"
      BY <1>a DEF RequestTypes
    <3>2. request' = [request EXCEPT ![t] = x]
      BY <1>0, <1>4 DEF TriggerInsert, RequestsTyped
    <3>. HIDE DEF x
    <3>. QED  BY <1>0, <3>1, <3>2, StepRequest
  <2>3. RowsTyped'
    <3>. DEFINE x == [status |-> "pending", run |-> request[t].run, keys |-> request[t].keys,
                      started |-> 0, ended |-> 0]
    <3>1. x \in Row
      BY <1>a, <2>1 DEF Row, Statuses, RequestTypes
    <3>2. run' \in [Triggers -> Row]
      BY <1>0, <1>4, <3>1 DEF TriggerInsert, RowsTyped
    <3>. QED  BY <1>0, <1>4, <3>2 DEF TriggerInsert, RowsTyped, Statuses
  <2>4. UNCHANGED <<registered, backfills, task, log, cursor, handler, reported, untold>>
    BY <1>4 DEF TriggerInsert, dagsterVars
  <2>. QED
    BY <1>0, <2>2, <2>3, <2>4, TypePartsNext, DagsterUnchanged, HandlersUnchanged,
       ReportsUnchanged
<1>5. CASE TriggerDies(t)
  <2>1. RequestsTyped'
    <3>. DEFINE x == [request[t] EXCEPT !.pc = "done"]
    <3>1. x \in RequestTypes /\ x.pc = "done"
      BY <1>a DEF RequestTypes
    <3>2. request' = [request EXCEPT ![t] = x]
      BY <1>0, <1>5 DEF TriggerDies, RequestsTyped
    <3>. HIDE DEF x
    <3>. QED  BY <1>0, <3>1, <3>2, StepRequest
  <2>2. UNCHANGED <<run, registered, backfills, task, log, cursor, handler, published,
                    shown, reported, untold>>
    BY <1>5 DEF TriggerDies, dagsterVars, historyVars
  <2>. QED
    BY <1>0, <2>1, <2>2, TypePartsNext, DagsterUnchanged, HandlersUnchanged, RowsUnchanged,
       ReportsUnchanged
<1>. QED  BY <1>1, <1>2, <1>3, <1>4, <1>5 DEF TriggerNext

\* What Dagster logs.
LEMMA LogEntries ==
    ASSUME DagsterTyped, NEW n \in 1..Len(log)
    PROVE  /\ n \in Nat /\ n # 0
           /\ log[n].run \in BackfillIds /\ log[n].key \in Sources
           /\ log[n].type \in EventTypes
<1>1. ASSUME NEW S, NEW s \in Seq(S), NEW m \in 1..Len(s)
      PROVE  m \in Nat /\ m # 0 /\ s[m] \in S
  OBVIOUS
<1>2. log[n] \in LogEntry /\ n \in Nat /\ n # 0
  BY <1>1 DEF DagsterTyped
<1>. QED  BY <1>2 DEF LogEntry

\* The log only grows: its events keep their places.
LEMMA LogGrows ==
    ASSUME DagsterTyped, NEW e \in LogEntry, log' = Append(log, e)
    PROVE  /\ log' \in Seq(LogEntry)
           /\ Len(log) \in Nat /\ Len(log') = Len(log) + 1
           /\ \A n \in 1..Len(log) : log'[n] = log[n]
           /\ log'[Len(log')] = e
BY DEF DagsterTyped

\* Every status of the map has its type, and every type its status in a row.
LEMMA MapOfStatus ==
    /\ DOMAIN EventTypeMap = {"STARTED"} \cup Ended
    /\ \A s \in DOMAIN EventTypeMap :
          /\ EventTypeMap[s] \in EventTypes
          /\ EventTypeMap[s] \in EndTypes <=> s \in Ended
          /\ EventTypeMap[s] = "RUN_START" <=> s = "STARTED"
          /\ StatusOf(EventTypeMap[s]) = ShownFor(s)
BY DEF EventTypeMap, EventTypes, EndTypes, Ended, StatusOf, ShownFor

LEMMA StatusOfType == \A type \in EventTypes : StatusOf(type) \in Statuses \ {"pending"}
BY DEF EventTypes, EndTypes, StatusOf, Statuses

\* What a task does: it comes to a status, which is logged unless it is CANCELING.
LEMMA TaskSteps ==
    ASSUME DagsterTyped, NEW b \in BackfillIds, NEW k \in Sources, TaskNext(b, k)
    PROVE  \E s \in TaskStatuses \ {"NONE", "QUEUED"} :
              /\ task' = [task EXCEPT ![b][k] = s]
              /\ task[b][k] \notin Ended \cup {"NONE"}
              /\ \/ /\ task[b][k] = "STARTED" /\ s = "CANCELING" /\ log' = log
                 \/ /\ s \in DOMAIN EventTypeMap
                    /\ log' = Append(log, [run |-> b, key |-> k, type |-> EventTypeMap[s]])
<1>1. CASE TaskStart(b, k)
  <2>1. EventTypeMap["STARTED"] = "RUN_START"
    BY MapOfStatus
  <2>2. "STARTED" \in DOMAIN EventTypeMap /\ "STARTED" \in TaskStatuses \ {"NONE", "QUEUED"}
    BY MapOfStatus DEF TaskStatuses
  <2>3. task[b][k] = "QUEUED" /\ "QUEUED" \notin Ended \cup {"NONE"}
    BY <1>1 DEF TaskStart, Ended
  <2>4. /\ task' = [task EXCEPT ![b][k] = "STARTED"]
        /\ log' = Append(log, [run |-> b, key |-> k, type |-> EventTypeMap["STARTED"]])
    BY <1>1, <2>1 DEF TaskStart
  <2>. QED  BY <2>2, <2>3, <2>4
<1>2. CASE TaskCancel(b, k)
  BY <1>2 DEF TaskCancel, TaskStatuses, Ended, dagsterVars
<1>3. CASE TaskEnd(b, k)
  <2>1. PICK s \in Ends :
           /\ task' = [task EXCEPT ![b][k] = s]
           /\ log' = Append(log, [run |-> b, key |-> k, type |-> EventTypeMap[s]])
           /\ task[b][k] \in {"STARTED", "CANCELING", "QUEUED"}
    BY <1>3 DEF TaskEnd
  <2>2. s \in DOMAIN EventTypeMap /\ s \in TaskStatuses \ {"NONE", "QUEUED"}
    BY EndsAreStatuses, MapOfStatus DEF TaskStatuses, Ended
  <2>3. task[b][k] \notin Ended \cup {"NONE"}
    BY <2>1 DEF Ended
  <2>. QED  BY <2>1, <2>2, <2>3
<1>. QED  BY <1>1, <1>2, <1>3 DEF TaskNext

LEMMA TaskTyped ==
    ASSUME TypeInv, NEW b \in BackfillIds, NEW k \in Sources, TaskNext(b, k)
    PROVE  TypeInv'
<1>0. RequestsTyped /\ DagsterTyped /\ HandlersTyped /\ RowsTyped /\ ReportsTyped
  BY TypeParts
<1>1. PICK s \in TaskStatuses :
         /\ task' = [task EXCEPT ![b][k] = s]
         /\ \/ log' = log
            \/ /\ s \in DOMAIN EventTypeMap
               /\ log' = Append(log, [run |-> b, key |-> k, type |-> EventTypeMap[s]])
  BY <1>0, TaskSteps
<1>2. task' \in [BackfillIds -> [Sources -> TaskStatuses]]
  BY <1>0, <1>1 DEF DagsterTyped
<1>3. UNCHANGED <<request, registered, backfills, run, cursor, handler, published, shown,
                  reported, untold>>
  BY DEF TaskNext, TaskStart, TaskCancel, TaskEnd, triggerVars, historyVars
<1>4. log' \in Seq(LogEntry) /\ Len(log) \in Nat /\ Len(log') \in Nat /\ Len(log) <= Len(log')
  <2>1. CASE log' = log
    BY <1>0, <2>1 DEF DagsterTyped
  <2>2. CASE /\ s \in DOMAIN EventTypeMap
             /\ log' = Append(log, [run |-> b, key |-> k, type |-> EventTypeMap[s]])
    <3>. DEFINE e == [run |-> b, key |-> k, type |-> EventTypeMap[s]]
    <3>1. e \in LogEntry /\ log' = Append(log, e)
      BY <2>2, MapOfStatus DEF LogEntry
    <3>. HIDE DEF e
    <3>. QED  BY <1>0, <3>1, LogGrows
  <2>. QED  BY <1>1, <2>1, <2>2
<1>5. DagsterTyped'
  BY <1>0, <1>2, <1>3, <1>4 DEF DagsterTyped
<1>6. HandlersTyped'
  BY <1>0, <1>3, <1>4 DEF HandlersTyped, HandlersAreTyped
<1>. QED
  BY <1>0, <1>3, <1>5, <1>6, TypePartsNext, RequestsUnchanged, RowsUnchanged, ReportsUnchanged

\* What a sensor does with its next event: it drops it, or posts what the task has
\* come to, with or without its cursor stored.
Dropped(n) == handler' = handler /\ Lose(n)

Posted(n, h) ==
    /\ handler[h].pc = "idle" /\ StatusNow(n) \in DOMAIN EventTypeMap
    /\ handler' = [handler EXCEPT ![h] = Receiving(n, EventTypeMap[StatusNow(n)])]
    /\ Report(n)

LEMMA SensorSteps ==
    ASSUME TypeInv, NEW type \in EventTypes, SensorNext(type)
    PROVE  /\ Pending(type) # {}
           /\ NextEvent(type) \in 1..Len(log) /\ log[NextEvent(type)].type = type
           /\ UNCHANGED <<request, registered, backfills, run, task, log, published, shown>>
           /\ cursor' = cursor \/ cursor' = [cursor EXCEPT ![type] = NextEvent(type)]
           /\ \/ Dropped(NextEvent(type))
              \/ \E h \in Handlers : Posted(NextEvent(type), h)
<1>1. Pending(type) # {}
  BY DEF SensorNext, SensorPost, SensorPostUnsaved, SensorDrop
<1>2. NextEvent(type) \in 1..Len(log) /\ log[NextEvent(type)].type = type
  BY <1>1, NextEventExists DEF TypeInv
<1>3. UNCHANGED <<request, registered, backfills, run, task, log, published, shown>>
  BY DEF SensorNext, SensorPost, SensorPostUnsaved, SensorDrop, triggerVars, dagsterVars
<1>4. CASE SensorDrop(type)
  BY <1>1, <1>2, <1>3, <1>4 DEF SensorDrop, Dropped
<1>5. ASSUME NEW h \in Handlers, SensorPost(type, h) \/ SensorPostUnsaved(type, h)
      PROVE  /\ cursor' = cursor \/ cursor' = [cursor EXCEPT ![type] = NextEvent(type)]
             /\ Posted(NextEvent(type), h)
  BY <1>5 DEF SensorPost, SensorPostUnsaved, Posted
<1>. QED  BY <1>1, <1>2, <1>3, <1>4, <1>5 DEF SensorNext

LEMMA SensorTyped ==
    ASSUME TypeInv, NEW type \in EventTypes, SensorNext(type)
    PROVE  TypeInv'
<1>0. RequestsTyped /\ DagsterTyped /\ HandlersTyped /\ RowsTyped /\ ReportsTyped
  BY TypeParts
<1>1. PICK n \in 1..Len(log) :
         /\ UNCHANGED <<request, registered, backfills, run, task, log, published, shown>>
         /\ cursor' = cursor \/ cursor' = [cursor EXCEPT ![type] = n]
         /\ Dropped(n) \/ \E h \in Handlers : Posted(n, h)
  BY SensorSteps
<1>2. n \in Nat /\ log[n].run \in BackfillIds
  BY <1>0, LogEntries
<1>3. ReportsTyped'
  <2>1. /\ \E y \in Nat \cup {Null} : reported' = [reported EXCEPT ![log[n].run] = y]
        /\ untold' \in SUBSET BackfillIds
    BY <1>0, <1>1, <1>2 DEF Dropped, Posted, Lose, Report, ReportsTyped
  <2>. QED  BY <1>0, <1>1, <1>2, <2>1 DEF ReportsTyped
<1>4. HandlersTyped'
  <2>1. CASE Dropped(n)
    BY <1>0, <1>1, <2>1, HandlersUnchanged DEF Dropped
  <2>2. ASSUME NEW h \in Handlers, Posted(n, h)
        PROVE  HandlersTyped'
    <3>. DEFINE x == Receiving(n, EventTypeMap[StatusNow(n)])
    <3>1. EventTypeMap[StatusNow(n)] \in EventTypes
      BY <2>2, MapOfStatus DEF Posted
    <3>2. /\ x \in HandlerTypes /\ x.pc = "select" /\ x.event = n
          /\ x.type = EventTypeMap[StatusNow(n)]
      BY <1>2, <3>1 DEF Receiving, HandlerTypes, IdleHandler, Statuses
    <3>3. handler' = [handler EXCEPT ![h] = x]
      BY <2>2 DEF Posted
    <3>. HIDE DEF x
    <3>. QED  BY <1>0, <1>1, <3>1, <3>2, <3>3, StepHandler
  <2>. QED  BY <1>1, <2>1, <2>2
<1>. QED
  BY <1>0, <1>1, <1>3, <1>4, TypePartsNext, RequestsUnchanged, DagsterUnchanged, RowsUnchanged

LEMMA HandlerTyped ==
    ASSUME TypeInv, AbsentIsEmpty, HandlersHaveTheirRow, NEW h \in Handlers, HandlerNext(h)
    PROVE  TypeInv'
<1>0. RequestsTyped /\ DagsterTyped /\ HandlersTyped /\ RowsTyped /\ ReportsTyped
  BY TypeParts
<1>a. handler[h] \in HandlerTypes
  BY <1>0 DEF HandlersTyped
<1>b. handler[h].pc # "idle"
  BY DEF HandlerNext, HandlerSelect, HandlerUnknownRun, HandlerCommit, HandlerPublish,
         HandlerDies, HandlerDiesUntold
<1>c. /\ handler[h].event \in 1..Len(log) /\ handler[h].event \in Nat
      /\ log[handler[h].event].run \in BackfillIds
      /\ handler[h].type \in EventTypes
  <2>1. handler[h].event \in 1..Len(log) /\ handler[h].type \in EventTypes
    BY <1>0, <1>b DEF HandlersTyped, HandlersAreTyped
  <2>. QED  BY <1>0, <2>1, LogEntries
<1>d. UNCHANGED <<request, registered, backfills, task, log, cursor>>
  BY DEF HandlerNext, HandlerSelect, HandlerUnknownRun, HandlerCommit, HandlerPublish,
         HandlerDies, HandlerDiesUntold, triggerVars, dagsterVars
<1>e. ASSUME handler' = [handler EXCEPT ![h] = IdleHandler]
      PROVE  HandlersTyped'
  <2>1. IdleHandler \in HandlerTypes /\ IdleHandler.pc = "idle"
    BY DEF IdleHandler, HandlerTypes, Statuses
  <2>. QED  BY <1>0, <1>d, <1>e, <2>1, StepHandler
<1>f. ASSUME Lose(handler[h].event) PROVE ReportsTyped'
  BY <1>0, <1>c, <1>d, <1>f DEF Lose, ReportsTyped
<1>1. CASE HandlerSelect(h)
  <2>1. PICK t \in Triggers :
          /\ run[t].run = log[handler[h].event].run
          /\ handler' = [handler EXCEPT ![h] = [handler[h] EXCEPT !.pc = "commit", !.row = t,
                                                         !.prev = run[t].status]]
    BY <1>0, <1>1 DEF HandlerSelect, HandlersTyped
  <2>2. run[t].status \in Statuses
    <3>1. run[t].run # Null
      BY <1>c, <2>1, NullIsNoValue
    <3>. QED  BY <1>0, <3>1 DEF AbsentIsEmpty, AbsentRun, Inserted, RowsTyped, Row
  <2>3. HandlersTyped'
    <3>. DEFINE x == [handler[h] EXCEPT !.pc = "commit", !.row = t, !.prev = run[t].status]
    <3>1. /\ x \in HandlerTypes /\ x.pc = "commit" /\ x.row = t
          /\ x.event = handler[h].event /\ x.type = handler[h].type
      BY <1>a, <2>2 DEF HandlerTypes
    <3>2. handler' = [handler EXCEPT ![h] = x]
      BY <2>1
    <3>. HIDE DEF x
    <3>. QED  BY <1>0, <1>c, <1>d, <3>1, <3>2, StepHandler
  <2>4. UNCHANGED <<run, published, shown, reported, untold>>
    BY <1>1 DEF HandlerSelect, historyVars
  <2>. QED
    BY <1>0, <1>d, <2>3, <2>4, TypePartsNext, RequestsUnchanged, DagsterUnchanged,
       RowsUnchanged, ReportsUnchanged
<1>2. CASE HandlerUnknownRun(h) \/ HandlerDies(h)
  <2>1. HandlersTyped' /\ ReportsTyped'
    BY <1>e, <1>f, <1>2 DEF HandlerUnknownRun, HandlerDies
  <2>2. UNCHANGED <<run, published, shown>>
    BY <1>2 DEF HandlerUnknownRun, HandlerDies
  <2>. QED
    BY <1>0, <1>d, <2>1, <2>2, TypePartsNext, RequestsUnchanged, DagsterUnchanged,
       RowsUnchanged
<1>3. CASE HandlerCommit(h)
  <2>. DEFINE t == handler[h].row
              n == handler[h].event
              new == StatusOf(handler[h].type)
              y == Updated(run[t], handler[h].prev, n, handler[h].type)
  <2>1. /\ handler[h].pc = "commit"
        /\ run' = [run EXCEPT ![t] = y]
        /\ shown' = [shown EXCEPT ![t] = shown[t] \cup {run'[t].status}]
        /\ handler' = [handler EXCEPT ![h] =
              IF new # handler[h].prev THEN [handler[h] EXCEPT !.pc = "publish"]
              ELSE IdleHandler]
    BY <1>0, <1>3 DEF HandlerCommit, HandlersTyped, RowsTyped
  <2>2. t \in Triggers /\ run[t] \in Row /\ new \in Statuses
    BY <1>0, <1>c, <2>1, StatusOfType DEF HandlersTyped, HandlersAreTyped, RowsTyped
  <2>3. y \in Row
    BY <1>c, <2>2 DEF Updated, Row
  <2>4. y.status \in Statuses
    BY <1>0, <2>1, <2>2 DEF HandlersHaveTheirRow, Inserted, Updated, Row
  <2>5. HandlersTyped'
    <3>. DEFINE x == IF new # handler[h].prev THEN [handler[h] EXCEPT !.pc = "publish"]
                     ELSE IdleHandler
    <3>1. /\ x \in HandlerTypes /\ x.pc \in {"publish", "idle"}
          /\ x.pc # "idle" => x.event = n /\ x.row = t /\ x.type = handler[h].type
      BY <1>a DEF HandlerTypes, IdleHandler, Statuses
    <3>2. handler' = [handler EXCEPT ![h] = x]
      BY <2>1
    <3>. HIDE DEF x
    <3>. QED  BY <1>0, <1>c, <1>d, <2>2, <3>1, <3>2, StepHandler
  <2>6. RowsTyped'
    <3>. HIDE DEF y
    <3>1. run' \in [Triggers -> Row] /\ run'[t].status \in Statuses
      BY <1>0, <2>1, <2>2, <2>3, <2>4 DEF RowsTyped
    <3>2. shown' \in [Triggers -> SUBSET Statuses]
      BY <1>0, <2>1, <2>2, <3>1 DEF RowsTyped
    <3>. QED  BY <1>0, <1>3, <3>1, <3>2 DEF HandlerCommit, RowsTyped
  <2>7. UNCHANGED <<reported, untold>>
    BY <1>3 DEF HandlerCommit
  <2>. QED
    BY <1>0, <1>d, <2>5, <2>6, <2>7, TypePartsNext, RequestsUnchanged, DagsterUnchanged,
       ReportsUnchanged
<1>4. CASE HandlerPublish(h)
  <2>1. RowsTyped'
    <3>1. StatusOf(handler[h].type) \in Statuses /\ handler[h].prev \in Statuses
      BY <1>a, <1>c, StatusOfType DEF HandlerTypes
    <3>. QED  BY <1>0, <1>4, <3>1 DEF HandlerPublish, RowsTyped
  <2>2. ReportsTyped'
    BY <1>0, <1>d, <1>4 DEF HandlerPublish, Tell, ReportsTyped
  <2>3. HandlersTyped'
    BY <1>e, <1>4 DEF HandlerPublish
  <2>. QED
    BY <1>0, <1>d, <2>1, <2>2, <2>3, TypePartsNext, RequestsUnchanged, DagsterUnchanged
<1>5. CASE HandlerDiesUntold(h)
  <2>1. HandlersTyped' /\ UNCHANGED <<run, published, shown>>
    BY <1>e, <1>5 DEF HandlerDiesUntold
  <2>2. ReportsTyped'
    BY <1>0, <1>c, <1>d, <1>5 DEF HandlerDiesUntold, ReportsTyped
  <2>. QED
    BY <1>0, <1>d, <2>1, <2>2, TypePartsNext, RequestsUnchanged, DagsterUnchanged,
       RowsUnchanged
<1>. QED  BY <1>1, <1>2, <1>3, <1>4, <1>5 DEF HandlerNext
-----------------------------------------------------------------------------
(* Dagster's log and its run records.                                      *)

\* The log keeps its events, and a task that has ended stays as it is.
LogKept ==
    /\ Len(log) <= Len(log') /\ \A n \in 1..Len(log) : log'[n] = log[n]
    /\ \A b \in BackfillIds, k \in Sources : task[b][k] \in Ended => task'[b][k] = task[b][k]

LEMMA LogStays == UNCHANGED <<log, task>> /\ TypeInv => LogKept
BY DEF LogKept, TypeInv, TypeOK

\* A step that does no more to Dagster than to move a cursor to an event.
LEMMA DagsterQuiet ==
    ASSUME TypeInv, TypeInv', DagsterInv, UNCHANGED <<log, task, backfills>>,
           \A type \in EventTypes : cursor'[type] = cursor[type] \/ cursor'[type] \in 1..Len(log)
    PROVE  DagsterInv'
<1>1. \A n \in 1..Len(log) : EventIsTrue(n)'
  BY DEF DagsterInv, EventIsTrue, StatusNow
<1>2. \A b \in BackfillIds, k \in Sources : TaskIsLogged(b, k)'
  BY DEF DagsterInv, TaskIsLogged
<1>3. \A type \in EventTypes : cursor'[type] <= Len(log)
  <2>1. Len(log) \in Nat
    BY DEF TypeInv, TypeOK
  <2>. QED  BY <2>1 DEF DagsterInv
<1>4. \A b \in BackfillIds : backfills'[b] = {} => \A k \in Sources : task'[b][k] = "NONE"
  BY DEF DagsterInv
<1>. QED  BY <1>1, <1>2, <1>3, <1>4 DEF DagsterInv

\* A launched backfill had no events, and its tasks are queued.
LEMMA DagsterOfLaunch ==
    ASSUME TypeInv, TypeInv', DagsterInv, NEW t \in Triggers, TriggerLaunch(t)
    PROVE  DagsterInv' /\ LogKept
<1>1. PICK o \in SourceLaunchOutcomes(registered, request[t].keys),
           b \in {x \in BackfillIds : backfills[x] = {}} :
         /\ backfills' = LaunchSourceBackfill(backfills, b, request[t].keys, o)
         /\ task' = IF Executed(o)
                    THEN [task EXCEPT ![b] = [k \in Sources |->
                             IF k \in request[t].keys THEN "QUEUED" ELSE "NONE"]]
                    ELSE task
  BY DEF TriggerLaunch
<1>2. /\ request[t].keys # {} /\ UNCHANGED <<log, cursor>>
      /\ backfills \in [BackfillIds -> SUBSET Sources]
      /\ task \in [BackfillIds -> [Sources -> TaskStatuses]]
      /\ \A k \in Sources : task[b][k] = "NONE"
  BY <1>1 DEF TriggerLaunch, TypeInv, TypeOK, RequestsAreTyped, DagsterInv
<1>3. /\ \A c \in BackfillIds \ {b} : task'[c] = task[c] /\ backfills'[c] = backfills[c]
      /\ \A k \in Sources : task'[b][k] \in {"NONE", "QUEUED"}
      /\ backfills'[b] = {} => task' = task
  BY <1>1, <1>2 DEF LaunchSourceBackfill
<1>4. \A n \in 1..Len(log) : log[n].run \in BackfillIds \ {b} /\ log[n].key \in Sources
  <2>1. ASSUME NEW n \in 1..Len(log), log[n].run = b
        PROVE  FALSE
    <3>1. log[n].key \in Sources
      BY LogEntries, TypeParts
    <3>2. StatusNow(n) # "NONE"
      BY DEF DagsterInv, EventIsTrue
    <3>. QED  BY <1>2, <2>1, <3>1, <3>2 DEF StatusNow
  <2>. QED  BY <2>1, LogEntries, TypeParts
<1>5. \A n \in 1..Len(log) : EventIsTrue(n)'
  <2>1. \A n \in 1..Len(log) : StatusNow(n)' = StatusNow(n)
    BY <1>2, <1>3, <1>4 DEF StatusNow
  <2>. QED  BY <1>2, <2>1 DEF DagsterInv, EventIsTrue
<1>6. \A c \in BackfillIds, k \in Sources : TaskIsLogged(c, k)'
  BY <1>2, <1>3 DEF DagsterInv, TaskIsLogged
<1>7. \A c \in BackfillIds : backfills'[c] = {} => \A k \in Sources : task'[c][k] = "NONE"
  BY <1>1, <1>2, <1>3 DEF DagsterInv
<1>8. DagsterInv'
  BY <1>2, <1>5, <1>6, <1>7 DEF DagsterInv
<1>9. LogKept
  <2>1. Len(log) \in Nat
    BY DEF TypeInv, TypeOK
  <2>. QED  BY <1>2, <1>3, <2>1 DEF LogKept, Ended
<1>. QED  BY <1>8, <1>9

\* A task that comes to a status that is in the map logs it.
LEMMA DagsterOfTask ==
    ASSUME TypeInv, TypeInv', DagsterInv, NEW b \in BackfillIds, NEW k \in Sources,
           TaskNext(b, k)
    PROVE  DagsterInv' /\ LogKept
<1>0. /\ DagsterTyped /\ task \in [BackfillIds -> [Sources -> TaskStatuses]]
      /\ Len(log) \in Nat /\ cursor \in [EventTypes -> Nat]
  BY TypeParts DEF DagsterTyped, ReportsTyped
<1>1. PICK s \in TaskStatuses \ {"NONE", "QUEUED"} :
         /\ task' = [task EXCEPT ![b][k] = s]
         /\ task[b][k] \notin Ended \cup {"NONE"}
         /\ \/ task[b][k] = "STARTED" /\ s = "CANCELING" /\ log' = log
            \/ /\ s \in DOMAIN EventTypeMap
               /\ log' = Append(log, [run |-> b, key |-> k, type |-> EventTypeMap[s]])
  BY <1>0, TaskSteps
<1>2. /\ task'[b][k] = s
      /\ \A c \in BackfillIds, j \in Sources : c # b \/ j # k => task'[c][j] = task[c][j]
      /\ UNCHANGED <<backfills, cursor>>
  BY <1>0, <1>1 DEF TaskNext, TaskStart, TaskCancel, TaskEnd, triggerVars
<1>3. \A n \in 1..Len(log) : EventIsTrue(n) /\ log[n].run \in BackfillIds /\ log[n].key \in Sources
  BY <1>0, LogEntries DEF DagsterInv
<1>4. \A c \in BackfillIds : backfills'[c] = {} => \A j \in Sources : task'[c][j] = "NONE"
  BY <1>1, <1>2 DEF DagsterInv
<1>5. ASSUME NEW n \in 1..Len(log), log'[n] = log[n]
      PROVE  EventIsTrue(n)'
  <2>1. CASE log[n].run = b /\ log[n].key = k
    <3>1. StatusNow(n) = task[b][k] /\ StatusNow(n)' = s
      BY <1>2, <1>5, <2>1 DEF StatusNow
    <3>2. log[n].type \notin EndTypes
      BY <1>1, <1>3, <3>1 DEF EventIsTrue
    <3>. QED  BY <1>5, <3>1, <3>2 DEF EventIsTrue
  <2>2. CASE ~(log[n].run = b /\ log[n].key = k)
    <3>1. StatusNow(n)' = StatusNow(n)
      BY <1>2, <1>3, <1>5, <2>2 DEF StatusNow
    <3>. QED  BY <1>3, <1>5, <3>1 DEF EventIsTrue
  <2>. QED  BY <2>1, <2>2
<1>6. ASSUME NEW c \in BackfillIds, NEW j \in Sources, c # b \/ j # k,
             \A n \in 1..Len(log) : n \in 1..Len(log') /\ log'[n] = log[n]
      PROVE  TaskIsLogged(c, j)'
  BY <1>2, <1>6 DEF DagsterInv, TaskIsLogged
<1>7. CASE task[b][k] = "STARTED" /\ s = "CANCELING" /\ log' = log
  <2>1. \A n \in 1..Len(log') : EventIsTrue(n)'
    BY <1>5, <1>7
  <2>2. TaskIsLogged(b, k)'
    BY <1>7 DEF DagsterInv, TaskIsLogged
  <2>3. DagsterInv'
    BY <1>0, <1>2, <1>4, <1>6, <1>7, <2>1, <2>2 DEF DagsterInv
  <2>4. LogKept
    BY <1>0, <1>1, <1>2, <1>7 DEF LogKept
  <2>. QED  BY <2>3, <2>4
<1>8. CASE /\ s \in DOMAIN EventTypeMap
           /\ log' = Append(log, [run |-> b, key |-> k, type |-> EventTypeMap[s]])
  <2>. DEFINE e == [run |-> b, key |-> k, type |-> EventTypeMap[s]]
  <2>1. e \in LogEntry /\ log' = Append(log, e) /\ e.run = b /\ e.key = k
        /\ e.type = EventTypeMap[s]
    BY <1>8, MapOfStatus DEF LogEntry
  <2>. HIDE DEF e
  <2>2. PICK m \in Nat :
           /\ m = Len(log) + 1 /\ Len(log') = m /\ log'[m] = e
           /\ \A n \in 1..Len(log) : log'[n] = log[n]
    BY <1>0, <2>1, LogGrows
  <2>3. EventIsTrue(m)'
    <3>1. StatusNow(m)' = s
      BY <1>2, <2>1, <2>2 DEF StatusNow
    <3>2. log'[m].type \in EndTypes => s \in Ended
      BY <1>8, <2>1, <2>2, MapOfStatus
    <3>. QED  BY <1>1, <2>1, <2>2, <3>1, <3>2 DEF EventIsTrue
  <2>4. \A n \in 1..Len(log') : EventIsTrue(n)'
    <3>1. \A n \in 1..Len(log') : n \in 1..Len(log) \/ n = m
      BY <1>0, <2>2
    <3>. QED  BY <1>5, <2>2, <2>3, <3>1
  <2>5. TaskIsLogged(b, k)'
    <3>1. m \in 1..Len(log')
      BY <1>0, <2>2
    <3>. QED  BY <2>1, <2>2, <3>1 DEF TaskIsLogged
  <2>6. \A n \in 1..Len(log) : n \in 1..Len(log')
    BY <1>0, <2>2
  <2>7. \A c \in BackfillIds, j \in Sources : TaskIsLogged(c, j)'
    BY <1>6, <2>2, <2>5, <2>6
  <2>8. \A type \in EventTypes : cursor'[type] <= Len(log')
    BY <1>0, <1>2, <2>2 DEF DagsterInv
  <2>9. DagsterInv'
    BY <1>4, <2>4, <2>7, <2>8 DEF DagsterInv
  <2>10. LogKept
    BY <1>0, <1>1, <1>2, <2>2 DEF LogKept
  <2>. QED  BY <2>9, <2>10
<1>. QED  BY <1>1, <1>7, <1>8

LEMMA DagsterNext ==
    ASSUME TypeInv, TypeInv', DagsterInv, [Next]_vars
    PROVE  DagsterInv' /\ LogKept
<1>1. ASSUME UNCHANGED <<log, task, backfills>>,
             \A type \in EventTypes : cursor'[type] = cursor[type] \/ cursor'[type] \in 1..Len(log)
      PROVE  DagsterInv' /\ LogKept
  BY <1>1, DagsterQuiet, LogStays
<1>2. ASSUME NEW t \in Triggers, TriggerNext(t)
      PROVE  DagsterInv' /\ LogKept
  <2>1. CASE TriggerLaunch(t)
    BY <2>1, DagsterOfLaunch
  <2>2. CASE TriggerStart(t) \/ TriggerPartition(t) \/ TriggerInsert(t) \/ TriggerDies(t)
    <3>1. UNCHANGED <<log, task, backfills, cursor>>
      BY <2>2 DEF TriggerStart, TriggerPartition, TriggerInsert, TriggerDies, dagsterVars
    <3>. QED  BY <1>1, <3>1
  <2>. QED  BY <1>2, <2>1, <2>2 DEF TriggerNext
<1>3. ASSUME NEW b \in BackfillIds, NEW k \in Sources, TaskNext(b, k)
      PROVE  DagsterInv' /\ LogKept
  BY <1>3, DagsterOfTask
<1>4. ASSUME NEW type \in EventTypes, SensorNext(type)
      PROVE  DagsterInv' /\ LogKept
  <2>1. /\ UNCHANGED <<log, task, backfills>> /\ NextEvent(type) \in 1..Len(log)
        /\ cursor' = cursor \/ cursor' = [cursor EXCEPT ![type] = NextEvent(type)]
    BY <1>4, SensorSteps
  <2>2. cursor \in [EventTypes -> Nat]
    BY DEF TypeInv, TypeOK
  <2>. QED  BY <1>1, <2>1, <2>2
<1>5. ASSUME NEW h \in Handlers, HandlerNext(h)
      PROVE  DagsterInv' /\ LogKept
  <2>1. UNCHANGED <<log, task, backfills, cursor>>
    BY <1>5 DEF HandlerNext, HandlerSelect, HandlerUnknownRun, HandlerCommit, HandlerPublish,
                HandlerDies, HandlerDiesUntold, triggerVars, dagsterVars
  <2>. QED  BY <1>1, <2>1
<1>6. CASE UNCHANGED vars
  <2>1. UNCHANGED <<log, task, backfills, cursor>>
    BY <1>6 DEF vars
  <2>. QED  BY <1>1, <2>1
<1>. QED  BY <1>2, <1>3, <1>4, <1>5, <1>6 DEF Next
-----------------------------------------------------------------------------
(* What is posted is true.                                                 *)

LEMMA StatusKept ==
    ASSUME TypeInv, LogKept, NEW n \in 1..Len(log)
    PROVE  /\ log'[n] = log[n]
           /\ StatusNow(n) \in Ended => StatusNow(n)' = StatusNow(n)
<1>1. log[n].run \in BackfillIds /\ log[n].key \in Sources
  BY LogEntries, TypeParts
<1>. QED  BY <1>1 DEF LogKept, StatusNow

LEMMA PostIsTrueKept ==
    ASSUME TypeInv, LogKept, NEW n \in 1..Len(log), NEW type, PostIsTrue(n, type)
    PROVE  PostIsTrue(n, type)'
BY StatusKept DEF PostIsTrue

\* A post has the type of the status that the task has at that moment, and only an
\* event of a start can find its task started.
LEMMA PostOfSensor ==
    ASSUME TypeInv, DagsterInv, NEW n \in 1..Len(log), StatusNow(n) \in DOMAIN EventTypeMap
    PROVE  PostIsTrue(n, EventTypeMap[StatusNow(n)])
<1>1. /\ EventTypeMap[StatusNow(n)] \in EndTypes <=> StatusNow(n) \in Ended
      /\ EventTypeMap[StatusNow(n)] = "RUN_START" <=> StatusNow(n) = "STARTED"
      /\ "STARTED" \notin Ended
  BY MapOfStatus DEF Ended
<1>2. log[n].type \in EventTypes /\ (log[n].type \in EndTypes => StatusNow(n) \in Ended)
  BY LogEntries, TypeParts DEF DagsterInv, EventIsTrue
<1>. QED  BY <1>1, <1>2 DEF PostIsTrue, EventTypes

\* A handler keeps its post until it is idle.
LEMMA PostsKept ==
    ASSUME TypeInv, LogKept, PostsAreTrue,
           \A h \in Handlers : handler'[h].pc # "idle" =>
              /\ handler[h].pc # "idle"
              /\ handler'[h].event = handler[h].event /\ handler'[h].type = handler[h].type
    PROVE  PostsAreTrue'
<1>1. ASSUME NEW h \in Handlers, handler'[h].pc # "idle"
      PROVE  PostIsTrue(handler[h].event, handler[h].type)'
             /\ handler'[h].event = handler[h].event /\ handler'[h].type = handler[h].type
  <2>1. PICK n \in 1..Len(log), type \in EventTypes :
           n = handler[h].event /\ type = handler[h].type
    BY <1>1 DEF TypeInv, HandlersAreTyped
  <2>2. PostIsTrue(n, type)
    BY <1>1, <2>1 DEF PostsAreTrue
  <2>3. PostIsTrue(n, type)'
    BY <2>2, PostIsTrueKept
  <2>. QED  BY <1>1, <2>1, <2>3 DEF PostIsTrue, StatusNow
<1>. QED  BY <1>1 DEF PostsAreTrue, PostIsTrue, StatusNow

\* What a post that arrives does to the handlers.
Received(h, n) ==
    /\ handler[h].pc = "idle"
    /\ handler'[h].pc = "select" /\ handler'[h].event = n
    /\ handler'[h].type = EventTypeMap[StatusNow(n)]
    /\ \A g \in Handlers \ {h} : handler'[g] = handler[g]

LEMMA PostReceived ==
    ASSUME TypeInv, NEW n, NEW h \in Handlers, Posted(n, h)
    PROVE  Received(h, n)
<1>1. handler \in [Handlers -> HandlerTypes]
  BY TypeParts DEF HandlersTyped
<1>. QED  BY <1>1 DEF Posted, Received, Receiving, IdleHandler

\* What the steps of a handler do to the other handlers, and to its own post.
LEMMA HandlerAlone ==
    ASSUME TypeInv, NEW h \in Handlers, HandlerNext(h)
    PROVE  /\ \A g \in Handlers \ {h} : handler'[g] = handler[g]
           /\ handler[h].pc # "idle"
           /\ handler'[h].pc # "idle" => /\ handler'[h].event = handler[h].event
                                         /\ handler'[h].type = handler[h].type
           /\ UNCHANGED <<log, task, cursor>>
<1>1. handler \in [Handlers -> HandlerTypes] /\ handler[h] \in HandlerTypes
  BY TypeParts DEF HandlersTyped
<1>2. handler[h].pc # "idle" /\ UNCHANGED <<log, task, cursor>>
  BY DEF HandlerNext, HandlerSelect, HandlerUnknownRun, HandlerCommit, HandlerPublish,
         HandlerDies, HandlerDiesUntold, dagsterVars
<1>3. CASE HandlerSelect(h)
  <2>1. PICK t \in Triggers :
           handler' = [handler EXCEPT ![h] = [handler[h] EXCEPT !.pc = "commit", !.row = t,
                                                                !.prev = run[t].status]]
    BY <1>1, <1>3 DEF HandlerSelect
  <2>. QED  BY <1>1, <1>2, <2>1 DEF HandlerTypes
<1>4. CASE HandlerCommit(h)
  <2>1. \/ handler' = [handler EXCEPT ![h] = [handler[h] EXCEPT !.pc = "publish"]]
        \/ handler' = [handler EXCEPT ![h] = IdleHandler]
    BY <1>1, <1>4 DEF HandlerCommit
  <2>. QED  BY <1>1, <1>2, <2>1 DEF HandlerTypes, IdleHandler
<1>5. CASE handler' = [handler EXCEPT ![h] = IdleHandler]
  BY <1>1, <1>2, <1>5 DEF IdleHandler
<1>. QED
  BY <1>3, <1>4, <1>5 DEF HandlerNext, HandlerUnknownRun, HandlerPublish, HandlerDies,
                          HandlerDiesUntold

LEMMA PostsNext ==
    ASSUME TypeInv, TypeInv', DagsterInv, LogKept, PostsAreTrue, [Next]_vars
    PROVE  PostsAreTrue'
<1>1. CASE handler' = handler
  BY <1>1, PostsKept
<1>2. ASSUME NEW h \in Handlers, HandlerNext(h)
      PROVE  PostsAreTrue'
  BY <1>2, HandlerAlone, PostsKept
<1>3. ASSUME NEW type \in EventTypes, SensorNext(type)
      PROVE  PostsAreTrue'
  <2>1. PICK n \in 1..Len(log) :
           UNCHANGED <<log, task>> /\ (Dropped(n) \/ \E h \in Handlers : Posted(n, h))
    BY <1>3, SensorSteps
  <2>2. CASE Dropped(n)
    BY <1>1, <2>2 DEF Dropped
  <2>3. ASSUME NEW h \in Handlers, Posted(n, h)
        PROVE  PostsAreTrue'
    <3>1. Received(h, n) /\ PostIsTrue(n, EventTypeMap[StatusNow(n)])
      BY <2>3, PostReceived, PostOfSensor DEF Posted
    <3>2. \A g \in Handlers : handler'[g].pc # "idle" =>
             PostIsTrue(handler'[g].event, handler'[g].type)
      BY <3>1 DEF Received, PostsAreTrue
    <3>. QED  BY <2>1, <3>2 DEF PostsAreTrue, PostIsTrue, StatusNow
  <2>. QED  BY <2>1, <2>2, <2>3
<1>4. (\E t \in Triggers : TriggerNext(t)) \/ (\E b \in BackfillIds, k \in Sources : TaskNext(b, k))
         \/ UNCHANGED vars => handler' = handler
  BY DEF TriggerNext, TriggerStart, TriggerPartition, TriggerLaunch, TriggerInsert, TriggerDies,
         TaskNext, TaskStart, TaskCancel, TaskEnd, vars
<1>. QED  BY <1>1, <1>2, <1>3, <1>4 DEF Next
-----------------------------------------------------------------------------
(* Rows and the backfills they name.                                       *)

\* A step that leaves the triggers alone and neither inserts a row nor renames one.
LEMMA RowsKept ==
    ASSUME TypeInv, TypeInv', RowInv, UNCHANGED <<request, backfills>>,
           \A t \in Triggers :
              /\ ~Inserted(t) => run'[t] = run[t] /\ shown'[t] = shown[t]
                                 /\ published'[t] = published[t]
              /\ Inserted(t) => run'[t].status # "absent"
              /\ run'[t].run = run[t].run /\ run'[t].keys = run[t].keys
    PROVE  RowInv'
<1>1. \A t \in Triggers : Inserted(t)' <=> Inserted(t)
  BY DEF Inserted
<1>2. InsertedLast' /\ AbsentIsEmpty'
  BY <1>1 DEF RowInv, InsertedLast, AbsentIsEmpty
<1>3. LaunchIsOwned'
  BY DEF RowInv, LaunchIsOwned
<1>4. RowsAreLaunched'
  BY <1>1 DEF RowInv, RowsAreLaunched
<1>. QED  BY <1>2, <1>3, <1>4 DEF RowInv

\* A step of one trigger before it launches, or after it has given up.
LEMMA RowsOfRequest ==
    ASSUME TypeInv, TypeInv', RowInv, NEW t \in Triggers, request[t].pc # "done",
           \A u \in Triggers \ {t} : request'[u] = request[u],
           request'[t].pc # "insert", UNCHANGED <<run, backfills, published, shown>>
    PROVE  RowInv'
<1>1. \A u \in Triggers : Inserted(u)' <=> Inserted(u)
  BY DEF Inserted
<1>2. InsertedLast' /\ AbsentIsEmpty' /\ RowsAreLaunched'
  BY <1>1 DEF RowInv, InsertedLast, AbsentIsEmpty, RowsAreLaunched
<1>3. LaunchIsOwned'
  BY DEF RowInv, LaunchIsOwned
<1>. QED  BY <1>2, <1>3 DEF RowInv

LEMMA RowsOfTrigger ==
    ASSUME TypeInv, TypeInv', RowInv, NEW t \in Triggers, TriggerNext(t)
    PROVE  RowInv'
<1>0. /\ request \in [Triggers -> RequestTypes]
      /\ backfills \in [BackfillIds -> SUBSET Sources]
      /\ run \in [Triggers -> Row]
      /\ RequestsAreTyped
  BY DEF TypeInv, TypeOK, RequestTypes
<1>1. CASE TriggerStart(t) \/ TriggerPartition(t) \/ TriggerDies(t)
  <2>1. /\ \A u \in Triggers \ {t} : request'[u] = request[u]
        /\ request'[t].pc # "insert" /\ request[t].pc # "done"
    <3>1. CASE TriggerStart(t)
      BY <1>0, <3>1 DEF TriggerStart
    <3>2. CASE TriggerPartition(t)
      BY <1>0, <3>2 DEF TriggerPartition, RequestTypes
    <3>3. CASE TriggerDies(t)
      BY <1>0, <3>3 DEF TriggerDies, RequestTypes
    <3>. QED  BY <1>1, <3>1, <3>2, <3>3
  <2>2. UNCHANGED <<run, backfills, published, shown>>
    BY <1>1 DEF TriggerStart, TriggerPartition, TriggerDies, historyVars
  <2>. QED  BY <2>1, <2>2, RowsOfRequest
<1>2. CASE TriggerLaunch(t)
  <2>1. PICK o \in SourceLaunchOutcomes(registered, request[t].keys),
             b \in {x \in BackfillIds : backfills[x] = {}} :
          /\ backfills' = LaunchSourceBackfill(backfills, b, request[t].keys, o)
          /\ request' = [request EXCEPT ![t] =
                            [@ EXCEPT !.pc = IF Raises(o) THEN "done" ELSE "insert",
                                      !.run = IF Raises(o) THEN Null ELSE b]]
    BY <1>2 DEF TriggerLaunch
  <2>2. /\ request[t].pc = "launch" /\ request[t].keys # {}
        /\ UNCHANGED <<run, published, shown>>
    BY <1>0, <1>2 DEF TriggerLaunch, historyVars, RequestsAreTyped
  <2>3. /\ \A c \in BackfillIds \ {b} : backfills'[c] = backfills[c]
        /\ ~Raises(o) => backfills'[b] = request[t].keys
    BY <1>0, <2>1 DEF LaunchSourceBackfill, SourceLaunchOutcomes, Raises, Executed
  <2>4. /\ \A u \in Triggers \ {t} : request'[u] = request[u]
        /\ request'[t].keys = request[t].keys
        /\ \/ Raises(o) /\ request'[t].pc = "done"
           \/ ~Raises(o) /\ request'[t].pc = "insert" /\ request'[t].run = b
    BY <1>0, <2>1 DEF RequestTypes
  <2>5. \A u \in Triggers : Inserted(u) => run[u].run # b
    BY <2>1 DEF RowInv, RowsAreLaunched
  <2>6. \A u \in Triggers : run[u].run # b
    BY <2>1, <2>5, NullIsNoValue DEF RowInv, AbsentIsEmpty, AbsentRun
  <2>7. \A u \in Triggers : request[u].pc = "insert" => request[u].run # b
    BY <1>0, <2>1 DEF RowInv, LaunchIsOwned, RequestsAreTyped
  <2>8. \A u \in Triggers : Inserted(u)' <=> Inserted(u)
    BY <2>2 DEF Inserted
  <2>9. InsertedLast' /\ AbsentIsEmpty'
    BY <2>2, <2>4, <2>8 DEF RowInv, InsertedLast, AbsentIsEmpty
  <2>10. RowsAreLaunched'
    <3>1. \A u \in Triggers : Inserted(u) => run[u].run \in BackfillIds \ {b}
      BY <2>5 DEF RowInv, AbsentIsEmpty
    <3>. QED  BY <2>2, <2>3, <2>8, <3>1 DEF RowInv, RowsAreLaunched
  <2>11. LaunchIsOwned'
    <3>1. ASSUME NEW u \in Triggers, request'[u].pc = "insert"
          PROVE  /\ backfills'[request'[u].run] = request'[u].keys
                 /\ \A v \in Triggers : run[v].run # request'[u].run
                 /\ \A v \in Triggers : request'[v].pc = "insert"
                       /\ request'[v].run = request'[u].run => v = u
      <4>1. CASE u = t
        BY <2>3, <2>4, <2>6, <2>7, <3>1, <4>1
      <4>2. CASE u # t
        <5>1. request[u].pc = "insert" /\ request'[u] = request[u]
          BY <2>4, <3>1, <4>2
        <5>2. request[u].run \in BackfillIds \ {b}
          BY <1>0, <2>7, <5>1 DEF RequestsAreTyped
        <5>. QED  BY <2>3, <2>4, <5>1, <5>2 DEF RowInv, LaunchIsOwned
      <4>. QED  BY <4>1, <4>2
    <3>. QED  BY <2>2, <3>1 DEF LaunchIsOwned
  <2>. QED  BY <2>9, <2>10, <2>11 DEF RowInv
<1>3. CASE TriggerInsert(t)
  <2>. DEFINE b == request[t].run
  <2>1. /\ request[t].pc = "insert" /\ request[t].keys # {} /\ b \in BackfillIds
        /\ backfills[b] = request[t].keys
        /\ \A u \in Triggers : run[u].run # b
        /\ \A u \in Triggers : request[u].pc = "insert" /\ request[u].run = b => u = t
    BY <1>0, <1>3 DEF TriggerInsert, RequestsAreTyped, RowInv, LaunchIsOwned
  <2>2. /\ run' = [run EXCEPT ![t] = [status |-> "pending", run |-> b,
                                      keys |-> request[t].keys, started |-> 0, ended |-> 0]]
        /\ request' = [request EXCEPT ![t].pc = "done"]
        /\ shown' = [shown EXCEPT ![t] = {"pending"}]
        /\ UNCHANGED <<backfills, published>>
    BY <1>3 DEF TriggerInsert
  <2>3. /\ run'[t].status = "pending" /\ run'[t].run = b /\ run'[t].keys = request[t].keys
        /\ \A u \in Triggers \ {t} : run'[u] = run[u] /\ request'[u] = request[u]
                                     /\ shown'[u] = shown[u]
        /\ request'[t].pc = "done"
    BY <1>0, <2>2 DEF RequestTypes, TypeInv, TypeOK
  <2>. HIDE DEF b
  <2>4. \A u \in Triggers : Inserted(u)' <=> u = t \/ Inserted(u)
    BY <2>3 DEF Inserted
  <2>5. InsertedLast' /\ AbsentIsEmpty'
    BY <2>1, <2>2, <2>3, <2>4 DEF RowInv, InsertedLast, AbsentIsEmpty
  <2>6. LaunchIsOwned'
    BY <2>1, <2>2, <2>3 DEF RowInv, LaunchIsOwned, b
  <2>7. RowsAreLaunched'
    BY <2>1, <2>2, <2>3, <2>4 DEF RowInv, RowsAreLaunched
  <2>. QED  BY <2>5, <2>6, <2>7 DEF RowInv
<1>. QED  BY <1>1, <1>2, <1>3 DEF TriggerNext

LEMMA RowsNext ==
    ASSUME TypeInv, TypeInv', RowInv, HandlersHaveTheirRow, [Next]_vars
    PROVE  RowInv'
<1>1. CASE \E t \in Triggers : TriggerNext(t)
  BY <1>1, RowsOfTrigger
<1>2. CASE UNCHANGED <<request, run, backfills, published, shown>>
  <2>1. \A t \in Triggers :
              /\ run'[t] = run[t] /\ shown'[t] = shown[t] /\ published'[t] = published[t]
              /\ Inserted(t) => run'[t].status # "absent"
    BY <1>2 DEF Inserted
  <2>. QED  BY <1>2, <2>1, RowsKept
<1>3. ASSUME NEW h \in Handlers, HandlerCommit(h) \/ HandlerPublish(h)
      PROVE  RowInv'
  <2>. DEFINE t == handler[h].row
  <2>1. t \in Triggers /\ Inserted(t) /\ UNCHANGED <<request, backfills>>
    BY <1>3 DEF HandlerCommit, HandlerPublish, HandlersHaveTheirRow, TypeInv,
                HandlersAreTyped, triggerVars
  <2>2. run[t] \in Row /\ run \in [Triggers -> Row]
    BY <2>1 DEF TypeInv, TypeOK
  <2>3. \A u \in Triggers \ {t} : run'[u] = run[u] /\ shown'[u] = shown[u]
                                  /\ published'[u] = published[u]
    BY <1>3 DEF HandlerCommit, HandlerPublish, TypeInv, TypeOK
  <2>4. run'[t] = run[t] \/ run'[t] = Updated(run[t], handler[h].prev, handler[h].event,
                                              handler[h].type)
    BY <1>3, <2>1, <2>2 DEF HandlerCommit, HandlerPublish
  <2>5. run'[t].run = run[t].run /\ run'[t].keys = run[t].keys
    BY <2>2, <2>4 DEF Updated, Row
  <2>6. run'[t].status # "absent"
    <3>1. handler[h].type \in EventTypes
      BY <1>3 DEF HandlerCommit, HandlerPublish, TypeInv, HandlersAreTyped
    <3>2. StatusOf(handler[h].type) # "absent"
      BY <3>1, StatusOfType DEF Statuses
    <3>. QED  BY <2>1, <2>2, <2>4, <3>2 DEF Updated, Row, Inserted
  <2>. HIDE DEF t
  <2>7. \A u \in Triggers :
              /\ ~Inserted(u) => run'[u] = run[u] /\ shown'[u] = shown[u]
                                 /\ published'[u] = published[u]
              /\ Inserted(u) => run'[u].status # "absent"
              /\ run'[u].run = run[u].run /\ run'[u].keys = run[u].keys
    BY <2>1, <2>3, <2>5, <2>6 DEF Inserted
  <2>. QED  BY <2>1, <2>7, RowsKept
<1>4. ASSUME NEW b \in BackfillIds, NEW k \in Sources, TaskNext(b, k)
      PROVE  UNCHANGED <<request, run, backfills, published, shown>>
  BY <1>4 DEF TaskNext, TaskStart, TaskCancel, TaskEnd, triggerVars, historyVars
<1>5. ASSUME NEW type \in EventTypes, SensorNext(type)
      PROVE  UNCHANGED <<request, run, backfills, published, shown>>
  BY <1>5, SensorSteps
<1>6. ASSUME NEW h \in Handlers, HandlerSelect(h) \/ HandlerUnknownRun(h) \/ HandlerDies(h)
                              \/ HandlerDiesUntold(h)
      PROVE  UNCHANGED <<request, run, backfills, published, shown>>
  BY <1>6 DEF HandlerSelect, HandlerUnknownRun, HandlerDies, HandlerDiesUntold, triggerVars,
              historyVars
<1>7. UNCHANGED vars => UNCHANGED <<request, run, backfills, published, shown>>
  BY DEF vars
<1>8. ASSUME NEW h \in Handlers, HandlerNext(h)
      PROVE  RowInv'
  BY <1>2, <1>3, <1>6, <1>8 DEF HandlerNext
<1>. QED
  <2>1. CASE \E b \in BackfillIds, k \in Sources : TaskNext(b, k)
    BY <1>2, <1>4, <2>1
  <2>2. CASE \E type \in EventTypes : SensorNext(type)
    BY <1>2, <1>5, <2>2
  <2>. QED  BY <1>1, <1>2, <1>7, <1>8, <2>1, <2>2 DEF Next
-----------------------------------------------------------------------------
(* Handlers and the rows they work on.                                     *)

\* A row that is there keeps its content.
RowsStay == \A t \in Triggers : Inserted(t) => run'[t] = run[t] /\ shown'[t] = shown[t]

\* Handlers that had no row yet, or will have none, do not disturb the others.
LEMMA HandlersKept ==
    ASSUME TypeInv, TypeInv', HandlersHaveTheirRow, PrevIsNoLead, HandlersWereShown,
           LogKept, RowsStay,
           \A h \in Handlers : handler'[h].pc \in {"commit", "publish"} =>
              handler'[h] = handler[h]
    PROVE  HandlersHaveTheirRow' /\ PrevIsNoLead' /\ HandlersWereShown'
<1>1. ASSUME NEW h \in Handlers, handler'[h].pc \in {"commit", "publish"}
      PROVE  /\ handler'[h] = handler[h] /\ handler[h].pc \in {"commit", "publish"}
             /\ handler[h].row \in Triggers /\ Inserted(handler[h].row)
             /\ log'[handler[h].event] = log[handler[h].event]
             /\ run'[handler[h].row] = run[handler[h].row]
             /\ shown'[handler[h].row] = shown[handler[h].row]
  <2>1. handler'[h] = handler[h] /\ handler[h].pc \in {"commit", "publish"}
    BY <1>1
  <2>2. handler[h].row \in Triggers /\ Inserted(handler[h].row)
    BY <2>1 DEF TypeInv, HandlersAreTyped, HandlersHaveTheirRow
  <2>3. handler[h].event \in 1..Len(log)
    BY <2>1 DEF TypeInv, HandlersAreTyped
  <2>. QED  BY <2>1, <2>2, <2>3 DEF LogKept, RowsStay
<1>2. HandlersHaveTheirRow'
  BY <1>1 DEF HandlersHaveTheirRow, Inserted
<1>3. PrevIsNoLead'
  BY <1>1 DEF PrevIsNoLead
<1>4. HandlersWereShown'
  BY <1>1 DEF HandlersWereShown
<1>. QED  BY <1>2, <1>3, <1>4

\* What holds of a row's content, as a property of one row.
RowIsReported(t) ==
    LET b == run[t].run
        own(n) == n \in 1..Len(log) /\ log[n].run = b
        came(statuses) == \E k \in Sources : task[b][k] \in statuses
    IN  /\ run[t].started # 0 => own(run[t].started) /\ log[run[t].started].type = "RUN_START"
        /\ run[t].ended # 0 => own(run[t].ended) /\ StatusNow(run[t].ended) \in Ended
        /\ run[t].status = "running" => run[t].started # 0
        /\ run[t].status = "success" => run[t].ended # 0 /\ came({"SUCCESS"})
        /\ run[t].status = "failure" => run[t].ended # 0 /\ came({"FAILURE", "CANCELED"})
        /\ run[t].status = "pending" => run[t].started = 0 /\ run[t].ended = 0

LEMMA ReportedRows ==
    StatusIsReported <=> \A t \in Triggers : Inserted(t) => RowIsReported(t)
BY DEF StatusIsReported, RowIsReported

LEMMA ReportedRowsNext ==
    StatusIsReported' <=> \A t \in Triggers : Inserted(t)' => RowIsReported(t)'
BY DEF StatusIsReported, RowIsReported

LEMMA RowIsReportedKept ==
    ASSUME TypeInv, TypeInv', AbsentIsEmpty, NEW t \in Triggers, Inserted(t), RowIsReported(t),
           LogKept, run'[t] = run[t]
    PROVE  RowIsReported(t)'
<1>1. Len(log) \in Nat /\ Len(log') \in Nat
  BY DEF TypeInv, TypeOK
<1>2. ASSUME NEW n \in 1..Len(log)
      PROVE  /\ n \in 1..Len(log') /\ log'[n] = log[n]
             /\ StatusNow(n) \in Ended => StatusNow(n)' = StatusNow(n)
  <2>1. n \in 1..Len(log')
    BY <1>1, <1>2 DEF LogKept
  <2>. QED  BY <2>1, StatusKept
<1>3. PICK b \in BackfillIds : b = run[t].run
  BY DEF AbsentIsEmpty
<1>4. \A k \in Sources : task[b][k] \in Ended => task'[b][k] = task[b][k]
  BY DEF LogKept
<1>5. /\ run[t].started # 0 => /\ run[t].started \in 1..Len(log)
                               /\ log[run[t].started].run = b
                               /\ log[run[t].started].type = "RUN_START"
      /\ run[t].ended # 0 => /\ run[t].ended \in 1..Len(log) /\ log[run[t].ended].run = b
                             /\ StatusNow(run[t].ended) \in Ended
      /\ run[t].status = "running" => run[t].started # 0
      /\ run[t].status = "success" =>
            run[t].ended # 0 /\ \E k \in Sources : task[b][k] = "SUCCESS"
      /\ run[t].status = "failure" =>
            run[t].ended # 0 /\ \E k \in Sources : task[b][k] \in {"FAILURE", "CANCELED"}
      /\ run[t].status = "pending" => run[t].started = 0 /\ run[t].ended = 0
  BY <1>3 DEF RowIsReported
<1>6. /\ run[t].started # 0 => /\ run[t].started \in 1..Len(log')
                               /\ log'[run[t].started].run = b
                               /\ log'[run[t].started].type = "RUN_START"
      /\ run[t].ended # 0 => /\ run[t].ended \in 1..Len(log') /\ log'[run[t].ended].run = b
  BY <1>2, <1>5
<1>7. run[t].ended # 0 => task'[log'[run[t].ended].run][log'[run[t].ended].key] \in Ended
  BY <1>2, <1>5 DEF StatusNow
<1>8. /\ run[t].status = "success" => \E k \in Sources : task'[b][k] = "SUCCESS"
      /\ run[t].status = "failure" => \E k \in Sources : task'[b][k] \in {"FAILURE", "CANCELED"}
  BY <1>4, <1>5 DEF Ended
<1>. QED  BY <1>3, <1>5, <1>6, <1>7, <1>8 DEF RowIsReported, StatusNow

\* Rows come into being pending, and with that shown.
LEMMA RowsShown ==
    ASSUME TypeInv, TypeInv', AbsentIsEmpty, StatusIsShown, StatusIsReported,
           PublishedWasCommitted, LogKept, published' = published,
           \A t \in Triggers : shown[t] \subseteq shown'[t],
           \A t \in Triggers : Inserted(t)' =>
              \/ Inserted(t) /\ run'[t] = run[t]
              \/ /\ run'[t].status = "pending" /\ "pending" \in shown'[t]
                 /\ run'[t].started = 0 /\ run'[t].ended = 0
    PROVE  StatusIsShown' /\ StatusIsReported' /\ PublishedWasCommitted'
<1>1. StatusIsShown'
  BY DEF StatusIsShown
<1>2. StatusIsReported'
  <2>1. ASSUME NEW t \in Triggers, Inserted(t)'
        PROVE  RowIsReported(t)'
    <3>1. CASE Inserted(t) /\ run'[t] = run[t]
      BY <3>1, ReportedRows, RowIsReportedKept
    <3>2. CASE run'[t].status = "pending" /\ run'[t].started = 0 /\ run'[t].ended = 0
      BY <2>1, <3>2 DEF RowIsReported, Inserted
    <3>. QED  BY <2>1, <3>1, <3>2
  <2>. QED  BY <2>1, ReportedRowsNext
<1>3. PublishedWasCommitted'
  BY DEF PublishedWasCommitted
<1>. QED  BY <1>1, <1>2, <1>3

\* Together: steps that do no more to rows and handlers than this.
QuietStep ==
    /\ LogKept
    /\ RowsStay
    /\ published' = published
    /\ \A h \in Handlers : handler'[h].pc \in {"commit", "publish"} => handler'[h] = handler[h]
    /\ \A t \in Triggers : shown[t] \subseteq shown'[t]
    /\ \A t \in Triggers : Inserted(t)' =>
              \/ Inserted(t) /\ run'[t] = run[t]
              \/ /\ run'[t].status = "pending" /\ "pending" \in shown'[t]
                 /\ run'[t].started = 0 /\ run'[t].ended = 0

LEMMA QuietHandlers ==
    ASSUME TypeInv, TypeInv', AbsentIsEmpty, HandlerInv, QuietStep
    PROVE  HandlerInv'
BY HandlersKept, RowsShown DEF HandlerInv, QuietStep

LEMMA RowsAlone ==
    UNCHANGED <<run, shown, published, handler>> /\ LogKept => QuietStep
BY DEF QuietStep, RowsStay, Inserted

LEMMA HandlersOfTrigger ==
    ASSUME TypeInv, TypeInv', LogKept, RowInv, HandlerInv, NEW t \in Triggers, TriggerNext(t)
    PROVE  HandlerInv'
<1>1. CASE TriggerInsert(t)
  <2>1. ~Inserted(t) /\ shown[t] = {}
    BY <1>1 DEF TriggerInsert, RowInv, InsertedLast, AbsentIsEmpty
  <2>2. /\ run'[t].status = "pending" /\ run'[t].started = 0 /\ run'[t].ended = 0
        /\ shown'[t] = {"pending"}
        /\ \A u \in Triggers \ {t} : run'[u] = run[u] /\ shown'[u] = shown[u]
        /\ UNCHANGED <<published, handler>>
    BY <1>1 DEF TriggerInsert, TypeInv, TypeOK
  <2>3. QuietStep
    BY <2>1, <2>2 DEF QuietStep, RowsStay, Inserted
  <2>. QED  BY <2>3, QuietHandlers DEF RowInv
<1>2. CASE TriggerStart(t) \/ TriggerPartition(t) \/ TriggerLaunch(t) \/ TriggerDies(t)
  <2>1. UNCHANGED <<run, shown, published, handler>>
    BY <1>2 DEF TriggerStart, TriggerPartition, TriggerLaunch, TriggerDies, historyVars
  <2>. QED  BY <2>1, RowsAlone, QuietHandlers DEF RowInv
<1>. QED  BY <1>1, <1>2 DEF TriggerNext

LEMMA HandlersOfTask ==
    ASSUME TypeInv, TypeInv', LogKept, RowInv, HandlerInv, NEW b \in BackfillIds,
           NEW k \in Sources, TaskNext(b, k)
    PROVE  HandlerInv'
<1>1. UNCHANGED <<run, shown, published, handler>>
  BY DEF TaskNext, TaskStart, TaskCancel, TaskEnd, historyVars
<1>. QED  BY <1>1, RowsAlone, QuietHandlers DEF RowInv

LEMMA HandlersOfSensor ==
    ASSUME TypeInv, TypeInv', LogKept, RowInv, HandlerInv, NEW type \in EventTypes,
           SensorNext(type)
    PROVE  HandlerInv'
<1>1. PICK n \in 1..Len(log) :
         /\ UNCHANGED <<run, shown, published>>
         /\ Dropped(n) \/ \E h \in Handlers : Posted(n, h)
  BY SensorSteps
<1>2. \A h \in Handlers : handler'[h].pc \in {"commit", "publish"} => handler'[h] = handler[h]
  <2>1. CASE Dropped(n)
    BY <2>1 DEF Dropped
  <2>2. ASSUME NEW h \in Handlers, Posted(n, h)
        PROVE  \A g \in Handlers :
                  handler'[g].pc \in {"commit", "publish"} => handler'[g] = handler[g]
    BY <2>2, PostReceived DEF Received
  <2>. QED  BY <1>1, <2>1, <2>2
<1>3. QuietStep
  BY <1>1, <1>2 DEF QuietStep, RowsStay, Inserted
<1>. QED  BY <1>3, QuietHandlers DEF RowInv

LEMMA SelectHandlers ==
    ASSUME TypeInv, TypeInv', LogKept, RowInv, HandlerInv, NEW h \in Handlers, HandlerSelect(h)
    PROVE  HandlerInv'
<1>0. /\ handler \in [Handlers -> HandlerTypes]
      /\ DagsterTyped
  BY TypeParts DEF HandlersTyped
<1>1. PICK t \in Triggers :
          /\ run[t].run = log[handler[h].event].run
          /\ handler' = [handler EXCEPT ![h] = [handler[h] EXCEPT !.pc = "commit", !.row = t,
                                                         !.prev = run[t].status]]
  BY <1>0 DEF HandlerSelect
<1>2. /\ handler[h].pc = "select" /\ UNCHANGED <<run, log, task, published, shown>>
      /\ \A g \in Handlers \ {h} : handler'[g] = handler[g]
  BY HandlerAlone DEF HandlerSelect, HandlerNext, historyVars, dagsterVars
<1>3. /\ handler'[h].pc = "commit" /\ handler'[h].row = t /\ handler'[h].prev = run[t].status
      /\ handler'[h].event = handler[h].event
  BY <1>0, <1>1 DEF HandlerTypes
<1>4. Inserted(t)
  <2>1. handler[h].event \in 1..Len(log)
    BY <1>2 DEF TypeInv, HandlersAreTyped
  <2>2. run[t].run # Null
    BY <1>0, <1>1, <2>1, LogEntries, NullIsNoValue
  <2>. QED  BY <2>2 DEF RowInv, AbsentIsEmpty, AbsentRun
<1>5. HandlersHaveTheirRow'
  BY <1>1, <1>2, <1>3, <1>4 DEF HandlerInv, HandlersHaveTheirRow, Inserted
<1>6. PrevIsNoLead'
  BY <1>2, <1>3 DEF HandlerInv, PrevIsNoLead
<1>7. HandlersWereShown'
  BY <1>2, <1>3, <1>4 DEF HandlerInv, HandlersWereShown, StatusIsShown
<1>8. StatusIsShown' /\ StatusIsReported' /\ PublishedWasCommitted'
  BY <1>2 DEF HandlerInv, StatusIsShown, StatusIsReported, StatusNow, PublishedWasCommitted,
              Inserted
<1>. QED  BY <1>5, <1>6, <1>7, <1>8 DEF HandlerInv

\* A handler that ends without a commit or a publication.
LEMMA IdleHandlers ==
    ASSUME TypeInv, TypeInv', LogKept, RowInv, HandlerInv, NEW h \in Handlers,
           HandlerUnknownRun(h) \/ HandlerDies(h) \/ HandlerDiesUntold(h)
    PROVE  HandlerInv'
<1>1. UNCHANGED <<run, shown, published>>
  BY DEF HandlerUnknownRun, HandlerDies, HandlerDiesUntold
<1>2. \A g \in Handlers : handler'[g].pc \in {"commit", "publish"} => handler'[g] = handler[g]
  BY DEF HandlerUnknownRun, HandlerDies, HandlerDiesUntold, TypeInv, TypeOK, IdleHandler
<1>3. QuietStep
  BY <1>1, <1>2 DEF QuietStep, RowsStay, Inserted
<1>. QED  BY <1>3, QuietHandlers DEF RowInv

\* What a commit does, in terms of the event it is about.
LEMMA CommitStep ==
    ASSUME TypeInv, HandlerInv, NEW h \in Handlers, HandlerCommit(h)
    PROVE  LET t == handler[h].row
               n == handler[h].event
               type == handler[h].type
               new == StatusOf(type)
           IN  /\ handler[h].pc = "commit" /\ t \in Triggers /\ Inserted(t)
               /\ n \in 1..Len(log) /\ type \in EventTypes
               /\ run[t].run = log[n].run
               /\ run'[t].run = run[t].run
               /\ run'[t].status = IF new # handler[h].prev THEN new ELSE run[t].status
               /\ run'[t].started = IF type = "RUN_START" THEN n ELSE run[t].started
               /\ run'[t].ended = IF type \in EndTypes THEN n ELSE run[t].ended
               /\ shown'[t] = shown[t] \cup {run'[t].status}
               /\ \A u \in Triggers \ {t} : run'[u] = run[u] /\ shown'[u] = shown[u]
               /\ UNCHANGED <<log, task, cursor, published, reported, untold>>
               /\ handler'[h].pc # "idle" => handler'[h].event = n /\ handler'[h].type = type
               /\ new # handler[h].prev => /\ handler'[h].pc = "publish"
                                           /\ handler'[h].row = t
                                           /\ handler'[h].prev = handler[h].prev
                                           /\ handler'[h].event = n
                                           /\ handler'[h].type = type
               /\ new = handler[h].prev => handler'[h].pc = "idle"
               /\ \A g \in Handlers \ {h} : handler'[g] = handler[g]
<1>. DEFINE t == handler[h].row
            n == handler[h].event
            type == handler[h].type
            new == StatusOf(type)
<1>0. /\ handler \in [Handlers -> HandlerTypes] /\ run \in [Triggers -> Row] /\ DagsterTyped
      /\ shown \in [Triggers -> SUBSET Statuses]
  BY TypeParts DEF HandlersTyped, RowsTyped
<1>1. /\ handler[h].pc = "commit" /\ t \in Triggers /\ Inserted(t) /\ n \in 1..Len(log)
      /\ run[t].run = log[n].run /\ type \in EventTypes
  BY DEF HandlerCommit, HandlerInv, HandlersHaveTheirRow, TypeInv, HandlersAreTyped
<1>3. run' = [run EXCEPT ![t] = Updated(run[t], handler[h].prev, n, type)]
  BY <1>0, <1>1 DEF HandlerCommit
<1>4. /\ run'[t] = Updated(run[t], handler[h].prev, n, type)
      /\ \A u \in Triggers \ {t} : run'[u] = run[u]
  BY <1>0, <1>1, <1>3
<1>5. /\ run'[t].run = run[t].run
      /\ run'[t].status = IF new # handler[h].prev THEN new ELSE run[t].status
      /\ run'[t].started = IF type = "RUN_START" THEN n ELSE run[t].started
      /\ run'[t].ended = IF type \in EndTypes THEN n ELSE run[t].ended
  <2>1. run[t] \in Row
    BY <1>0, <1>1
  <2>. HIDE DEF t, n, type
  <2>. QED  BY <1>4, <2>1 DEF Updated, Row, new
<1>6. /\ shown'[t] = shown[t] \cup {run'[t].status}
      /\ \A u \in Triggers \ {t} : shown'[u] = shown[u]
      /\ UNCHANGED <<log, task, cursor, published, reported, untold>>
  BY <1>0, <1>1 DEF HandlerCommit, dagsterVars
<1>7. handler' = [handler EXCEPT ![h] =
                 IF new # handler[h].prev THEN [handler[h] EXCEPT !.pc = "publish"]
                 ELSE IdleHandler]
  BY <1>0 DEF HandlerCommit
<1>8. /\ new # handler[h].prev => /\ handler'[h].pc = "publish" /\ handler'[h].row = t
                                  /\ handler'[h].prev = handler[h].prev
                                  /\ handler'[h].event = n
                                  /\ handler'[h].type = type
      /\ new = handler[h].prev => handler'[h].pc = "idle"
      /\ \A g \in Handlers \ {h} : handler'[g] = handler[g]
  <2>1. handler[h] \in HandlerTypes
    BY <1>0
  <2>. HIDE DEF new
  <2>. QED  BY <1>0, <1>7, <2>1 DEF HandlerTypes, IdleHandler, t, n, type
<1>. QED  BY <1>1, <1>4, <1>5, <1>6, <1>8

LEMMA CommitHandlers ==
    ASSUME TypeInv, TypeInv', LogKept, PostsAreTrue, RowInv, HandlerInv, NEW h \in Handlers,
           HandlerCommit(h)
    PROVE  HandlerInv'
<1>. DEFINE t == handler[h].row
            n == handler[h].event
            type == handler[h].type
            new == StatusOf(type)
<1>1. /\ handler[h].pc = "commit" /\ t \in Triggers /\ Inserted(t)
      /\ n \in 1..Len(log) /\ type \in EventTypes
      /\ run[t].run = log[n].run /\ run'[t].run = run[t].run
      /\ run'[t].status = IF new # handler[h].prev THEN new ELSE run[t].status
      /\ run'[t].started = IF type = "RUN_START" THEN n ELSE run[t].started
      /\ run'[t].ended = IF type \in EndTypes THEN n ELSE run[t].ended
      /\ shown'[t] = shown[t] \cup {run'[t].status}
      /\ \A u \in Triggers \ {t} : run'[u] = run[u] /\ shown'[u] = shown[u]
      /\ UNCHANGED <<log, task, published>>
      /\ new # handler[h].prev => /\ handler'[h].pc = "publish" /\ handler'[h].row = t
                                  /\ handler'[h].prev = handler[h].prev
                                  /\ handler'[h].event = n
                                  /\ handler'[h].type = type
      /\ new = handler[h].prev => handler'[h].pc = "idle"
      /\ \A g \in Handlers \ {h} : handler'[g] = handler[g]
  BY CommitStep
<1>2. /\ new \in Statuses \ {"pending"}
      /\ new = "running" => type = "RUN_START"
      /\ new = "success" => type = "RUN_SUCCESS"
      /\ new = "failure" => type \in {"RUN_FAILURE", "RUN_CANCELED"}
      /\ type \in EndTypes => type # "RUN_START"
  <2>1. new \in Statuses \ {"pending"}
    BY <1>1, StatusOfType
  <2>. QED  BY <1>1, <2>1 DEF StatusOf, EventTypes, EndTypes, Statuses
<1>3. /\ handler[h].prev \in shown[t]
      /\ handler[h].prev # "pending" => run[t].status # "pending"
      /\ run[t].status \in shown[t]
      /\ run[t].status # "absent"
  BY <1>1 DEF HandlerInv, HandlersWereShown, PrevIsNoLead, StatusIsShown, Inserted
<1>4. \A u \in Triggers : /\ Inserted(u)' <=> Inserted(u)
                          /\ run'[u].run = run[u].run
                          /\ shown[u] \subseteq shown'[u]
                          /\ run[u].status # "pending" => run'[u].status # "pending"
  <2>1. run'[t].status # "absent"
    BY <1>1, <1>2, <1>3 DEF Statuses
  <2>. HIDE DEF t, new, type, n
  <2>. QED  BY <1>1, <1>2, <1>3, <2>1 DEF Inserted
<1>5. /\ handler'[h].pc \in {"publish", "idle"}
      /\ handler'[h].pc = "publish" => handler'[h].row = t /\ handler'[h].event = n
                                       /\ handler'[h].type = type
                                       /\ handler'[h].prev = handler[h].prev
                                       /\ new # handler[h].prev
  BY <1>1
<1>. HIDE DEF t, n, type, new
<1>6. HandlersHaveTheirRow'
  <2>1. ASSUME NEW g \in Handlers, handler'[g].pc \in {"commit", "publish"}
        PROVE  /\ run'[handler'[g].row].status # "absent"
               /\ run'[handler'[g].row].run = log'[handler'[g].event].run
    <3>1. CASE g = h
      BY <1>1, <1>4, <1>5, <2>1, <3>1 DEF Inserted
    <3>2. CASE g # h
      <4>1. /\ handler'[g] = handler[g] /\ handler[g].row \in Triggers
            /\ Inserted(handler[g].row) /\ run[handler[g].row].run = log[handler[g].event].run
        BY <1>1, <2>1, <3>2 DEF HandlerInv, HandlersHaveTheirRow, TypeInv, HandlersAreTyped
      <4>. QED  BY <1>1, <1>4, <4>1 DEF Inserted
    <3>. QED  BY <3>1, <3>2
  <2>. QED  BY <2>1 DEF HandlersHaveTheirRow, Inserted
<1>7. PrevIsNoLead'
  <2>1. ASSUME NEW g \in Handlers, handler'[g].pc = "commit", handler'[g].prev # "pending"
        PROVE  run'[handler'[g].row].status # "pending"
    <3>1. g # h
      BY <1>5, <2>1
    <3>2. /\ handler'[g] = handler[g] /\ handler[g].row \in Triggers
          /\ run[handler[g].row].status # "pending"
      BY <1>1, <2>1, <3>1 DEF HandlerInv, PrevIsNoLead, TypeInv, HandlersAreTyped
    <3>. QED  BY <1>4, <3>2
  <2>. QED  BY <2>1 DEF PrevIsNoLead
<1>8. HandlersWereShown'
  <2>1. ASSUME NEW g \in Handlers, handler'[g].pc \in {"commit", "publish"}
        PROVE  /\ handler'[g].prev \in shown'[handler'[g].row]
               /\ handler'[g].pc = "publish" =>
                     /\ StatusOf(handler'[g].type) \in shown'[handler'[g].row]
                     /\ StatusOf(handler'[g].type) # handler'[g].prev
    <3>1. CASE g = h
      BY <1>1, <1>3, <1>5, <2>1, <3>1 DEF new
    <3>2. CASE g # h
      <4>1. /\ handler'[g] = handler[g] /\ handler[g].row \in Triggers /\ log' = log
            /\ handler[g].prev \in shown[handler[g].row]
            /\ handler[g].pc = "publish" =>
                  /\ StatusOf(handler[g].type) \in shown[handler[g].row]
                  /\ StatusOf(handler[g].type) # handler[g].prev
        BY <1>1, <2>1, <3>2 DEF HandlerInv, HandlersWereShown, TypeInv, HandlersAreTyped
      <4>. QED  BY <1>4, <2>1, <4>1
    <3>. QED  BY <3>1, <3>2
  <2>. QED  BY <2>1 DEF HandlersWereShown
<1>9. StatusIsShown'
  <2>1. ASSUME NEW u \in Triggers, Inserted(u)'
        PROVE  run'[u].status \in shown'[u]
    BY <1>1, <1>4, <2>1 DEF HandlerInv, StatusIsShown
  <2>. QED  BY <2>1 DEF StatusIsShown
<1>12. /\ n # 0 /\ log[n].run \in BackfillIds
       /\ type = "RUN_START" => log[n].type = "RUN_START"
       /\ type \in EndTypes => StatusNow(n) \in Ended
       /\ new = "success" => \E k \in Sources : task[log[n].run][k] \in {"SUCCESS"}
       /\ new = "failure" => \E k \in Sources : task[log[n].run][k] \in {"FAILURE", "CANCELED"}
  <2>1. n # 0 /\ log[n].run \in BackfillIds /\ log[n].key \in Sources
    BY <1>1, LogEntries, TypeParts
  <2>2. PostIsTrue(n, type)
    BY <1>1 DEF PostsAreTrue, n, type
  <2>3. /\ type = "RUN_SUCCESS" => StatusNow(n) = "SUCCESS"
        /\ type \in {"RUN_FAILURE", "RUN_CANCELED"} => StatusNow(n) \in {"FAILURE", "CANCELED"}
    BY <2>2 DEF PostIsTrue, EndTypes, Ended, EventTypeMap
  <2>. QED  BY <1>2, <2>1, <2>2, <2>3 DEF PostIsTrue, StatusNow
<1>10. StatusIsReported'
  <2>1. ASSUME NEW u \in Triggers, Inserted(u)'
        PROVE  RowIsReported(u)'
    <3>1. RowIsReported(u)
      BY <1>4, <2>1, ReportedRows DEF HandlerInv
    <3>2. CASE u # t
      BY <1>1, <1>4, <2>1, <3>1, <3>2, RowIsReportedKept DEF RowInv
    <3>3. CASE u = t
      <4>. DEFINE b == log[n].run
      <4>1. /\ run[t].started # 0 => /\ run[t].started \in 1..Len(log)
                                     /\ log[run[t].started].run = b
                                     /\ log[run[t].started].type = "RUN_START"
            /\ run[t].ended # 0 =>
                  /\ run[t].ended \in 1..Len(log) /\ log[run[t].ended].run = b
                  /\ task[log[run[t].ended].run][log[run[t].ended].key] \in Ended
            /\ run[t].status = "running" => run[t].started # 0
            /\ run[t].status = "success" =>
                  run[t].ended # 0 /\ \E k \in Sources : task[b][k] \in {"SUCCESS"}
            /\ run[t].status = "failure" =>
                  run[t].ended # 0 /\ \E k \in Sources : task[b][k] \in {"FAILURE", "CANCELED"}
            /\ run[t].status = "pending" => run[t].started = 0 /\ run[t].ended = 0
        BY <1>1, <3>1, <3>3 DEF RowIsReported, StatusNow
      <4>2. type = "RUN_START" \/ type \in EndTypes
        BY <1>1 DEF EventTypes
      <4>3. /\ run'[t].started # 0 => /\ run'[t].started \in 1..Len(log)
                                      /\ log[run'[t].started].run = b
                                      /\ log[run'[t].started].type = "RUN_START"
            /\ run'[t].ended # 0 =>
                  /\ run'[t].ended \in 1..Len(log) /\ log[run'[t].ended].run = b
                  /\ task[log[run'[t].ended].run][log[run'[t].ended].key] \in Ended
        BY <1>1, <1>12, <4>1 DEF StatusNow
      <4>4. /\ run'[t].status = "running" => run'[t].started # 0
            /\ run'[t].status = "success" =>
                  run'[t].ended # 0 /\ \E k \in Sources : task[b][k] \in {"SUCCESS"}
            /\ run'[t].status = "failure" =>
                  run'[t].ended # 0 /\ \E k \in Sources : task[b][k] \in {"FAILURE", "CANCELED"}
            /\ run'[t].status # "pending"
        BY <1>1, <1>2, <1>3, <1>12, <4>1, <4>2
      <4>5. run'[t].run = b /\ log' = log /\ task' = task
        BY <1>1
      <4>. QED  BY <3>3, <4>3, <4>4, <4>5 DEF RowIsReported, StatusNow
    <3>. QED  BY <3>2, <3>3
  <2>. QED  BY <2>1, ReportedRowsNext
<1>11. PublishedWasCommitted'
  BY <1>1, <1>4 DEF HandlerInv, PublishedWasCommitted
<1>. QED  BY <1>6, <1>7, <1>8, <1>9, <1>10, <1>11 DEF HandlerInv

LEMMA PublishHandlers ==
    ASSUME TypeInv, TypeInv', LogKept, RowInv, HandlerInv, NEW h \in Handlers, HandlerPublish(h)
    PROVE  HandlerInv'
<1>. DEFINE t == handler[h].row
            new == StatusOf(handler[h].type)
<1>1. /\ handler[h].pc = "publish" /\ t \in Triggers /\ Inserted(t)
      /\ new \in shown[t] /\ handler[h].prev \in shown[t] /\ new # handler[h].prev
  BY DEF HandlerPublish, HandlerInv, HandlersHaveTheirRow, HandlersWereShown, TypeInv,
         HandlersAreTyped
<1>2. UNCHANGED <<run, log, task, shown>>
  BY DEF HandlerPublish, dagsterVars
<1>3. /\ published'[t] = [from |-> handler[h].prev, to |-> new]
      /\ \A u \in Triggers \ {t} : published'[u] = published[u]
  BY <1>1 DEF HandlerPublish, TypeInv, TypeOK
<1>4. PublishedWasCommitted'
  BY <1>1, <1>2, <1>3 DEF HandlerInv, PublishedWasCommitted
<1>5. \A g \in Handlers : handler'[g].pc \in {"commit", "publish"} => handler'[g] = handler[g]
  BY DEF HandlerPublish, TypeInv, TypeOK, IdleHandler
<1>6. HandlersHaveTheirRow' /\ PrevIsNoLead' /\ HandlersWereShown'
  <2>1. RowsStay
    BY <1>2 DEF RowsStay
  <2>. QED  BY <1>5, <2>1, HandlersKept DEF HandlerInv
<1>7. StatusIsShown' /\ StatusIsReported'
  BY <1>2 DEF HandlerInv, StatusIsShown, StatusIsReported, StatusNow, Inserted
<1>. QED  BY <1>4, <1>6, <1>7 DEF HandlerInv

LEMMA HandlersNext ==
    ASSUME TypeInv, TypeInv', LogKept, PostsAreTrue, RowInv, HandlerInv, [Next]_vars
    PROVE  HandlerInv'
<1>1. CASE \E t \in Triggers : TriggerNext(t)
  BY <1>1, HandlersOfTrigger
<1>2. CASE \E b \in BackfillIds, k \in Sources : TaskNext(b, k)
  BY <1>2, HandlersOfTask
<1>3. CASE \E type \in EventTypes : SensorNext(type)
  BY <1>3, HandlersOfSensor
<1>4. ASSUME NEW h \in Handlers, HandlerNext(h)
      PROVE  HandlerInv'
  BY <1>4, SelectHandlers, IdleHandlers, CommitHandlers, PublishHandlers DEF HandlerNext
<1>5. CASE UNCHANGED vars
  <2>1. UNCHANGED <<run, shown, published, handler>>
    BY <1>5 DEF vars
  <2>. QED  BY <2>1, RowsAlone, QuietHandlers DEF RowInv
<1>. QED  BY <1>1, <1>2, <1>3, <1>4, <1>5 DEF Next
-----------------------------------------------------------------------------
(* What a step means for the backfills it is not about.                    *)

\* The handlers and the rows of backfill b stay.
SameFor(b) ==
    /\ Busy(b)' = Busy(b)
    /\ \A h \in Busy(b) : handler'[h] = handler[h]
    /\ \A t \in Triggers : run'[t].run = b \/ run[t].run = b =>
          run'[t] = run[t] /\ published'[t] = published[t]

\* No event of b is dealt with, and what its tasks come to is logged.
SameEvents(b) ==
    /\ Undealt(b) => Undealt(b)'
    /\ NoneDealtWith(b) => NoneDealtWith(b)'
    /\ \A n \in 1..Len(log) : log[n].run = b =>
          ShownFor(StatusNow(n))' = ShownFor(StatusNow(n)) \/ Undealt(b)'

LEMMA BusyStays ==
    UNCHANGED <<handler, log>> =>
       \A b : Busy(b)' = Busy(b) /\ \A h \in Busy(b) : handler'[h] = handler[h]
BY DEF Busy

LEMMA BusyElsewhere ==
    ASSUME NEW h \in Handlers, NEW b, log' = log,
           \A g \in Handlers \ {h} : handler'[g] = handler[g],
           h \notin Busy(b), handler'[h].pc # "idle" => log[handler'[h].event].run # b
    PROVE  Busy(b)' = Busy(b) /\ \A g \in Busy(b) : handler'[g] = handler[g]
BY DEF Busy

LEMMA EventsStay == UNCHANGED <<log, task, cursor>> => \A b : SameEvents(b)
BY DEF SameEvents, Undealt, NoneDealtWith, StatusNow

LEMMA EventsOfTrigger ==
    ASSUME TypeInv, DagsterInv, NEW t \in Triggers, TriggerNext(t), NEW c \in BackfillIds
    PROVE  SameEvents(c)
<1>1. CASE TriggerLaunch(t)
  <2>1. PICK b \in {x \in BackfillIds : backfills[x] = {}} :
           \A d \in BackfillIds \ {b} : task'[d] = task[d]
    BY <1>1 DEF TriggerLaunch, TypeInv, TypeOK
  <2>2. \A n \in 1..Len(log) : log[n].run \in BackfillIds /\ log[n].key \in Sources
    BY LogEntries, TypeParts
  <2>3. \A n \in 1..Len(log) : log[n].run # b
    BY <2>2 DEF DagsterInv, EventIsTrue, StatusNow
  <2>4. \A n \in 1..Len(log) : task'[log[n].run] = task[log[n].run]
    BY <2>1, <2>2, <2>3
  <2>5. UNCHANGED <<log, cursor>>
    BY <1>1 DEF TriggerLaunch
  <2>. QED  BY <2>4, <2>5 DEF SameEvents, Undealt, NoneDealtWith, StatusNow
<1>2. CASE TriggerStart(t) \/ TriggerPartition(t) \/ TriggerInsert(t) \/ TriggerDies(t)
  BY <1>2, EventsStay DEF TriggerStart, TriggerPartition, TriggerInsert, TriggerDies, dagsterVars
<1>. QED  BY <1>1, <1>2 DEF TriggerNext

\* A task that comes to something which a row can show logs an event, which no sensor
\* has dealt with.
LEMMA EventsOfTask ==
    ASSUME TypeInv, DagsterInv, NEW b \in BackfillIds, NEW k \in Sources, TaskNext(b, k),
           NEW c \in BackfillIds
    PROVE  SameEvents(c)
<1>0. /\ DagsterTyped /\ task \in [BackfillIds -> [Sources -> TaskStatuses]]
      /\ Len(log) \in Nat /\ cursor \in [EventTypes -> Nat] /\ cursor' = cursor
      /\ \A type \in EventTypes : cursor[type] <= Len(log)
  BY TypeParts DEF DagsterTyped, ReportsTyped, DagsterInv, TaskNext, TaskStart, TaskCancel, TaskEnd
<1>1. PICK s \in TaskStatuses \ {"NONE", "QUEUED"} :
         /\ task' = [task EXCEPT ![b][k] = s]
         /\ \/ task[b][k] = "STARTED" /\ s = "CANCELING" /\ log' = log
            \/ /\ s \in DOMAIN EventTypeMap
               /\ log' = Append(log, [run |-> b, key |-> k, type |-> EventTypeMap[s]])
  BY <1>0, TaskSteps
<1>2. /\ task'[b][k] = s
      /\ \A d \in BackfillIds, j \in Sources : d # b \/ j # k => task'[d][j] = task[d][j]
  BY <1>0, <1>1
<1>3. \A n \in 1..Len(log) : log[n].run \in BackfillIds /\ log[n].key \in Sources
                             /\ log[n].type \in EventTypes
  BY <1>0, LogEntries
<1>4. CASE task[b][k] = "STARTED" /\ s = "CANCELING" /\ log' = log
  <2>1. \A n \in 1..Len(log) : ShownFor(StatusNow(n))' = ShownFor(StatusNow(n))
    <3>1. ASSUME NEW n \in 1..Len(log)
          PROVE  ShownFor(StatusNow(n))' = ShownFor(StatusNow(n))
      <4>1. CASE log[n].run = b /\ log[n].key = k
        <5>1. ShownFor("STARTED") = "running" /\ ShownFor("CANCELING") = "running"
          BY DEF ShownFor
        <5>2. StatusNow(n) = "STARTED" /\ StatusNow(n)' = "CANCELING"
          BY <1>2, <1>4, <4>1 DEF StatusNow
        <5>. QED  BY <5>1, <5>2 DEF ShownFor
      <4>2. CASE ~(log[n].run = b /\ log[n].key = k)
        <5>1. StatusNow(n)' = StatusNow(n)
          BY <1>2, <1>3, <1>4, <4>2 DEF StatusNow
        <5>. QED  BY <5>1 DEF ShownFor
      <4>. QED  BY <4>1, <4>2
    <3>. QED  BY <3>1
  <2>. QED  BY <1>0, <1>4, <2>1 DEF SameEvents, Undealt, NoneDealtWith
<1>5. CASE /\ s \in DOMAIN EventTypeMap
           /\ log' = Append(log, [run |-> b, key |-> k, type |-> EventTypeMap[s]])
  <2>. DEFINE e == [run |-> b, key |-> k, type |-> EventTypeMap[s]]
  <2>1. e \in LogEntry /\ log' = Append(log, e) /\ e.run = b /\ e.type \in EventTypes
    BY <1>5, MapOfStatus DEF LogEntry
  <2>. HIDE DEF e
  <2>2. PICK m \in Nat :
           /\ m = Len(log) + 1 /\ Len(log') = m /\ log'[m] = e
           /\ \A n \in 1..Len(log) : log'[n] = log[n]
    BY <1>0, <2>1, LogGrows
  <2>3. /\ m \in 1..Len(log') /\ cursor'[log'[m].type] < m
        /\ \A n \in 1..Len(log) : n \in 1..Len(log')
        /\ \A n \in 1..Len(log') : n \in 1..Len(log) \/ n = m
    BY <1>0, <2>1, <2>2
  <2>4. Undealt(c) => Undealt(c)'
    BY <1>0, <2>2, <2>3 DEF Undealt
  <2>5. NoneDealtWith(c) => NoneDealtWith(c)'
    BY <1>0, <2>2, <2>3 DEF NoneDealtWith
  <2>6. c = b => Undealt(c)'
    BY <2>1, <2>2, <2>3 DEF Undealt
  <2>7. c # b => \A n \in 1..Len(log) : log[n].run = c => StatusNow(n)' = StatusNow(n)
    BY <1>2, <1>3, <2>2 DEF StatusNow
  <2>. QED  BY <2>4, <2>5, <2>6, <2>7 DEF SameEvents, ShownFor
<1>. QED  BY <1>1, <1>4, <1>5

\* A sensor takes its events in the order of the log, so it passes none.
LEMMA EventsOfSensor ==
    ASSUME TypeInv, NEW type \in EventTypes, SensorNext(type), NEW c \in BackfillIds,
           log[NextEvent(type)].run # c
    PROVE  SameEvents(c)
<1>1. /\ Pending(type) # {} /\ UNCHANGED <<log, task>>
      /\ cursor' = cursor \/ cursor' = [cursor EXCEPT ![type] = NextEvent(type)]
  BY SensorSteps
<1>2. PICK n \in Pending(type) : n = NextEvent(type) /\ \A m \in Pending(type) : n <= m
  BY <1>1, NextEventIsFirst DEF TypeInv
<1>3. /\ Len(log) \in Nat /\ cursor \in [EventTypes -> Nat]
      /\ \A m \in 1..Len(log) : log[m].type \in EventTypes
  BY LogEntries, TypeParts DEF TypeInv, TypeOK
<1>4. ASSUME NEW m \in 1..Len(log), log[m].run = c
      PROVE  cursor[log[m].type] < m => cursor'[log[m].type] < m
  <2>1. CASE cursor' = cursor \/ log[m].type # type
    BY <1>1, <1>3, <2>1
  <2>2. CASE cursor' = [cursor EXCEPT ![type] = n] /\ log[m].type = type /\ cursor[type] < m
    <3>1. m \in Pending(type)
      BY <1>3, <2>2 DEF Pending
    <3>2. n <= m /\ n # m /\ n \in Nat
      BY <1>2, <1>3, <1>4, <3>1 DEF Pending
    <3>. QED  BY <1>3, <2>2, <3>2
  <2>. QED  BY <1>1, <1>2, <2>1, <2>2
<1>. QED  BY <1>1, <1>4 DEF SameEvents, Undealt, NoneDealtWith, StatusNow

\* A step that leaves backfill c alone.
Same(c) ==
    /\ SameFor(c) /\ SameEvents(c)
    /\ reported'[c] = reported[c] /\ (c \in untold' <=> c \in untold)

LEMMA SameOfTrigger ==
    ASSUME TypeInv, DagsterInv, RowInv, NEW t \in Triggers, TriggerNext(t), NEW c \in BackfillIds,
           TriggerInsert(t) => request[t].run # c
    PROVE  Same(c)
<1>1. UNCHANGED <<log, handler, published, reported, untold>>
  BY DEF TriggerNext, TriggerStart, TriggerPartition, TriggerLaunch, TriggerInsert, TriggerDies,
         dagsterVars, historyVars
<1>2. ASSUME NEW u \in Triggers, run'[u].run = c \/ run[u].run = c
      PROVE  run'[u] = run[u]
  <2>1. CASE TriggerInsert(t)
    <3>1. run[t].run = Null /\ run'[t].run = request[t].run
      BY <2>1 DEF TriggerInsert, RowInv, InsertedLast, AbsentIsEmpty, AbsentRun, TypeInv, TypeOK
    <3>. QED  BY <1>2, <2>1, <3>1, NullIsNoValue DEF TriggerInsert, TypeInv, TypeOK
  <2>2. CASE ~TriggerInsert(t)
    BY <2>2 DEF TriggerNext, TriggerStart, TriggerPartition, TriggerLaunch, TriggerDies
  <2>. QED  BY <2>1, <2>2
<1>3. SameFor(c)
  BY <1>1, <1>2, BusyStays DEF SameFor
<1>. QED  BY <1>1, <1>3, EventsOfTrigger DEF Same

LEMMA SameOfTask ==
    ASSUME TypeInv, DagsterInv, LogKept, NEW b \in BackfillIds, NEW k \in Sources,
           TaskNext(b, k), NEW c \in BackfillIds
    PROVE  Same(c)
<1>1. UNCHANGED <<run, published, handler, reported, untold>>
  BY DEF TaskNext, TaskStart, TaskCancel, TaskEnd, historyVars
<1>2. \A h \in Handlers : handler[h].pc # "idle" =>
         log'[handler[h].event] = log[handler[h].event]
  BY DEF LogKept, TypeInv, HandlersAreTyped
<1>3. Busy(c)' = Busy(c)
  BY <1>1, <1>2 DEF Busy
<1>4. SameFor(c)
  BY <1>1, <1>3 DEF SameFor, Busy
<1>. QED  BY <1>1, <1>4, EventsOfTask DEF Same

LEMMA SameOfSensor ==
    ASSUME TypeInv, NEW type \in EventTypes, SensorNext(type), NEW c \in BackfillIds,
           log[NextEvent(type)].run # c
    PROVE  Same(c)
<1>1. PICK n \in 1..Len(log) :
         /\ n = NextEvent(type) /\ UNCHANGED <<run, log, published>>
         /\ Dropped(n) \/ \E h \in Handlers : Posted(n, h)
  BY SensorSteps
<1>2. /\ log[n].run \in BackfillIds /\ log[n].run # c
      /\ reported \in [BackfillIds -> Nat \cup {Null}]
  BY <1>1, LogEntries, TypeParts DEF ReportsTyped
<1>3. reported'[c] = reported[c] /\ (c \in untold' <=> c \in untold)
  BY <1>1, <1>2 DEF Dropped, Posted, Lose, Report
<1>4. SameFor(c)
  <2>1. CASE Dropped(n)
    BY <1>1, <2>1, BusyStays DEF Dropped, SameFor
  <2>2. ASSUME NEW h \in Handlers, Posted(n, h)
        PROVE  SameFor(c)
    <3>1. Received(h, n)
      BY <2>2, PostReceived
    <3>2. Busy(c)' = Busy(c) /\ \A g \in Busy(c) : handler'[g] = handler[g]
      BY <1>1, <1>2, <3>1, BusyElsewhere DEF Received, Busy
    <3>. QED  BY <1>1, <3>2 DEF SameFor
  <2>. QED  BY <1>1, <2>1, <2>2
<1>. QED  BY <1>3, <1>4, EventsOfSensor DEF Same

LEMMA SameOfHandler ==
    ASSUME TypeInv, HandlerInv, NEW h \in Handlers, HandlerNext(h), NEW c \in BackfillIds,
           log[handler[h].event].run # c
    PROVE  Same(c)
<1>1. /\ \A g \in Handlers \ {h} : handler'[g] = handler[g]
      /\ handler[h].pc # "idle"
      /\ handler'[h].pc # "idle" => handler'[h].event = handler[h].event
      /\ UNCHANGED <<log, task, cursor>>
  BY HandlerAlone
<1>2. PICK n \in 1..Len(log) : n = handler[h].event
  BY <1>1 DEF TypeInv, HandlersAreTyped
<1>3. /\ log[n].run \in BackfillIds /\ log[n].run # c
      /\ reported \in [BackfillIds -> Nat \cup {Null}]
  BY <1>2, LogEntries, TypeParts DEF ReportsTyped
<1>4. reported'[c] = reported[c] /\ (c \in untold' <=> c \in untold)
  BY <1>2, <1>3 DEF HandlerNext, HandlerSelect, HandlerUnknownRun, HandlerCommit, HandlerPublish,
                    HandlerDies, HandlerDiesUntold, Lose, Tell, historyVars
<1>5. ASSUME NEW t \in Triggers, run'[t].run = c \/ run[t].run = c
      PROVE  run'[t] = run[t] /\ published'[t] = published[t]
  <2>1. CASE HandlerCommit(h)
    <3>1. t # handler[h].row
      BY <1>2, <1>3, <1>5, <2>1, CommitStep
    <3>. QED  BY <2>1, <3>1, CommitStep
  <2>2. CASE HandlerPublish(h)
    <3>1. /\ run' = run /\ run[handler[h].row].run # c
          /\ \A u \in Triggers : u # handler[h].row => published'[u] = published[u]
      BY <1>2, <1>3, <2>2 DEF HandlerPublish, HandlerInv, HandlersHaveTheirRow, TypeInv, TypeOK
    <3>. QED  BY <1>5, <3>1
  <2>3. CASE HandlerSelect(h) \/ HandlerUnknownRun(h) \/ HandlerDies(h) \/ HandlerDiesUntold(h)
    BY <2>3 DEF HandlerSelect, HandlerUnknownRun, HandlerDies, HandlerDiesUntold, historyVars
  <2>. QED  BY <2>1, <2>2, <2>3 DEF HandlerNext
<1>6. SameFor(c)
  <2>1. Busy(c)' = Busy(c) /\ \A g \in Busy(c) : handler'[g] = handler[g]
    BY <1>1, <1>2, <1>3, BusyElsewhere DEF Busy
  <2>. QED  BY <1>5, <2>1 DEF SameFor
<1>. QED  BY <1>1, <1>4, <1>6, EventsStay DEF Same

\* As long as a backfill has no row, its handlers have not selected one.
LEMMA BusyIsSelecting ==
    ASSUME TypeInv, HandlerInv, NEW b \in BackfillIds, \A t \in Triggers : run[t].run # b
    PROVE  \A h \in Busy(b) : handler[h].pc = "select"
<1>1. ASSUME NEW h \in Busy(b), handler[h].pc \in {"commit", "publish"}
      PROVE  FALSE
  <2>1. run[handler[h].row].run = b /\ handler[h].row \in Triggers
    BY <1>1 DEF Busy, HandlerInv, HandlersHaveTheirRow, TypeInv, HandlersAreTyped
  <2>. QED  BY <2>1
<1>2. \A h \in Busy(b) : handler[h] \in HandlerTypes /\ handler[h].pc # "idle"
  BY TypeParts DEF Busy, HandlersTyped
<1>. QED  BY <1>1, <1>2 DEF HandlerTypes

\* No two rows name the same backfill.
LEMMA OneRow ==
    ASSUME RowInv, NEW b \in BackfillIds, NEW t \in Triggers, NEW u \in Triggers,
           run[t].run = b, run[u].run = b
    PROVE  t = u
<1>1. Inserted(t) /\ Inserted(u)
  BY NullIsNoValue DEF RowInv, AbsentIsEmpty, AbsentRun
<1>. QED  BY <1>1 DEF RowInv, RowsAreLaunched
-----------------------------------------------------------------------------
(* Backfills whose last reported event met no other handler.               *)

LEMMA TrackedKept ==
    ASSUME TypeInv, TypeInv', LogKept, NEW b \in BackfillIds, SameFor(b), SameEvents(b),
           reported'[b] = reported[b], Tracked(b)
    PROVE  Tracked(b)'
<1>0. Len(log) \in Nat /\ Len(log') \in Nat /\ Len(log) <= Len(log')
  BY DEF TypeInv, TypeOK, LogKept
<1>1. /\ reported[b] \in 0..Len(log) /\ reported[b] \in 0..Len(log')
      /\ reported[b] # 0 => /\ reported[b] \in 1..Len(log) /\ log[reported[b]].run = b
                            /\ log'[reported[b]] = log[reported[b]]
  BY <1>0 DEF Tracked, IsAlone, LogKept
<1>2. IsAlone(b)'
  BY <1>1 DEF SameFor, Tracked, IsAlone
<1>3. MetItsRow(b)'
  BY <1>1 DEF SameFor, Tracked, MetItsRow
<1>4. reported'[b] = 0 => NoneDealtWith(b)'
  BY <1>1 DEF Tracked, SameEvents
<1>5. ASSUME NEW n \in 1..Len(log), log[n].run = b, NEW status, IsFresh(n, status)
      PROVE  IsFresh(n, status)'
  <2>1. log'[n] = log[n]
    BY DEF LogKept
  <2>. QED  BY <1>5, <2>1 DEF IsFresh, SameEvents
<1>6. \A h \in Busy(b) : /\ handler'[h] = handler[h]
                         /\ handler[h].event \in 1..Len(log) /\ log[handler[h].event].run = b
                         /\ IsFresh(handler[h].event, StatusOf(handler[h].type))
  BY DEF SameFor, Tracked, Busy, TypeInv, HandlersAreTyped
<1>7. \A h \in Busy(b)' : IsFresh(handler[h].event, StatusOf(handler[h].type))'
  <2>1. ASSUME NEW h \in Busy(b)
        PROVE  IsFresh(handler[h].event, StatusOf(handler[h].type))'
    <3>1. PICK n \in 1..Len(log) : n = handler[h].event
      BY <1>6
    <3>2. PICK status \in {StatusOf(handler[h].type)} : status = StatusOf(handler[h].type)
      OBVIOUS
    <3>3. IsFresh(n, status)'
      BY <1>5, <1>6, <3>1, <3>2
    <3>. QED  BY <1>6, <3>1, <3>2, <3>3 DEF IsFresh, StatusNow, StatusOf
  <2>. QED  BY <2>1 DEF SameFor
<1>8. ASSUME NEW t \in Triggers, run'[t].run = b
      PROVE  RowFollows(t, b)'
  <2>1. run'[t] = run[t] /\ RowFollows(t, b)
    BY <1>8 DEF SameFor, Tracked
  <2>2. reported[b] # 0 /\ IsFresh(reported[b], run[t].status) =>
           IsFresh(reported[b], run[t].status)'
    <3>1. PICK n \in Nat : n = reported[b]
      BY <1>1
    <3>2. PICK status \in {run[t].status} : status = run[t].status
      OBVIOUS
    <3>3. n # 0 /\ IsFresh(n, status) => IsFresh(n, status)'
      BY <1>1, <1>5, <3>1
    <3>. QED  BY <2>1, <3>1, <3>2, <3>3 DEF IsFresh, StatusNow
  <2>. QED  BY <1>1, <2>1, <2>2 DEF RowFollows, SameFor
<1>. QED  BY <1>2, <1>3, <1>4, <1>7, <1>8 DEF Tracked

LEMMA TrackedElsewhere ==
    ASSUME TypeInv, TypeInv', LogKept, TrackInv, NEW c \in BackfillIds, Same(c),
           reported'[c] # Null
    PROVE  Tracked(c)'
<1>1. SameFor(c) /\ SameEvents(c) /\ reported'[c] = reported[c]
  BY DEF Same
<1>2. Tracked(c)
  BY <1>1 DEF TrackInv
<1>. QED  BY <1>1, <1>2, TrackedKept

LEMMA TrackOfTrigger ==
    ASSUME TypeInv, TypeInv', DagsterInv, LogKept, RowInv, HandlerInv, TrackInv,
           NEW t \in Triggers, TriggerNext(t)
    PROVE  TrackInv'
<1>1. ASSUME NEW b \in BackfillIds, TriggerInsert(t) => request[t].run # b, reported'[b] # Null
      PROVE  Tracked(b)'
  BY <1>1, SameOfTrigger, TrackedElsewhere
<1>2. ASSUME NEW b \in BackfillIds, TriggerInsert(t), request[t].run = b, reported'[b] # Null
      PROVE  Tracked(b)'
  <2>0. UNCHANGED <<log, task, cursor, handler, reported>>
    BY <1>2 DEF TriggerInsert, dagsterVars
  <2>1. /\ \A u \in Triggers : run[u].run # b
        /\ run'[t].run = b /\ run'[t].status = "pending"
        /\ \A u \in Triggers \ {t} : run'[u] = run[u]
    BY <1>2 DEF TriggerInsert, RowInv, LaunchIsOwned, TypeInv, TypeOK
  <2>2. Tracked(b)
    BY <1>2, <2>0 DEF TrackInv
  <2>3. Busy(b)' = Busy(b) /\ (Busy(b) = {} => reported[b] = 0)
    BY <2>0, <2>1, <2>2, BusyStays DEF Tracked, MetItsRow
  <2>4. \A h \in Busy(b) : handler[h].pc = "select"
    BY <2>1, BusyIsSelecting
  <2>5. IsAlone(b)' /\ MetItsRow(b)'
    BY <2>0, <2>1, <2>2, <2>3 DEF Tracked, IsAlone, MetItsRow
  <2>6. reported'[b] = 0 => NoneDealtWith(b)'
    BY <2>0, <2>2 DEF Tracked, NoneDealtWith
  <2>7. \A h \in Busy(b)' : IsFresh(handler[h].event, StatusOf(handler[h].type))'
    BY <2>0, <2>2, <2>3 DEF Tracked, IsFresh, Undealt, StatusNow
  <2>8. RowFollows(t, b)'
    BY <2>0, <2>1, <2>3, <2>4 DEF RowFollows
  <2>. QED  BY <2>1, <2>5, <2>6, <2>7, <2>8 DEF Tracked
<1>. QED  BY <1>1, <1>2 DEF TrackInv

LEMMA TrackOfSensor ==
    ASSUME TypeInv, TypeInv', LogKept, TrackInv, NEW type \in EventTypes, SensorNext(type)
    PROVE  TrackInv'
<1>1. PICK n \in 1..Len(log) :
         /\ n = NextEvent(type) /\ UNCHANGED <<run, log, task, published>>
         /\ Dropped(n) \/ \E h \in Handlers : Posted(n, h)
  BY SensorSteps
<1>2. PICK b \in BackfillIds : b = log[n].run
  BY LogEntries, TypeParts
<1>3. ASSUME NEW c \in BackfillIds \ {b}, reported'[c] # Null
      PROVE  Tracked(c)'
  BY <1>1, <1>2, <1>3, SameOfSensor, TrackedElsewhere
<1>4. ASSUME reported'[b] # Null
      PROVE  Tracked(b)'
  <2>1. reported \in [BackfillIds -> Nat \cup {Null}]
    BY TypeParts DEF ReportsTyped
  <2>2. PICK h \in Handlers : Posted(n, h)
    BY <1>1, <1>2, <1>4, <2>1 DEF Dropped, Lose
  <2>3. Busy(b) = {} /\ reported'[b] = n
    BY <1>2, <1>4, <2>1, <2>2 DEF Posted, Report
  <2>4. Received(h, n) /\ StatusNow(n) \in DOMAIN EventTypeMap
    BY <2>2, PostReceived DEF Posted
  <2>5. \A g \in Busy(b)' : g = h
    BY <1>1, <1>2, <2>3, <2>4 DEF Received, Busy
  <2>6. h \in Busy(b)' /\ n # 0 /\ n \in 0..Len(log)
    BY <1>1, <1>2, <2>4, LogEntries, TypeParts DEF Received, Busy
  <2>7. IsAlone(b)' /\ MetItsRow(b)'
    BY <1>1, <1>2, <2>3, <2>4, <2>5, <2>6 DEF IsAlone, MetItsRow, Received
  <2>8. IsFresh(handler[h].event, StatusOf(handler[h].type))'
    <3>1. handler'[h].event = n /\ StatusOf(handler'[h].type) = ShownFor(StatusNow(n))
      BY <2>4, MapOfStatus DEF Received
    <3>. QED  BY <1>1, <3>1 DEF IsFresh, StatusNow
  <2>9. \A t \in Triggers : RowFollows(t, b)'
    <3>1. Busy(b)' # {} /\ handler'[h].pc = "select"
      BY <2>4, <2>6 DEF Received
    <3>. QED  BY <2>5, <3>1 DEF RowFollows
  <2>10. \A g \in Busy(b)' : IsFresh(handler[g].event, StatusOf(handler[g].type))'
    BY <2>5, <2>8
  <2>. QED  BY <2>3, <2>6, <2>7, <2>9, <2>10 DEF Tracked
<1>. QED  BY <1>3, <1>4 DEF TrackInv

LEMMA TrackOfSelect ==
    ASSUME TypeInv, TypeInv', RowInv, TrackInv, NEW h \in Handlers, HandlerSelect(h),
           NEW b \in BackfillIds, b = log[handler[h].event].run, reported'[b] # Null
    PROVE  Tracked(b)'
<1>1. /\ handler[h].pc = "select" /\ UNCHANGED <<run, log, task, cursor, reported>>
      /\ \A g \in Handlers \ {h} : handler'[g] = handler[g]
  BY HandlerAlone DEF HandlerSelect, HandlerNext, historyVars, dagsterVars
<1>2. PICK t \in Triggers :
         /\ run[t].run = b /\ handler'[h].pc = "commit" /\ handler'[h].row = t
         /\ handler'[h].prev = run[t].status /\ handler'[h].event = handler[h].event
         /\ handler'[h].type = handler[h].type
  BY TypeParts DEF HandlerSelect, HandlersTyped, HandlerTypes
<1>3. Tracked(b) /\ h \in Busy(b)
  BY <1>1 DEF TrackInv, Busy
<1>4. Busy(b)' = Busy(b) /\ \A g \in Busy(b) : g = h
  BY <1>1, <1>2, <1>3 DEF Busy, Tracked, IsAlone
<1>5. IsAlone(b)' /\ MetItsRow(b)'
  BY <1>1, <1>2, <1>3, <1>4 DEF Tracked, IsAlone, MetItsRow
<1>6. reported'[b] = 0 => NoneDealtWith(b)'
  BY <1>1, <1>3 DEF Tracked, NoneDealtWith
<1>7. \A g \in Busy(b)' : IsFresh(handler[g].event, StatusOf(handler[g].type))'
  BY <1>1, <1>2, <1>3, <1>4 DEF Tracked, IsFresh, Undealt, StatusNow
<1>8. RowFollows(t, b)'
  BY <1>1, <1>2, <1>3, <1>4 DEF RowFollows
<1>9. \A u \in Triggers : run'[u].run = b => u = t
  BY <1>1, <1>2, OneRow
<1>. QED  BY <1>5, <1>6, <1>7, <1>8, <1>9 DEF Tracked

LEMMA TrackOfIdle ==
    ASSUME TypeInv, NEW h \in Handlers, HandlerUnknownRun(h) \/ HandlerDies(h),
           NEW b \in BackfillIds, b = log[handler[h].event].run
    PROVE  reported'[b] = Null
BY TypeParts DEF HandlerUnknownRun, HandlerDies, Lose, ReportsTyped

LEMMA TrackOfCommit ==
    ASSUME TypeInv, TypeInv', RowInv, HandlerInv, TrackInv, NEW h \in Handlers,
           HandlerCommit(h), NEW b \in BackfillIds, b = log[handler[h].event].run,
           reported'[b] # Null
    PROVE  Tracked(b)'
<1>1. PICK t \in Triggers, n \in 1..Len(log), type \in EventTypes :
         /\ t = handler[h].row /\ n = handler[h].event /\ type = handler[h].type
         /\ handler[h].pc = "commit" /\ run[t].run = log[n].run /\ run'[t].run = run[t].run
         /\ run'[t].status = IF StatusOf(type) # handler[h].prev THEN StatusOf(type)
                             ELSE run[t].status
         /\ \A u \in Triggers \ {t} : run'[u] = run[u]
         /\ UNCHANGED <<log, task, cursor, reported>>
         /\ handler'[h].pc # "idle" => handler'[h].event = n /\ handler'[h].type = type
         /\ StatusOf(type) # handler[h].prev => handler'[h].pc = "publish"
         /\ StatusOf(type) = handler[h].prev => handler'[h].pc = "idle"
         /\ \A g \in Handlers \ {h} : handler'[g] = handler[g]
  BY CommitStep
<1>2. Tracked(b) /\ h \in Busy(b) /\ n # 0
  BY <1>1 DEF TrackInv, Busy
<1>3. /\ \A g \in Busy(b) : g = h
      /\ reported[b] = n /\ n \in 0..Len(log) /\ log[n].run = b
      /\ IsFresh(n, StatusOf(type)) /\ handler[h].prev = run[t].status
  BY <1>1, <1>2 DEF Tracked, IsAlone, RowFollows
<1>4. run'[t].status = StatusOf(type)
  BY <1>1, <1>3
<1>5. /\ \A g \in Busy(b)' : g = h /\ handler'[g].pc = "publish"
      /\ handler'[h].pc = "idle" => Busy(b)' = {}
      /\ handler'[h].pc # "idle" => h \in Busy(b)'
  BY <1>1, <1>3 DEF Busy
<1>6. IsAlone(b)' /\ MetItsRow(b)'
  BY <1>1, <1>3, <1>5 DEF IsAlone, MetItsRow
<1>7. IsFresh(n, StatusOf(type))'
  BY <1>1, <1>3 DEF IsFresh, Undealt, StatusNow
<1>8. \A g \in Busy(b)' : IsFresh(handler[g].event, StatusOf(handler[g].type))'
  BY <1>1, <1>5, <1>7 DEF IsFresh, StatusNow
<1>9. RowFollows(t, b)'
  <2>1. Busy(b)' = {} => IsFresh(reported[b], run[t].status)'
    BY <1>1, <1>3, <1>4, <1>7 DEF IsFresh, StatusNow
  <2>2. \A g \in Busy(b)' : handler'[g].pc = "publish" /\ handler'[g].type = type
    BY <1>1, <1>5
  <2>. QED  BY <1>1, <1>2, <1>3, <1>4, <2>1, <2>2 DEF RowFollows
<1>10. \A u \in Triggers : run'[u].run = b => u = t
  BY <1>1, <1>3, OneRow
<1>. QED  BY <1>1, <1>2, <1>3, <1>6, <1>8, <1>9, <1>10 DEF Tracked

\* The end of a handler that has committed, whether it publishes its change or not.
LEMMA TrackOfPublish ==
    ASSUME TypeInv, TypeInv', RowInv, HandlerInv, TrackInv, NEW h \in Handlers,
           HandlerPublish(h) \/ HandlerDiesUntold(h),
           NEW b \in BackfillIds, b = log[handler[h].event].run, reported'[b] # Null
    PROVE  Tracked(b)'
<1>1. /\ handler[h].pc = "publish" /\ handler'[h].pc = "idle"
      /\ UNCHANGED <<run, log, task, cursor, reported>>
      /\ \A g \in Handlers \ {h} : handler'[g] = handler[g]
  BY TypeParts DEF HandlerPublish, HandlerDiesUntold, IdleHandler, dagsterVars, HandlersTyped
<1>2. PICK t \in Triggers, n \in 1..Len(log) :
         t = handler[h].row /\ n = handler[h].event /\ run[t].run = log[n].run
  BY <1>1 DEF HandlerInv, HandlersHaveTheirRow, TypeInv, HandlersAreTyped
<1>3. Tracked(b) /\ h \in Busy(b) /\ n # 0
  BY <1>1, <1>2 DEF TrackInv, Busy
<1>4. /\ \A g \in Busy(b) : g = h
      /\ reported[b] = n /\ n \in 0..Len(log) /\ log[n].run = b
      /\ IsFresh(n, run[t].status)
  BY <1>1, <1>2, <1>3 DEF Tracked, IsAlone, RowFollows
<1>5. Busy(b)' = {}
  BY <1>1, <1>4 DEF Busy
<1>6. IsAlone(b)' /\ MetItsRow(b)'
  BY <1>1, <1>2, <1>4, <1>5 DEF IsAlone, MetItsRow
<1>7. IsFresh(reported[b], run[t].status)'
  BY <1>1, <1>4 DEF IsFresh, Undealt, StatusNow
<1>8. RowFollows(t, b)'
  BY <1>1, <1>3, <1>4, <1>5, <1>7 DEF RowFollows
<1>9. \A u \in Triggers : run'[u].run = b => u = t
  BY <1>1, <1>2, <1>4, OneRow
<1>. QED  BY <1>1, <1>3, <1>4, <1>5, <1>6, <1>8, <1>9 DEF Tracked

LEMMA TrackNext ==
    ASSUME TypeInv, TypeInv', DagsterInv, LogKept, RowInv, HandlerInv, TrackInv, [Next]_vars
    PROVE  TrackInv'
<1>1. CASE \E t \in Triggers : TriggerNext(t)
  BY <1>1, TrackOfTrigger
<1>2. ASSUME NEW b \in BackfillIds, NEW k \in Sources, TaskNext(b, k)
      PROVE  TrackInv'
  BY <1>2, SameOfTask, TrackedElsewhere DEF TrackInv
<1>3. CASE \E type \in EventTypes : SensorNext(type)
  BY <1>3, TrackOfSensor
<1>4. ASSUME NEW h \in Handlers, HandlerNext(h)
      PROVE  TrackInv'
  <2>1. ASSUME NEW c \in BackfillIds, log[handler[h].event].run # c, reported'[c] # Null
        PROVE  Tracked(c)'
    BY <1>4, <2>1, SameOfHandler, TrackedElsewhere
  <2>2. ASSUME NEW c \in BackfillIds, c = log[handler[h].event].run, reported'[c] # Null
        PROVE  Tracked(c)'
    BY <1>4, <2>2, TrackOfSelect, TrackOfIdle, TrackOfCommit, TrackOfPublish DEF HandlerNext
  <2>. QED  BY <2>1, <2>2 DEF TrackInv
<1>5. CASE UNCHANGED vars
  <2>1. UNCHANGED <<log, task, cursor, run, published, handler, reported, untold>>
    BY <1>5 DEF vars
  <2>2. \A b \in BackfillIds : Same(b)
    BY <2>1, BusyStays, EventsStay DEF Same, SameFor
  <2>. QED  BY <2>2, TrackedElsewhere DEF TrackInv
<1>. QED  BY <1>1, <1>2, <1>3, <1>4, <1>5 DEF Next
-----------------------------------------------------------------------------
(* Backfills whose changes the subscribers have been told.                 *)

LEMMA ToldElsewhere ==
    ASSUME ToldInv, NEW c \in BackfillIds, Same(c), c \notin untold'
    PROVE  Told(c)'
<1>1. SameFor(c) /\ Told(c)
  BY DEF Same, ToldInv
<1>2. \A g, h \in Busy(c)' : g = h
  BY <1>1 DEF SameFor, Told
<1>3. ASSUME NEW t \in Triggers, run'[t].run = c
      PROVE  RowIsTold(t, c)'
  <2>1. run'[t] = run[t] /\ published'[t] = published[t] /\ RowIsTold(t, c)
    BY <1>1, <1>3 DEF SameFor, Told
  <2>. QED  BY <1>1, <2>1 DEF SameFor, RowIsTold
<1>. QED  BY <1>2, <1>3 DEF Told

LEMMA ToldOfTrigger ==
    ASSUME TypeInv, TypeInv', DagsterInv, RowInv, HandlerInv, ToldInv, NEW t \in Triggers,
           TriggerNext(t)
    PROVE  ToldInv'
<1>1. ASSUME NEW b \in BackfillIds, TriggerInsert(t) => request[t].run # b, b \notin untold'
      PROVE  Told(b)'
  BY <1>1, SameOfTrigger, ToldElsewhere
<1>2. ASSUME NEW b \in BackfillIds, TriggerInsert(t), request[t].run = b, b \notin untold'
      PROVE  Told(b)'
  <2>0. UNCHANGED <<log, handler, untold, published>>
    BY <1>2 DEF TriggerInsert, dagsterVars
  <2>1. /\ \A u \in Triggers : run[u].run # b
        /\ run'[t].run = b /\ run'[t].status = "pending" /\ published[t] = NoEvent
        /\ \A u \in Triggers \ {t} : run'[u] = run[u]
    BY <1>2 DEF TriggerInsert, RowInv, LaunchIsOwned, InsertedLast, AbsentIsEmpty, TypeInv, TypeOK
  <2>2. Told(b)
    BY <1>2, <2>0 DEF ToldInv
  <2>3. Busy(b)' = Busy(b)
    BY <2>0, BusyStays
  <2>4. \A h \in Busy(b) : handler[h].pc = "select"
    BY <2>1, BusyIsSelecting
  <2>5. published'[t].to = run'[t].status
    BY <2>0, <2>1 DEF NoEvent
  <2>6. RowIsTold(t, b)'
    BY <2>0, <2>3, <2>4, <2>5 DEF RowIsTold
  <2>. QED  BY <2>1, <2>2, <2>3, <2>6 DEF Told
<1>. QED  BY <1>1, <1>2 DEF ToldInv

LEMMA ToldOfSensor ==
    ASSUME TypeInv, TypeInv', ToldInv, NEW type \in EventTypes, SensorNext(type)
    PROVE  ToldInv'
<1>1. PICK n \in 1..Len(log) :
         /\ n = NextEvent(type) /\ UNCHANGED <<run, log, published>>
         /\ Dropped(n) \/ \E h \in Handlers : Posted(n, h)
  BY SensorSteps
<1>2. PICK b \in BackfillIds : b = log[n].run
  BY LogEntries, TypeParts
<1>3. ASSUME NEW c \in BackfillIds \ {b}, c \notin untold'
      PROVE  Told(c)'
  BY <1>1, <1>2, <1>3, SameOfSensor, ToldElsewhere
<1>4. ASSUME b \notin untold', Dropped(n)
      PROVE  Told(b)'
  <2>1. Busy(b)' = Busy(b) /\ UNCHANGED <<handler, run, published>> /\ Told(b)
    BY <1>1, <1>4, BusyStays DEF Dropped, Lose, ToldInv
  <2>. QED  BY <2>1 DEF Told, RowIsTold
<1>5. ASSUME NEW h \in Handlers, b \notin untold', Posted(n, h)
      PROVE  Told(b)'
  <2>1. Busy(b) = {} /\ Told(b)
    BY <1>2, <1>5 DEF Posted, Report, ToldInv
  <2>2. Received(h, n)
    BY <1>5, PostReceived
  <2>3. \A g \in Busy(b)' : g = h
    BY <1>1, <1>2, <2>1, <2>2 DEF Received, Busy
  <2>4. h \in Busy(b)' /\ handler'[h].pc = "select"
    BY <1>1, <1>2, <2>2 DEF Received, Busy
  <2>5. \A t \in Triggers : run'[t].run = b => published'[t].to = run'[t].status
    BY <1>1, <2>1 DEF Told, RowIsTold
  <2>. QED  BY <2>3, <2>4, <2>5 DEF Told, RowIsTold
<1>. QED  BY <1>1, <1>3, <1>4, <1>5 DEF ToldInv

LEMMA ToldOfSelect ==
    ASSUME TypeInv, TypeInv', RowInv, ToldInv, NEW h \in Handlers, HandlerSelect(h),
           NEW b \in BackfillIds, b = log[handler[h].event].run, b \notin untold'
    PROVE  Told(b)'
<1>1. /\ handler[h].pc = "select" /\ UNCHANGED <<run, log, published, untold>>
      /\ \A g \in Handlers \ {h} : handler'[g] = handler[g]
  BY HandlerAlone DEF HandlerSelect, HandlerNext, historyVars, dagsterVars
<1>2. PICK t \in Triggers :
         /\ run[t].run = b /\ handler'[h].pc = "commit"
         /\ handler'[h].prev = run[t].status /\ handler'[h].event = handler[h].event
  BY TypeParts DEF HandlerSelect, HandlersTyped, HandlerTypes
<1>3. Told(b) /\ h \in Busy(b)
  BY <1>1 DEF ToldInv, Busy
<1>4. Busy(b)' = Busy(b) /\ \A g \in Busy(b) : g = h
  BY <1>1, <1>2, <1>3 DEF Busy, Told
<1>5. RowIsTold(t, b)'
  BY <1>1, <1>2, <1>3, <1>4 DEF Told, RowIsTold
<1>6. \A u \in Triggers : run'[u].run = b => u = t
  BY <1>1, <1>2, OneRow
<1>. QED  BY <1>4, <1>5, <1>6 DEF Told

LEMMA ToldOfIdle ==
    ASSUME TypeInv, TypeInv', ToldInv, NEW h \in Handlers,
           HandlerUnknownRun(h) \/ HandlerDies(h) \/ HandlerDiesUntold(h),
           NEW b \in BackfillIds, b = log[handler[h].event].run, b \notin untold'
    PROVE  Told(b)'
<1>1. HandlerUnknownRun(h) \/ HandlerDies(h)
  BY DEF HandlerDiesUntold
<1>2. /\ handler[h].pc \in {"select", "commit"} /\ handler'[h].pc = "idle"
      /\ UNCHANGED <<run, log, published, untold>>
      /\ \A g \in Handlers \ {h} : handler'[g] = handler[g]
  BY <1>1, TypeParts DEF HandlerUnknownRun, HandlerDies, IdleHandler, Lose, dagsterVars,
                         HandlersTyped
<1>3. Told(b) /\ h \in Busy(b)
  BY <1>2 DEF ToldInv, Busy
<1>4. Busy(b)' = {}
  BY <1>2, <1>3 DEF Busy, Told
<1>5. \A t \in Triggers : run'[t].run = b => published'[t].to = run'[t].status
  BY <1>2, <1>3 DEF Told, RowIsTold
<1>. QED  BY <1>4, <1>5 DEF Told, RowIsTold

LEMMA ToldOfCommit ==
    ASSUME TypeInv, TypeInv', RowInv, HandlerInv, ToldInv, NEW h \in Handlers,
           HandlerCommit(h), NEW b \in BackfillIds, b = log[handler[h].event].run,
           b \notin untold'
    PROVE  Told(b)'
<1>1. PICK t \in Triggers, n \in 1..Len(log), type \in EventTypes :
         /\ t = handler[h].row /\ n = handler[h].event /\ type = handler[h].type
         /\ handler[h].pc = "commit" /\ run[t].run = log[n].run /\ run'[t].run = run[t].run
         /\ run'[t].status = IF StatusOf(type) # handler[h].prev THEN StatusOf(type)
                             ELSE run[t].status
         /\ \A u \in Triggers \ {t} : run'[u] = run[u]
         /\ UNCHANGED <<log, published, untold>>
         /\ handler'[h].pc # "idle" => handler'[h].event = n /\ handler'[h].type = type
         /\ StatusOf(type) # handler[h].prev => /\ handler'[h].pc = "publish"
                                                /\ handler'[h].prev = handler[h].prev
         /\ StatusOf(type) = handler[h].prev => handler'[h].pc = "idle"
         /\ \A g \in Handlers \ {h} : handler'[g] = handler[g]
  BY CommitStep
<1>2. Told(b) /\ h \in Busy(b)
  BY <1>1 DEF ToldInv, Busy
<1>3. /\ \A g \in Busy(b) : g = h
      /\ published[t].to = run[t].status /\ handler[h].prev = run[t].status
  BY <1>1, <1>2 DEF Told, RowIsTold
<1>4. /\ \A g \in Busy(b)' : g = h /\ handler'[g].pc = "publish"
      /\ handler'[h].pc = "publish" => h \in Busy(b)'
  BY <1>1, <1>3 DEF Busy
<1>5. RowIsTold(t, b)'
  <2>1. CASE StatusOf(type) = handler[h].prev
    <3>1. Busy(b)' = {} /\ published'[t].to = run'[t].status
      BY <1>1, <1>3, <1>4, <2>1
    <3>. QED  BY <3>1 DEF RowIsTold
  <2>2. CASE StatusOf(type) # handler[h].prev
    <3>1. /\ h \in Busy(b)' /\ handler'[h].pc = "publish" /\ handler'[h].type = type
          /\ run'[t].status = StatusOf(type) /\ published'[t].to = handler'[h].prev
      BY <1>1, <1>3, <1>4, <2>2
    <3>. QED  BY <1>4, <3>1 DEF RowIsTold
  <2>. QED  BY <2>1, <2>2
<1>6. \A u \in Triggers : run'[u].run = b => u = t
  BY <1>1, OneRow
<1>. QED  BY <1>4, <1>5, <1>6 DEF Told

\* A backfill leaves `untold` when a handler that was alone all the time publishes.
LEMMA ToldOfPublish ==
    ASSUME TypeInv, TypeInv', RowInv, HandlerInv, TrackInv, ToldInv, NEW h \in Handlers,
           HandlerPublish(h), NEW b \in BackfillIds, b = log[handler[h].event].run,
           b \notin untold'
    PROVE  Told(b)'
<1>1. PICK t \in Triggers, n \in 1..Len(log) :
         /\ t = handler[h].row /\ n = handler[h].event /\ handler[h].pc = "publish"
         /\ run[t].run = log[n].run
  BY DEF HandlerPublish, HandlerInv, HandlersHaveTheirRow, TypeInv, HandlersAreTyped
<1>2. /\ handler'[h].pc = "idle" /\ published'[t].to = StatusOf(handler[h].type)
      /\ UNCHANGED <<run, log>> /\ untold' = IF reported[b] # Null THEN untold \ {b} ELSE untold
      /\ \A g \in Handlers \ {h} : handler'[g] = handler[g]
  BY <1>1 DEF HandlerPublish, Tell, IdleHandler, dagsterVars, TypeInv, TypeOK
<1>3. h \in Busy(b)
  BY <1>1 DEF Busy
<1>4. (\A g \in Busy(b) : g = h) /\ run[t].status = StatusOf(handler[h].type)
  <2>1. CASE b \notin untold
    BY <1>1, <1>3, <2>1 DEF ToldInv, Told, RowIsTold
  <2>2. CASE reported[b] # Null
    BY <1>1, <1>3, <2>2 DEF TrackInv, Tracked, IsAlone, RowFollows
  <2>. QED  BY <1>2, <2>1, <2>2
<1>5. Busy(b)' = {}
  BY <1>2, <1>4 DEF Busy
<1>6. \A u \in Triggers : run'[u].run = b => u = t
  BY <1>1, <1>2, OneRow
<1>. QED  BY <1>2, <1>4, <1>5, <1>6 DEF Told, RowIsTold

LEMMA ToldNext ==
    ASSUME TypeInv, TypeInv', DagsterInv, LogKept, RowInv, HandlerInv, TrackInv, ToldInv,
           [Next]_vars
    PROVE  ToldInv'
<1>1. CASE \E t \in Triggers : TriggerNext(t)
  BY <1>1, ToldOfTrigger
<1>2. ASSUME NEW b \in BackfillIds, NEW k \in Sources, TaskNext(b, k)
      PROVE  ToldInv'
  BY <1>2, SameOfTask, ToldElsewhere DEF ToldInv
<1>3. CASE \E type \in EventTypes : SensorNext(type)
  BY <1>3, ToldOfSensor
<1>4. ASSUME NEW h \in Handlers, HandlerNext(h)
      PROVE  ToldInv'
  <2>1. ASSUME NEW c \in BackfillIds, log[handler[h].event].run # c, c \notin untold'
        PROVE  Told(c)'
    BY <1>4, <2>1, SameOfHandler, ToldElsewhere
  <2>2. ASSUME NEW c \in BackfillIds, c = log[handler[h].event].run, c \notin untold'
        PROVE  Told(c)'
    BY <1>4, <2>2, ToldOfSelect, ToldOfIdle, ToldOfCommit, ToldOfPublish DEF HandlerNext
  <2>. QED  BY <2>1, <2>2 DEF ToldInv
<1>5. CASE UNCHANGED vars
  <2>1. UNCHANGED <<log, task, cursor, run, published, handler, reported, untold>>
    BY <1>5 DEF vars
  <2>2. \A b \in BackfillIds : Same(b)
    BY <2>1, BusyStays, EventsStay DEF Same, SameFor
  <2>. QED  BY <2>2, ToldElsewhere DEF ToldInv
<1>. QED  BY <1>1, <1>2, <1>3, <1>4, <1>5 DEF Next
-----------------------------------------------------------------------------
(* The theorems.                                                           *)

LifecycleInv ==
    /\ TypeInv /\ DagsterInv /\ PostsAreTrue
    /\ RowInv /\ HandlerInv /\ TrackInv /\ ToldInv

LEMMA InitInv == Init => LifecycleInv
<1>. SUFFICES ASSUME Init PROVE LifecycleInv
  OBVIOUS
<1>1. TypeInv
  BY InitTypeInv
<1>2. \A t \in Triggers : ~Inserted(t) /\ run[t] = AbsentRun /\ run[t].run = Null
  BY DEF Init, Inserted, AbsentRun
<1>3. \A h \in Handlers : handler[h].pc = "idle"
  BY DEF Init, IdleHandler
<1>4. Len(log) = 0 /\ 1..Len(log) = {}
  BY DEF Init
<1>5. DagsterInv
  BY <1>4 DEF DagsterInv, TaskIsLogged, Init
<1>6. PostsAreTrue
  BY <1>3 DEF PostsAreTrue
<1>7. RowInv
  BY <1>2 DEF RowInv, InsertedLast, AbsentIsEmpty, LaunchIsOwned, RowsAreLaunched, Init,
              IdleRequest
<1>8. HandlerInv
  BY <1>2, <1>3 DEF HandlerInv, HandlersHaveTheirRow, PrevIsNoLead, HandlersWereShown,
                    StatusIsShown, StatusIsReported, PublishedWasCommitted, Init
<1>9. ASSUME NEW b \in BackfillIds
      PROVE  Tracked(b) /\ Told(b)
  <2>1. Busy(b) = {}
    BY <1>3 DEF Busy
  <2>2. \A t \in Triggers : run[t].run # b
    BY <1>2, NullIsNoValue
  <2>3. reported[b] = 0 /\ 0 \in 0..Len(log)
    BY <1>4 DEF Init
  <2>. QED
    BY <1>4, <2>1, <2>2, <2>3 DEF Tracked, Told, IsAlone, MetItsRow, NoneDealtWith
<1>. QED  BY <1>1, <1>5, <1>6, <1>7, <1>8, <1>9 DEF LifecycleInv, TrackInv, ToldInv

LEMMA TypeNext ==
    ASSUME TypeInv, RowInv, HandlerInv, [Next]_vars
    PROVE  TypeInv'
<1>1. CASE \E t \in Triggers : TriggerNext(t)
  BY <1>1, TriggerTyped
<1>2. CASE \E b \in BackfillIds, k \in Sources : TaskNext(b, k)
  BY <1>2, TaskTyped
<1>3. CASE \E type \in EventTypes : SensorNext(type)
  BY <1>3, SensorTyped
<1>4. CASE \E h \in Handlers : HandlerNext(h)
  BY <1>4, HandlerTyped DEF RowInv, HandlerInv
<1>5. CASE UNCHANGED vars
  BY <1>5, TypeParts, TypePartsNext, RequestsUnchanged, DagsterUnchanged, HandlersUnchanged,
     RowsUnchanged, ReportsUnchanged DEF vars
<1>. QED  BY <1>1, <1>2, <1>3, <1>4, <1>5 DEF Next

LEMMA NextInv == LifecycleInv /\ [Next]_vars => LifecycleInv'
<1>. SUFFICES ASSUME LifecycleInv, [Next]_vars PROVE LifecycleInv'
  OBVIOUS
<1>1. TypeInv /\ DagsterInv /\ PostsAreTrue /\ RowInv /\ HandlerInv /\ TrackInv /\ ToldInv
  BY DEF LifecycleInv
<1>2. TypeInv'
  BY <1>1, TypeNext
<1>3. DagsterInv' /\ LogKept
  BY <1>1, <1>2, DagsterNext
<1>4. PostsAreTrue' /\ HandlerInv'
  BY <1>1, <1>2, <1>3, PostsNext, HandlersNext
<1>5. RowInv'
  BY <1>1, <1>2, RowsNext DEF HandlerInv
<1>6. TrackInv' /\ ToldInv'
  BY <1>1, <1>2, <1>3, TrackNext, ToldNext
<1>. QED  BY <1>2, <1>3, <1>4, <1>5, <1>6 DEF LifecycleInv

LEMMA Invariant == Spec => []LifecycleInv
BY InitInv, NextInv, PTL DEF Spec

\* Every variable keeps its type.
THEOREM TypeCorrect == Spec => []TypeOK
<1>1. LifecycleInv => TypeOK
  BY DEF LifecycleInv, TypeInv
<1>. QED  BY <1>1, Invariant, PTL

\* POST /api/runs: launch and insert are separate steps that can fail in between,
\* and still a row names one backfill, launched for its partitions and its alone.
THEOREM Launched == Spec => []RowsAreLaunched
<1>1. LifecycleInv => RowsAreLaunched
  BY DEF LifecycleInv, RowInv
<1>. QED  BY <1>1, Invariant, PTL

\* POST /api/dagster/events: whatever overlaps, repeats, comes late or gets lost, a
\* row says nothing that did not happen to the tasks of its backfill.
THEOREM Reported == Spec => []StatusIsReported
<1>1. LifecycleInv => StatusIsReported
  BY DEF LifecycleInv, HandlerInv
<1>. QED  BY <1>1, Invariant, PTL

\* The publication after the commit: both ends of a published change have been in
\* the row.
THEOREM Committed == Spec => []PublishedWasCommitted
<1>1. LifecycleInv => PublishedWasCommitted
  BY DEF LifecycleInv, HandlerInv
<1>. QED  BY <1>1, Invariant, PTL

\* The sensors and the handler of POST /api/dagster/events: when every event of a
\* backfill is dealt with and the last post was handled alone, the row shows what the
\* task of that event has come to, or is pending with no task started.
THEOREM Current == Spec => []SerialIsCurrent
<1>1. ASSUME LifecycleInv, NEW t \in Triggers, Serial(t),
             \A n \in 1..Len(log) : log[n].run = run[t].run => n <= cursor[log[n].type]
      PROVE  IsCurrent(t)
  <2>1. PICK b \in BackfillIds : b = run[t].run
    BY <1>1 DEF Serial, LifecycleInv, RowInv, AbsentIsEmpty
  <2>2. /\ reported[b] # Null /\ Busy(b) = {} /\ Tracked(b)
        /\ RowFollows(t, b)
    BY <1>1, <2>1 DEF Serial, LifecycleInv, TrackInv, Tracked
  <2>3. cursor \in [EventTypes -> Nat] /\ \A n \in 1..Len(log) : log[n].type \in EventTypes
    BY <1>1, TypeParts, LogEntries DEF LifecycleInv, ReportsTyped
  <2>4. ~Undealt(b)
    <3>1. \A n \in 1..Len(log) : log[n].run = b => n \in Nat /\ cursor[log[n].type] \in Nat
                                                    /\ ~(cursor[log[n].type] < n)
      BY <1>1, <2>1, <2>3
    <3>. QED  BY <3>1 DEF Undealt
  <2>5. CASE reported[b] # 0
    <3>1. reported[b] \in 0..Len(log) /\ log[reported[b]].run = b
      BY <2>2, <2>5 DEF Tracked, IsAlone
    <3>2. IsFresh(reported[b], run[t].status)
      BY <2>2, <2>5 DEF RowFollows
    <3>. QED  BY <2>1, <2>4, <2>5, <3>1, <3>2 DEF IsFresh, IsCurrent
  <2>6. CASE reported[b] = 0
    <3>1. \A m \in 1..Len(log) : log[m].run # b
      BY <2>2, <2>4, <2>6 DEF Tracked, NoneDealtWith, Undealt
    <3>2. \A k \in Sources : task[b][k] \in {"NONE", "QUEUED"}
      BY <1>1, <3>1 DEF LifecycleInv, DagsterInv, TaskIsLogged
    <3>3. run[t].status = "pending"
      BY <2>2, <2>6 DEF RowFollows
    <3>. QED  BY <2>1, <2>6, <3>2, <3>3 DEF IsCurrent, ShownFor
  <2>. QED  BY <2>5, <2>6
<1>2. LifecycleInv => SerialIsCurrent
  BY <1>1 DEF SerialIsCurrent
<1>. QED  BY <1>2, Invariant, PTL

\* The publication after the commit: the subscribers of the event broker know the row,
\* unless a handler overlapped or stopped and none has published since.
THEOREM Published == Spec => []ToldIsPublished
<1>1. ASSUME LifecycleInv, NEW t \in Triggers, Inserted(t), run[t].run \notin untold,
             Busy(run[t].run) = {}
      PROVE  published[t].to = run[t].status
  <2>1. run[t].run \in BackfillIds
    BY <1>1 DEF LifecycleInv, RowInv, AbsentIsEmpty
  <2>. QED  BY <1>1, <2>1 DEF LifecycleInv, ToldInv, Told, RowIsTold
<1>2. LifecycleInv => ToldIsPublished
  BY <1>1 DEF ToldIsPublished
<1>. QED  BY <1>2, Invariant, PTL

\* ... from changes that follow each other without a gap.
THEOREM Chained == Spec => ToldIsChained
<1>. DEFINE Step == \A t \in Triggers :
               Inserted(t) /\ run[t].run \notin untold /\ published'[t] # published[t]
                  => published'[t].from = published[t].to
<1>1. LifecycleInv /\ [Next]_vars => [Step]_vars
  <2>. SUFFICES ASSUME LifecycleInv, Next, NEW t \in Triggers, Inserted(t),
                       run[t].run \notin untold, published'[t] # published[t]
                PROVE  published'[t].from = published[t].to
    OBVIOUS
  <2>1. PICK h \in Handlers : HandlerPublish(h)
    BY DEF Next, TriggerNext, TriggerStart, TriggerPartition, TriggerLaunch, TriggerInsert,
           TriggerDies, TaskNext, TaskStart, TaskCancel, TaskEnd, SensorNext, SensorPost,
           SensorPostUnsaved, SensorDrop, HandlerNext, HandlerSelect, HandlerUnknownRun,
           HandlerCommit, HandlerDies, HandlerDiesUntold, historyVars
  <2>2. t = handler[h].row /\ published'[t].from = handler[h].prev
    BY <2>1 DEF HandlerPublish, LifecycleInv, TypeInv, TypeOK
  <2>3. PICK b \in BackfillIds : b = run[t].run
    BY DEF LifecycleInv, RowInv, AbsentIsEmpty
  <2>4. h \in Busy(b) /\ handler[h].pc = "publish"
    BY <2>1, <2>2, <2>3 DEF HandlerPublish, LifecycleInv, HandlerInv, HandlersHaveTheirRow, Busy
  <2>5. RowIsTold(t, b)
    BY <2>3 DEF LifecycleInv, ToldInv, Told
  <2>. QED  BY <2>2, <2>4, <2>5 DEF RowIsTold
<1>. QED  BY <1>1, Invariant, PTL DEF Spec, ToldIsChained
=============================================================================
