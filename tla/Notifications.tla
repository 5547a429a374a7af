--------------------------- MODULE Notifications ---------------------------
(***************************************************************************)
(* What users are told of the corpus: each materialization of the assets   *)
(* extract_mineru and chunks goes from Dagster's event log over an asset   *)
(* sensor, the webhook, the NotificationBroker and /api/ws/notifications   *)
(* to the user who triggered the run.                                      *)
(*                                                                         *)
(* Extends Documents, whose runs fill the log for extract_mineru; a run of *)
(* chunks appears here with the one step that fills the log.  A run stands *)
(* for a backfill of one partition, which has a row of its own.            *)
(***************************************************************************)
EXTENDS Documents, Sequences, EventBroker

CONSTANTS
    ChunkRuns,      \* runs of the asset chunks
    Users,
    Conns,          \* connections to /api/ws/notifications; each id is used once
    QueueSize,      \* maxsize of a connection's queue (100 in the code)
    MaxCrashes      \* ends of the sensor daemon or of the API (a bound for TLC)

ASSUME SizeIsPositive == QueueSize \in Nat \ {0} /\ MaxCrashes \in Nat

VARIABLES
    owner,          \* run.triggered_by of the row for a run, Null without a row
    log,            \* Dagster's event log: the materializations in order
    cursor,         \* cursor[a]: the last entry that the sensor of a is done with
    tick,           \* tick[a]: the entry under evaluation (0: none), and if it is posted
    inflight,       \* posts to the webhook that are not handled
    conn,           \* connections: pc and user
    subs, queue,    \* the NotificationBroker's lists, the outbound queues
    sending,        \* the event that a sender task has taken: at most one
    delivered,      \* history: what each client received, in order
    crashes         \* ends of the daemon or the API so far

docVars == vars
sensorVars == <<cursor, tick>>
brokerVars == <<subs, queue>>
senderVars == <<sending, delivered>>
apiVars == <<conn, brokerVars, senderVars>>
noteVars == <<owner, log, sensorVars, inflight, apiVars, crashes>>
allVars == <<docVars, noteVars>>
-----------------------------------------------------------------------------
Assets == {"extract_mineru", "chunks"}

AllRuns == Extracts \cup ChunkRuns

\* POST /api/runs commits the row after Dagster has accepted the backfill.
RowInsert(r) ==
    /\ r \in cast
    /\ owner[r] = Null
    /\ \E u \in Users \cap cast : owner' = [owner EXCEPT ![r] = u]
    /\ UNCHANGED <<docVars, log, sensorVars, inflight, apiVars, crashes>>

Entry(a, r, s) == [asset |-> a, run |-> r, source |-> s]

\* Mutation: Dagster stores the materialization before the commit.
RecordEarly(e) ==
    /\ \/ extract[e].pc = "count" /\ extract' = [extract EXCEPT ![e].pc = "done"]
       \/ ExtractRecord(e)
    /\ UNCHANGED <<cast, sourceVars, object, variantVars, lastId, pick>>
    /\ log' = Append(log, Entry("extract_mineru", e, extract[e].source))
    /\ UNCHANGED <<owner, sensorVars, inflight, apiVars, crashes>>

\* The last step of a run of extract_mineru puts an entry into the log.
Record(e) ==
    /\ ExtractRecord(e)
    /\ log' = Append(log, Entry("extract_mineru", e, extract[e].source))
    /\ UNCHANGED <<owner, sensorVars, inflight, apiVars, crashes>>

\* The last step of a run of chunks.  Its count travels with the entry unchanged.
RecordChunks(r) ==
    /\ r \in cast
    /\ \A i \in DOMAIN log : log[i].run # r
    /\ \E s \in registered : log' = Append(log, Entry("chunks", r, s))
    /\ UNCHANGED <<docVars, owner, sensorVars, inflight, apiVars, crashes>>
-----------------------------------------------------------------------------
(* The asset sensors.                                                      *)

Idle == [entry |-> 0, posted |-> FALSE]

Unseen(a) == {i \in DOMAIN log : log[i].asset = a /\ i > cursor[a]}

\* Dagster hands over the newest entry after the cursor; older ones are passed over.
SensorTick(a) ==
    /\ tick[a] = Idle
    /\ \E i \in Unseen(a) :
          /\ \A j \in Unseen(a) : j <= i
          /\ tick' = [tick EXCEPT ![a].entry = i]
    /\ UNCHANGED <<docVars, owner, log, cursor, inflight, apiVars, crashes>>

\* What the sensor of a posts, with the number of ends so far (history), which
\* tells the post from the others of its entry.
Payload(a) == [entry |-> tick[a].entry, after |-> crashes]

\* Mutation: a POST that raises is tried again by the next evaluation.
SensorPostAgain(a) ==
    /\ tick[a].entry # 0
    /\ ~tick[a].posted
    /\ \E o \in CallOutcomes :
          /\ inflight' = IF Executed(o) THEN inflight \cup {Payload(a)} ELSE inflight
          /\ tick' = IF Raises(o) THEN [tick EXCEPT ![a] = Idle]
                     ELSE [tick EXCEPT ![a].posted = TRUE]
    /\ UNCHANGED <<docVars, owner, log, cursor, apiVars, crashes>>

\* The POST reaches the API or not, and is then answered in time or not: the
\* sensor returns in every case.
SensorPost(a) ==
    /\ tick[a].entry # 0
    /\ ~tick[a].posted
    /\ tick' = [tick EXCEPT ![a].posted = TRUE]
    /\ \E o \in CallOutcomes :
          inflight' = IF Executed(o) THEN inflight \cup {Payload(a)} ELSE inflight
    /\ UNCHANGED <<docVars, owner, log, cursor, apiVars, crashes>>

\* Dagster stores the cursor.
SensorAdvance(a) ==
    /\ tick[a].posted
    /\ cursor' = [cursor EXCEPT ![a] = tick[a].entry]
    /\ tick' = [tick EXCEPT ![a] = Idle]
    /\ UNCHANGED <<docVars, owner, log, inflight, apiVars, crashes>>

\* The daemon ends during the evaluation; it starts again with the old cursor.
SensorCrash(a) ==
    /\ tick[a] # Idle
    /\ crashes < MaxCrashes
    /\ crashes' = crashes + 1
    /\ tick' = [tick EXCEPT ![a] = Idle]
    /\ UNCHANGED <<docVars, owner, log, cursor, inflight, apiVars>>
-----------------------------------------------------------------------------
(* The webhook and the WebSocket endpoint.                                 *)

\* The event of a post: the entry's position in the log stands for its time.
EventOf(post) ==
    LET entry == log[post.entry]
    IN  [entry |-> post.entry, after |-> post.after, source |-> entry.source,
         type |-> IF entry.asset = "chunks" THEN "chunks.added" ELSE "asset.materialized"]

\* Mutation: the event goes to everyone who is connected.
HookPublishAll(post) ==
    /\ inflight' = inflight \ {post}
    /\ queue' = [c \in Conns |-> DropOldest(
                   queue[c] \o Copies(EventOf(post), IF conn[c].pc = "open" THEN 1 ELSE 0),
                   QueueSize)]
    /\ UNCHANGED <<docVars, owner, log, sensorVars, conn, subs, senderVars, crashes>>

\* Without a row, or with a row that has no owner, the event is dropped.
HookPublish(post) ==
    /\ inflight' = inflight \ {post}
    /\ LET user == owner[log[post.entry].run]
       IN  queue' = IF user = Null THEN queue
                    ELSE Publish(subs, user, queue, EventOf(post), QueueSize)
    /\ UNCHANGED <<docVars, owner, log, sensorVars, conn, subs, senderVars, crashes>>

\* The token names a user: accept, subscribe the queue, start the sender.
NotesConnect(c) ==
    /\ c \in cast
    /\ conn[c].pc = "new"
    /\ \E u \in Users \cap cast :
          /\ conn' = [conn EXCEPT ![c] = [pc |-> "open", user |-> u]]
          /\ subs' = Subscribe(subs, u, c)
    /\ UNCHANGED <<docVars, owner, log, sensorVars, inflight, queue, senderVars, crashes>>

\* Mutation: the queue is left with the broker.
NotesDisconnectKeeps(c) ==
    /\ conn[c].pc = "open"
    /\ conn' = [conn EXCEPT ![c].pc = "closed"]
    /\ queue' = [queue EXCEPT ![c] = << >>]
    /\ sending' = [sending EXCEPT ![c] = {}]
    /\ UNCHANGED <<docVars, owner, log, sensorVars, inflight, subs, delivered, crashes>>

\* The client is gone, or a send failed: the finally block.
NotesDisconnect(c) ==
    /\ conn[c].pc = "open"
    /\ conn' = [conn EXCEPT ![c].pc = "closed"]
    /\ subs' = Unsubscribe(subs, conn[c].user, c)
    /\ queue' = [queue EXCEPT ![c] = << >>]
    /\ sending' = [sending EXCEPT ![c] = {}]
    /\ UNCHANGED <<docVars, owner, log, sensorVars, inflight, delivered, crashes>>

NotesGet(c) ==
    /\ conn[c].pc = "open" /\ sending[c] = {} /\ queue[c] # << >>
    /\ sending' = [sending EXCEPT ![c] = {Head(queue[c])}]
    /\ queue' = [queue EXCEPT ![c] = Tail(@)]
    /\ UNCHANGED <<docVars, owner, log, sensorVars, inflight, conn, subs, delivered, crashes>>

NotesSend(c) ==
    /\ \E event \in sending[c] : delivered' = [delivered EXCEPT ![c] = Append(@, event)]
    /\ sending' = [sending EXCEPT ![c] = {}]
    /\ UNCHANGED <<docVars, owner, log, sensorVars, inflight, conn, brokerVars, crashes>>

\* The API ends: its broker, its connections and the requests it was handling.
ApiRestart ==
    /\ crashes < MaxCrashes
    /\ crashes' = crashes + 1
    /\ inflight' = {}
    /\ conn' = [c \in Conns |-> IF conn[c].pc = "open"
                                THEN [conn[c] EXCEPT !.pc = "closed"] ELSE conn[c]]
    /\ subs' = NoSubscribers(Users, Conns)
    /\ queue' = [c \in Conns |-> << >>]
    /\ sending' = [c \in Conns |-> {}]
    /\ UNCHANGED <<docVars, owner, log, sensorVars, delivered>>
-----------------------------------------------------------------------------
CorpusInit ==
    /\ Init
    /\ owner = [r \in AllRuns |-> Null]
    /\ log = << >>
    /\ cursor = [a \in Assets |-> 0]
    /\ tick = [a \in Assets |-> Idle]
    /\ inflight = {}
    /\ conn = [c \in Conns |-> [pc |-> "new", user |-> Null]]
    /\ subs = NoSubscribers(Users, Conns)
    /\ queue = [c \in Conns |-> << >>]
    /\ sending = [c \in Conns |-> {}]
    /\ delivered = [c \in Conns |-> << >>]
    /\ crashes = 0

\* The steps of Documents that leave the log alone.
DocumentStep ==
    \/ \E s \in Sources : UploadNext(s)
    \/ \E e \in Extracts : ExtractNext(e)
    \/ \E p \in Picks : PickNext(p)

\* The sensors take part in a behaviour if the daemon is in its cast.
SensorNext(a) ==
    /\ "sensors" \in cast
    /\ SensorTick(a) \/ SensorPost(a) \/ SensorAdvance(a) \/ SensorCrash(a)

NotesNext(c) == NotesConnect(c) \/ NotesDisconnect(c) \/ NotesGet(c) \/ NotesSend(c)

CorpusNext ==
    \/ DocumentStep /\ UNCHANGED noteVars
    \/ \E e \in Extracts : Record(e)
    \/ \E r \in ChunkRuns : RecordChunks(r)
    \/ \E r \in AllRuns : RowInsert(r)
    \/ \E a \in Assets : SensorNext(a)
    \/ \E post \in inflight : HookPublish(post)
    \/ \E c \in Conns : NotesNext(c)
    \/ "sensors" \in cast /\ ApiRestart

CorpusSpec == CorpusInit /\ [][CorpusNext]_allVars

\* Fairness is that of the transactions of Documents.
FairCorpus == CorpusSpec /\ Fairness
-----------------------------------------------------------------------------
\* Everything that is on its way to a connection or was received there.
Told(c) ==
    sending[c] \cup {queue[c][i] : i \in DOMAIN queue[c]}
       \cup {delivered[c][i] : i \in DOMAIN delivered[c]}

\* A user is told only of runs that the user triggered and of the source of the
\* run.  When extract_mineru is said to be materialized, a variant of the source
\* is committed.
ToldIsTrue ==
    \A c \in Conns : \A event \in Told(c) :
        LET entry == log[event.entry] IN
        /\ owner[entry.run] = conn[c].user
        /\ event.source = entry.source
        /\ event.type = "asset.materialized" => VariantsOf(event.source) # {}

\* A connection is told twice of a materialization only if the daemon or the API
\* ended between the two posts: whatever answers are lost, an evaluation whose
\* post may have arrived is not repeated for any other reason.
ToldOnce ==
    \A c \in Conns : \A i, j \in DOMAIN delivered[c] :
        /\ delivered[c][i].entry = delivered[c][j].entry
        /\ delivered[c][i].after = delivered[c][j].after
        => i = j

\* The broker holds one entry for each open connection and nothing else.
SubscribedWhileOpen ==
    \A c \in Conns, u \in Users :
        subs[u][c] = IF conn[c].pc = "open" /\ conn[c].user = u THEN 1 ELSE 0
=============================================================================
