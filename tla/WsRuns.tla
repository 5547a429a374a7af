------------------------------- MODULE WsRuns -------------------------------
(***************************************************************************)
(* The WebSocket endpoint /api/ws/runs: clients subscribe to their runs    *)
(* and get the status events that the webhook handler publishes to the     *)
(* RunEventBroker.  A connection has one bounded queue, which all its      *)
(* subscriptions share, one sender task that empties it, and a dictionary  *)
(* of subscriptions that is used to clean up when the connection ends.     *)
(*                                                                         *)
(* One action is one step between two awaits.  An acknowledgement is sent  *)
(* in the step that it acknowledges.                                       *)
(***************************************************************************)
EXTENDS Integers, Sequences, FiniteSets, EventBroker

CONSTANTS
    Conns,          \* connections; each id is used once
    Users,
    Runs,           \* run ids
    QueueSize,      \* maxsize of a connection's queue (100 in the code)
    MaxEvents,      \* events published in all (a bound for TLC)
    MaxEntries,     \* entries of a queue in a subscriber list (a bound for TLC)
    Null

ASSUME Sizes == QueueSize \in Nat \ {0} /\ MaxEvents \in Nat /\ MaxEntries \in Nat

ASSUME NullIsNoValue == Null \notin Users \cup Runs

VARIABLES
    owner,          \* run.triggered_by, Null while there is no such row
    conn,           \* handler state of each connection
    subs,           \* the broker's subscriber lists
    queue,          \* outbound queue of each connection
    sending,        \* the events a sender has taken and is sending: at most one
    delivered,      \* history: what each client received, in order
    due,            \* history: the events published for acknowledged subscriptions
    doubled,        \* history: has the connection subscribed to a run twice?
                    \* (these three last as long as the connection)
    count           \* events published so far

brokerVars == <<subs, queue>>
senderVars == <<sending, delivered>>
historyVars == <<due, doubled, count>>
vars == <<owner, conn, subs, queue, sending, delivered, due, doubled, count>>
-----------------------------------------------------------------------------
NewConn == [pc |-> "new", user |-> Null, run |-> Null, found |-> Null,
            subscriptions |-> {}, sender |-> FALSE]

ClosedConn == [NewConn EXCEPT !.pc = "closed"]

Open(c) == conn[c].pc \in {"open", "select", "answer"}

\* A row of the table `run` is inserted (POST /api/runs).
RunInsert(r) ==
    /\ owner[r] = Null
    /\ \E u \in Users : owner' = [owner EXCEPT ![r] = u]
    /\ UNCHANGED <<conn, brokerVars, senderVars, historyVars>>

\* The token is valid and names a user: accept, make the queue, start the sender.
Connect(c) ==
    /\ conn[c].pc = "new"
    /\ \E u \in Users :
          conn' = [conn EXCEPT ![c] = [NewConn EXCEPT !.pc = "open", !.user = u,
                                                      !.sender = TRUE]]
    /\ UNCHANGED <<owner, brokerVars, senderVars, historyVars>>

\* The client asks for a run; the handler awaits the database.
SubscribeReceive(c, r) ==
    /\ conn[c].pc = "open"
    /\ subs[r][c] < MaxEntries
    /\ conn' = [conn EXCEPT ![c].pc = "select", ![c].run = r]
    /\ UNCHANGED <<owner, brokerVars, senderVars, historyVars>>

SubscribeSelect(c) ==
    /\ conn[c].pc = "select"
    /\ conn' = [conn EXCEPT ![c].pc = "answer", ![c].found = owner[conn[c].run]]
    /\ UNCHANGED <<owner, brokerVars, senderVars, historyVars>>

\* not_found or unauthorized: the connection stays open.
SubscribeReject(c) ==
    /\ conn[c].pc = "answer"
    /\ conn[c].found # conn[c].user
    /\ conn' = [conn EXCEPT ![c].pc = "open", ![c].run = Null, ![c].found = Null]
    /\ UNCHANGED <<owner, brokerVars, senderVars, historyVars>>

\* Mutation: any run that exists can be subscribed to.
SubscribeAnyRun(c) ==
    /\ conn[c].pc = "answer"
    /\ conn[c].found # Null
    /\ conn' = [conn EXCEPT ![c].pc = "open", ![c].run = Null, ![c].found = Null,
                            ![c].subscriptions = @ \cup {conn[c].run}]
    /\ subs' = Subscribe(subs, conn[c].run, c)
    /\ doubled' = [doubled EXCEPT ![c] = @ \/ subs[conn[c].run][c] > 0]
    /\ UNCHANGED <<owner, queue, senderVars, due, count>>

\* The owner: the dictionary and the broker's list get an entry, `subscribed`.
SubscribeRegister(c) ==
    /\ conn[c].pc = "answer"
    /\ conn[c].found = conn[c].user
    /\ conn' = [conn EXCEPT ![c].pc = "open", ![c].run = Null, ![c].found = Null,
                            ![c].subscriptions = @ \cup {conn[c].run}]
    /\ subs' = Subscribe(subs, conn[c].run, c)
    /\ doubled' = [doubled EXCEPT ![c] = @ \/ subs[conn[c].run][c] > 0]
    /\ UNCHANGED <<owner, queue, senderVars, due, count>>

\* The broker is only told if the dictionary has the run; `unsubscribed` either way.
UnsubscribeReceive(c, r) ==
    /\ conn[c].pc = "open"
    /\ conn' = [conn EXCEPT ![c].subscriptions = @ \ {r}]
    /\ subs' = IF r \in conn[c].subscriptions THEN Unsubscribe(subs, r, c) ELSE subs
    /\ UNCHANGED <<owner, queue, senderVars, historyVars>>

\* The client is gone, or the database failed (close 1011).  The finally block
\* unsubscribes each run of the dictionary and cancels the sender.
Disconnect(c) ==
    /\ Open(c)
    /\ conn' = [conn EXCEPT ![c] = ClosedConn]
    /\ subs' = [r \in Runs |-> IF r \in conn[c].subscriptions
                               THEN Unsubscribe(subs, r, c)[r] ELSE subs[r]]
    /\ sending' = [sending EXCEPT ![c] = {}]
    /\ delivered' = [delivered EXCEPT ![c] = << >>]
    /\ due' = [due EXCEPT ![c] = {}]
    /\ doubled' = [doubled EXCEPT ![c] = FALSE]
    /\ UNCHANGED <<owner, queue, count>>

\* The API process stops: connections, queues and the broker are in its memory.
Restart ==
    /\ \E c \in Conns : conn[c].pc # "new"
    /\ conn' = [c \in Conns |-> IF conn[c].pc = "new" THEN conn[c] ELSE ClosedConn]
    /\ subs' = NoSubscribers(Runs, Conns)
    /\ queue' = [c \in Conns |-> << >>]
    /\ sending' = [c \in Conns |-> {}]
    /\ delivered' = [c \in Conns |-> << >>]
    /\ due' = [c \in Conns |-> {}]
    /\ doubled' = [c \in Conns |-> FALSE]
    /\ UNCHANGED <<owner, count>>
-----------------------------------------------------------------------------
\* The webhook handler publishes a change of the run's status.  An event is due
\* to every connection that was told `subscribed` and not `unsubscribed` since.
RunPublish(r) ==
    /\ owner[r] # Null
    /\ count < MaxEvents
    /\ LET event == [run |-> r, no |-> count + 1]
       IN  /\ queue' = Publish(subs, r, queue, event, QueueSize)
           /\ due' = [c \in Conns |-> IF Open(c) /\ r \in conn[c].subscriptions
                                      THEN due[c] \cup {event} ELSE due[c]]
    /\ count' = count + 1
    /\ UNCHANGED <<owner, conn, subs, senderVars, doubled>>

\* Mutation: the sender takes the newest event first.
SenderGetLast(c) ==
    /\ conn[c].sender
    /\ sending[c] = {} /\ queue[c] # << >>
    /\ sending' = [sending EXCEPT ![c] = {queue[c][Len(queue[c])]}]
    /\ queue' = [queue EXCEPT ![c] = SubSeq(@, 1, Len(@) - 1)]
    /\ UNCHANGED <<owner, conn, subs, delivered, historyVars>>

SenderGet(c) ==
    /\ conn[c].sender
    /\ sending[c] = {} /\ queue[c] # << >>
    /\ sending' = [sending EXCEPT ![c] = {Head(queue[c])}]
    /\ queue' = [queue EXCEPT ![c] = Tail(@)]
    /\ UNCHANGED <<owner, conn, subs, delivered, historyVars>>

SenderSend(c) ==
    /\ conn[c].sender
    /\ \E event \in sending[c] :
          delivered' = [delivered EXCEPT ![c] = Append(@, event)]
    /\ sending' = [sending EXCEPT ![c] = {}]
    /\ UNCHANGED <<owner, conn, brokerVars, historyVars>>

\* send_text raises: the sender ends, the handler finds out later.
SenderFails(c) ==
    /\ conn[c].sender
    /\ sending[c] # {}
    /\ conn' = [conn EXCEPT ![c].sender = FALSE]
    /\ sending' = [sending EXCEPT ![c] = {}]
    /\ UNCHANGED <<owner, brokerVars, delivered, historyVars>>
-----------------------------------------------------------------------------
Init ==
    /\ owner = [r \in Runs |-> Null]
    /\ conn = [c \in Conns |-> NewConn]
    /\ subs = NoSubscribers(Runs, Conns)
    /\ queue = [c \in Conns |-> << >>]
    /\ sending = [c \in Conns |-> {}]
    /\ delivered = [c \in Conns |-> << >>]
    /\ due = [c \in Conns |-> {}]
    /\ doubled = [c \in Conns |-> FALSE]
    /\ count = 0

ConnNext(c) ==
    \/ Connect(c)
    \/ \E r \in Runs : SubscribeReceive(c, r) \/ UnsubscribeReceive(c, r)
    \/ SubscribeSelect(c)
    \/ SubscribeReject(c)
    \/ SubscribeRegister(c)
    \/ Disconnect(c)

SenderNext(c) == SenderGet(c) \/ SenderSend(c) \/ SenderFails(c)

Next ==
    \/ \E r \in Runs : RunInsert(r) \/ RunPublish(r)
    \/ \E c \in Conns : ConnNext(c) \/ SenderNext(c)
    \/ Restart

Spec == Init /\ [][Next]_vars
-----------------------------------------------------------------------------
Events == [run : Runs, no : Nat \ {0}]

Conn == [pc : {"new", "open", "select", "answer", "closed"},
         user : Users \cup {Null}, run : Runs \cup {Null}, found : Users \cup {Null},
         subscriptions : SUBSET Runs, sender : BOOLEAN]

TypeOK ==
    /\ owner \in [Runs -> Users \cup {Null}]
    /\ conn \in [Conns -> Conn]
    /\ subs \in [Runs -> [Conns -> Nat]]
    /\ queue \in [Conns -> Seq(Events)] /\ \A c \in Conns : Len(queue[c]) <= QueueSize
    /\ sending \in [Conns -> SUBSET Events]
    /\ delivered \in [Conns -> Seq(Events)]
    /\ due \in [Conns -> SUBSET Events]
    /\ doubled \in [Conns -> BOOLEAN]
    /\ count \in Nat

InQueue(c) == {queue[c][i] : i \in 1..Len(queue[c])}

Received(c) == {delivered[c][i] : i \in 1..Len(delivered[c])}

\* A client only ever gets events of runs that its user triggered, although the
\* check is made once and the broker knows no users.
OwnersOnly ==
    \A c \in Conns : Open(c) =>
       \A event \in InQueue(c) \cup sending[c] \cup Received(c) :
          owner[event.run] = conn[c].user

\* An acknowledged subscription has an entry in the broker, whatever other
\* connections do and however often the client subscribes and unsubscribes.
AckedIsRegistered ==
    \A c \in Conns : Open(c) =>
       \A r \in conn[c].subscriptions : subs[r][c] > 0

\* Events reach a client in the order in which they were published.
DeliveredInOrder ==
    \A c \in Conns :
       LET path == delivered[c] \o (IF sending[c] = {} THEN << >>
                                    ELSE <<CHOOSE e \in sending[c] : TRUE>>) \o queue[c]
       IN  \A i, j \in 1..Len(path) : i < j => path[i].no <= path[j].no

\* Working connections: the handler listens and the sender sends.
Works(c) == Open(c) /\ conn[c].sender

Held(c) == InQueue(c) \cup sending[c] \cup Received(c)

\* A connection that never subscribed to a run twice loses an event only if its
\* queue was full of newer ones.  All its runs share the queue, so these may be of
\* other runs, and the last status of a run can be among what is lost.
LostByOverflowOnly ==
    \A c \in Conns : Works(c) /\ ~doubled[c] => \A e \in due[c] \ Held(c) :
       Cardinality({f \in due[c] : f.no > e.no}) >= QueueSize
-----------------------------------------------------------------------------
(* What the documentation of the source says and the code does not ensure. *)

\* contracts/S051-F-051/agreed.md: the finally block "ensures cleanup on ALL exit
\* paths", so that no queue leaks in the broker's lists.
ClosedLeavesNothing ==
    \A c \in Conns : conn[c].pc = "closed" => \A r \in Runs : subs[r][c] = 0
=============================================================================
