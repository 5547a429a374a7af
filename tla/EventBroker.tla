---------------------------- MODULE EventBroker ----------------------------
(***************************************************************************)
(* The in-process event brokers (RunEventBroker, keyed by run id, and      *)
(* NotificationBroker, keyed by user id: the same code twice).             *)
(*                                                                         *)
(* A subscriber list is a bag: subs[topic][q] says how often queue q is in *)
(* the list of the topic.  The order of the list is not observable, since  *)
(* publish() runs to completion without an await.                          *)
(***************************************************************************)
LOCAL INSTANCE Integers
LOCAL INSTANCE Sequences

NoSubscribers(topics, queues) == [t \in topics |-> [q \in queues |-> 0]]

\* setdefault(topic, []).append(queue): a queue can be in the list twice.
Subscribe(subs, t, q) == [subs EXCEPT ![t][q] = @ + 1]

\* Mutation: the whole list of the topic is removed.
UnsubscribeAll(subs, t, q) == [subs EXCEPT ![t] = [p \in DOMAIN subs[t] |-> 0]]

\* remove(queue): takes out the first occurrence, if there is one.
Unsubscribe(subs, t, q) == [subs EXCEPT ![t][q] = IF @ > 0 THEN @ - 1 ELSE 0]

\* Mutation: a full queue drops the new event.
DropNewest(s, size) == IF Len(s) <= size THEN s ELSE SubSeq(s, 1, size)

\* Mutation: the queue has no bound.
DropNothing(s, size) == s

\* A full queue drops its oldest event.
DropOldest(s, size) == IF Len(s) <= size THEN s ELSE SubSeq(s, Len(s) - size + 1, Len(s))

Copies(event, n) == [i \in 1..n |-> event]

\* An event is put once for each occurrence of the queue in the list.
Publish(subs, t, queues, event, size) ==
    [q \in DOMAIN queues |->
        DropOldest(queues[q] \o Copies(event, subs[t][q]), size)]
=============================================================================
