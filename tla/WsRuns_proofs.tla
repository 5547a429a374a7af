---------------------------- MODULE WsRuns_proofs ----------------------------
(***************************************************************************)
(* Theorems about WsRuns, for any number of connections, users and runs    *)
(* and any size of the queue.                                              *)
(***************************************************************************)
EXTENDS WsRuns, SequenceTheorems, FiniteSetTheorems, TLAPS

EndOf(s, u, m) == Len(s) = Len(u) - m /\ \A i \in 1..Len(s) : s[i] = u[m + i]

\* Dropping the oldest events leaves the end of a queue, no longer than its size.
LEMMA DroppedQueue ==
    ASSUME NEW S, NEW u \in Seq(S), NEW size \in Nat \ {0},
           NEW s, s = DropOldest(u, size)
    PROVE  /\ s \in Seq(S)
           /\ Len(s) <= size
           /\ \E m \in Nat : EndOf(s, u, m) /\ (m = 0 \/ Len(s) = size)
<1>. USE DEF EndOf
<1>1. CASE Len(u) <= size
  <2>1. s = u
    BY <1>1 DEF DropOldest
  <2>2. EndOf(s, u, 0)
    BY <2>1
  <2>. QED  BY <1>1, <2>1, <2>2
<1>2. CASE ~(Len(u) <= size)
  <2>. DEFINE m == Len(u) - size + 1
  <2>1. m \in Int /\ Len(u) \in Int /\ m <= Len(u) /\ Len(u) - m + 1 = size /\ 1 <= m
    BY <1>2
  <2>2. \A i \in m..Len(u) : u[i] \in S
    BY <2>1
  <2>3. s = SubSeq(u, m, Len(u))
    BY <1>2, Zenon DEF DropOldest
  <2>. HIDE DEF m
  <2>4. /\ s \in Seq(S)
        /\ Len(s) = size
        /\ \A i \in 1..size : s[i] = u[m + i - 1]
    BY ONLY <2>1, <2>2, <2>3, SubSeqProperties, size \in Nat \ {0}
  <2>5. EndOf(s, u, m - 1)
    BY <2>1, <2>4
  <2>6. m - 1 \in Nat /\ Len(s) <= size
    BY ONLY <2>1, <2>4, size \in Nat \ {0}
  <2>. QED  BY <2>4, <2>5, <2>6, Zenon
<1>. QED  BY <1>1, <1>2

\* The events of s were in q, or are e if q got n > 0 copies of it.
OldOrNew(s, q, n, e) ==
    \A i \in 1..Len(s) : (\E j \in 1..Len(q) : s[i] = q[j]) \/ (n > 0 /\ s[i] = e)

\* The events of a queue in the order of their numbers.
InSequence(q) == \A i, j \in 1..Len(q) : i < j => q[i].no <= q[j].no

Follows(e, q) == \A j \in 1..Len(q) : q[j].no <= e.no

StaysInSequence(s, q, n, e) == InSequence(q) /\ Follows(e, q) => InSequence(s)

\* What publish() makes of a queue: a bounded queue whose events were there
\* before or are the new one, the new one only if the queue is in the list; and
\* they are in sequence if they were and the new one is the last.
LEMMA PublishedQueue ==
    ASSUME NEW q \in Seq(Events), NEW n \in Nat, NEW e \in Events, NEW size \in Nat \ {0},
           NEW s, s = DropOldest(q \o Copies(e, n), size)
    PROVE  /\ s \in Seq(Events)
           /\ Len(s) <= size
           /\ OldOrNew(s, q, n, e)
           /\ StaysInSequence(s, q, n, e)
<1>. DEFINE t == Copies(e, n)
            u == q \o t
<1>1. t \in Seq(Events) /\ Len(t) = n /\ \A i \in 1..n : t[i] = e
  BY DEF Copies
<1>2. s = DropOldest(u, size)
  OBVIOUS
<1>. HIDE DEF t
<1>3. u \in Seq(Events) /\ Len(u) = Len(q) + n
  BY <1>1
<1>4. \A i \in 1..Len(u) : u[i] = IF i <= Len(q) THEN q[i] ELSE t[i - Len(q)]
  BY <1>1
<1>. HIDE DEF u
<1>5. \A i \in 1..Len(u) : u[i] = IF i <= Len(q) THEN q[i] ELSE e
  BY <1>1, <1>3, <1>4
<1>6. s \in Seq(Events) /\ Len(s) <= size
  BY <1>2, <1>3, DroppedQueue
<1>7. PICK m \in Nat : EndOf(s, u, m)
  BY <1>2, <1>3, DroppedQueue
<1>8. /\ Len(s) \in Nat /\ Len(q) \in Nat /\ Len(u) \in Nat
      /\ Len(s) = Len(q) + n - m
      /\ \A i \in 1..Len(s) : m + i \in 1..Len(u)
  BY <1>3, <1>6, <1>7 DEF EndOf
<1>9. \A i \in 1..Len(s) : s[i] = IF m + i <= Len(q) THEN q[m + i] ELSE e
  BY <1>5, <1>7, <1>8 DEF EndOf
<1>10. OldOrNew(s, q, n, e)
  <2>. SUFFICES ASSUME NEW i \in 1..Len(s)
                PROVE  (\E j \in 1..Len(q) : s[i] = q[j]) \/ (n > 0 /\ s[i] = e)
    BY DEF OldOrNew
  <2>1. CASE m + i <= Len(q)
    <3>1. m + i \in 1..Len(q) /\ s[i] = q[m + i]
      BY <1>8, <1>9, <2>1
    <3>. QED  BY <3>1
  <2>2. CASE ~(m + i <= Len(q))
    <3>1. s[i] = e
      BY <1>9, <2>2
    <3>2. n > 0
      BY <1>8, <2>2
    <3>. QED  BY <3>1, <3>2
  <2>. QED  BY <2>1, <2>2
<1>11. ASSUME InSequence(q), Follows(e, q)
       PROVE  InSequence(s)
  <2>. SUFFICES ASSUME NEW i \in 1..Len(s), NEW j \in 1..Len(s), i < j
                PROVE  s[i].no <= s[j].no
    BY DEF InSequence
  <2>1. CASE m + j <= Len(q)
    <3>1. /\ m + i \in 1..Len(q) /\ m + j \in 1..Len(q) /\ m + i < m + j
          /\ s[i] = q[m + i] /\ s[j] = q[m + j]
      BY <1>8, <1>9, <2>1
    <3>. QED  BY <1>11, <3>1 DEF InSequence
  <2>2. CASE ~(m + j <= Len(q))
    <3>1. s[j] = e
      BY <1>9, <2>2
    <3>2. CASE m + i <= Len(q)
      <4>1. m + i \in 1..Len(q) /\ s[i] = q[m + i]
        BY <1>8, <1>9, <3>2
      <4>. QED  BY <1>11, <3>1, <4>1 DEF Follows
    <3>3. CASE ~(m + i <= Len(q))
      BY <1>9, <3>1, <3>3 DEF Events
    <3>. QED  BY <3>2, <3>3
  <2>. QED  BY <2>1, <2>2
<1>. QED  BY <1>6, <1>10, <1>11 DEF StaysInSequence

-----------------------------------------------------------------------------
(* Type correctness.                                                       *)

\* A handler that awaits the database or has its answer was asked for a run, and
\* an open connection has a user.
HandlersAskForRuns ==
    \A c \in Conns :
       /\ Open(c) => conn[c].user \in Users
       /\ conn[c].pc \in {"select", "answer"} => conn[c].run \in Runs

TypeInv == TypeOK /\ HandlersAskForRuns

LEMMA InitTypeInv == Init => TypeInv
BY Sizes DEF Init, TypeInv, TypeOK, HandlersAskForRuns, NewConn, Conn, Open, NoSubscribers

\* The variables of connections, and those of events, for steps that change one
\* kind only.
ConnsTyped == conn \in [Conns -> Conn] /\ HandlersAskForRuns

QueuesTyped ==
    /\ queue \in [Conns -> Seq(Events)] /\ \A c \in Conns : Len(queue[c]) <= QueueSize
    /\ sending \in [Conns -> SUBSET Events]
    /\ delivered \in [Conns -> Seq(Events)]

LEMMA StepConn ==
    ASSUME ConnsTyped, NEW c \in Conns, NEW x \in Conn,
           conn' = [conn EXCEPT ![c] = x],
           x.pc \in {"open", "select", "answer"} => x.user \in Users,
           x.pc \in {"select", "answer"} => x.run \in Runs
    PROVE  ConnsTyped'
BY DEF ConnsTyped, HandlersAskForRuns, Open

LEMMA SubscribeTyped ==
    ASSUME subs \in [Runs -> [Conns -> Nat]], NEW r \in Runs, NEW c \in Conns
    PROVE  /\ Subscribe(subs, r, c) \in [Runs -> [Conns -> Nat]]
           /\ Unsubscribe(subs, r, c) \in [Runs -> [Conns -> Nat]]
BY DEF Subscribe, Unsubscribe

\* The steps of a handler that change nothing but its own state.
LEMMA HandlerTyped ==
    ASSUME TypeInv, NEW c \in Conns,
           \/ Connect(c)
           \/ \E r \in Runs : SubscribeReceive(c, r)
           \/ SubscribeSelect(c)
           \/ SubscribeReject(c)
    PROVE  ConnsTyped'
<1>0. ConnsTyped /\ owner \in [Runs -> Users \cup {Null}]
  BY DEF TypeInv, TypeOK, ConnsTyped
<1>a. conn[c] \in Conn
  BY <1>0 DEF ConnsTyped
<1>1. CASE Connect(c)
  <2>1. PICK u \in Users :
           conn' = [conn EXCEPT ![c] = [NewConn EXCEPT !.pc = "open", !.user = u,
                                                       !.sender = TRUE]]
    BY <1>1 DEF Connect
  <2>. DEFINE x == [NewConn EXCEPT !.pc = "open", !.user = u, !.sender = TRUE]
  <2>2. x \in Conn /\ x.pc = "open" /\ x.user = u
    BY DEF Conn, NewConn
  <2>. HIDE DEF x
  <2>. QED  BY <1>0, <2>1, <2>2, StepConn DEF x
<1>2. ASSUME NEW r \in Runs, SubscribeReceive(c, r)
      PROVE  ConnsTyped'
  <2>. DEFINE x == [conn[c] EXCEPT !.pc = "select", !.run = r]
  <2>1. x \in Conn /\ x.run = r /\ x.user = conn[c].user
    BY <1>a DEF Conn
  <2>2. conn[c].user \in Users
    BY <1>0, <1>2 DEF SubscribeReceive, ConnsTyped, HandlersAskForRuns, Open
  <2>3. conn' = [conn EXCEPT ![c] = x]
    BY <1>0, <1>2 DEF SubscribeReceive, ConnsTyped, Conn
  <2>. HIDE DEF x
  <2>. QED  BY <1>0, <2>1, <2>2, <2>3, StepConn
<1>3. CASE SubscribeSelect(c)
  <2>. DEFINE x == [conn[c] EXCEPT !.pc = "answer", !.found = owner[conn[c].run]]
  <2>1. conn[c].user \in Users /\ conn[c].run \in Runs
    BY <1>0, <1>3 DEF SubscribeSelect, ConnsTyped, HandlersAskForRuns, Open
  <2>2. x \in Conn /\ x.run = conn[c].run /\ x.user = conn[c].user
    BY <1>0, <1>a, <2>1 DEF Conn
  <2>3. conn' = [conn EXCEPT ![c] = x]
    BY <1>0, <1>3 DEF SubscribeSelect, ConnsTyped, Conn
  <2>. HIDE DEF x
  <2>. QED  BY <1>0, <2>1, <2>2, <2>3, StepConn
<1>4. CASE SubscribeReject(c)
  <2>. DEFINE x == [conn[c] EXCEPT !.pc = "open", !.run = Null, !.found = Null]
  <2>1. conn[c].user \in Users
    BY <1>0, <1>4 DEF SubscribeReject, ConnsTyped, HandlersAskForRuns, Open
  <2>2. x \in Conn /\ x.pc = "open" /\ x.user = conn[c].user
    BY <1>a DEF Conn
  <2>3. conn' = [conn EXCEPT ![c] = x]
    BY <1>0, <1>4 DEF SubscribeReject, ConnsTyped, Conn
  <2>. HIDE DEF x
  <2>. QED  BY <1>0, <2>1, <2>2, <2>3, StepConn
<1>. QED  BY <1>1, <1>2, <1>3, <1>4

\* What a publish leaves in the queue of a connection.
LEMMA PublishStep ==
    ASSUME TypeOK, NEW r \in Runs, RunPublish(r), NEW c \in Conns
    PROVE  /\ queue'[c] \in Seq(Events)
           /\ Len(queue'[c]) <= QueueSize
           /\ InSequence(queue[c]) /\ (\A j \in 1..Len(queue[c]) : queue[c][j].no <= count)
                 => InSequence(queue'[c])
           /\ \A i \in 1..Len(queue'[c]) :
                 \/ \E j \in 1..Len(queue[c]) : queue'[c][i] = queue[c][j]
                 \/ subs[r][c] > 0 /\ queue'[c][i] = [run |-> r, no |-> count + 1]
<1>. DEFINE event == [run |-> r, no |-> count + 1]
            q == queue[c]
            n == subs[r][c]
            s == queue'[c]
<1>1. s = DropOldest(q \o Copies(event, n), QueueSize)
  BY DEF RunPublish, Publish, TypeOK
<1>2. event \in Events
  BY DEF TypeOK, Events
<1>3. q \in Seq(Events) /\ n \in Nat /\ QueueSize \in Nat \ {0}
  BY Sizes DEF TypeOK
<1>4. /\ s \in Seq(Events) /\ Len(s) <= QueueSize /\ OldOrNew(s, q, n, event)
      /\ StaysInSequence(s, q, n, event)
  <2>. HIDE DEF event, q, n, s
  <2>. QED  BY ONLY <1>1, <1>2, <1>3, PublishedQueue
<1>5. ASSUME \A j \in 1..Len(q) : q[j].no <= count
      PROVE  Follows(event, q)
  <2>1. event.no = count + 1 /\ count \in Nat
    BY DEF TypeOK
  <2>2. ASSUME NEW j \in 1..Len(q)
        PROVE  q[j].no \in Nat /\ q[j].no <= count
    <3>1. q[j] \in Events
      BY <1>3
    <3>. QED  BY <1>5, <3>1 DEF Events
  <2>. QED  BY <2>1, <2>2 DEF Follows
<1>. QED  BY <1>4, <1>5 DEF OldOrNew, StaysInSequence

LEMMA NextTypeInv ==
    ASSUME TypeInv, [Next]_vars
    PROVE  TypeInv'
<1>0. ConnsTyped /\ QueuesTyped /\ HandlersAskForRuns
  BY DEF TypeInv, TypeOK, ConnsTyped, QueuesTyped
<1>. SUFFICES ConnsTyped' /\ TypeOK'
  BY DEF TypeInv, ConnsTyped
<1>. USE DEF TypeInv, TypeOK
<1>1. CASE UNCHANGED vars
  BY <1>1, <1>0
  DEF vars, brokerVars, senderVars, historyVars, ConnsTyped, HandlersAskForRuns, Open
<1>2. ASSUME NEW r \in Runs, RunInsert(r)
      PROVE  ConnsTyped' /\ TypeOK'
  BY <1>0, <1>2
  DEF RunInsert, brokerVars, senderVars, historyVars, ConnsTyped, HandlersAskForRuns, Open
<1>3. ASSUME NEW c \in Conns,
             \/ Connect(c)
             \/ \E r \in Runs : SubscribeReceive(c, r)
             \/ SubscribeSelect(c)
             \/ SubscribeReject(c)
      PROVE  ConnsTyped' /\ TypeOK'
  <2>1. ConnsTyped'
    BY <1>3, HandlerTyped
  <2>2. UNCHANGED <<owner, brokerVars, senderVars, historyVars>>
    BY <1>3 DEF Connect, SubscribeReceive, SubscribeSelect, SubscribeReject
  <2>. QED  BY <2>1, <2>2 DEF brokerVars, senderVars, historyVars, ConnsTyped
<1>4. ASSUME NEW c \in Conns, SubscribeRegister(c)
      PROVE  ConnsTyped' /\ TypeOK'
  <2>1. conn[c].run \in Runs
    BY <1>0, <1>4 DEF SubscribeRegister, HandlersAskForRuns
  <2>2. ConnsTyped'
    <3>. DEFINE x == [conn[c] EXCEPT !.pc = "open", !.run = Null, !.found = Null,
                                    !.subscriptions = @ \cup {conn[c].run}]
    <3>1. conn[c] \in Conn /\ conn[c].user \in Users
      BY <1>0, <1>4 DEF SubscribeRegister, ConnsTyped, HandlersAskForRuns, Open
    <3>2. x \in Conn /\ x.pc = "open" /\ x.user = conn[c].user
      BY <2>1, <3>1 DEF Conn
    <3>3. conn' = [conn EXCEPT ![c] = x]
      BY <1>0, <1>4 DEF SubscribeRegister, ConnsTyped, Conn
    <3>. HIDE DEF x
    <3>. QED  BY <1>0, <3>1, <3>2, <3>3, StepConn
  <2>3. subs' \in [Runs -> [Conns -> Nat]]
    BY <1>4, <2>1, SubscribeTyped DEF SubscribeRegister
  <2>4. doubled' \in [Conns -> BOOLEAN]
    BY <1>4 DEF SubscribeRegister
  <2>. QED  BY <1>4, <2>2, <2>3, <2>4 DEF SubscribeRegister, senderVars, ConnsTyped
<1>5. ASSUME NEW c \in Conns, NEW r \in Runs, UnsubscribeReceive(c, r)
      PROVE  ConnsTyped' /\ TypeOK'
  <2>1. ConnsTyped'
    <3>. DEFINE x == [conn[c] EXCEPT !.subscriptions = conn[c].subscriptions \ {r}]
    <3>1. conn[c] \in Conn /\ conn[c].pc = "open" /\ conn[c].user \in Users
      BY <1>0, <1>5 DEF UnsubscribeReceive, ConnsTyped, HandlersAskForRuns, Open
    <3>2. x \in Conn /\ x.pc = "open" /\ x.user = conn[c].user
      BY <3>1 DEF Conn
    <3>3. conn' = [conn EXCEPT ![c] = x]
      BY <1>0, <1>5 DEF UnsubscribeReceive, ConnsTyped, Conn
    <3>. HIDE DEF x
    <3>. QED  BY <1>0, <3>1, <3>2, <3>3, StepConn
  <2>2. subs' \in [Runs -> [Conns -> Nat]]
    BY <1>5, SubscribeTyped DEF UnsubscribeReceive
  <2>. QED  BY <1>5, <2>1, <2>2 DEF UnsubscribeReceive, senderVars, historyVars, ConnsTyped
<1>6. ASSUME NEW c \in Conns, Disconnect(c)
      PROVE  ConnsTyped' /\ TypeOK'
  <2>1. ConnsTyped'
    BY <1>0, <1>6
    DEF Disconnect, ConnsTyped, HandlersAskForRuns, Open, Conn, ClosedConn, NewConn
  <2>2. subs' \in [Runs -> [Conns -> Nat]]
    BY <1>6, SubscribeTyped DEF Disconnect
  <2>. QED  BY <1>6, <2>1, <2>2 DEF Disconnect, ConnsTyped
<1>7. CASE Restart
  <2>1. ConnsTyped'
    BY <1>0, <1>7 DEF Restart, ConnsTyped, HandlersAskForRuns, Open, Conn, ClosedConn, NewConn
  <2>2. Len(<< >>) <= QueueSize
    BY Sizes
  <2>. QED  BY <1>7, <2>1, <2>2 DEF Restart, ConnsTyped, NoSubscribers
<1>8. ASSUME NEW r \in Runs, RunPublish(r)
      PROVE  ConnsTyped' /\ TypeOK'
  <2>. DEFINE event == [run |-> r, no |-> count + 1]
  <2>1. event \in Events
    BY DEF Events
  <2>2. ASSUME NEW c \in Conns
        PROVE  queue'[c] \in Seq(Events) /\ Len(queue'[c]) <= QueueSize
    BY <1>8, PublishStep
  <2>3. queue' = [c \in Conns |-> queue'[c]]
    BY <1>8 DEF RunPublish, Publish
  <2>4. due' \in [Conns -> SUBSET Events] /\ count' \in Nat
    BY <1>8, <2>1 DEF RunPublish
  <2>. HIDE DEF event
  <2>5. queue' \in [Conns -> Seq(Events)] /\ \A c \in Conns : Len(queue'[c]) <= QueueSize
    BY <2>2, <2>3
  <2>. QED
    BY <1>0, <1>8, <2>4, <2>5
    DEF RunPublish, senderVars, ConnsTyped, HandlersAskForRuns, Open
<1>9. ASSUME NEW c \in Conns, SenderGet(c)
      PROVE  ConnsTyped' /\ TypeOK'
  <2>1. Head(queue[c]) \in Events /\ Tail(queue[c]) \in Seq(Events)
        /\ Len(Tail(queue[c])) <= QueueSize
    BY <1>9, Sizes, HeadTailProperties DEF SenderGet
  <2>. QED
    BY <1>0, <1>9, <2>1
    DEF SenderGet, historyVars, ConnsTyped, HandlersAskForRuns, Open
<1>10. ASSUME NEW c \in Conns, SenderSend(c)
       PROVE  ConnsTyped' /\ TypeOK'
  BY <1>0, <1>10
  DEF SenderSend, brokerVars, historyVars, ConnsTyped, HandlersAskForRuns, Open
<1>11. ASSUME NEW c \in Conns, SenderFails(c)
       PROVE  ConnsTyped' /\ TypeOK'
  <2>. DEFINE x == [conn[c] EXCEPT !.sender = FALSE]
  <2>1. x \in Conn /\ x.pc = conn[c].pc /\ x.user = conn[c].user /\ x.run = conn[c].run
    <3>1. conn[c] \in Conn
      BY <1>0 DEF ConnsTyped
    <3>. QED  BY ONLY <3>1 DEF Conn, x
  <2>2. conn' = [conn EXCEPT ![c] = x]
    BY <1>11 DEF SenderFails, Conn
  <2>. HIDE DEF x
  <2>3. ConnsTyped'
    BY <1>0, <2>1, <2>2, StepConn DEF HandlersAskForRuns, Open
  <2>. QED  BY <1>11, <2>3 DEF SenderFails, brokerVars, historyVars, ConnsTyped
<1>. QED
  BY <1>1, <1>2, <1>3, <1>4, <1>5, <1>6, <1>7, <1>8, <1>9, <1>10, <1>11
  DEF Next, ConnNext, SenderNext

\* Tables, handlers, queues and histories hold values of their types; no queue is
\* longer than the size it was made with.
THEOREM TypeCorrect == Spec => []TypeOK
<1>1. Spec => []TypeInv
  BY InitTypeInv, NextTypeInv, PTL DEF Spec
<1>2. TypeInv => TypeOK
  BY DEF TypeInv
<1>. QED  BY <1>1, <1>2, PTL
-----------------------------------------------------------------------------
(* Acknowledged subscriptions.                                             *)

LEMMA NextAcked ==
    ASSUME TypeInv, AckedIsRegistered, [Next]_vars
    PROVE  AckedIsRegistered'
<1>. USE DEF AckedIsRegistered, TypeInv, TypeOK
<1>1. CASE /\ subs' = subs
           /\ \A c \in Conns : Open(c)' => /\ Open(c) \/ conn'[c].subscriptions = {}
                                           /\ Open(c) => conn'[c].subscriptions
                                                            = conn[c].subscriptions
  BY <1>1
<1>2. ASSUME NEW c \in Conns, Connect(c)
      PROVE  AckedIsRegistered'
  <2>1. /\ conn'[c].subscriptions = {}
        /\ \A b \in Conns : b # c => conn'[b] = conn[b]
        /\ ~Open(c)
    BY <1>2 DEF Connect, NewConn, Open
  <2>. QED  BY <1>1, <1>2, <2>1 DEF Connect, brokerVars, Open
<1>3. ASSUME NEW c \in Conns,
             \/ \E r \in Runs : SubscribeReceive(c, r)
             \/ SubscribeSelect(c)
             \/ SubscribeReject(c)
             \/ SenderFails(c)
      PROVE  AckedIsRegistered'
  <2>a. \A b \in Conns : b # c => conn'[b] = conn[b]
    BY <1>3 DEF SubscribeReceive, SubscribeSelect, SubscribeReject, SenderFails
  <2>b. conn[c] \in Conn
    OBVIOUS
  <2>c. conn'[c].subscriptions = conn[c].subscriptions
    BY <1>3, <2>b DEF SubscribeReceive, SubscribeSelect, SubscribeReject, SenderFails, Conn
  <2>d. Open(c) \/ conn'[c].pc = conn[c].pc
    BY <1>3, <2>b DEF SubscribeReceive, SubscribeSelect, SubscribeReject, SenderFails, Open, Conn
  <2>1. /\ \A b \in Conns : conn'[b].subscriptions = conn[b].subscriptions
        /\ \A b \in Conns : Open(b)' => Open(b)
    BY <2>a, <2>c, <2>d DEF Open
  <2>2. subs' = subs
    BY <1>3 DEF SubscribeReceive, SubscribeSelect, SubscribeReject, SenderFails, brokerVars
  <2>. QED  BY <1>1, <2>1, <2>2
<1>4. ASSUME NEW c \in Conns, SubscribeRegister(c)
      PROVE  AckedIsRegistered'
  <2>1. conn[c].run \in Runs
    BY <1>4 DEF SubscribeRegister, HandlersAskForRuns
  <2>2. /\ \A b \in Conns : b # c => conn'[b] = conn[b]
        /\ conn'[c].subscriptions = conn[c].subscriptions \cup {conn[c].run}
        /\ Open(c)
    BY <1>4 DEF SubscribeRegister, Open, Conn
  <2>3. /\ \A r \in Runs, b \in Conns : subs'[r][b] >= subs[r][b]
        /\ subs'[conn[c].run][c] > 0
    BY <1>4, <2>1 DEF SubscribeRegister, Subscribe
  <2>4. ASSUME NEW b \in Conns, Open(b)', NEW x \in Runs, x \in conn'[b].subscriptions
        PROVE  subs'[x][b] > 0
    <3>1. CASE b = c /\ x = conn[c].run
      BY <2>3, <3>1
    <3>2. CASE ~(b = c /\ x = conn[c].run)
      <4>1. Open(b) /\ x \in conn[b].subscriptions
        BY <2>2, <2>4, <3>2 DEF Open
      <4>2. subs[x][b] \in Nat /\ subs[x][b] > 0
        BY <4>1
      <4>3. subs'[x][b] \in Nat /\ subs'[x][b] >= subs[x][b]
        <5>1. subs' \in [Runs -> [Conns -> Nat]]
          BY <1>4, <2>1, SubscribeTyped DEF SubscribeRegister
        <5>. QED  BY <2>3, <5>1
      <4>. QED  BY <4>2, <4>3
    <3>. QED  BY <3>1, <3>2
  <2>5. \A b \in Conns : conn'[b].subscriptions \subseteq Runs
    BY <2>1, <2>2 DEF Conn
  <2>. QED  BY <2>4, <2>5
<1>5. ASSUME NEW c \in Conns, NEW r \in Runs, UnsubscribeReceive(c, r)
      PROVE  AckedIsRegistered'
  <2>1. /\ \A b \in Conns : b # c => conn'[b] = conn[b]
        /\ conn'[c].subscriptions = conn[c].subscriptions \ {r}
        /\ Open(c)
    BY <1>5 DEF UnsubscribeReceive, Open, Conn
  <2>a. \A b \in Conns : conn[b].subscriptions \subseteq Runs
    BY DEF Conn
  <2>2. \A x \in Runs, b \in Conns : x # r \/ b # c => subs'[x][b] = subs[x][b]
    BY <1>5 DEF UnsubscribeReceive, Unsubscribe
  <2>3. ASSUME NEW b \in Conns, Open(b)', NEW x \in conn'[b].subscriptions
        PROVE  subs'[x][b] > 0
    <3>1. /\ Open(b) /\ x \in conn[b].subscriptions
          /\ x # r \/ b # c
      BY <2>1, <2>3 DEF Open
    <3>2. subs[x][b] > 0 /\ x \in Runs
      BY <2>a, <3>1
    <3>. QED  BY <2>2, <3>1, <3>2
  <2>. QED  BY <2>3
<1>6. ASSUME NEW c \in Conns, Disconnect(c)
      PROVE  AckedIsRegistered'
  <2>1. /\ \A b \in Conns : b # c => conn'[b] = conn[b]
        /\ ~Open(c)'
    BY <1>6 DEF Disconnect, Open, ClosedConn, NewConn
  <2>2. \A r \in Runs, b \in Conns : b # c => subs'[r][b] = subs[r][b]
    BY <1>6 DEF Disconnect, Unsubscribe
  <2>3. ASSUME NEW b \in Conns, Open(b)', NEW x \in conn'[b].subscriptions
        PROVE  subs'[x][b] > 0
    <3>1. b # c /\ Open(b) /\ x \in conn[b].subscriptions
      BY <2>1, <2>3 DEF Open
    <3>2. subs[x][b] > 0 /\ x \in Runs
      BY <3>1 DEF Conn
    <3>. QED  BY <2>2, <3>1, <3>2
  <2>. QED  BY <2>3
<1>7. CASE Restart
  BY <1>7 DEF Restart, Open, ClosedConn, NewConn
<1>8. CASE UNCHANGED <<conn, subs>>
  BY <1>8 DEF Open
<1>9. ASSUME NEW c \in Conns, SenderGet(c) \/ SenderSend(c)
      PROVE  UNCHANGED <<conn, subs>>
  BY <1>9 DEF SenderGet, SenderSend, brokerVars
<1>10. ASSUME NEW r \in Runs, RunInsert(r) \/ RunPublish(r)
       PROVE  UNCHANGED <<conn, subs>>
  BY <1>10 DEF RunInsert, RunPublish, brokerVars
<1>11. UNCHANGED vars => UNCHANGED <<conn, subs>>
  BY DEF vars
<1>. QED
  BY <1>2, <1>3, <1>4, <1>5, <1>6, <1>7, <1>8, <1>9, <1>10, <1>11
  DEF Next, ConnNext, SenderNext

\* An acknowledged subscription of an open connection always has an entry in the
\* broker's list, for any number of connections that come and go.
THEOREM Acked == Spec => []AckedIsRegistered
<1>1. Init => AckedIsRegistered
  BY DEF Init, AckedIsRegistered, NewConn, Open
<1>2. Spec => [](TypeInv /\ AckedIsRegistered)
  BY <1>1, InitTypeInv, NextTypeInv, NextAcked, PTL DEF Spec
<1>. QED  BY <1>2, PTL
-----------------------------------------------------------------------------
(* Only owners get events.                                                 *)

\* A connection that was not opened yet is in no list and got nothing.
NewIsEmpty ==
    \A c \in Conns : conn[c].pc = "new" =>
       /\ \A r \in Runs : subs[r][c] = 0
       /\ Held(c) = {}

\* The owner that a handler has read is still the owner when it uses it.
AnswersAreCurrent ==
    \A c \in Conns : conn[c].pc = "answer" /\ conn[c].found # Null =>
       owner[conn[c].run] = conn[c].found

\* The entries of an open connection are for runs of its user.
EntriesAreOwned ==
    \A c \in Conns, r \in Runs : Open(c) /\ subs[r][c] > 0 => owner[r] = conn[c].user

OwnersInv == NewIsEmpty /\ AnswersAreCurrent /\ EntriesAreOwned /\ OwnersOnly

LEMMA HeldEvents ==
    ASSUME TypeInv, NEW c \in Conns
    PROVE  Held(c) \subseteq Events
BY DEF TypeInv, TypeOK, Held, InQueue, Received

LEMMA OwnersStay ==
    ASSUME TypeInv, [Next]_vars, NEW r \in Runs, owner[r] # Null
    PROVE  owner'[r] = owner[r]
<1>1. ASSUME NEW x \in Runs, RunInsert(x)
      PROVE  owner'[r] = owner[r]
  BY <1>1 DEF RunInsert, TypeInv, TypeOK
<1>2. UNCHANGED owner \/ \E x \in Runs : RunInsert(x)
  BY DEF Next, ConnNext, SenderNext, vars, RunPublish, Connect, SubscribeReceive,
         UnsubscribeReceive, SubscribeSelect, SubscribeReject, SubscribeRegister,
         Disconnect, SenderGet, SenderSend, SenderFails, Restart
<1>. QED  BY <1>1, <1>2

\* A step that gives an open connection no new event keeps it to its own events.
LEMMA HeldStays ==
    ASSUME TypeInv, OwnersOnly, [Next]_vars, NEW c \in Conns,
           Open(c), conn'[c].user = conn[c].user,
           NEW e \in Held(c)
    PROVE  owner'[e.run] = conn'[c].user
<1>1. owner[e.run] = conn[c].user
  BY DEF OwnersOnly, Held
<1>2. conn[c].user # Null /\ e.run \in Runs
  BY HeldEvents, NullIsNoValue DEF TypeInv, HandlersAskForRuns, Events
<1>. QED  BY <1>1, <1>2, OwnersStay

\* How a step can change what a connection is.
Kept(c) ==
    /\ conn'[c].pc = "new" => conn[c].pc = "new"
    /\ Open(c)' => Open(c) /\ conn'[c].user = conn[c].user
    /\ conn'[c].pc = "answer" =>
          \/ SubscribeSelect(c)
          \/ /\ conn[c].pc = "answer"
             /\ conn'[c].run = conn[c].run /\ conn'[c].found = conn[c].found

LEMMA ConnStep ==
    ASSUME TypeInv, [Next]_vars, NEW c \in Conns
    PROVE  Connect(c) \/ Kept(c)
<1>0. conn \in [Conns -> Conn]
  BY DEF TypeInv, TypeOK
<1>1. CASE conn'[c] = conn[c]
  BY <1>1 DEF Kept, Open
<1>2. ASSUME NEW b \in Conns, ConnNext(b), b # c
      PROVE  conn'[c] = conn[c]
  <2>1. Connect(b) \/ (\E r \in Runs : SubscribeReceive(b, r)) => conn'[c] = conn[c]
    BY <1>0, <1>2 DEF Connect, SubscribeReceive
  <2>2. SubscribeSelect(b) \/ SubscribeReject(b) => conn'[c] = conn[c]
    BY <1>0, <1>2 DEF SubscribeSelect, SubscribeReject
  <2>3. SubscribeRegister(b) \/ (\E r \in Runs : UnsubscribeReceive(b, r))
           => conn'[c] = conn[c]
    BY <1>0, <1>2 DEF SubscribeRegister, UnsubscribeReceive
  <2>4. Disconnect(b) => conn'[c] = conn[c]
    BY <1>0, <1>2 DEF Disconnect
  <2>. QED  BY <1>2, <2>1, <2>2, <2>3, <2>4 DEF ConnNext
<1>3. ASSUME NEW r \in Runs, SubscribeReceive(c, r) \/ UnsubscribeReceive(c, r)
      PROVE  Kept(c)
  BY <1>0, <1>3 DEF SubscribeReceive, UnsubscribeReceive, Kept, Open, Conn
<1>4. CASE SubscribeSelect(c)
  BY <1>0, <1>4 DEF SubscribeSelect, Kept, Open, Conn
<1>5. CASE SubscribeReject(c) \/ SubscribeRegister(c)
  BY <1>0, <1>5 DEF SubscribeReject, SubscribeRegister, Kept, Open, Conn
<1>6. CASE Disconnect(c) \/ Restart
  BY <1>0, <1>6 DEF Disconnect, Restart, ClosedConn, NewConn, Kept, Open
<1>7. ASSUME NEW b \in Conns, SenderNext(b)
      PROVE  Kept(c)
  BY <1>0, <1>7 DEF SenderNext, SenderGet, SenderSend, SenderFails, Kept, Open, Conn
<1>8. ASSUME NEW r \in Runs, RunInsert(r) \/ RunPublish(r)
      PROVE  conn'[c] = conn[c]
  BY <1>8 DEF RunInsert, RunPublish
<1>. QED
  BY <1>1, <1>2, <1>3, <1>4, <1>5, <1>6, <1>7, <1>8 DEF Next, ConnNext, vars

LEMMA EntriesStep ==
    ASSUME TypeInv, [Next]_vars, NEW c \in Conns, NEW r \in Runs, subs'[r][c] > 0
    PROVE  subs[r][c] > 0 \/ (SubscribeRegister(c) /\ conn[c].run = r)
<1>. USE DEF TypeInv, TypeOK
<1>1. CASE subs' = subs
  BY <1>1
<1>2. ASSUME NEW b \in Conns, SubscribeRegister(b)
      PROVE  subs[r][c] > 0 \/ (SubscribeRegister(c) /\ conn[c].run = r)
  <2>1. CASE b = c /\ conn[c].run = r
    BY <1>2, <2>1
  <2>2. CASE ~(b = c /\ conn[c].run = r)
    BY <1>2, <2>2 DEF SubscribeRegister, Subscribe
  <2>. QED  BY <2>1, <2>2
<1>3. ASSUME NEW b \in Conns, NEW x \in Runs
      PROVE  Unsubscribe(subs, x, b)[r][c] > 0 => subs[r][c] > 0
  BY DEF Unsubscribe
<1>4. ASSUME NEW b \in Conns, NEW x \in Runs, UnsubscribeReceive(b, x)
      PROVE  subs[r][c] > 0
  BY <1>3, <1>4 DEF UnsubscribeReceive
<1>5. ASSUME NEW b \in Conns, Disconnect(b)
      PROVE  subs[r][c] > 0
  BY <1>3, <1>5 DEF Disconnect
<1>6. CASE Restart
  BY <1>6 DEF Restart, NoSubscribers
<1>7. \/ subs' = subs
      \/ \E b \in Conns : SubscribeRegister(b) \/ Disconnect(b)
      \/ \E b \in Conns, x \in Runs : UnsubscribeReceive(b, x)
      \/ Restart
  BY DEF Next, ConnNext, SenderNext, vars, brokerVars, RunInsert, RunPublish, Connect,
         SubscribeReceive, SubscribeSelect, SubscribeReject, SenderGet, SenderSend,
         SenderFails
<1>. QED  BY <1>1, <1>2, <1>4, <1>5, <1>6, <1>7

\* The steps that move events.
LEMMA EventsMove ==
    ASSUME [Next]_vars
    PROVE  \/ UNCHANGED <<queue, sending, delivered, count>>
           \/ \E b \in Conns : \/ SenderGet(b) \/ SenderSend(b) \/ SenderFails(b)
                              \/ Disconnect(b)
           \/ \E r \in Runs : RunPublish(r)
           \/ Restart
<1>. DEFINE Same == UNCHANGED <<queue, sending, delivered, count>>
<1>1. ASSUME NEW c \in Conns, ConnNext(c)
      PROVE  Same \/ Disconnect(c)
  BY <1>1 DEF ConnNext, Connect, SubscribeReceive, UnsubscribeReceive, SubscribeSelect,
              SubscribeReject, SubscribeRegister, brokerVars, senderVars, historyVars
<1>2. ASSUME NEW r \in Runs, RunInsert(r)
      PROVE  Same
  BY <1>2 DEF RunInsert, brokerVars, senderVars, historyVars
<1>3. UNCHANGED vars => Same
  BY DEF vars
<1>. HIDE DEF Same
<1>4. \/ Same
      \/ \E b \in Conns : SenderGet(b) \/ SenderSend(b) \/ SenderFails(b) \/ Disconnect(b)
      \/ \E r \in Runs : RunPublish(r)
      \/ Restart
  BY <1>1, <1>2, <1>3 DEF Next, SenderNext
<1>. QED  BY <1>4 DEF Same

\* An event comes to a connection by a publish to a list with its queue.
LEMMA HeldStep ==
    ASSUME TypeInv, [Next]_vars, NEW c \in Conns, NEW e \in Held(c)', e \notin Held(c)
    PROVE  \E r \in Runs : RunPublish(r) /\ subs[r][c] > 0 /\ e.run = r
<1>. USE DEF TypeInv, TypeOK
<1>1. ~(/\ queue'[c] = queue[c]
        /\ sending'[c] = sending[c]
        /\ delivered'[c] = delivered[c])
  BY DEF Held, InQueue, Received
<1>2. ASSUME NEW b \in Conns, SenderGet(b)
      PROVE  FALSE
  <2>1. CASE b # c
    BY <1>1, <1>2, <2>1 DEF SenderGet
  <2>2. CASE b = c
    <3>1. /\ queue[c] \in Seq(Events) /\ queue[c] # << >>
          /\ sending'[c] = {Head(queue[c])} /\ queue'[c] = Tail(queue[c])
          /\ delivered'[c] = delivered[c]
      BY <1>2, <2>2 DEF SenderGet
    <3>2. Head(queue[c]) \in InQueue(c)
      BY <3>1 DEF InQueue
    <3>3. InQueue(c)' \subseteq InQueue(c)
      BY <3>1, HeadTailProperties DEF InQueue
    <3>. QED  BY <3>1, <3>2, <3>3 DEF Held, Received
  <2>. QED  BY <2>1, <2>2
<1>3. ASSUME NEW b \in Conns, SenderSend(b)
      PROVE  FALSE
  <2>1. CASE b # c
    BY <1>1, <1>3, <2>1 DEF SenderSend, brokerVars
  <2>2. CASE b = c
    <3>1. PICK f \in sending[c] : delivered' = [delivered EXCEPT ![c] = Append(@, f)]
      BY <1>3, <2>2 DEF SenderSend
    <3>2. delivered[c] \in Seq(Events) /\ delivered'[c] = Append(delivered[c], f)
      BY <3>1
    <3>3. Received(c)' \subseteq Received(c) \cup {f}
      BY <3>2 DEF Received
    <3>4. queue'[c] = queue[c] /\ sending'[c] = {}
      BY <1>3, <2>2 DEF SenderSend, brokerVars
    <3>. QED  BY <3>3, <3>4 DEF Held, InQueue
  <2>. QED  BY <2>1, <2>2
<1>4. ASSUME NEW b \in Conns, SenderFails(b)
      PROVE  FALSE
  <2>1. queue'[c] = queue[c] /\ delivered'[c] = delivered[c] /\ sending'[c] \subseteq sending[c]
    BY <1>4 DEF SenderFails, brokerVars
  <2>. QED  BY <2>1 DEF Held, InQueue, Received
<1>5. ASSUME NEW b \in Conns, Disconnect(b)
      PROVE  FALSE
  <2>1. CASE b # c
    BY <1>1, <1>5, <2>1 DEF Disconnect
  <2>2. CASE b = c
    <3>1. queue'[c] = queue[c] /\ sending'[c] = {} /\ delivered'[c] = << >>
      BY <1>5, <2>2 DEF Disconnect
    <3>2. InQueue(c)' = InQueue(c) /\ Received(c)' = {}
      BY <3>1 DEF InQueue, Received
    <3>. QED  BY <3>1, <3>2 DEF Held
  <2>. QED  BY <2>1, <2>2
<1>6. CASE Restart
  <2>1. queue'[c] = << >> /\ sending'[c] = {} /\ delivered'[c] = << >>
    BY <1>6 DEF Restart
  <2>2. InQueue(c)' = {} /\ Received(c)' = {}
    BY <2>1 DEF InQueue, Received
  <2>. QED  BY <2>1, <2>2 DEF Held
<1>7. ASSUME NEW r \in Runs, RunPublish(r)
      PROVE  subs[r][c] > 0 /\ e.run = r
  <2>1. sending'[c] = sending[c] /\ delivered'[c] = delivered[c]
    BY <1>7 DEF RunPublish, senderVars
  <2>2. e \in InQueue(c)' /\ e \notin InQueue(c)
    BY <2>1 DEF Held, Received
  <2>3. PICK i \in 1..Len(queue'[c]) : e = queue'[c][i]
    BY <2>2 DEF InQueue
  <2>4. \A j \in 1..Len(queue[c]) : e # queue[c][j]
    BY <2>2 DEF InQueue
  <2>5. subs[r][c] > 0 /\ e = [run |-> r, no |-> count + 1]
    BY <1>7, <2>3, <2>4, PublishStep
  <2>. QED  BY <2>5
<1>8. \/ UNCHANGED <<queue, sending, delivered>>
      \/ \E b \in Conns : SenderGet(b) \/ SenderSend(b) \/ SenderFails(b) \/ Disconnect(b)
      \/ \E r \in Runs : RunPublish(r)
      \/ Restart
  BY EventsMove
<1>. QED  BY <1>1, <1>2, <1>3, <1>4, <1>5, <1>6, <1>7, <1>8

\* A connection that opens had not been opened before, so it is as empty as then.
LEMMA ConnectIsFresh ==
    ASSUME TypeInv, NewIsEmpty, NEW c \in Conns, Connect(c)
    PROVE  /\ \A r \in Runs : subs'[r][c] = 0
           /\ Held(c)' = {}
           /\ conn'[c].pc = "open"
<1>1. conn[c].pc = "new" /\ UNCHANGED <<subs, queue, sending, delivered>>
  BY DEF Connect, brokerVars, senderVars
<1>2. conn'[c].pc = "open"
  BY DEF Connect, TypeInv, TypeOK, NewConn
<1>3. Held(c)' = Held(c)
  BY <1>1 DEF Held, InQueue, Received
<1>4. (\A r \in Runs : subs[r][c] = 0) /\ Held(c) = {}
  BY <1>1 DEF NewIsEmpty
<1>. QED  BY <1>1, <1>2, <1>3, <1>4

LEMMA InitOwnersInv == Init => OwnersInv
BY DEF Init, OwnersInv, NewIsEmpty, AnswersAreCurrent, EntriesAreOwned, OwnersOnly,
       NewConn, NoSubscribers, Open, Held, InQueue, Received

LEMMA NextOwnersInv ==
    ASSUME TypeInv, OwnersInv, [Next]_vars
    PROVE  OwnersInv'
<1>. USE DEF OwnersInv
<1>1. NewIsEmpty'
  <2>. SUFFICES ASSUME NEW c \in Conns, conn'[c].pc = "new"
                PROVE  (\A r \in Runs : subs'[r][c] = 0) /\ Held(c)' = {}
    BY DEF NewIsEmpty
  <2>1. Kept(c)
    BY ConnStep, ConnectIsFresh
  <2>2. conn[c].pc = "new"
    BY <2>1 DEF Kept
  <2>3. (\A r \in Runs : subs[r][c] = 0) /\ Held(c) = {}
    BY <2>2 DEF NewIsEmpty
  <2>4. ASSUME NEW r \in Runs, subs'[r][c] > 0
        PROVE  FALSE
    <3>1. subs[r][c] > 0 \/ SubscribeRegister(c)
      BY <2>4, EntriesStep
    <3>2. ~SubscribeRegister(c)
      BY <2>2 DEF SubscribeRegister
    <3>3. subs[r][c] = 0
      BY <2>3
    <3>. QED  BY <3>1, <3>2, <3>3
  <2>5. \A r \in Runs : subs'[r][c] \in Nat
    BY NextTypeInv DEF TypeInv, TypeOK
  <2>6. Held(c)' = {}
    BY <2>3, HeldStep
  <2>. QED  BY <2>4, <2>5, <2>6
<1>2. AnswersAreCurrent'
  <2>. SUFFICES ASSUME NEW c \in Conns, conn'[c].pc = "answer", conn'[c].found # Null
                PROVE  owner'[conn'[c].run] = conn'[c].found
    BY DEF AnswersAreCurrent
  <2>1. Kept(c)
    BY ConnStep, ConnectIsFresh
  <2>2. CASE SubscribeSelect(c)
    BY <2>2 DEF SubscribeSelect, TypeInv, TypeOK, Conn
  <2>3. CASE conn[c].pc = "answer" /\ conn'[c].run = conn[c].run
             /\ conn'[c].found = conn[c].found
    <3>1. conn[c].run \in Runs
      BY <2>3 DEF TypeInv, HandlersAskForRuns
    <3>2. owner[conn[c].run] = conn[c].found
      BY <2>3 DEF AnswersAreCurrent
    <3>. QED  BY <2>3, <3>1, <3>2, OwnersStay
  <2>. QED  BY <2>1, <2>2, <2>3 DEF Kept
<1>3. ASSUME NEW c \in Conns, NEW r \in Runs, Open(c)', subs'[r][c] > 0
      PROVE  owner'[r] = conn'[c].user
  <2>1. Kept(c)
    BY <1>3, ConnStep, ConnectIsFresh
  <2>2. Open(c) /\ conn'[c].user = conn[c].user
    BY <1>3, <2>1 DEF Kept
  <2>3. conn[c].user # Null
    BY <2>2, NullIsNoValue DEF TypeInv, HandlersAskForRuns
  <2>4. owner[r] = conn[c].user
    <3>1. CASE subs[r][c] > 0
      BY <2>2, <3>1 DEF EntriesAreOwned
    <3>2. CASE SubscribeRegister(c) /\ conn[c].run = r
      BY <2>3, <3>2 DEF SubscribeRegister, AnswersAreCurrent
    <3>. QED  BY <1>3, <3>1, <3>2, EntriesStep
  <2>. QED  BY <2>2, <2>3, <2>4, OwnersStay
<1>4. ASSUME NEW c \in Conns, Open(c)', NEW e \in Held(c)'
      PROVE  owner'[e.run] = conn'[c].user
  <2>1. Kept(c)
    BY <1>4, ConnStep, ConnectIsFresh
  <2>2. Open(c) /\ conn'[c].user = conn[c].user
    BY <1>4, <2>1 DEF Kept
  <2>3. CASE e \in Held(c)
    BY <2>2, <2>3, HeldStays
  <2>4. CASE e \notin Held(c)
    <3>1. PICK r \in Runs : RunPublish(r) /\ subs[r][c] > 0 /\ e.run = r
      BY <2>4, HeldStep
    <3>2. owner[r] = conn[c].user
      BY <2>2, <3>1 DEF EntriesAreOwned
    <3>3. owner' = owner
      BY <3>1 DEF RunPublish
    <3>. QED  BY <2>2, <3>1, <3>2, <3>3
  <2>. QED  BY <2>3, <2>4
<1>. QED
  <2>1. EntriesAreOwned'
    BY <1>3 DEF EntriesAreOwned
  <2>2. OwnersOnly'
    BY <1>4 DEF OwnersOnly, Held
  <2>. QED  BY <1>1, <1>2, <2>1, <2>2

\* A client never holds an event of a run that another user triggered, for any
\* number of users and connections and through restarts of the API.
THEOREM Owners == Spec => []OwnersOnly
<1>1. Spec => [](TypeInv /\ OwnersInv)
  BY InitOwnersInv, InitTypeInv, NextTypeInv, NextOwnersInv, PTL DEF Spec
<1>2. OwnersInv => OwnersOnly
  BY DEF OwnersInv
<1>. QED  BY <1>1, <1>2, PTL
-----------------------------------------------------------------------------
(* The order of events.                                                    *)

\* The events of X were published no later than those of Y.
Before(X, Y) == \A e \in X, f \in Y : e.no <= f.no

\* What a client received, what is being sent and what waits follow each other.
OrderOf(c) ==
    /\ InSequence(delivered[c]) /\ InSequence(queue[c])
    /\ \A e, f \in sending[c] : e = f
    /\ Before(Received(c), sending[c] \cup InQueue(c))
    /\ Before(sending[c], InQueue(c))
    /\ \A e \in Held(c) : e.no <= count

OrderInv == \A c \in Conns : OrderOf(c)

LEMMA InitOrder == Init => OrderInv
BY DEF Init, OrderInv, OrderOf, InSequence, Before, Held, InQueue, Received

LEMMA OrderStays ==
    ASSUME NEW c \in Conns, OrderOf(c), count \in Nat, count' \in Nat, count <= count',
           Held(c) \subseteq Events,
           queue'[c] = queue[c] /\ delivered'[c] = delivered[c],
           sending'[c] \subseteq sending[c]
    PROVE  OrderOf(c)'
<1>1. /\ InQueue(c)' = InQueue(c) /\ Received(c)' = Received(c)
      /\ Held(c)' \subseteq Held(c)
  BY DEF Held, InQueue, Received
<1>2. \A e \in Held(c) : e.no \in Nat /\ e.no <= count
  BY DEF OrderOf, Events
<1>3. \A e \in Held(c)' : e.no <= count'
  BY <1>1, <1>2
<1>4. InSequence(delivered'[c]) /\ InSequence(queue'[c])
  BY DEF OrderOf, InSequence
<1>5. \A e, f \in sending'[c] : e = f
  BY DEF OrderOf
<1>6. /\ Before(Received(c)', sending'[c] \cup InQueue(c)')
      /\ Before(sending'[c], InQueue(c)')
  BY <1>1 DEF OrderOf, Before
<1>. QED  BY <1>3, <1>4, <1>5, <1>6 DEF OrderOf

LEMMA NextOrder ==
    ASSUME TypeInv, OrderInv, [Next]_vars
    PROVE  OrderInv'
<1>. SUFFICES ASSUME NEW c \in Conns
              PROVE  OrderOf(c)'
  BY DEF OrderInv
<1>0. OrderOf(c) /\ Held(c) \subseteq Events /\ count \in Nat
  BY HeldEvents DEF OrderInv, TypeInv, TypeOK
<1>. USE DEF TypeInv, TypeOK
<1>1. CASE queue'[c] = queue[c] /\ delivered'[c] = delivered[c] /\ sending'[c] \subseteq sending[c]
           /\ count' = count
  <2>1. count' \in Nat /\ count <= count'
    BY <1>0, <1>1
  <2>. QED  BY ONLY <1>0, <1>1, <2>1, OrderStays, c \in Conns
<1>2. ASSUME NEW b \in Conns, SenderGet(b)
      PROVE  OrderOf(c)'
  <2>1. CASE b # c
    BY <1>1, <1>2, <2>1 DEF SenderGet, historyVars
  <2>2. CASE b = c
    <3>1. /\ queue[c] \in Seq(Events) /\ queue[c] # << >> /\ sending[c] = {}
          /\ sending'[c] = {Head(queue[c])} /\ queue'[c] = Tail(queue[c])
          /\ delivered'[c] = delivered[c] /\ count' = count
      BY <1>2, <2>2 DEF SenderGet, historyVars
    <3>2. /\ Len(queue[c]) \in Nat \ {0} /\ Len(queue'[c]) = Len(queue[c]) - 1
          /\ Head(queue[c]) = queue[c][1]
          /\ \A i \in 1..Len(queue'[c]) : queue'[c][i] = queue[c][i + 1]
      BY <3>1, HeadTailProperties
    <3>3. InSequence(queue[c])
      BY <1>0 DEF OrderOf
    <3>4. InSequence(queue'[c])
      <4>. SUFFICES ASSUME NEW i \in 1..Len(queue'[c]), NEW j \in 1..Len(queue'[c]), i < j
                    PROVE  queue'[c][i].no <= queue'[c][j].no
        BY DEF InSequence
      <4>1. i + 1 \in 1..Len(queue[c]) /\ j + 1 \in 1..Len(queue[c]) /\ i + 1 < j + 1
        BY <3>2
      <4>. QED  BY <3>2, <3>3, <4>1 DEF InSequence
    <3>5. Before({Head(queue[c])}, InQueue(c)')
      <4>. SUFFICES ASSUME NEW i \in 1..Len(queue'[c])
                    PROVE  queue[c][1].no <= queue'[c][i].no
        BY <3>2 DEF Before, InQueue
      <4>1. 1 \in 1..Len(queue[c]) /\ i + 1 \in 1..Len(queue[c]) /\ 1 < i + 1
        BY <3>2
      <4>. QED  BY <3>2, <3>3, <4>1 DEF InSequence
    <3>6. Head(queue[c]) \in InQueue(c) /\ InQueue(c)' \subseteq InQueue(c)
      <4>1. \A i \in 1..Len(queue'[c]) : i + 1 \in 1..Len(queue[c])
        BY <3>2
      <4>2. 1 \in 1..Len(queue[c])
        BY <3>2
      <4>3. Head(queue[c]) \in InQueue(c)
        BY <3>2, <4>2 DEF InQueue
      <4>4. InQueue(c)' \subseteq InQueue(c)
        <5>. SUFFICES ASSUME NEW i \in 1..Len(queue'[c])
                      PROVE  queue'[c][i] \in InQueue(c)
          BY DEF InQueue
        <5>. QED  BY <3>2, <4>1 DEF InQueue
      <4>. QED  BY <4>3, <4>4
    <3>7. Received(c)' = Received(c)
      BY <3>1 DEF Received
    <3>8. Before(Received(c)', sending'[c] \cup InQueue(c)')
      BY <1>0, <3>1, <3>6, <3>7 DEF OrderOf, Before
    <3>9. \A e \in Held(c)' : e.no <= count'
      BY <1>0, <3>1, <3>6, <3>7 DEF OrderOf, Held
    <3>10. InSequence(delivered'[c])
      BY <1>0, <3>1 DEF OrderOf, InSequence
    <3>. QED  BY <3>1, <3>4, <3>5, <3>8, <3>9, <3>10 DEF OrderOf
  <2>. QED  BY <2>1, <2>2
<1>3. ASSUME NEW b \in Conns, SenderSend(b)
      PROVE  OrderOf(c)'
  <2>1. CASE b # c
    BY <1>1, <1>3, <2>1 DEF SenderSend, brokerVars, historyVars
  <2>2. CASE b = c
    <3>1. PICK e \in sending[c] : delivered' = [delivered EXCEPT ![c] = Append(@, e)]
      BY <1>3, <2>2 DEF SenderSend
    <3>2. /\ delivered[c] \in Seq(Events) /\ delivered'[c] = Append(delivered[c], e)
          /\ sending'[c] = {} /\ queue'[c] = queue[c] /\ count' = count
      BY <1>3, <2>2, <3>1 DEF SenderSend, brokerVars, historyVars
    <3>3. /\ Len(delivered[c]) \in Nat /\ Len(delivered'[c]) = Len(delivered[c]) + 1
          /\ \A i \in 1..Len(delivered[c]) : delivered'[c][i] = delivered[c][i]
          /\ delivered'[c][Len(delivered[c]) + 1] = e
      BY <3>2
    <3>4. \A i \in 1..Len(delivered[c]) : delivered[c][i].no <= e.no
      BY <1>0, <3>1 DEF OrderOf, Before, Received
    <3>5. InSequence(delivered'[c])
      <4>. SUFFICES ASSUME NEW i \in 1..Len(delivered'[c]), NEW j \in 1..Len(delivered'[c]),
                           i < j
                    PROVE  delivered'[c][i].no <= delivered'[c][j].no
        BY DEF InSequence
      <4>1. i \in 1..Len(delivered[c])
        BY <3>3
      <4>2. CASE j = Len(delivered[c]) + 1
        BY <3>3, <3>4, <4>1, <4>2
      <4>3. CASE j # Len(delivered[c]) + 1
        <5>1. j \in 1..Len(delivered[c])
          BY <3>3, <4>3
        <5>2. InSequence(delivered[c])
          BY <1>0 DEF OrderOf
        <5>. QED  BY <3>3, <4>1, <5>1, <5>2 DEF InSequence
      <4>. QED  BY <4>2, <4>3
    <3>6. Received(c)' \subseteq Received(c) \cup {e}
      BY <3>2 DEF Received
    <3>7. InQueue(c)' = InQueue(c)
      BY <3>2 DEF InQueue
    <3>8. Before(Received(c)', sending'[c] \cup InQueue(c)')
      BY <1>0, <3>1, <3>2, <3>6, <3>7 DEF OrderOf, Before
    <3>9. \A f \in Held(c)' : f.no <= count'
      BY <1>0, <3>1, <3>2, <3>6, <3>7 DEF OrderOf, Held
    <3>10. InSequence(queue'[c]) /\ Before(sending'[c], InQueue(c)')
      BY <1>0, <3>2 DEF OrderOf, InSequence, Before
    <3>. QED  BY <3>2, <3>5, <3>8, <3>9, <3>10 DEF OrderOf
  <2>. QED  BY <2>1, <2>2
<1>4. ASSUME NEW b \in Conns, SenderFails(b)
      PROVE  OrderOf(c)'
  <2>1. queue' = queue /\ delivered' = delivered /\ sending'[c] \subseteq sending[c]
        /\ count' = count
    BY <1>4 DEF SenderFails, brokerVars, historyVars
  <2>. QED  BY <1>1, <2>1
<1>5. ASSUME delivered'[c] = << >>, sending'[c] = {},
             queue'[c] = queue[c] \/ queue'[c] = << >>, count' = count
      PROVE  OrderOf(c)'
  <2>1. InQueue(c)' \subseteq InQueue(c) /\ Received(c)' = {}
    BY <1>5 DEF InQueue, Received
  <2>2. \A e \in Held(c)' : e.no <= count'
    BY <1>0, <1>5, <2>1 DEF OrderOf, Held
  <2>3. InSequence(queue'[c]) /\ InSequence(delivered'[c])
    BY <1>0, <1>5 DEF OrderOf, InSequence
  <2>. QED  BY <1>5, <2>1, <2>2, <2>3 DEF OrderOf, Before
<1>6. ASSUME NEW b \in Conns, Disconnect(b)
      PROVE  OrderOf(c)'
  <2>1. CASE b # c
    BY <1>1, <1>6, <2>1 DEF Disconnect
  <2>2. CASE b = c
    BY <1>5, <1>6, <2>2 DEF Disconnect
  <2>. QED  BY <2>1, <2>2
<1>7. CASE Restart
  BY <1>5, <1>7 DEF Restart
<1>8. ASSUME NEW r \in Runs, RunPublish(r)
      PROVE  OrderOf(c)'
  <2>1. count' = count + 1 /\ sending'[c] = sending[c] /\ delivered'[c] = delivered[c]
    BY <1>8 DEF RunPublish, senderVars
  <2>2. \A e \in Held(c) : e.no \in Nat /\ e.no <= count
    BY <1>0 DEF OrderOf, Events
  <2>3. InSequence(queue'[c])
    <3>1. \A j \in 1..Len(queue[c]) : queue[c][j].no <= count
      BY <2>2 DEF Held, InQueue
    <3>. QED  BY <1>0, <1>8, <3>1, PublishStep DEF OrderOf
  <2>4. ASSUME NEW e \in InQueue(c)'
        PROVE  e \in InQueue(c) \/ e.no = count + 1
    <3>1. PICK i \in 1..Len(queue'[c]) : e = queue'[c][i]
      BY <2>4 DEF InQueue
    <3>2. \/ \E j \in 1..Len(queue[c]) : e = queue[c][j]
          \/ e = [run |-> r, no |-> count + 1]
      BY <1>8, <3>1, PublishStep
    <3>. QED  BY <3>2 DEF InQueue
  <2>5. Received(c)' = Received(c)
    BY <2>1 DEF Received
  <2>6. ASSUME NEW e \in Held(c)'
        PROVE  e.no <= count'
    <3>1. e \in Held(c) \/ e.no = count + 1
      BY <2>1, <2>4, <2>5, <2>6 DEF Held
    <3>. QED  BY <1>0, <2>1, <2>2, <3>1
  <2>7. Before(Received(c)', sending'[c] \cup InQueue(c)')
    BY <1>0, <2>1, <2>2, <2>4, <2>5 DEF OrderOf, Before, Held
  <2>8. Before(sending'[c], InQueue(c)')
    BY <1>0, <2>1, <2>2, <2>4 DEF OrderOf, Before, Held
  <2>9. InSequence(delivered'[c])
    BY <1>0, <2>1 DEF OrderOf, InSequence
  <2>. QED  BY <1>0, <2>1, <2>3, <2>6, <2>7, <2>8, <2>9 DEF OrderOf
<1>9. \/ UNCHANGED <<queue, sending, delivered, count>>
      \/ \E b \in Conns : SenderGet(b) \/ SenderSend(b) \/ SenderFails(b) \/ Disconnect(b)
      \/ \E r \in Runs : RunPublish(r)
      \/ Restart
  BY EventsMove
<1>. QED  BY <1>1, <1>2, <1>3, <1>4, <1>6, <1>7, <1>8, <1>9

AllBefore(p, q) == \A i \in 1..Len(p), j \in 1..Len(q) : p[i].no <= q[j].no

LEMMA JoinedInSequence ==
    ASSUME NEW p \in Seq(Events), NEW q \in Seq(Events),
           InSequence(p), InSequence(q), AllBefore(p, q)
    PROVE  /\ p \o q \in Seq(Events)
           /\ InSequence(p \o q)
<1>. DEFINE u == p \o q
<1>1. /\ u \in Seq(Events) /\ Len(u) = Len(p) + Len(q)
      /\ Len(p) \in Nat /\ Len(q) \in Nat
      /\ \A i \in 1..Len(u) : u[i] = IF i <= Len(p) THEN p[i] ELSE q[i - Len(p)]
  OBVIOUS
<1>. HIDE DEF u
<1>2. ASSUME NEW i \in 1..Len(u), NEW j \in 1..Len(u), i < j
      PROVE  u[i].no <= u[j].no
  <2>1. CASE j <= Len(p)
    <3>1. i \in 1..Len(p) /\ j \in 1..Len(p) /\ u[i] = p[i] /\ u[j] = p[j]
      BY <1>1, <1>2, <2>1
    <3>. QED  BY <1>2, <3>1 DEF InSequence
  <2>2. CASE ~(i <= Len(p))
    <3>1. /\ i - Len(p) \in 1..Len(q) /\ j - Len(p) \in 1..Len(q) /\ i - Len(p) < j - Len(p)
          /\ u[i] = q[i - Len(p)] /\ u[j] = q[j - Len(p)]
      BY <1>1, <1>2, <2>2
    <3>. QED  BY <3>1 DEF InSequence
  <2>3. CASE i <= Len(p) /\ ~(j <= Len(p))
    <3>1. /\ i \in 1..Len(p) /\ j - Len(p) \in 1..Len(q)
          /\ u[i] = p[i] /\ u[j] = q[j - Len(p)]
      BY <1>1, <1>2, <2>3
    <3>. QED  BY <3>1 DEF AllBefore
  <2>. QED  BY <1>2, <2>1, <2>2, <2>3
<1>. QED  BY <1>1, <1>2 DEF InSequence, u

LEMMA OrderImpliesDelivery == TypeInv /\ OrderInv => DeliveredInOrder
<1>. SUFFICES ASSUME TypeInv, OrderInv, NEW c \in Conns
              PROVE  InSequence(delivered[c] \o (IF sending[c] = {} THEN << >>
                                ELSE <<CHOOSE e \in sending[c] : TRUE>>) \o queue[c])
  BY Zenon DEF DeliveredInOrder, InSequence
<1>. DEFINE x == IF sending[c] = {} THEN << >> ELSE <<CHOOSE e \in sending[c] : TRUE>>
<1>1. /\ delivered[c] \in Seq(Events) /\ queue[c] \in Seq(Events)
      /\ sending[c] \subseteq Events /\ OrderOf(c)
  BY DEF TypeInv, TypeOK, OrderInv
<1>2. /\ x \in Seq(Events)
      /\ Len(x) <= 1
      /\ \A i \in 1..Len(x) : x[i] \in sending[c]
  <2>1. CASE sending[c] = {}
    BY <2>1
  <2>2. CASE sending[c] # {}
    <3>1. (CHOOSE e \in sending[c] : TRUE) \in sending[c]
      BY <2>2
    <3>2. x = <<CHOOSE e \in sending[c] : TRUE>>
      BY <2>2
    <3>. QED  BY <1>1, <3>1, <3>2
  <2>. QED  BY <2>1, <2>2
<1>. HIDE DEF x
<1>3. InSequence(x)
  BY <1>2 DEF InSequence
<1>4. AllBefore(delivered[c], x)
  BY <1>1, <1>2 DEF AllBefore, OrderOf, Before, Received
<1>5. delivered[c] \o x \in Seq(Events) /\ InSequence(delivered[c] \o x)
  BY <1>1, <1>2, <1>3, <1>4, JoinedInSequence DEF OrderOf
<1>6. AllBefore(delivered[c] \o x, queue[c])
  <2>. SUFFICES ASSUME NEW i \in 1..Len(delivered[c] \o x), NEW j \in 1..Len(queue[c])
                PROVE  (delivered[c] \o x)[i].no <= queue[c][j].no
    BY DEF AllBefore
  <2>1. queue[c][j] \in InQueue(c)
    BY DEF InQueue
  <2>2. (delivered[c] \o x)[i] \in Received(c) \cup sending[c]
    <3>1. CASE i <= Len(delivered[c])
      <4>1. i \in 1..Len(delivered[c]) /\ (delivered[c] \o x)[i] = delivered[c][i]
        BY <1>1, <1>2, <3>1
      <4>. QED  BY <4>1 DEF Received
    <3>2. CASE ~(i <= Len(delivered[c]))
      <4>1. /\ i - Len(delivered[c]) \in 1..Len(x)
            /\ (delivered[c] \o x)[i] = x[i - Len(delivered[c])]
        BY <1>1, <1>2, <3>2
      <4>. QED  BY <1>2, <4>1
    <3>. QED  BY <3>1, <3>2
  <2>. QED  BY <1>1, <2>1, <2>2 DEF OrderOf, Before
<1>7. InSequence(queue[c])
  BY <1>1 DEF OrderOf
<1>8. InSequence((delivered[c] \o x) \o queue[c])
  BY <1>1, <1>5, <1>6, <1>7, JoinedInSequence
<1>. QED  BY <1>8 DEF x

\* Events reach a client in the order in which they were published, whatever the
\* size of the queue, however much of it overflows and however often the queue is
\* in a list.
THEOREM InOrder == Spec => []DeliveredInOrder
<1>1. Spec => [](TypeInv /\ OrderInv)
  BY InitOrder, InitTypeInv, NextTypeInv, NextOrder, PTL DEF Spec
<1>. QED  BY <1>1, OrderImpliesDelivery, PTL
-----------------------------------------------------------------------------
(* Events that are lost.                                                   *)

\* Of a connection that subscribed to no run twice the broker has one entry for
\* each run of the dictionary.
SingleEntries(c) == \A r \in Runs : subs[r][c] = IF r \in conn[c].subscriptions THEN 1 ELSE 0

Increasing(q) == \A i, j \in 1..Len(q) : i < j => q[i].no < q[j].no

Later(c, e) == {f \in due[c] : f.no > e.no}

\* What waits is due, in the order of publication and each event once, and what is
\* neither held nor waits was followed by as many events as the queue takes.
Accounted(c) ==
    /\ IsFiniteSet(due[c])
    /\ InQueue(c) \subseteq due[c]
    /\ Increasing(queue[c])
    /\ conn[c].sender => \A e \in due[c] \ Held(c) : Cardinality(Later(c, e)) >= QueueSize

OverflowInv ==
    \A c \in Conns :
       /\ conn[c].pc = "new" => due[c] = {}
       /\ Open(c) /\ ~doubled[c] => SingleEntries(c) /\ Accounted(c)

\* The steps of other connections.
LEMMA OthersStep ==
    ASSUME TypeInv, NEW b \in Conns, ConnNext(b), NEW c \in Conns, b # c
    PROVE  /\ conn'[c] = conn[c] /\ due'[c] = due[c] /\ doubled'[c] = doubled[c]
           /\ \A r \in Runs : subs'[r][c] = subs[r][c]
<1>. USE DEF TypeInv, TypeOK
<1>1. CASE \/ Connect(b) \/ SubscribeSelect(b) \/ SubscribeReject(b)
           \/ \E r \in Runs : SubscribeReceive(b, r)
  BY <1>1 DEF Connect, SubscribeSelect, SubscribeReject, SubscribeReceive, brokerVars, historyVars
<1>2. CASE SubscribeRegister(b)
  BY <1>2 DEF SubscribeRegister, Subscribe
<1>3. ASSUME NEW x \in Runs
      PROVE  \A r \in Runs : Unsubscribe(subs, x, b)[r][c] = subs[r][c]
  BY DEF Unsubscribe
<1>4. ASSUME NEW x \in Runs, UnsubscribeReceive(b, x)
      PROVE  /\ conn'[c] = conn[c] /\ due'[c] = due[c] /\ doubled'[c] = doubled[c]
             /\ \A r \in Runs : subs'[r][c] = subs[r][c]
  BY <1>3, <1>4 DEF UnsubscribeReceive, historyVars
<1>5. CASE Disconnect(b)
  BY <1>3, <1>5 DEF Disconnect
<1>. QED  BY <1>1, <1>2, <1>4, <1>5 DEF ConnNext

\* What the steps of a connection do to its own entries.
LEMMA SinglesStep ==
    ASSUME TypeInv, OwnersInv, [Next]_vars, NEW c \in Conns, Open(c)', ~doubled'[c],
           Open(c) /\ ~doubled[c] => SingleEntries(c)
    PROVE  SingleEntries(c)' /\ (Open(c) => ~doubled[c])
<1>. USE DEF TypeInv, TypeOK
<1>1. ASSUME Open(c), doubled'[c] = doubled[c],
             conn'[c].subscriptions = conn[c].subscriptions,
             \A r \in Runs : subs'[r][c] = subs[r][c]
      PROVE  SingleEntries(c)' /\ (Open(c) => ~doubled[c])
  BY <1>1 DEF SingleEntries
<1>2. CASE Connect(c)
  <2>1. \A r \in Runs : subs'[r][c] = 0
    BY <1>2, ConnectIsFresh DEF OwnersInv
  <2>2. conn'[c].subscriptions = {} /\ ~Open(c)
    BY <1>2 DEF Connect, NewConn, Open
  <2>. QED  BY <2>1, <2>2 DEF SingleEntries
<1>3. CASE SubscribeRegister(c)
  <2>. DEFINE x == conn[c].run
  <2>1. x \in Runs /\ Open(c)
    BY <1>3 DEF SubscribeRegister, HandlersAskForRuns, Open
  <2>2. ~doubled[c] /\ ~(subs[x][c] > 0)
    BY <1>3 DEF SubscribeRegister
  <2>3. conn'[c].subscriptions = conn[c].subscriptions \cup {x}
    BY <1>3 DEF SubscribeRegister, Conn
  <2>4. \A r \in Runs : subs'[r][c] = IF r = x THEN subs[r][c] + 1 ELSE subs[r][c]
    <3>. HIDE DEF x
    <3>1. subs' = Subscribe(subs, x, c)
      BY <1>3 DEF SubscribeRegister, x
    <3>. QED  BY <2>1, <3>1 DEF Subscribe
  <2>5. \A r \in Runs : subs[r][c] = IF r \in conn[c].subscriptions THEN 1 ELSE 0
    BY <2>1, <2>2 DEF SingleEntries
  <2>. HIDE DEF x
  <2>6. \A r \in Runs : subs'[r][c] = IF r \in conn'[c].subscriptions THEN 1 ELSE 0
    BY <2>1, <2>2, <2>3, <2>4, <2>5
  <2>. QED  BY <2>2, <2>6 DEF SingleEntries
<1>4. ASSUME NEW x \in Runs, UnsubscribeReceive(c, x)
      PROVE  SingleEntries(c)' /\ (Open(c) => ~doubled[c])
  <2>1. Open(c) /\ doubled' = doubled /\ conn'[c].subscriptions = conn[c].subscriptions \ {x}
    BY <1>4 DEF UnsubscribeReceive, Open, Conn, historyVars
  <2>2. subs' = IF x \in conn[c].subscriptions THEN Unsubscribe(subs, x, c) ELSE subs
    BY <1>4 DEF UnsubscribeReceive
  <2>3. \A r \in Runs : subs[r][c] = IF r \in conn[c].subscriptions THEN 1 ELSE 0
    BY <2>1 DEF SingleEntries
  <2>4. \A r \in Runs : Unsubscribe(subs, x, c)[r][c]
                           = IF r = x THEN (IF subs[r][c] > 0 THEN subs[r][c] - 1 ELSE 0)
                             ELSE subs[r][c]
    BY DEF Unsubscribe
  <2>5. \A r \in Runs : subs'[r][c] = IF r \in conn'[c].subscriptions THEN 1 ELSE 0
    BY <2>1, <2>2, <2>3, <2>4
  <2>. QED  BY <2>1, <2>5 DEF SingleEntries
<1>5. CASE \/ SubscribeSelect(c) \/ SubscribeReject(c)
           \/ \E r \in Runs : SubscribeReceive(c, r)
  <2>1. conn[c] \in Conn
    OBVIOUS
  <2>2. UNCHANGED <<subs, doubled>>
    BY <1>5 DEF SubscribeSelect, SubscribeReject, SubscribeReceive, brokerVars, historyVars
  <2>3. Open(c) /\ conn'[c].subscriptions = conn[c].subscriptions
    BY <1>5, <2>1 DEF SubscribeSelect, SubscribeReject, SubscribeReceive, Conn, Open
  <2>. QED  BY <1>1, <2>2, <2>3
<1>6. ~Disconnect(c) /\ ~Restart
  BY DEF Disconnect, Restart, Open, ClosedConn, NewConn
<1>7. ASSUME NEW b \in Conns, ConnNext(b), b # c
      PROVE  SingleEntries(c)' /\ (Open(c) => ~doubled[c])
  <2>1. Open(c)
    BY <1>7, OthersStep DEF Open
  <2>. QED  BY <1>1, <1>7, <2>1, OthersStep
<1>8. ASSUME \/ UNCHANGED vars
             \/ \E r \in Runs : RunInsert(r) \/ RunPublish(r)
             \/ \E b \in Conns : SenderNext(b)
      PROVE  SingleEntries(c)' /\ (Open(c) => ~doubled[c])
  <2>1. UNCHANGED <<subs, doubled>>
    BY <1>8 DEF vars, RunInsert, RunPublish, SenderNext, SenderGet, SenderSend, SenderFails,
                brokerVars, historyVars
  <2>2. conn' = conn \/ \E b \in Conns : conn' = [conn EXCEPT ![b].sender = FALSE]
    BY <1>8 DEF vars, RunInsert, RunPublish, SenderNext, SenderGet, SenderSend, SenderFails
  <2>3. conn'[c].pc = conn[c].pc /\ conn'[c].subscriptions = conn[c].subscriptions
    <3>1. conn[c] \in Conn
      OBVIOUS
    <3>2. ASSUME NEW b \in Conns, conn' = [conn EXCEPT ![b].sender = FALSE]
          PROVE  conn'[c] = conn[c] \/ conn'[c] = [conn[c] EXCEPT !.sender = FALSE]
      BY <3>2
    <3>. QED  BY <2>2, <3>1, <3>2 DEF Conn
  <2>4. Open(c)
    BY <2>3 DEF Open
  <2>. QED  BY <1>1, <2>1, <2>3, <2>4
<1>. QED  BY <1>2, <1>3, <1>4, <1>5, <1>6, <1>7, <1>8 DEF Next, ConnNext

\* A step that publishes nothing leaves what is due to an open connection alone;
\* as long as its sender works, no event gets lost.
LEMMA QuietStep ==
    ASSUME TypeInv, [Next]_vars, NEW c \in Conns, OrderOf(c), Open(c), Open(c)',
           \A r \in Runs : ~RunPublish(r)
    PROVE  /\ due'[c] = due[c]
           /\ queue'[c] = queue[c] \/ (queue[c] # << >> /\ queue'[c] = Tail(queue[c]))
           /\ conn'[c].sender => conn[c].sender /\ Held(c) \subseteq Held(c)'
<1>. USE DEF TypeInv, TypeOK
<1>1. ~Disconnect(c) /\ ~Restart /\ ~Connect(c)
  <2>1. ~Connect(c)
    BY DEF Connect, Open
  <2>. QED  BY <2>1 DEF Disconnect, Restart, Open, ClosedConn, NewConn
<1>2. due'[c] = due[c]
  <2>1. ASSUME NEW b \in Conns, ConnNext(b) PROVE due'[c] = due[c]
    <3>1. CASE b = c
      BY <1>1, <2>1, <3>1
      DEF ConnNext, SubscribeReceive, UnsubscribeReceive, SubscribeSelect, SubscribeReject,
          SubscribeRegister, historyVars
    <3>. QED  BY <2>1, <3>1, OthersStep
  <2>2. ASSUME \/ UNCHANGED vars \/ \E r \in Runs : RunInsert(r)
               \/ \E b \in Conns : SenderNext(b)
        PROVE  due' = due
    BY <2>2 DEF vars, RunInsert, SenderNext, SenderGet, SenderSend, SenderFails, historyVars
  <2>. QED  BY <1>1, <2>1, <2>2 DEF Next
<1>3. conn'[c].sender => conn[c].sender
  <2>1. conn[c] \in Conn
    OBVIOUS
  <2>2. ASSUME NEW b \in Conns, ConnNext(b) PROVE conn'[c].sender = conn[c].sender
    <3>1. CASE b = c
      <4>1. CASE SubscribeRegister(c) \/ \E r \in Runs : UnsubscribeReceive(c, r)
        BY <2>1, <4>1 DEF SubscribeRegister, UnsubscribeReceive, Conn
      <4>2. CASE \/ SubscribeSelect(c) \/ SubscribeReject(c)
                 \/ \E r \in Runs : SubscribeReceive(c, r)
        BY <2>1, <4>2 DEF SubscribeSelect, SubscribeReject, SubscribeReceive, Conn
      <4>. QED  BY <1>1, <2>2, <3>1, <4>1, <4>2 DEF ConnNext
    <3>. QED  BY <2>2, <3>1, OthersStep
  <2>3. ASSUME NEW b \in Conns, SenderNext(b) PROVE conn'[c].sender => conn[c].sender
    BY <2>3 DEF SenderNext, SenderGet, SenderSend, SenderFails
  <2>4. ASSUME UNCHANGED vars \/ \E r \in Runs : RunInsert(r) PROVE conn' = conn
    BY <2>4 DEF vars, RunInsert
  <2>. QED  BY <1>1, <2>2, <2>3, <2>4 DEF Next
<1>4. CASE queue'[c] = queue[c] /\ sending'[c] = sending[c] /\ delivered'[c] = delivered[c]
  BY <1>2, <1>3, <1>4 DEF Held, InQueue, Received
<1>5. CASE SenderGet(c)
  <2>1. /\ queue[c] \in Seq(Events) /\ queue[c] # << >> /\ sending[c] = {}
        /\ sending'[c] = {Head(queue[c])} /\ queue'[c] = Tail(queue[c])
        /\ delivered'[c] = delivered[c]
    BY <1>5 DEF SenderGet
  <2>2. /\ Head(queue[c]) = queue[c][1]
        /\ \A i \in 1..Len(queue[c]) : i = 1 \/ (/\ i - 1 \in 1..Len(queue'[c])
                                                 /\ queue[c][i] = queue'[c][i - 1])
    BY <2>1, HeadTailProperties
  <2>3. InQueue(c) \subseteq InQueue(c)' \cup sending'[c]
    <3>. SUFFICES ASSUME NEW i \in 1..Len(queue[c])
                  PROVE  queue[c][i] \in InQueue(c)' \cup sending'[c]
      BY DEF InQueue
    <3>. QED  BY <2>1, <2>2 DEF InQueue
  <2>. QED  BY <1>2, <1>3, <2>1, <2>3 DEF Held, Received
<1>6. CASE SenderSend(c)
  <2>1. PICK f \in sending[c] : delivered' = [delivered EXCEPT ![c] = Append(@, f)]
    BY <1>6 DEF SenderSend
  <2>2. delivered[c] \in Seq(Events) /\ delivered'[c] = Append(delivered[c], f)
        /\ queue'[c] = queue[c]
    BY <1>6, <2>1 DEF SenderSend, brokerVars
  <2>3. /\ \A i \in 1..Len(delivered[c]) : i \in 1..Len(delivered'[c])
                                           /\ delivered'[c][i] = delivered[c][i]
        /\ Len(delivered[c]) + 1 \in 1..Len(delivered'[c])
        /\ delivered'[c][Len(delivered[c]) + 1] = f
    BY <2>2
  <2>4. Received(c) \cup {f} \subseteq Received(c)'
    BY <2>3 DEF Received
  <2>5. sending[c] \subseteq {f}
    BY DEF OrderOf
  <2>. QED  BY <1>2, <1>3, <2>1, <2>2, <2>4, <2>5 DEF Held, InQueue
<1>7. CASE SenderFails(c)
  <2>1. conn' = [conn EXCEPT ![c] = [conn[c] EXCEPT !.sender = FALSE]] /\ queue' = queue
    BY <1>7 DEF SenderFails, brokerVars
  <2>2. ~conn'[c].sender
    <3>1. conn[c] \in Conn /\ conn'[c] = [conn[c] EXCEPT !.sender = FALSE]
      BY <2>1
    <3>. QED  BY <3>1 DEF Conn
  <2>. QED  BY <1>2, <2>1, <2>2
<1>8. ASSUME NEW b \in Conns, b # c,
             SenderGet(b) \/ SenderSend(b) \/ SenderFails(b) \/ Disconnect(b)
      PROVE  queue'[c] = queue[c] /\ sending'[c] = sending[c] /\ delivered'[c] = delivered[c]
  BY <1>8 DEF SenderGet, SenderSend, SenderFails, Disconnect, brokerVars
<1>. QED  BY <1>1, <1>4, <1>5, <1>6, <1>7, <1>8, EventsMove

\* Publishing to a list that does not have the queue.
LEMMA NotPublished ==
    ASSUME NEW q \in Seq(Events), NEW e, NEW size \in Nat \ {0}, Len(q) <= size
    PROVE  DropOldest(q \o Copies(e, 0), size) = q
<1>1. Copies(e, 0) \in Seq(Events) /\ Len(Copies(e, 0)) = 0
  BY DEF Copies
<1>2. q \o Copies(e, 0) = q
  BY <1>1
<1>. QED  BY <1>2 DEF DropOldest

\* The event is in the queue; one that was in it and is not any more has a whole
\* queue of later ones after it.
IsIn(e, s) == \E i \in 1..Len(s) : s[i] = e

KeptOrBuried(s, q, size) ==
    \A k \in 1..Len(q) : \/ IsIn(q[k], s)
                         \/ Len(s) = size /\ \A i \in 1..Len(s) : s[i].no > q[k].no

Precede(q, e) == \A j \in 1..Len(q) : q[j].no < e.no

\* Publishing to a list that has the queue once.
LEMMA PublishedLast ==
    ASSUME NEW q \in Seq(Events), NEW e \in Events, NEW size \in Nat \ {0},
           Increasing(q), Precede(q, e),
           NEW s, s = DropOldest(q \o Copies(e, 1), size)
    PROVE  /\ s \in Seq(Events)
           /\ Increasing(s)
           /\ IsIn(e, s)
           /\ KeptOrBuried(s, q, size)
<1>. DEFINE t == Copies(e, 1)
            u == q \o t
            n == Len(q) + 1
<1>1. t \in Seq(Events) /\ Len(t) = 1 /\ t[1] = e
  BY DEF Copies
<1>2. s = DropOldest(u, size)
  OBVIOUS
<1>. HIDE DEF t
<1>3. /\ u \in Seq(Events) /\ Len(u) = n /\ Len(q) \in Nat
      /\ \A i \in 1..Len(q) : u[i] = q[i]
      /\ u[n] = e
  <2>1. u \in Seq(Events) /\ Len(u) = Len(q) + Len(t) /\ Len(q) \in Nat
    <3>1. t \in Seq(Events) /\ q \in Seq(Events)
      BY <1>1
    <3>2. q \o t \in Seq(Events) /\ Len(q \o t) = Len(q) + Len(t)
      BY ONLY <3>1, ConcatProperties
    <3>. QED  BY ONLY <3>1, <3>2 DEF u
  <2>2. \A i \in 1..Len(u) : u[i] = IF i <= Len(q) THEN q[i] ELSE t[i - Len(q)]
    BY <1>1
  <2>. HIDE DEF u
  <2>3. n \in 1..Len(u) /\ ~(n <= Len(q)) /\ n - Len(q) = 1
    BY <1>1, <2>1
  <2>4. u[n] = e
    BY <1>1, <2>2, <2>3
  <2>5. \A i \in 1..Len(q) : u[i] = q[i]
    BY <1>1, <2>1, <2>2
  <2>. QED  BY <1>1, <2>1, <2>4, <2>5
<1>. HIDE DEF u
<1>4. Increasing(u)
  <2>. SUFFICES ASSUME NEW i \in 1..Len(u), NEW j \in 1..Len(u), i < j
                PROVE  u[i].no < u[j].no
    BY DEF Increasing
  <2>1. i \in 1..Len(q) /\ u[i] = q[i]
    BY <1>3
  <2>2. CASE j \in 1..Len(q)
    BY <1>3, <2>1, <2>2 DEF Increasing
  <2>3. CASE j \notin 1..Len(q)
    <3>1. j = n
      BY <1>3, <2>3
    <3>. QED  BY <1>3, <2>1, <3>1 DEF Precede
  <2>. QED  BY <2>2, <2>3
<1>5. s \in Seq(Events) /\ Len(s) \in Nat
  BY <1>2, <1>3, DroppedQueue
<1>6. PICK m \in Nat : EndOf(s, u, m) /\ (m = 0 \/ Len(s) = size)
  BY <1>2, <1>3, DroppedQueue
<1>7. /\ Len(s) = n - m
      /\ \A i \in 1..Len(s) : m + i \in 1..Len(u) /\ s[i] = u[m + i]
  BY <1>3, <1>5, <1>6 DEF EndOf
<1>8. Increasing(s)
  <2>. SUFFICES ASSUME NEW i \in 1..Len(s), NEW j \in 1..Len(s), i < j
                PROVE  s[i].no < s[j].no
    BY DEF Increasing
  <2>1. /\ m + i \in 1..Len(u) /\ m + j \in 1..Len(u) /\ m + i < m + j
        /\ s[i] = u[m + i] /\ s[j] = u[m + j]
    BY <1>7
  <2>. QED  BY <1>4, <2>1 DEF Increasing
<1>9. \E i \in 1..Len(s) : s[i] = e
  <2>1. Len(s) \in 1..Len(s) /\ m + Len(s) = n
    BY <1>3, <1>5, <1>6, <1>7
  <2>. QED  BY <1>3, <1>7, <2>1
<1>10. ASSUME NEW k \in 1..Len(q)
       PROVE  \/ \E i \in 1..Len(s) : s[i] = q[k]
              \/ Len(s) = size /\ \A i \in 1..Len(s) : s[i].no > q[k].no
  <2>1. u[k] = q[k] /\ k \in 1..Len(u)
    BY <1>3
  <2>2. CASE k > m
    <3>1. k - m \in 1..Len(s) /\ m + (k - m) = k
      BY <1>3, <1>7, <2>2
    <3>. QED  BY <1>7, <2>1, <3>1
  <2>3. CASE ~(k > m)
    <3>1. Len(s) = size
      BY <1>3, <1>6, <2>3
    <3>2. ASSUME NEW i \in 1..Len(s) PROVE s[i].no > q[k].no
      <4>1. k < m + i /\ m + i \in 1..Len(u) /\ s[i] = u[m + i]
        BY <1>3, <1>7, <2>3
      <4>2. u[k].no < u[m + i].no
        BY <1>4, <2>1, <4>1 DEF Increasing
      <4>3. u[k] \in Events /\ u[m + i] \in Events
        BY <1>3, <2>1, <4>1
      <4>4. u[k].no \in Nat /\ u[m + i].no \in Nat
        BY <4>3 DEF Events
      <4>. QED  BY <2>1, <4>1, <4>2, <4>4
    <3>. QED  BY <3>1, <3>2
  <2>. QED  BY <2>2, <2>3
<1>. QED  BY <1>5, <1>8, <1>9, <1>10 DEF IsIn, KeptOrBuried

\* The events of a queue are as many as it is long.
LEMMA IncreasingCount ==
    ASSUME NEW s \in Seq(Events), Increasing(s),
           NEW D, IsFiniteSet(D), \A i \in 1..Len(s) : s[i] \in D
    PROVE  Cardinality(D) >= Len(s) /\ Cardinality(D) \in Nat
<1>1. Cardinality(D) \in Nat /\ Len(s) \in Nat
  BY FS_CardinalityType
<1>2. IsFiniteSet(1..Len(s)) /\ Cardinality(1..Len(s)) = Len(s)
  <2>1. 1 \in Int /\ Len(s) \in Int
    BY <1>1
  <2>2. /\ IsFiniteSet(1..Len(s))
        /\ Cardinality(1..Len(s)) = IF 1 > Len(s) THEN 0 ELSE Len(s) - 1 + 1
    BY <2>1, FS_Interval
  <2>. QED  BY <1>1, <2>2
<1>3. s \in [1..Len(s) -> D]
  OBVIOUS
<1>4. CASE Cardinality(D) < Len(s)
  <2>1. PICK i \in 1..Len(s), j \in 1..Len(s) : i # j /\ s[i] = s[j]
    BY ONLY <1>2, <1>3, <1>4, FS_PigeonHole, IsFiniteSet(D), Zenon
  <2>2. s[i] \in Events /\ s[j] \in Events
    OBVIOUS
  <2>3. s[i].no \in Nat /\ s[j].no \in Nat
    BY <2>2 DEF Events
  <2>4. i < j \/ j < i
    BY <2>1
  <2>. QED  BY <2>1, <2>3, <2>4 DEF Increasing
<1>. QED  BY <1>1, <1>4

LEMMA PublishAccounted ==
    ASSUME TypeInv, NEW r \in Runs, RunPublish(r), NEW c \in Conns,
           OrderOf(c), Open(c), SingleEntries(c), Accounted(c)
    PROVE  Accounted(c)'
<1>. DEFINE event == [run |-> r, no |-> count + 1]
            q == queue[c]
            s == queue'[c]
            n == subs[r][c]
<1>1. /\ conn' = conn /\ sending' = sending /\ delivered' = delivered
      /\ s = DropOldest(q \o Copies(event, n), QueueSize)
      /\ due'[c] = IF r \in conn[c].subscriptions THEN due[c] \cup {event} ELSE due[c]
  BY DEF RunPublish, Publish, senderVars, TypeInv, TypeOK
<1>2. /\ q \in Seq(Events) /\ Len(q) <= QueueSize /\ event \in Events
      /\ QueueSize \in Nat \ {0} /\ count \in Nat
  <2>1. count \in Nat
    BY DEF TypeInv, TypeOK
  <2>2. event \in Events
    BY <2>1 DEF Events
  <2>3. q \in Seq(Events) /\ Len(q) <= QueueSize
    BY DEF TypeInv, TypeOK
  <2>. QED  BY <2>1, <2>2, <2>3, Sizes
<1>3. \A e \in Held(c) : e.no \in Nat /\ e.no < event.no
  <2>1. \A e \in Held(c) : e.no \in Nat /\ e.no <= count
    BY HeldEvents DEF OrderOf, Events
  <2>. QED  BY <1>2, <2>1
<1>4. Received(c)' = Received(c)
  BY <1>1 DEF Received
<1>5. CASE r \notin conn[c].subscriptions
  <2>1. n = 0
    BY <1>5 DEF SingleEntries
  <2>2. s = q
    BY <1>1, <1>2, <2>1, NotPublished
  <2>3. InQueue(c)' = InQueue(c)
    BY <2>2 DEF InQueue
  <2>4. Held(c)' = Held(c) /\ \A e : Later(c, e)' = Later(c, e)
    BY <1>1, <1>4, <1>5, <2>3 DEF Held, Later
  <2>. QED  BY <1>1, <1>5, <2>2, <2>3, <2>4 DEF Accounted
<1>6. CASE r \in conn[c].subscriptions
  <2>1. n = 1 /\ due'[c] = due[c] \cup {event}
    BY <1>1, <1>6 DEF SingleEntries
  <2>2. Precede(q, event)
    BY <1>3 DEF Held, InQueue, Precede
  <2>3. /\ s \in Seq(Events) /\ Increasing(s)
        /\ IsIn(event, s) /\ KeptOrBuried(s, q, QueueSize)
    <3>1. Increasing(q)
      BY DEF Accounted
    <3>2. s = DropOldest(q \o Copies(event, 1), QueueSize)
      BY <1>1, <2>1
    <3>3. q \in Seq(Events) /\ event \in Events /\ QueueSize \in Nat \ {0}
      BY <1>2
    <3>. HIDE DEF s, q, n, event
    <3>. QED  BY ONLY <2>2, <3>1, <3>2, <3>3, PublishedLast
  <2>4. IsFiniteSet(due'[c])
    <3>1. IsFiniteSet(due[c])
      BY DEF Accounted
    <3>. HIDE DEF event
    <3>. QED  BY <2>1, <3>1, FS_AddElement
  <2>5. \A i \in 1..Len(s) : s[i] \in due'[c]
    <3>. SUFFICES ASSUME NEW i \in 1..Len(s) PROVE s[i] \in due'[c]
      OBVIOUS
    <3>1. (\E j \in 1..Len(q) : s[i] = q[j]) \/ s[i] = event
      BY PublishStep DEF TypeInv
    <3>. QED  BY <2>1, <3>1 DEF Accounted, InQueue
  <2>6. ASSUME conn[c].sender, NEW e \in due'[c] \ Held(c)'
        PROVE  Cardinality(Later(c, e)') >= QueueSize
    <3>1. Later(c, e)' \in SUBSET due'[c]
      BY DEF Later
    <3>2. IsFiniteSet(Later(c, e)') /\ Cardinality(Later(c, e)') \in Nat
      BY <2>4, <3>1, FS_Subset, FS_CardinalityType
    <3>3. e # event /\ e \in due[c]
      BY <2>1, <2>3, <2>6 DEF Held, InQueue, IsIn
    <3>4. CASE e \notin Held(c)
      <4>1. Cardinality(Later(c, e)) >= QueueSize
        BY <2>6, <3>3, <3>4 DEF Accounted
      <4>2. Later(c, e) \in SUBSET Later(c, e)'
        BY <2>1 DEF Later
      <4>3. Cardinality(Later(c, e)) <= Cardinality(Later(c, e)') /\ Cardinality(Later(c, e)) \in Nat
        BY <3>2, <4>2, FS_Subset, FS_CardinalityType
      <4>. QED  BY <1>2, <3>2, <4>1, <4>3
    <3>5. CASE e \in Held(c)
      <4>1. e \in InQueue(c)
        BY <1>1, <1>4, <2>6, <3>5 DEF Held
      <4>2. PICK k \in 1..Len(q) : e = q[k]
        BY <4>1 DEF InQueue
      <4>3. ~IsIn(q[k], s)
        BY <2>6, <4>2 DEF Held, InQueue, IsIn
      <4>4. Len(s) = QueueSize /\ \A i \in 1..Len(s) : s[i].no > e.no
        BY <2>3, <4>2, <4>3 DEF KeptOrBuried
      <4>5. \A i \in 1..Len(s) : s[i] \in Later(c, e)'
        BY <2>5, <4>4 DEF Later
      <4>6. Cardinality(Later(c, e)') >= Len(s)
        BY <2>3, <3>2, <4>5, IncreasingCount
      <4>. QED  BY <4>4, <4>6
    <3>. QED  BY <3>4, <3>5
  <2>7. InQueue(c)' \subseteq due'[c]
    BY <2>5 DEF InQueue
  <2>. QED  BY <1>1, <2>3, <2>4, <2>6, <2>7 DEF Accounted
<1>. QED  BY <1>5, <1>6

LEMMA QuietAccounted ==
    ASSUME TypeInv, [Next]_vars, NEW c \in Conns, OrderOf(c), Open(c), Open(c)',
           \A r \in Runs : ~RunPublish(r), Accounted(c)
    PROVE  Accounted(c)'
<1>1. /\ due'[c] = due[c]
      /\ queue'[c] = queue[c] \/ (queue[c] # << >> /\ queue'[c] = Tail(queue[c]))
      /\ conn'[c].sender => conn[c].sender /\ Held(c) \subseteq Held(c)'
  BY QuietStep
<1>2. Increasing(queue'[c]) /\ InQueue(c)' \subseteq InQueue(c)
  <2>1. CASE queue'[c] = queue[c]
    BY <2>1 DEF Accounted, InQueue
  <2>2. CASE queue[c] # << >> /\ queue'[c] = Tail(queue[c])
    <3>. DEFINE q == queue[c]
                s == queue'[c]
    <3>1. q \in Seq(Events)
      BY DEF TypeInv, TypeOK
    <3>2. /\ Len(q) \in Nat /\ Len(s) = Len(q) - 1
          /\ \A i \in 1..Len(s) : s[i] = q[i + 1]
      BY <2>2, <3>1, HeadTailProperties
    <3>3. \A i \in 1..Len(s) : i + 1 \in 1..Len(q)
      BY <3>2
    <3>4. Increasing(q)
      BY DEF Accounted
    <3>. HIDE DEF q, s
    <3>5. ASSUME NEW i \in 1..Len(s), NEW j \in 1..Len(s), i < j
          PROVE  s[i].no < s[j].no
      <4>1. i + 1 < j + 1
        BY <3>5
      <4>. QED  BY <3>2, <3>3, <3>4, <4>1 DEF Increasing
    <3>6. \A i \in 1..Len(s) : \E j \in 1..Len(q) : s[i] = q[j]
      BY <3>2, <3>3
    <3>. QED  BY <3>5, <3>6 DEF Increasing, InQueue, q, s
  <2>. QED  BY <1>1, <2>1, <2>2
<1>3. \A e : Later(c, e)' = Later(c, e)
  BY <1>1 DEF Later
<1>. QED  BY <1>1, <1>2, <1>3 DEF Accounted

LEMMA NextOverflow ==
    ASSUME TypeInv, OwnersInv, OrderInv, OverflowInv, [Next]_vars
    PROVE  OverflowInv'
<1>. SUFFICES ASSUME NEW c \in Conns
              PROVE  /\ conn'[c].pc = "new" => due'[c] = {}
                     /\ Open(c)' /\ ~doubled'[c] => SingleEntries(c)' /\ Accounted(c)'
  BY DEF OverflowInv
<1>1. ASSUME conn'[c].pc = "new" PROVE due'[c] = {}
  <2>. USE DEF TypeInv, TypeOK
  <2>1. CASE conn[c].pc = "new"
    <3>1. due[c] = {} /\ ~Open(c)
      BY <2>1 DEF OverflowInv, Open
    <3>2. CASE Restart
      BY <3>2 DEF Restart
    <3>3. ASSUME NEW r \in Runs, RunPublish(r) PROVE due'[c] = {}
      BY <3>1, <3>3 DEF RunPublish
    <3>4. ASSUME NEW b \in Conns, ConnNext(b) PROVE due'[c] = {}
      <4>1. CASE b = c
        BY <3>1, <3>4, <4>1
        DEF ConnNext, Connect, SubscribeReceive, UnsubscribeReceive, SubscribeSelect,
            SubscribeReject, SubscribeRegister, Disconnect, historyVars
      <4>. QED  BY <3>1, <3>4, <4>1, OthersStep
    <3>5. ASSUME \/ UNCHANGED vars \/ \E r \in Runs : RunInsert(r)
                 \/ \E b \in Conns : SenderNext(b)
          PROVE  due' = due
      BY <3>5 DEF vars, RunInsert, SenderNext, SenderGet, SenderSend, SenderFails, historyVars
    <3>. QED  BY <3>1, <3>2, <3>3, <3>4, <3>5 DEF Next
  <2>2. CASE conn[c].pc # "new"
    <3>1. ~Connect(c)
      BY <2>2 DEF Connect
    <3>2. Kept(c)
      BY ONLY <3>1, ConnStep, TypeInv, [Next]_vars, c \in Conns
    <3>. QED  BY ONLY <1>1, <2>2, <3>2 DEF Kept
  <2>. QED  BY <2>1, <2>2
<1>2. ASSUME Open(c)', ~doubled'[c]
      PROVE  SingleEntries(c)' /\ Accounted(c)'
  <2>1. Open(c) /\ ~doubled[c] => SingleEntries(c) /\ Accounted(c)
    BY DEF OverflowInv
  <2>2. SingleEntries(c)' /\ (Open(c) => ~doubled[c])
    BY <1>2, <2>1, SinglesStep
  <2>3. OrderOf(c)
    BY DEF OrderInv
  <2>4. CASE Connect(c)
    <3>1. conn[c].pc = "new" /\ due' = due
      BY <2>4 DEF Connect, historyVars
    <3>2. due'[c] = {}
      BY <3>1 DEF OverflowInv
    <3>3. Held(c)' = {} /\ queue'[c] \in Seq(Events)
      BY <2>4, ConnectIsFresh DEF OwnersInv, Connect, brokerVars, TypeInv, TypeOK
    <3>4. InQueue(c)' = {}
      BY <3>3 DEF Held
    <3>5. Increasing(queue'[c])
      BY <3>4 DEF InQueue, Increasing
    <3>6. IsFiniteSet(due'[c])
      BY <3>2, FS_EmptySet
    <3>7. InQueue(c)' \subseteq due'[c] /\ \A e : e \notin due'[c] \ Held(c)'
      BY <3>2, <3>4
    <3>8. Accounted(c)'
      BY ONLY <3>5, <3>6, <3>7 DEF Accounted
    <3>. QED  BY <2>2, <3>8
  <2>5. CASE Open(c)
    <3>1. SingleEntries(c) /\ Accounted(c)
      BY <2>1, <2>2, <2>5
    <3>2. ASSUME NEW r \in Runs, RunPublish(r) PROVE Accounted(c)'
      BY <2>3, <2>5, <3>1, <3>2, PublishAccounted
    <3>3. ASSUME \A r \in Runs : ~RunPublish(r) PROVE Accounted(c)'
      BY <1>2, <2>3, <2>5, <3>1, <3>3, QuietAccounted
    <3>4. Accounted(c)'
      BY ONLY <3>2, <3>3, Zenon
    <3>. QED  BY <2>2, <3>4
  <2>6. Open(c) \/ Connect(c)
    BY <1>2, ConnStep DEF Kept, Open
  <2>. QED  BY <2>4, <2>5, <2>6
<1>. QED  BY <1>1, <1>2

\* Whatever the size of the queue, and whatever other connections do: a connection
\* that works and subscribed to no run twice loses an event only if as many newer
\* ones as its queue takes were published to it since.
THEOREM Overflow == Spec => []LostByOverflowOnly
<1>1. Init => OverflowInv
  BY DEF Init, OverflowInv, Open, NewConn
<1>2. OverflowInv => LostByOverflowOnly
  BY DEF OverflowInv, LostByOverflowOnly, Works, Accounted, Later
<1>3. Spec => [](TypeInv /\ OwnersInv /\ OrderInv /\ OverflowInv)
  BY <1>1, InitTypeInv, InitOwnersInv, InitOrder, NextTypeInv, NextOwnersInv, NextOrder,
     NextOverflow, PTL
  DEF Spec
<1>. QED  BY <1>2, <1>3, PTL
=============================================================================
