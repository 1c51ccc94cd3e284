---------------------------- MODULE ProducerProofs ----------------------------
(***************************************************************************)
(* Theorems about EventProducer for any users, steps, limit of the queue,  *)
(* events and faults: type correctness with the limit of the queue, the    *)
(* order of a user's sessions in the topic, and the protocol that the      *)
(* events of a session follow.                                             *)
(***************************************************************************)
EXTENDS EventProducer, TLAPS
-----------------------------------------------------------------------------
(* Sequences as a queue uses them.                                          *)

LEMMA AppendFacts ==
    ASSUME NEW S, NEW s \in Seq(S), NEW x \in S
    PROVE  /\ Append(s, x) \in Seq(S)
           /\ Len(Append(s, x)) = Len(s) + 1
           /\ DOMAIN Append(s, x) = 1 .. Len(s) + 1
           /\ DOMAIN s = 1 .. Len(s)
           /\ Len(s) \in Nat
           /\ Append(s, x)[Len(s) + 1] = x
           /\ \A i \in DOMAIN s : Append(s, x)[i] = s[i]
    OBVIOUS

LEMMA TailFacts ==
    ASSUME NEW S, NEW s \in Seq(S), s # <<>>
    PROVE  /\ Head(s) \in S /\ Head(s) = s[1]
           /\ Tail(s) \in Seq(S)
           /\ Len(Tail(s)) = Len(s) - 1
           /\ Len(s) \in Nat /\ Len(s) > 0
           /\ DOMAIN s = 1 .. Len(s)
           /\ DOMAIN Tail(s) = 1 .. Len(s) - 1
           /\ \A i \in DOMAIN Tail(s) : Tail(s)[i] = s[i + 1]
    OBVIOUS

LEMMA EmptyFacts ==
    ASSUME NEW S
    PROVE  /\ <<>> \in Seq(S) /\ Len(<<>>) = 0 /\ DOMAIN <<>> = {}
    OBVIOUS
-----------------------------------------------------------------------------
(* Types.                                                                   *)

Session == [id : Nat, state : {"none", "playing", "paused"}, steps : 0 .. 5]

LEMMA TypesInitially == Init => TypeOK
BY ConstantsAssumption, EmptyFacts, SMT
   DEF Init, TypeOK, NoSession, NoSend, ConstantsAssumption

LEMMA CallTypes ==
    ASSUME TypeOK, NEW u \in Users, NEW id \in Nat, NEW type \in Types,
           NEW origin \in {"start", "step", "finish", "other"},
           Call(u, id, type, origin)
    PROVE  /\ sending' \in Sending \cup {NoSend}
           /\ made' \in Nat
BY DEF TypeOK, Call, Sending, Event, MaxRetries

LEMMA AfterTypes ==
    ASSUME TypeOK, sending # NoSend, NEW s \in After(sending)
    PROVE  s \in [Users -> Session]
<1>1. sending \in Sending /\ sending.ev.user \in Users
      /\ sending.ev.session \in Nat
  BY DEF TypeOK, Sending, Event
<1>2. \A k \in Steps : k \in 0 .. 5
  BY ConstantsAssumption DEF ConstantsAssumption
<1>3. sessions \in [Users -> Session]
  BY DEF TypeOK, Session
<1>4. NoSession \in Session
  BY DEF NoSession, Session
<1>5. CASE sending.origin = "start"
  <2>1. PICK k \in Steps :
           s = [sessions EXCEPT ![sending.ev.user] =
                   [id |-> sending.ev.session, state |-> "playing", steps |-> k]]
    BY <1>5 DEF After
  <2>2. [id |-> sending.ev.session, state |-> "playing", steps |-> k] \in Session
    BY <1>1, <1>2 DEF Session
  <2>. QED BY <2>1, <2>2, <1>3
<1>6. CASE sending.origin = "finish"
  <2>1. s = [sessions EXCEPT ![sending.ev.user] = NoSession]
    BY <1>6 DEF After
  <2>. QED BY <2>1, <1>3, <1>4
<1>7. CASE sending.origin \notin {"start", "finish"}
  BY <1>7, <1>3 DEF After
<1>. QED BY <1>5, <1>6, <1>7

LEMMA ReturnTypes ==
    ASSUME TypeOK, sending # NoSend, Return
    PROVE  /\ sessions' \in [Users -> Session]
           /\ sending' = NoSend
           /\ accepted' \subseteq Event
<1>1. sending.ev \in Event
  BY DEF TypeOK, Sending
<1>. QED BY <1>1, AfterTypes DEF Return, TypeOK

LEMMA TypesPreserved == TypeOK /\ [Next]_vars => TypeOK'
<1>. SUFFICES ASSUME TypeOK, [Next]_vars
              PROVE  TypeOK'
  OBVIOUS
<1>. USE ConstantsAssumption
<1>t. /\ sessions \in [Users -> Session]
      /\ made \in Nat /\ faults \in Nat /\ reports \in Nat
      /\ queue \in Seq(Event) /\ Len(queue) \in Nat
      /\ QueueLimit \in Nat \ {0}
  BY DEF TypeOK, Session, ConstantsAssumption
<1>1. ASSUME NEW u \in Viewers, StartSession(u)
      PROVE  TypeOK'
  <2>1. u \in Users /\ made + 1 \in Nat
    BY <1>1, <1>t DEF ConstantsAssumption
  <2>2. Call(u, made + 1, "VIEW_STARTED", "start") /\ UNCHANGED sessions
    BY <1>1 DEF StartSession
  <2>3. sending' \in Sending \cup {NoSend} /\ made' \in Nat
    BY <2>1, <2>2, CallTypes DEF Types
  <2>. QED BY <2>2, <2>3 DEF TypeOK, Call
<1>2. ASSUME NEW u \in Viewers, ContinueSession(u)
      PROVE  TypeOK'
  <2>1. u \in Users /\ sessions[u].id \in Nat /\ sessions[u].steps \in 0 .. 5
    BY <1>2, <1>t DEF ConstantsAssumption, Session
  <2>2. PICK type \in {"VIEW_PAUSED", "VIEW_RESUMED"},
             flip \in {"playing", "paused"} :
           /\ Call(u, sessions[u].id, type, "step")
           /\ sessions[u].steps > 0
           /\ sessions' = [sessions EXCEPT ![u].steps = @ - 1, ![u].state = flip]
    <3>1. CASE sessions[u].state = "playing"
      <4>1. /\ Call(u, sessions[u].id, "VIEW_PAUSED", "step")
            /\ sessions[u].steps > 0
            /\ sessions' = [sessions EXCEPT ![u].steps = @ - 1,
                                            ![u].state = "paused"]
        BY <1>2, <3>1, Zenon DEF ContinueSession
      <4>. QED BY <4>1
    <3>2. CASE sessions[u].state # "playing"
      <4>0. "playing" # "paused"
        OBVIOUS
      <4>1. /\ Call(u, sessions[u].id, "VIEW_RESUMED", "step")
            /\ sessions[u].steps > 0
            /\ sessions' = [sessions EXCEPT ![u].steps = @ - 1,
                                            ![u].state = "playing"]
        BY <1>2, <3>2, <4>0, Zenon DEF ContinueSession
      <4>. QED BY <4>1
    <3>. QED BY <3>1, <3>2
  <2>3. sending' \in Sending \cup {NoSend} /\ made' \in Nat
    BY <2>1, <2>2, CallTypes DEF Types
  <2>4. sessions' \in [Users -> Session]
    <3>1. sessions[u].steps - 1 \in 0 .. 5
      BY <2>1, <2>2
    <3>2. /\ DOMAIN sessions' = Users
          /\ \A v \in Users : sessions'[v] =
                IF v = u THEN [sessions[u] EXCEPT !.steps = @ - 1, !.state = flip]
                ELSE sessions[v]
      BY <2>1, <2>2, <1>t
    <3>3. sessions[u] \in Session
      BY <2>1, <1>t
    <3>4. [sessions[u] EXCEPT !.steps = @ - 1, !.state = flip] \in Session
      BY <3>1, <3>3 DEF Session
    <3>5. sessions' = [v \in Users |-> sessions'[v]]
      BY <2>2, <1>t
    <3>. QED BY <3>2, <3>4, <3>5, <1>t
  <2>. QED BY <2>2, <2>3, <2>4 DEF TypeOK, Call, Session
<1>3. ASSUME NEW u \in Viewers, FinishSession(u)
      PROVE  TypeOK'
  <2>1. u \in Users /\ sessions[u].id \in Nat
    BY <1>3, <1>t DEF ConstantsAssumption, Session
  <2>2. Call(u, sessions[u].id, "VIEW_FINISHED", "finish") /\ UNCHANGED sessions
    BY <1>3 DEF FinishSession
  <2>3. sending' \in Sending \cup {NoSend} /\ made' \in Nat
    BY <2>1, <2>2, CallTypes DEF Types
  <2>. QED BY <2>2, <2>3 DEF TypeOK, Call
<1>4. ASSUME NEW u \in Users, SendOther(u)
      PROVE  TypeOK'
  <2>2. Call(u, made + 1, "OTHER", "other") /\ UNCHANGED sessions
    BY <1>4 DEF SendOther
  <2>3. sending' \in Sending \cup {NoSend} /\ made' \in Nat
    BY <1>t, <2>2, CallTypes DEF Types
  <2>. QED BY <2>2, <2>3 DEF TypeOK, Call
<1>5. ASSUME Produce
      PROVE  TypeOK'
  <2>1. sending # NoSend /\ sending.ev \in Event
    BY <1>5 DEF Produce, TypeOK, Sending
  <2>2. /\ queue' \in Seq(Event)
        /\ Len(queue') = Len(queue) + 1
        /\ reports' = 0
    BY <1>5, <1>t, <2>1, AppendFacts DEF Produce
  <2>3. Len(queue) < QueueLimit
    BY <1>5, <1>t DEF Produce, Full
  <2>4. /\ sessions' \in [Users -> Session]
        /\ sending' = NoSend /\ accepted' \subseteq Event
    BY <1>5, <2>1, ReturnTypes DEF Produce
  <2>5. Len(queue') + reports' <= QueueLimit /\ reports' \in Nat
    BY <2>2, <2>3, <1>t
  <2>. QED BY <1>5, <2>2, <2>4, <2>5 DEF TypeOK, Produce, Session
<1>6. ASSUME BufferError
      PROVE  TypeOK'
  <2>1. sending # NoSend /\ sending \in Sending
    BY <1>6 DEF BufferError, TypeOK
  <2>2. Len(queue') + reports' <= QueueLimit /\ reports' \in Nat
    BY <1>6, <1>t DEF BufferError, TypeOK
  <2>3. CASE sending.try + 1 < MaxRetries
    <3>1. sending' \in Sending
      BY <1>6, <2>1, <2>3 DEF BufferError, Sending, MaxRetries
    <3>. QED BY <1>6, <2>2, <2>3, <3>1 DEF TypeOK, BufferError
  <2>4. CASE ~(sending.try + 1 < MaxRetries)
    <3>1. /\ sessions' \in [Users -> Session]
          /\ sending' = NoSend /\ accepted' \subseteq Event
      BY <1>6, <2>1, <2>4, ReturnTypes DEF BufferError
    <3>. QED BY <1>6, <2>2, <3>1 DEF TypeOK, BufferError, Session
  <2>. QED BY <2>3, <2>4
<1>7. ASSUME SendRaises
      PROVE  TypeOK'
  <2>1. sending \in Sending /\ sending.ev \in Event
    BY <1>7 DEF SendRaises, TypeOK, Sending
  <2>2. faults' \in Nat
    BY <1>7, <1>t DEF SendRaises, Faulty
  <2>3. CASE sending.try + 1 < MaxRetries
    <3>1. sending' \in Sending
      BY <1>7, <2>1, <2>3 DEF SendRaises, Sending, MaxRetries
    <3>. QED BY <1>7, <2>2, <2>3, <3>1 DEF TypeOK, SendRaises
  <2>4. CASE ~(sending.try + 1 < MaxRetries)
    BY <1>7, <2>1, <2>2, <2>4 DEF TypeOK, SendRaises
  <2>. QED BY <2>3, <2>4
<1>8. ASSUME queue # <<>>, queue' = Tail(queue), reports' = reports + 1,
             NEW e \in Event, e = Head(queue),
             topic' \in {topic, Delivered(e)}
      PROVE  /\ queue' \in Seq(Event) /\ reports' \in Nat
             /\ Len(queue') + reports' <= QueueLimit
             /\ topic' \in [Users -> Seq(Event)]
  <2>1. queue' \in Seq(Event) /\ Len(queue') = Len(queue) - 1
    BY <1>8, <1>t, TailFacts
  <2>2. topic' \in [Users -> Seq(Event)]
    <3>1. e.user \in Users /\ topic \in [Users -> Seq(Event)]
      BY DEF Event, TypeOK
    <3>2. Append(topic[e.user], e) \in Seq(Event)
      BY <3>1, AppendFacts
    <3>. QED BY <1>8, <3>1, <3>2 DEF Delivered
  <2>3. Len(queue) + reports <= QueueLimit
    BY DEF TypeOK
  <2>. QED BY <1>8, <1>t, <2>1, <2>2, <2>3
<1>9. ASSUME Deliver
      PROVE  TypeOK'
  <2>1. Head(queue) \in Event
    BY <1>9, <1>t, TailFacts DEF Deliver
  <2>2. /\ queue' \in Seq(Event) /\ reports' \in Nat
        /\ Len(queue') + reports' <= QueueLimit
        /\ topic' \in [Users -> Seq(Event)]
    BY <1>9, <1>8, <2>1 DEF Deliver
  <2>. QED BY <1>9, <2>2 DEF TypeOK, Deliver
<1>10. ASSUME DeliveryFails
       PROVE  TypeOK'
  <2>1. Head(queue) \in Event
    BY <1>10, <1>t, TailFacts DEF DeliveryFails
  <2>2. /\ queue' \in Seq(Event) /\ reports' \in Nat
        /\ Len(queue') + reports' <= QueueLimit
        /\ topic' \in [Users -> Seq(Event)]
    BY <1>10, <1>8, <2>1 DEF DeliveryFails
  <2>3. faults' \in Nat /\ lost' \subseteq Event
    BY <1>10, <1>t, <2>1 DEF DeliveryFails, Faulty, TypeOK
  <2>. QED BY <1>10, <2>2, <2>3 DEF TypeOK, DeliveryFails
<1>11. ASSUME Flush
       PROVE  TypeOK'
  BY <1>11, <1>t DEF TypeOK, Flush
<1>12. ASSUME Stop
       PROVE  TypeOK'
  <2>1. running' \in BOOLEAN
    BY <1>12, Zenon DEF Stop
  <2>2. faults' \in Nat
    BY <1>12, <1>t DEF Stop, Faulty
  <2>3. UNCHANGED <<sessions, sending, queue, reports, topic, made, accepted,
                    lost>>
    BY <1>12, Zenon DEF Stop
  <2>. QED BY <2>1, <2>2, <2>3 DEF TypeOK
<1>13. ASSUME Halt
       PROVE  TypeOK'
  <2>1. Range(queue) \subseteq Event
    BY <1>t DEF Range
  <2>2. faults' \in Nat
    BY <1>13, <1>t DEF Halt, Faulty
  <2>3. sessions' \in [Users -> Session]
    BY <1>13 DEF Halt, NoSession, Session
  <2>4. /\ queue' \in Seq(Event) /\ reports' \in Nat
        /\ Len(queue') + reports' <= QueueLimit
    <3>1. queue' = <<>> /\ reports' = 0
      BY <1>13 DEF Halt
    <3>. QED BY <3>1, <1>t, EmptyFacts
  <2>. QED BY <1>13, <2>1, <2>2, <2>3, <2>4 DEF TypeOK, Halt, Session
<1>14. ASSUME UNCHANGED vars
       PROVE  TypeOK'
  BY <1>14 DEF TypeOK, vars
<1>. QED
  BY <1>1, <1>2, <1>3, <1>4, <1>5, <1>6, <1>7, <1>9, <1>10, <1>11, <1>12,
     <1>13, <1>14, Zenon DEF Next, GenerateFor, Send

(* Every variable keeps its type, and the queue its limit, undelivered      *)
(* reports included.                                                        *)
THEOREM TypeCorrect == Spec => []TypeOK
BY TypesInitially, TypesPreserved, PTL DEF Spec
-----------------------------------------------------------------------------
(* The order of the topic.                                                  *)

(* a may come before b in a user's part of the topic.                       *)
Earlier(a, b) ==
    /\ a.n < b.n
    /\ OfSession(a) /\ OfSession(b) =>
         /\ a.session <= b.session
         /\ a.session = b.session =>
              a.type # "VIEW_FINISHED" /\ b.type # "VIEW_STARTED"

(* What librdkafka was given of a user, delivered or not.                   *)
Out(u) == {topic[u][i] : i \in DOMAIN topic[u]}
            \cup {queue[i] : i \in {j \in DOMAIN queue : queue[j].user = u}}

TopicOrdered ==
    \A u \in Users : \A i, j \in DOMAIN topic[u] :
        i < j => Earlier(topic[u][i], topic[u][j])

QueueOrdered ==
    \A i, j \in DOMAIN queue :
        i < j /\ queue[i].user = queue[j].user => Earlier(queue[i], queue[j])

TopicBeforeQueue ==
    \A u \in Users : \A i \in DOMAIN topic[u], j \in DOMAIN queue :
        queue[j].user = u => Earlier(topic[u][i], queue[j])

OrderInv == TopicOrdered /\ QueueOrdered /\ TopicBeforeQueue

(* Numbers of events and sessions are given in order.                       *)
Numbered ==
    /\ \A u \in Users : \A e \in Out(u) : e.n <= made /\ e.session <= made
    /\ \A u \in Users : sessions[u].id <= made
    /\ sending # NoSend => sending.ev.n <= made /\ sending.ev.session <= made

(* The event in send comes after all that were given to librdkafka.         *)
NextInOrder ==
    sending # NoSend => \A e \in Out(sending.ev.user) : Earlier(e, sending.ev)

(* A session that is under way has not ended, and none after it began.      *)
SessionIsLast ==
    \A u \in Users : sessions[u] # NoSession =>
        \A e \in Out(u) : OfSession(e) =>
            /\ e.session <= sessions[u].id
            /\ e.session = sessions[u].id => e.type # "VIEW_FINISHED"

(* The event in send against the session of its user.                       *)
OriginMatches ==
    sending # NoSend =>
        LET s == sessions[sending.ev.user]
        IN CASE sending.origin = "start"  -> sending.ev.type = "VIEW_STARTED"
             [] sending.origin = "step"   ->
                  /\ sending.ev.type \in {"VIEW_PAUSED", "VIEW_RESUMED"}
                  /\ sending.ev.session = s.id
             [] sending.origin = "finish" -> sending.ev.type = "VIEW_FINISHED"
             [] sending.origin = "other"  -> sending.ev.type = "OTHER"

SessionInv == Numbered /\ NextInOrder /\ SessionIsLast /\ OriginMatches

LEMMA OutTypes == TypeOK => \A u \in Users : Out(u) \subseteq Event
BY DEF TypeOK, Out

LEMMA OrderInitially == Init => OrderInv /\ SessionInv
<1>. SUFFICES ASSUME Init PROVE OrderInv /\ SessionInv
  OBVIOUS
<1>1. DOMAIN <<>> = {}
  OBVIOUS
<1>2. OrderInv
  BY <1>1 DEF Init, OrderInv, TopicOrdered, QueueOrdered, TopicBeforeQueue
<1>3. \A u \in Users : Out(u) = {}
  BY <1>1 DEF Init, Out
<1>. QED
  BY <1>2, <1>3 DEF Init, SessionInv, Numbered, NextInOrder, SessionIsLast,
     OriginMatches, NoSession

(* How the steps change what librdkafka was given.                          *)
LEMMA OutProduce ==
    ASSUME TypeOK, Produce
    PROVE  \A u \in Users : Out(u)' \subseteq
              Out(u) \cup {e \in {sending.ev} : e.user = u}
<1>1. sending.ev \in Event
  BY DEF Produce, TypeOK, Sending
<1>2. /\ queue \in Seq(Event) /\ queue' = Append(queue, sending.ev)
      /\ topic' = topic
  BY DEF Produce, TypeOK
<1>3. /\ DOMAIN queue' = 1 .. Len(queue) + 1 /\ DOMAIN queue = 1 .. Len(queue)
      /\ Len(queue) \in Nat
      /\ queue'[Len(queue) + 1] = sending.ev
      /\ \A i \in DOMAIN queue : queue'[i] = queue[i]
  BY <1>1, <1>2, AppendFacts
<1>. QED BY <1>2, <1>3 DEF Out

LEMMA OutDelivers ==
    ASSUME TypeOK, queue # <<>>, queue' = Tail(queue),
           topic' \in {topic, Delivered(Head(queue))}
    PROVE  \A u \in Users : Out(u)' \subseteq Out(u)
<1>1. /\ Head(queue) \in Event /\ Head(queue) = queue[1]
      /\ Len(queue) \in Nat /\ Len(queue) > 0
      /\ DOMAIN queue = 1 .. Len(queue)
      /\ DOMAIN queue' = 1 .. Len(queue) - 1
      /\ \A i \in DOMAIN queue' : queue'[i] = queue[i + 1]
  BY TailFacts DEF TypeOK
<1>2. topic \in [Users -> Seq(Event)] /\ Head(queue).user \in Users
  BY <1>1 DEF TypeOK, Event
<1>. SUFFICES ASSUME NEW u \in Users, NEW e \in Out(u)'
              PROVE  e \in Out(u)
  OBVIOUS
<1>3. CASE \E i \in DOMAIN queue' : e = queue'[i] /\ queue'[i].user = u
  <2>1. PICK i \in DOMAIN queue' : e = queue'[i] /\ queue'[i].user = u
    BY <1>3
  <2>2. i + 1 \in DOMAIN queue /\ e = queue[i + 1]
    BY <1>1, <2>1
  <2>. QED BY <2>1, <2>2 DEF Out
<1>4. CASE \E i \in DOMAIN topic'[u] : e = topic'[u][i]
  <2>1. PICK i \in DOMAIN topic'[u] : e = topic'[u][i]
    BY <1>4
  <2>2. CASE topic'[u] = topic[u]
    BY <2>1, <2>2 DEF Out
  <2>3. CASE topic'[u] # topic[u]
    <3>1. u = Head(queue).user /\ topic'[u] = Append(topic[u], Head(queue))
      BY <2>3, <1>2 DEF Delivered
    <3>2. /\ DOMAIN topic'[u] = 1 .. Len(topic[u]) + 1
          /\ DOMAIN topic[u] = 1 .. Len(topic[u]) /\ Len(topic[u]) \in Nat
          /\ topic'[u][Len(topic[u]) + 1] = Head(queue)
          /\ \A k \in DOMAIN topic[u] : topic'[u][k] = topic[u][k]
      BY <3>1, <1>1, <1>2, AppendFacts
    <3>3. e = Head(queue) \/ (i \in DOMAIN topic[u] /\ e = topic[u][i])
      BY <2>1, <3>2
    <3>4. 1 \in DOMAIN queue
      BY <1>1
    <3>. QED BY <3>1, <3>3, <3>4, <1>1 DEF Out
  <2>. QED BY <2>2, <2>3
<1>. QED BY <1>3, <1>4 DEF Out

(* The orders of topic and queue.                                           *)
LEMMA ProduceKeepsOrder ==
    ASSUME TypeOK, OrderInv, NextInOrder, Produce
    PROVE  OrderInv'
<1>1. sending # NoSend /\ sending.ev \in Event /\ sending.ev.user \in Users
  BY DEF Produce, TypeOK, Sending, Event
<1>2. /\ queue \in Seq(Event) /\ queue' = Append(queue, sending.ev)
      /\ topic' = topic
  BY DEF Produce, TypeOK
<1>3. /\ DOMAIN queue' = 1 .. Len(queue) + 1 /\ DOMAIN queue = 1 .. Len(queue)
      /\ Len(queue) \in Nat
      /\ queue'[Len(queue) + 1] = sending.ev
      /\ \A i \in DOMAIN queue : queue'[i] = queue[i]
  BY <1>1, <1>2, AppendFacts
<1>4. \A e \in Out(sending.ev.user) : Earlier(e, sending.ev)
  BY <1>1 DEF NextInOrder
<1>5. TopicOrdered'
  BY <1>2 DEF OrderInv, TopicOrdered
<1>6. ASSUME NEW i \in DOMAIN queue', NEW j \in DOMAIN queue', i < j,
             queue'[i].user = queue'[j].user
      PROVE  Earlier(queue'[i], queue'[j])
  <2>1. i \in DOMAIN queue /\ queue'[i] = queue[i]
    BY <1>3, <1>6
  <2>2. CASE j \in DOMAIN queue
    BY <2>1, <2>2, <1>3, <1>6 DEF OrderInv, QueueOrdered
  <2>3. CASE j \notin DOMAIN queue
    <3>1. queue'[j] = sending.ev
      BY <2>3, <1>3
    <3>2. queue[i] \in Out(sending.ev.user)
      BY <2>1, <3>1, <1>6 DEF Out
    <3>. QED BY <2>1, <3>1, <3>2, <1>4
  <2>. QED BY <2>2, <2>3
<1>7. ASSUME NEW u \in Users, NEW i \in DOMAIN topic'[u], NEW j \in DOMAIN queue',
             queue'[j].user = u
      PROVE  Earlier(topic'[u][i], queue'[j])
  <2>1. topic'[u] = topic[u]
    BY <1>2
  <2>2. CASE j \in DOMAIN queue
    BY <2>1, <2>2, <1>3, <1>7 DEF OrderInv, TopicBeforeQueue
  <2>3. CASE j \notin DOMAIN queue
    <3>1. queue'[j] = sending.ev
      BY <2>3, <1>3
    <3>2. topic[u][i] \in Out(sending.ev.user)
      BY <2>1, <3>1, <1>7 DEF Out
    <3>. QED BY <2>1, <3>1, <3>2, <1>4
  <2>. QED BY <2>2, <2>3
<1>8. QueueOrdered'
  BY <1>6 DEF QueueOrdered, Earlier, OfSession
<1>9. TopicBeforeQueue'
  BY <1>7 DEF TopicBeforeQueue, Earlier, OfSession
<1>. QED BY <1>5, <1>8, <1>9 DEF OrderInv

LEMMA DeliveryKeepsOrder ==
    ASSUME TypeOK, OrderInv, queue # <<>>, queue' = Tail(queue),
           topic' \in {topic, Delivered(Head(queue))}
    PROVE  OrderInv'
<1>1. /\ Head(queue) \in Event /\ Head(queue) = queue[1]
      /\ Len(queue) \in Nat /\ Len(queue) > 0
      /\ DOMAIN queue = 1 .. Len(queue)
      /\ DOMAIN queue' = 1 .. Len(queue) - 1
      /\ \A i \in DOMAIN queue' : queue'[i] = queue[i + 1]
  BY TailFacts DEF TypeOK
<1>2. topic \in [Users -> Seq(Event)] /\ Head(queue).user \in Users
  BY <1>1 DEF TypeOK, Event
<1>3. \A i \in DOMAIN queue' : i + 1 \in DOMAIN queue /\ 1 < i + 1
  BY <1>1
<1>4. 1 \in DOMAIN queue
  BY <1>1
<1>5. ASSUME NEW u \in Users, topic'[u] # topic[u]
      PROVE  /\ u = queue[1].user
             /\ DOMAIN topic'[u] = 1 .. Len(topic[u]) + 1
             /\ DOMAIN topic[u] = 1 .. Len(topic[u]) /\ Len(topic[u]) \in Nat
             /\ topic'[u][Len(topic[u]) + 1] = queue[1]
             /\ \A k \in DOMAIN topic[u] : topic'[u][k] = topic[u][k]
  <2>1. u = Head(queue).user /\ topic'[u] = Append(topic[u], Head(queue))
    BY <1>5, <1>2 DEF Delivered
  <2>. QED BY <2>1, <1>1, <1>2, AppendFacts
<1>6. ASSUME NEW u \in Users, NEW i \in DOMAIN topic'[u],
             NEW j \in DOMAIN topic'[u], i < j
      PROVE  Earlier(topic'[u][i], topic'[u][j])
  <2>1. CASE topic'[u] = topic[u]
    BY <2>1, <1>6 DEF OrderInv, TopicOrdered
  <2>2. CASE topic'[u] # topic[u]
    <3>1. i \in DOMAIN topic[u] /\ topic'[u][i] = topic[u][i]
      BY <2>2, <1>5, <1>6
    <3>2. CASE j \in DOMAIN topic[u]
      <4>1. topic'[u][j] = topic[u][j]
        BY <2>2, <3>2, <1>5
      <4>. QED BY <3>1, <3>2, <4>1, <1>6 DEF OrderInv, TopicOrdered
    <3>3. CASE j \notin DOMAIN topic[u]
      <4>1. topic'[u][j] = queue[1] /\ queue[1].user = u
        BY <2>2, <3>3, <1>5, <1>6
      <4>. QED BY <3>1, <4>1, <1>4 DEF OrderInv, TopicBeforeQueue
    <3>. QED BY <3>2, <3>3
  <2>. QED BY <2>1, <2>2
<1>7. ASSUME NEW i \in DOMAIN queue', NEW j \in DOMAIN queue', i < j,
             queue'[i].user = queue'[j].user
      PROVE  Earlier(queue'[i], queue'[j])
  <2>1. i + 1 < j + 1 /\ i + 1 \in DOMAIN queue /\ j + 1 \in DOMAIN queue
    BY <1>1, <1>3, <1>7
  <2>2. queue'[i] = queue[i + 1] /\ queue'[j] = queue[j + 1]
    BY <1>1
  <2>. QED BY <2>1, <2>2, <1>7 DEF OrderInv, QueueOrdered
<1>8. ASSUME NEW u \in Users, NEW i \in DOMAIN topic'[u], NEW j \in DOMAIN queue',
             queue'[j].user = u
      PROVE  Earlier(topic'[u][i], queue'[j])
  <2>1. j + 1 \in DOMAIN queue /\ 1 < j + 1 /\ queue'[j] = queue[j + 1]
    BY <1>1, <1>3
  <2>2. CASE i \in DOMAIN topic[u] /\ topic'[u][i] = topic[u][i]
    BY <2>1, <2>2, <1>8 DEF OrderInv, TopicBeforeQueue
  <2>3. CASE ~(i \in DOMAIN topic[u] /\ topic'[u][i] = topic[u][i])
    <3>1. topic'[u][i] = queue[1] /\ queue[1].user = u
      BY <2>3, <1>5, <1>8
    <3>. QED BY <2>1, <3>1, <1>4, <1>8 DEF OrderInv, QueueOrdered
  <2>. QED BY <2>2, <2>3
<1>9. TopicOrdered'
  BY <1>6 DEF TopicOrdered, Earlier, OfSession
<1>10. QueueOrdered'
  BY <1>7 DEF QueueOrdered, Earlier, OfSession
<1>11. TopicBeforeQueue'
  BY <1>8 DEF TopicBeforeQueue, Earlier, OfSession
<1>. QED BY <1>9, <1>10, <1>11 DEF OrderInv
-----------------------------------------------------------------------------
(* The sessions.                                                            *)

LEMMA CallKeepsSessions ==
    ASSUME TypeOK, SessionInv, NEW u \in Users, NEW id \in Nat,
           NEW type \in Types, NEW origin, Call(u, id, type, origin),
           id <= made + 1,
           \A v \in Users : /\ sessions'[v].id = sessions[v].id
                            /\ sessions'[v] # NoSession => sessions[v] # NoSession,
           \/ origin = "start" /\ type = "VIEW_STARTED" /\ id = made + 1
           \/ /\ origin = "step" /\ type \in {"VIEW_PAUSED", "VIEW_RESUMED"}
              /\ sessions[u] # NoSession /\ id = sessions[u].id
           \/ /\ origin = "finish" /\ type = "VIEW_FINISHED"
              /\ sessions[u] # NoSession /\ id = sessions[u].id
           \/ origin = "other" /\ type = "OTHER"
    PROVE  SessionInv'
<1>1. /\ made \in Nat /\ made' = made + 1
      /\ UNCHANGED <<queue, topic>>
  BY DEF TypeOK, Call
<1>2. /\ sending' # NoSend
      /\ sending'.origin = origin /\ sending'.ev.user = u
      /\ sending'.ev.session = id /\ sending'.ev.type = type
      /\ sending'.ev.n = made + 1
  <2>1. sending' = [origin |-> origin, try |-> 0,
                    ev |-> [user |-> u, session |-> id, type |-> type,
                            n |-> made + 1]]
    BY DEF Call
  <2>2. DOMAIN sending' = {"origin", "try", "ev"} /\ DOMAIN NoSend = {"origin"}
    BY <2>1 DEF NoSend
  <2>. QED BY <2>1, <2>2
<1>3. \A v \in Users : Out(v)' = Out(v)
  BY <1>1 DEF Out
<1>4. \A v \in Users : \A e \in Out(v) :
         /\ e.n \in Nat /\ e.session \in Nat
         /\ e.n <= made /\ e.session <= made
  BY OutTypes DEF SessionInv, Numbered, Event
<1>5. \A v \in Users : sessions[v].id \in Nat /\ sessions[v].id <= made
  BY DEF TypeOK, SessionInv, Numbered
<1>6. Numbered'
  BY <1>1, <1>2, <1>3, <1>4, <1>5 DEF Numbered
<1>7. ASSUME NEW e \in Out(u)
      PROVE  Earlier(e, sending'.ev)
  <2>1. e.n < sending'.ev.n
    BY <1>1, <1>2, <1>4
  <2>2. ASSUME OfSession(e), origin # "other"
        PROVE  /\ e.session <= id
               /\ e.session = id =>
                    e.type # "VIEW_FINISHED" /\ type # "VIEW_STARTED"
    <3>1. CASE origin = "start"
      BY <3>1, <1>1, <1>4
    <3>2. CASE origin \in {"step", "finish"}
      BY <3>2, <2>2 DEF SessionInv, SessionIsLast
    <3>. QED BY <2>2, <3>1, <3>2
  <2>3. origin = "other" => ~OfSession(sending'.ev)
    BY <1>2 DEF OfSession
  <2>. QED BY <1>2, <2>1, <2>2, <2>3 DEF Earlier
<1>8. NextInOrder'
  BY <1>2, <1>3, <1>7 DEF NextInOrder, Earlier, OfSession
<1>9. SessionIsLast'
  BY <1>3 DEF SessionInv, SessionIsLast, OfSession
<1>10. OriginMatches'
  BY <1>2 DEF OriginMatches
<1>. QED BY <1>6, <1>8, <1>9, <1>10 DEF SessionInv

LEMMA ReturnKeepsSessions ==
    ASSUME TypeOK, SessionInv, sending # NoSend, Return, made' = made,
           \A u \in Users : Out(u)' \subseteq
              Out(u) \cup {e \in {sending.ev} : e.user = u}
    PROVE  SessionInv'
<1>. DEFINE v == sending.ev.user
<1>1. /\ sending \in Sending /\ sending.ev \in Event /\ v \in Users
      /\ sending.ev.n \in Nat /\ sending.ev.session \in Nat
      /\ sending.ev.n <= made /\ sending.ev.session <= made
  BY DEF TypeOK, Sending, Event, SessionInv, Numbered
<1>2. /\ sending' = NoSend
      /\ sessions \in [Users -> Session]
      /\ made \in Nat
  BY DEF Return, TypeOK, Session
<1>3. \A u \in Users : \A e \in Out(u) :
         e.n <= made /\ e.session <= made /\ e.session \in Nat
  BY OutTypes DEF SessionInv, Numbered, Event
<1>4. /\ \A u \in Users : u # v => sessions'[u] = sessions[u]
      /\ sending.origin = "start" => sessions'[v].id = sending.ev.session
      /\ sending.origin = "finish" => sessions'[v] = NoSession
      /\ sending.origin \in {"step", "other"} => sessions' = sessions
  <2>0. sessions' \in After(sending)
    BY DEF Return
  <2>1. CASE sending.origin = "start"
    <3>1. PICK k \in Steps :
             sessions' = [sessions EXCEPT ![v] =
                 [id |-> sending.ev.session, state |-> "playing", steps |-> k]]
      BY <2>0, <2>1 DEF After
    <3>. QED BY <3>1, <2>1, <1>1, <1>2
  <2>2. CASE sending.origin = "finish"
    <3>1. sessions' = [sessions EXCEPT ![v] = NoSession]
      BY <2>0, <2>2 DEF After
    <3>. QED BY <3>1, <2>2, <1>1, <1>2
  <2>3. CASE sending.origin \notin {"start", "finish"}
    BY <2>0, <2>3 DEF After
  <2>. QED BY <2>1, <2>2, <2>3
<1>5. sending.origin \in {"start", "step", "finish", "other"}
  BY <1>1 DEF Sending
<1>6. \A u \in Users : sessions'[u].id <= made
  BY <1>1, <1>2, <1>4, <1>5 DEF SessionInv, Numbered, NoSession
<1>7. Numbered'
  BY <1>1, <1>2, <1>3, <1>6 DEF Numbered
<1>8. ASSUME NEW u \in Users, sessions'[u] # NoSession, NEW e \in Out(u)',
             OfSession(e)
      PROVE  /\ e.session <= sessions'[u].id
             /\ e.session = sessions'[u].id => e.type # "VIEW_FINISHED"
  <2>1. CASE u # v
    BY <2>1, <1>4, <1>8 DEF SessionInv, SessionIsLast
  <2>2. CASE u = v /\ sending.origin = "start"
    <3>1. sending.ev.type = "VIEW_STARTED"
      BY <2>2 DEF SessionInv, OriginMatches
    <3>2. sessions'[u].id = sending.ev.session
      BY <2>2, <1>4
    <3>3. CASE e \in Out(u)
      <4>1. Earlier(e, sending.ev)
        BY <2>2, <3>3 DEF SessionInv, NextInOrder
      <4>2. OfSession(sending.ev)
        BY <3>1 DEF OfSession
      <4>. QED BY <4>1, <4>2, <3>2, <1>8 DEF Earlier
    <3>4. CASE e = sending.ev
      BY <3>1, <3>2, <3>4, <1>1
    <3>. QED BY <3>3, <3>4, <1>8
  <2>3. CASE u = v /\ sending.origin = "finish"
    BY <2>3, <1>4, <1>8
  <2>4. CASE u = v /\ sending.origin \in {"step", "other"}
    <3>1. sessions'[u] = sessions[u]
      BY <2>4, <1>4
    <3>2. CASE e \in Out(u)
      BY <3>1, <3>2, <1>8 DEF SessionInv, SessionIsLast
    <3>3. CASE e = sending.ev
      <4>1. CASE sending.origin = "other"
        <5>1. sending.ev.type = "OTHER"
          BY <4>1 DEF SessionInv, OriginMatches
        <5>. QED BY <5>1, <3>3, <1>8 DEF OfSession
      <4>2. CASE sending.origin = "step"
        <5>1. /\ sending.ev.type \in {"VIEW_PAUSED", "VIEW_RESUMED"}
              /\ sending.ev.session = sessions[v].id
          BY <4>2 DEF SessionInv, OriginMatches
        <5>. QED BY <5>1, <3>1, <3>3, <2>4, <1>1
      <4>. QED BY <2>4, <4>1, <4>2
    <3>. QED BY <3>2, <3>3, <1>8
  <2>. QED BY <2>1, <2>2, <2>3, <2>4, <1>5
<1>9. SessionIsLast'
  BY <1>8 DEF SessionIsLast, OfSession
<1>10. NextInOrder' /\ OriginMatches'
  BY <1>2 DEF NextInOrder, OriginMatches
<1>. QED BY <1>7, <1>9, <1>10 DEF SessionInv

LEMMA QuietKeepsSessions ==
    ASSUME TypeOK, SessionInv, made' = made,
           \/ sending' = NoSend
           \/ /\ sending # NoSend
              /\ sending'.origin = sending.origin /\ sending'.ev = sending.ev
           \/ sending' = sending,
           sessions' \in {sessions, [u \in Users |-> NoSession]},
           sessions' = sessions \/ sending' = NoSend,
           \A u \in Users : Out(u)' \subseteq Out(u)
    PROVE  SessionInv'
<1>1. Numbered'
  BY DEF SessionInv, Numbered, NoSession, TypeOK
<1>2. NextInOrder'
  <2>. SUFFICES ASSUME sending' # NoSend,
                       NEW u, u = sending'.ev.user, NEW e \in Out(u)'
                PROVE  Earlier(e, sending'.ev)
    BY DEF NextInOrder, Earlier, OfSession, Out
  <2>1. sending # NoSend /\ sending'.ev = sending.ev
    OBVIOUS
  <2>2. sending.ev.user \in Users
    BY <2>1 DEF TypeOK, Sending, Event
  <2>. QED BY <2>1, <2>2 DEF SessionInv, NextInOrder
<1>3. SessionIsLast'
  BY DEF SessionInv, SessionIsLast, OfSession
<1>4. OriginMatches'
  <2>1. CASE sending' = NoSend
    BY <2>1 DEF OriginMatches
  <2>2. CASE sending' # NoSend
    <3>1. /\ sessions' = sessions /\ sending # NoSend
          /\ sending'.origin = sending.origin /\ sending'.ev = sending.ev
      BY <2>2
    <3>. QED BY <3>1 DEF SessionInv, OriginMatches
  <2>. QED BY <2>1, <2>2
<1>. QED BY <1>1, <1>2, <1>3, <1>4 DEF SessionInv
-----------------------------------------------------------------------------
LEMMA OrderPreserved ==
    ASSUME TypeOK, TypeOK', OrderInv, SessionInv, [Next]_vars
    PROVE  OrderInv' /\ SessionInv'
<1>. USE ConstantsAssumption
<1>t. /\ sessions \in [Users -> Session]
      /\ made \in Nat /\ queue \in Seq(Event)
  BY DEF TypeOK, Session
<1>q. ASSUME UNCHANGED <<queue, topic>>
      PROVE  OrderInv' /\ \A u \in Users : Out(u)' = Out(u)
  BY <1>q DEF OrderInv, TopicOrdered, QueueOrdered, TopicBeforeQueue, Out
<1>1. ASSUME NEW u \in Viewers, StartSession(u)
      PROVE  OrderInv' /\ SessionInv'
  <2>1. u \in Users /\ made + 1 \in Nat
    BY <1>t DEF ConstantsAssumption
  <2>2. Call(u, made + 1, "VIEW_STARTED", "start") /\ UNCHANGED sessions
    BY <1>1 DEF StartSession
  <2>3. SessionInv'
    BY <2>1, <2>2, CallKeepsSessions DEF Types
  <2>4. UNCHANGED <<queue, topic>>
    BY <2>2 DEF Call
  <2>. QED BY <2>3, <2>4, <1>q
<1>2. ASSUME NEW u \in Viewers, ContinueSession(u)
      PROVE  OrderInv' /\ SessionInv'
  <2>1. u \in Users /\ sessions[u].id \in Nat /\ sessions[u] # NoSession
        /\ sessions[u].id <= made + 1
    BY <1>2, <1>t DEF ConstantsAssumption, Session, ContinueSession,
       SessionInv, Numbered
  <2>2. PICK type \in {"VIEW_PAUSED", "VIEW_RESUMED"},
             flip \in {"playing", "paused"} :
           /\ Call(u, sessions[u].id, type, "step")
           /\ sessions' = [sessions EXCEPT ![u].steps = @ - 1, ![u].state = flip]
    <3>1. CASE sessions[u].state = "playing"
      <4>1. /\ Call(u, sessions[u].id, "VIEW_PAUSED", "step")
            /\ sessions' = [sessions EXCEPT ![u].steps = @ - 1,
                                            ![u].state = "paused"]
        BY <1>2, <3>1, Zenon DEF ContinueSession
      <4>. QED BY <4>1
    <3>2. CASE sessions[u].state # "playing"
      <4>0. "playing" # "paused"
        OBVIOUS
      <4>1. /\ Call(u, sessions[u].id, "VIEW_RESUMED", "step")
            /\ sessions' = [sessions EXCEPT ![u].steps = @ - 1,
                                            ![u].state = "playing"]
        BY <1>2, <3>2, <4>0, Zenon DEF ContinueSession
      <4>. QED BY <4>1
    <3>. QED BY <3>1, <3>2
  <2>3. \A v \in Users : sessions'[v] =
           IF v = u THEN [sessions[u] EXCEPT !.steps = @ - 1, !.state = flip]
           ELSE sessions[v]
    BY <2>1, <2>2, <1>t
  <2>4. \A v \in Users : /\ sessions'[v].id = sessions[v].id
                         /\ sessions'[v] # NoSession => sessions[v] # NoSession
    BY <2>1, <2>3, <1>t, ZenonT(60) DEF Session
  <2>5. SessionInv'
    BY <2>1, <2>2, <2>4, CallKeepsSessions DEF Types
  <2>6. UNCHANGED <<queue, topic>>
    BY <2>2 DEF Call
  <2>. QED BY <2>5, <2>6, <1>q
<1>3. ASSUME NEW u \in Viewers, FinishSession(u)
      PROVE  OrderInv' /\ SessionInv'
  <2>1. u \in Users /\ sessions[u].id \in Nat /\ sessions[u] # NoSession
        /\ sessions[u].id <= made + 1
    BY <1>3, <1>t DEF ConstantsAssumption, Session, FinishSession,
       SessionInv, Numbered
  <2>2. Call(u, sessions[u].id, "VIEW_FINISHED", "finish") /\ UNCHANGED sessions
    BY <1>3 DEF FinishSession
  <2>3. SessionInv'
    BY <2>1, <2>2, CallKeepsSessions DEF Types
  <2>4. UNCHANGED <<queue, topic>>
    BY <2>2 DEF Call
  <2>. QED BY <2>3, <2>4, <1>q
<1>4. ASSUME NEW u \in Users, SendOther(u)
      PROVE  OrderInv' /\ SessionInv'
  <2>1. made + 1 \in Nat /\ made + 1 <= made + 1
    BY <1>t
  <2>2. Call(u, made + 1, "OTHER", "other") /\ UNCHANGED sessions
    BY <1>4 DEF SendOther
  <2>3. SessionInv'
    BY <2>1, <2>2, CallKeepsSessions DEF Types
  <2>4. UNCHANGED <<queue, topic>>
    BY <2>2 DEF Call
  <2>. QED BY <2>3, <2>4, <1>q
<1>5. ASSUME Produce
      PROVE  OrderInv' /\ SessionInv'
  <2>1. OrderInv'
    BY <1>5, ProduceKeepsOrder DEF SessionInv
  <2>2. sending # NoSend /\ Return /\ made' = made
    BY <1>5 DEF Produce
  <2>3. SessionInv'
    BY <2>2, <1>5, OutProduce, ReturnKeepsSessions
  <2>. QED BY <2>1, <2>3
<1>6. ASSUME BufferError
      PROVE  OrderInv' /\ SessionInv'
  <2>1. sending # NoSend /\ made' = made /\ UNCHANGED <<queue, topic>>
    BY <1>6 DEF BufferError
  <2>2. CASE sending.try + 1 < MaxRetries
    <3>1. /\ sessions' = sessions
          /\ sending'.origin = sending.origin /\ sending'.ev = sending.ev
      <4>1. sending \in Sending
        BY <2>1 DEF TypeOK
      <4>. QED BY <1>6, <2>2, <4>1 DEF BufferError, Sending
    <3>. QED BY <2>1, <3>1, <1>q, QuietKeepsSessions
  <2>3. CASE ~(sending.try + 1 < MaxRetries)
    <3>1. Return
      BY <1>6, <2>3 DEF BufferError
    <3>. QED BY <2>1, <3>1, <1>q, ReturnKeepsSessions
  <2>. QED BY <2>2, <2>3
<1>7. ASSUME SendRaises
      PROVE  OrderInv' /\ SessionInv'
  <2>1. /\ sending # NoSend /\ made' = made /\ UNCHANGED <<queue, topic, sessions>>
    BY <1>7 DEF SendRaises
  <2>2. \/ sending' = NoSend
        \/ sending'.origin = sending.origin /\ sending'.ev = sending.ev
    <3>1. sending \in Sending
      BY <2>1 DEF TypeOK
    <3>. QED BY <1>7, <3>1 DEF SendRaises, Sending
  <2>. QED BY <2>1, <2>2, <1>q, QuietKeepsSessions
<1>8. ASSUME Deliver \/ DeliveryFails
      PROVE  OrderInv' /\ SessionInv'
  <2>1. /\ queue # <<>> /\ queue' = Tail(queue)
        /\ topic' \in {topic, Delivered(Head(queue))}
        /\ made' = made /\ UNCHANGED <<sending, sessions>>
    BY <1>8 DEF Deliver, DeliveryFails
  <2>2. OrderInv'
    BY <2>1, DeliveryKeepsOrder
  <2>3. SessionInv'
    BY <2>1, OutDelivers, QuietKeepsSessions
  <2>. QED BY <2>2, <2>3
<1>9. ASSUME Flush \/ Stop
      PROVE  OrderInv' /\ SessionInv'
  <2>1. made' = made /\ UNCHANGED <<queue, topic, sending, sessions>>
    BY <1>9, Zenon DEF Flush, Stop
  <2>. QED BY <2>1, <1>q, QuietKeepsSessions
<1>10. ASSUME Halt
       PROVE  OrderInv' /\ SessionInv'
  <2>1. /\ queue' = <<>> /\ topic' = topic /\ made' = made
        /\ sending' = NoSend /\ sessions' = [u \in Users |-> NoSession]
    BY <1>10, Zenon DEF Halt
  <2>2. DOMAIN queue' = {}
    BY <2>1
  <2>3. OrderInv'
    BY <2>1, <2>2 DEF OrderInv, TopicOrdered, QueueOrdered, TopicBeforeQueue
  <2>4. \A u \in Users : Out(u)' \subseteq Out(u)
    BY <2>1, <2>2 DEF Out
  <2>5. SessionInv'
    BY <2>1, <2>4, QuietKeepsSessions
  <2>. QED BY <2>3, <2>5
<1>11. ASSUME UNCHANGED vars
       PROVE  OrderInv' /\ SessionInv'
  <2>1. made' = made /\ UNCHANGED <<queue, topic, sending, sessions>>
    BY <1>11 DEF vars
  <2>. QED BY <2>1, <1>q, QuietKeepsSessions
<1>. QED
  BY <1>1, <1>2, <1>3, <1>4, <1>5, <1>6, <1>7, <1>8, <1>9, <1>10, <1>11,
     Zenon DEF Next, GenerateFor, Send

(* The events of a user are in the topic in the order they were made, each  *)
(* once, and its sessions one after another, through retries, dropped       *)
(* events and restarts.                                                     *)
THEOREM TopicInOrder == Spec => []SessionsInOrder
<1>1. OrderInv => SessionsInOrder
  BY DEF OrderInv, TopicOrdered, SessionsInOrder, Earlier
<1>. QED
  BY <1>1, TypeCorrect, OrderInitially, OrderPreserved, PTL DEF Spec
-----------------------------------------------------------------------------
(* The protocol of a session.                                               *)

(* d is the last event of its session among the events S, and d comes       *)
(* right before e among them.                                               *)
LastOf(d, S) == d \in S /\ \A f \in S : f.session = d.session => f.n <= d.n

Precedes(d, e, S) ==
    /\ d \in S /\ d.session = e.session /\ d.n < e.n
    /\ e.type \in MayFollow[d.type]
    /\ \A f \in S : f.session = e.session => f.n <= d.n \/ e.n <= f.n

(* e begins its session, or the protocol lets it follow the event before.   *)
Placed(e, S) ==
    \/ /\ e.type = "VIEW_STARTED"
       /\ \A f \in S : f.session = e.session => e.n <= f.n
    \/ \E d \in S : Precedes(d, e, S)

HasBegun(id) == \E s \in accepted : s.type = "VIEW_STARTED" /\ s.session = id

(* Whole, with the events librdkafka was given in one set.                  *)
Intact(id) ==
    /\ \A e \in lost : e.session # id
    /\ \A e \in accepted : e.session = id => e \in Out(e.user)

StepUnderWay(u) ==
    sending # NoSend /\ sending.origin = "step" /\ sending.ev.user = u

(* The event in send is new, and what its session says it is.               *)
Fresh ==
    /\ \A e \in accepted : e.n <= made
    /\ sending # NoSend => \A e \in accepted : e.n < sending.ev.n

NewSession ==
    sending # NoSend /\ sending.origin \in {"start", "other"} =>
        \A u \in Users : /\ sessions[u].id < sending.ev.session
                         /\ \A e \in Out(u) : e.session < sending.ev.session

OldSession ==
    sending # NoSend /\ sending.origin \in {"step", "finish"} =>
        LET s == sessions[sending.ev.user]
        IN /\ s # NoSession /\ sending.ev.session = s.id
           /\ sending.origin = "step" =>
                sending.ev.type = IF s.state = "playing" THEN "VIEW_RESUMED"
                                  ELSE "VIEW_PAUSED"
           /\ sending.origin = "finish" => s.steps = 0

(* A session that goes on has begun.                                        *)
Begun ==
    \A u \in Users :
        /\ sessions[u] # NoSession => HasBegun(sessions[u].id)
        /\ \A e \in Out(u) : OfSession(e) => HasBegun(e.session)

(* The last event of an intact session is the one its state tells of.       *)
LastPlaying(u) ==
    IF StepUnderWay(u) THEN sessions[u].state # "playing"
    ELSE sessions[u].state = "playing"

Tells(d, u) ==
    /\ d.type \in IF LastPlaying(u) THEN {"VIEW_STARTED", "VIEW_RESUMED"}
                  ELSE {"VIEW_PAUSED"}
    /\ d.type = "VIEW_STARTED" => sessions[u].steps > 0 \/ StepUnderWay(u)

StateTold ==
    \A u \in Users : sessions[u] # NoSession /\ Intact(sessions[u].id) =>
        \E d \in Out(u) : /\ d.session = sessions[u].id /\ LastOf(d, Out(u))
                          /\ Tells(d, u)

AllPlaced ==
    \A u \in Users : \A e \in Out(u) :
        OfSession(e) /\ Intact(e.session) => Placed(e, Out(u))

ProtocolInv ==
    Fresh /\ NewSession /\ OldSession /\ Begun /\ StateTold /\ AllPlaced

(* Facts about sets of events.                                              *)
LEMMA PlacedKept ==
    ASSUME NEW S, NEW T, NEW e, Placed(e, S),
           \A f \in S : f.session = e.session => f \in T,
           \A f \in T : f.session = e.session => f \in S \/ e.n <= f.n
    PROVE  Placed(e, T)
BY DEF Placed, Precedes

LEMMA LastKept ==
    ASSUME NEW S, NEW T, NEW d, LastOf(d, S),
           \A f \in S : f.session = d.session => f \in T,
           \A f \in T : f.session = d.session => f \in S
    PROVE  LastOf(d, T)
BY DEF LastOf

LEMMA StateToldLater ==
    ASSUME \A v \in Users : \A x :
              sessions'[v] # NoSession /\ x = sessions'[v].id /\ Intact(x)' =>
                 \E d \in Out(v)' : /\ d.session = x
                                    /\ LastOf(d, Out(v)') /\ Tells(d, v)'
    PROVE  StateTold'
BY DEF StateTold, Intact, LastOf, Tells, LastPlaying, StepUnderWay, Out

LEMMA ProtocolInitially == Init => ProtocolInv
<1>. SUFFICES ASSUME Init PROVE ProtocolInv
  OBVIOUS
<1>1. \A u \in Users : Out(u) = {}
  <2>1. DOMAIN <<>> = {}
    OBVIOUS
  <2>. QED BY <2>1 DEF Init, Out
<1>2. sending = NoSend /\ accepted = {} /\ \A u \in Users : sessions[u] = NoSession
  BY DEF Init
<1>. QED
  BY <1>1, <1>2 DEF ProtocolInv, Fresh, NewSession, OldSession, Begun, StateTold,
     AllPlaced

(* A new event is made.                                                     *)
LEMMA CallKeepsProtocol ==
    ASSUME TypeOK, SessionInv, ProtocolInv, NEW u \in Users, NEW id \in Nat,
           NEW type, NEW origin, Call(u, id, type, origin),
           \A v \in Users : /\ sessions'[v].id = sessions[v].id
                            /\ sessions'[v] # NoSession <=> sessions[v] # NoSession
                            /\ v # u => sessions'[v] = sessions[v],
           \/ origin \in {"start", "other"} /\ id = made + 1
           \/ origin \in {"step", "finish"} /\ id = sessions[u].id
                /\ sessions[u] # NoSession,
           origin # "step" => sessions' = sessions,
           origin = "step" =>
             /\ type = (IF sessions'[u].state = "playing" THEN "VIEW_RESUMED"
                        ELSE "VIEW_PAUSED")
             /\ sessions'[u].state = "playing" <=> sessions[u].state # "playing",
           origin = "finish" => sessions[u].steps = 0
    PROVE  ProtocolInv'
<1>1. /\ sending = NoSend /\ made \in Nat /\ made' = made + 1
      /\ UNCHANGED <<queue, topic, accepted, lost>>
  BY DEF TypeOK, Call
<1>2. /\ sending' # NoSend
      /\ sending'.origin = origin /\ sending'.ev.user = u
      /\ sending'.ev.session = id /\ sending'.ev.type = type
      /\ sending'.ev.n = made + 1
  <2>1. sending' = [origin |-> origin, try |-> 0,
                    ev |-> [user |-> u, session |-> id, type |-> type,
                            n |-> made + 1]]
    BY DEF Call
  <2>2. DOMAIN sending' = {"origin", "try", "ev"} /\ DOMAIN NoSend = {"origin"}
    BY <2>1 DEF NoSend
  <2>. QED BY <2>1, <2>2
<1>3. \A v : Out(v)' = Out(v)
  BY <1>1 DEF Out
<1>4. \A v \in Users : \A e \in Out(v) : e.session \in Nat /\ e.session <= made
  BY OutTypes DEF SessionInv, Numbered, Event
<1>5. \A v \in Users : sessions[v].id \in Nat /\ sessions[v].id <= made
  BY DEF TypeOK, SessionInv, Numbered
<1>6. \A e \in accepted : e.n \in Nat /\ e.n <= made
  BY DEF TypeOK, ProtocolInv, Fresh, Event
<1>7. Fresh'
  <2>1. \A e \in accepted : e.n <= made + 1 /\ e.n < made + 1
    BY <1>1, <1>6
  <2>. QED BY <1>1, <1>2, <2>1 DEF Fresh
<1>8. NewSession'
  <2>1. ASSUME origin \in {"start", "other"}, NEW v \in Users
        PROVE  sessions'[v].id < id /\ \A e \in Out(v)' : e.session < id
    BY <1>1, <1>3, <1>4, <1>5, <2>1
  <2>. QED BY <1>2, <2>1 DEF NewSession
<1>9. OldSession'
  BY <1>2 DEF OldSession
<1>10. \A x : HasBegun(x)' = HasBegun(x)
  BY <1>1 DEF HasBegun
<1>11. \A x : Intact(x)' = Intact(x)
  BY <1>1, <1>3 DEF Intact
<1>12. Begun'
  BY <1>3, <1>10 DEF ProtocolInv, Begun, OfSession
<1>13. AllPlaced'
  BY <1>3, <1>11 DEF ProtocolInv, AllPlaced, OfSession
<1>14. StateTold'
  <2>. SUFFICES ASSUME NEW v \in Users, sessions'[v] # NoSession,
                       NEW x, x = sessions'[v].id, Intact(x)'
                PROVE  \E d \in Out(v)' : /\ d.session = x
                                          /\ LastOf(d, Out(v)') /\ Tells(d, v)'
    BY StateToldLater
  <2>1. sessions[v] # NoSession /\ Intact(sessions[v].id)
    BY <1>11
  <2>2. PICK d \in Out(v) : /\ d.session = sessions[v].id /\ LastOf(d, Out(v))
                            /\ Tells(d, v)
    BY <2>1 DEF ProtocolInv, StateTold
  <2>3. ~StepUnderWay(v) /\ (StepUnderWay(v)' <=> origin = "step" /\ v = u)
    BY <1>1, <1>2 DEF StepUnderWay
  <2>4. Tells(d, v)'
    <3>1. CASE origin = "step" /\ v = u
      BY <2>2, <2>3, <3>1 DEF Tells, LastPlaying
    <3>2. CASE ~(origin = "step" /\ v = u)
      <4>1. sessions'[v] = sessions[v]
        BY <3>2
      <4>. QED BY <2>2, <2>3, <3>2, <4>1 DEF Tells, LastPlaying
    <3>. QED BY <3>1, <3>2
  <2>. QED BY <1>3, <2>2, <2>4
<1>. QED BY <1>7, <1>8, <1>9, <1>12, <1>13, <1>14 DEF ProtocolInv
(* send returns: librdkafka took the event, or it was dropped.              *)
LEMMA ReturnKeepsProtocol ==
    ASSUME TypeOK, SessionInv, ProtocolInv, sending # NoSend, Return,
           made' = made, lost' = lost,
           \/ \A u \in Users : Out(u)' = Out(u)
           \/ \A u \in Users : Out(u)' =
                 Out(u) \cup {e \in {sending.ev} : e.user = u}
    PROVE  ProtocolInv'
<1>. PICK v, ev, origin : /\ v = sending.ev.user /\ ev = sending.ev
                          /\ origin = sending.origin
  OBVIOUS
<1>1. /\ sending \in Sending /\ ev \in Event /\ v \in Users /\ ev.user = v
      /\ ev.n \in Nat /\ ev.session \in Nat /\ ev.n <= made
      /\ origin \in {"start", "step", "finish", "other"}
  BY DEF TypeOK, Sending, Event, SessionInv, Numbered
<1>2. /\ sending' = NoSend /\ sessions \in [Users -> Session]
      /\ accepted' = accepted \cup {ev} /\ accepted \subseteq Event
  BY DEF Return, TypeOK, Session
<1>3. /\ \A u \in Users : u # v => sessions'[u] = sessions[u] /\ Out(u)' = Out(u)
      /\ Out(v)' = Out(v) \/ Out(v)' = Out(v) \cup {ev}
      /\ \A u \in Users : Out(u) \subseteq Out(u)'
      /\ \A u \in Users : Out(u)' \subseteq Out(u) \cup {ev}
  <2>1. sessions' \in After(sending)
    BY DEF Return
  <2>2. \A u \in Users : u # v => sessions'[u] = sessions[u]
    BY <1>1, <1>2, <2>1 DEF After
  <2>. QED BY <1>1, <2>2
<1>4. /\ origin = "start" =>
           /\ sessions'[v].id = ev.session /\ sessions'[v].state = "playing"
           /\ sessions'[v].steps > 0
      /\ origin = "finish" => sessions'[v] = NoSession
      /\ origin \in {"step", "other"} => sessions' = sessions
  <2>1. sessions' \in After(sending)
    BY DEF Return
  <2>2. CASE origin = "start"
    <3>1. PICK k \in Steps :
             sessions' = [sessions EXCEPT ![v] =
                 [id |-> ev.session, state |-> "playing", steps |-> k]]
      BY <2>1, <2>2 DEF After
    <3>2. k \in 1 .. 5
      BY ConstantsAssumption DEF ConstantsAssumption
    <3>. QED BY <3>1, <3>2, <2>2, <1>1, <1>2
  <2>3. CASE origin = "finish"
    <3>1. sessions' = [sessions EXCEPT ![v] = NoSession]
      BY <2>1, <2>3 DEF After
    <3>. QED BY <3>1, <2>3, <1>1, <1>2
  <2>4. CASE origin \notin {"start", "finish"}
    BY <2>1, <2>4 DEF After
  <2>. QED BY <2>2, <2>3, <2>4
<1>5. /\ origin = "start" => ev.type = "VIEW_STARTED"
      /\ origin = "other" => ~OfSession(ev)
      /\ origin = "finish" => ev.type = "VIEW_FINISHED"
  BY DEF SessionInv, OriginMatches, OfSession
<1>6. \A e \in Out(v) : /\ e.n \in Nat /\ e.session \in Nat /\ e.n < ev.n
  BY <1>1, OutTypes DEF Event, SessionInv, NextInOrder, Earlier
<1>7. ev \notin accepted
  BY <1>1 DEF ProtocolInv, Fresh
<1>8. origin \in {"start", "other"} =>
        \A u \in Users : /\ sessions[u].id < ev.session
                         /\ \A e \in Out(u) : e.session < ev.session
  BY DEF ProtocolInv, NewSession
<1>9. origin \in {"step", "finish"} =>
        /\ sessions[v] # NoSession /\ ev.session = sessions[v].id
        /\ origin = "step" =>
             ev.type = IF sessions[v].state = "playing" THEN "VIEW_RESUMED"
                       ELSE "VIEW_PAUSED"
        /\ origin = "finish" => sessions[v].steps = 0
  BY DEF ProtocolInv, OldSession
<1>10. ASSUME NEW x, Intact(x)' PROVE Intact(x)
  <2>1. ASSUME NEW e \in accepted, e.session = x PROVE e \in Out(e.user)
    <3>1. e \in Out(e.user)' /\ e.user \in Users /\ e # ev
      BY <1>2, <1>7, <1>10, <2>1 DEF Intact, Event
    <3>. QED BY <1>3, <3>1
  <2>. QED BY <1>10, <2>1 DEF Intact
<1>11. \A u : ~StepUnderWay(u)'
  BY <1>2 DEF StepUnderWay
<1>12. Fresh' /\ NewSession' /\ OldSession'
  BY <1>1, <1>2 DEF ProtocolInv, Fresh, NewSession, OldSession
<1>13. Begun'
  <2>1. \A x : HasBegun(x) => HasBegun(x)'
    BY <1>2 DEF HasBegun
  <2>2. OfSession(ev) => HasBegun(ev.session)'
    <3>1. CASE origin = "start"
      BY <1>2, <1>5, <3>1 DEF HasBegun
    <3>2. CASE origin \in {"step", "finish"}
      <4>1. HasBegun(ev.session)
        BY <1>1, <1>9, <3>2 DEF ProtocolInv, Begun
      <4>. QED BY <2>1, <4>1 DEF HasBegun
    <3>. QED BY <1>1, <1>5, <3>1, <3>2
  <2>3. ASSUME NEW u \in Users, NEW e \in Out(u)', OfSession(e)
        PROVE  HasBegun(e.session)'
    BY <1>3, <2>1, <2>2, <2>3 DEF ProtocolInv, Begun
  <2>4. ASSUME NEW u \in Users, sessions'[u] # NoSession,
               NEW x, x = sessions'[u].id
        PROVE  HasBegun(x)'
    <3>1. CASE u = v /\ origin = "start"
      BY <1>2, <1>4, <1>5, <2>4, <3>1 DEF HasBegun
    <3>2. CASE ~(u = v /\ origin = "start")
      <4>1. sessions'[u] = sessions[u]
        BY <1>1, <1>3, <1>4, <2>4, <3>2
      <4>. QED BY <2>1, <2>4, <4>1 DEF ProtocolInv, Begun
    <3>. QED BY <3>1, <3>2
  <2>. QED BY <2>3, <2>4 DEF Begun, HasBegun, OfSession
<1>14. ASSUME NEW u \in Users, NEW e \in Out(u)', OfSession(e), NEW x,
              x = e.session, Intact(x)'
       PROVE  Placed(e, Out(u)')
  <2>0. Intact(x)
    BY <1>10, <1>14
  <2>1. CASE e \in Out(u)
    <3>1. Placed(e, Out(u))
      BY <1>14, <2>0, <2>1 DEF ProtocolInv, AllPlaced
    <3>2. \A f \in Out(u)' : f \in Out(u) \/ e.n <= f.n
      BY <1>1, <1>3, <1>6, <2>1
    <3>. QED BY <1>3, <3>1, <3>2, PlacedKept
  <2>2. CASE e \notin Out(u)
    <3>1. e = ev /\ u = v /\ Out(v)' = Out(v) \cup {ev}
      BY <1>3, <1>14, <2>2
    <3>2. CASE origin = "start"
      <4>1. \A f \in Out(v)' : f.session = ev.session => ev.n <= f.n
        BY <1>1, <1>6, <1>8, <3>1, <3>2
      <4>. QED BY <1>5, <3>1, <3>2, <4>1 DEF Placed
    <3>3. CASE origin \in {"step", "finish"}
      <4>1. PICK d \in Out(v) : /\ d.session = sessions[v].id
                                /\ LastOf(d, Out(v)) /\ Tells(d, v)
        BY <1>1, <1>9, <1>14, <2>0, <3>1, <3>3 DEF ProtocolInv, StateTold
      <4>2. ev.type \in MayFollow[d.type]
        <5>1. CASE origin = "step"
          <6>1. StepUnderWay(v)
            BY <5>1 DEF StepUnderWay
          <6>. QED BY <1>9, <4>1, <5>1, <6>1 DEF Tells, LastPlaying, MayFollow
        <5>2. CASE origin = "finish"
          <6>1. ~StepUnderWay(v)
            BY <5>2 DEF StepUnderWay
          <6>. QED BY <1>5, <1>9, <4>1, <5>2, <6>1 DEF Tells, LastPlaying, MayFollow
        <5>. QED BY <3>3, <5>1, <5>2
      <4>3. Precedes(d, ev, Out(v)')
        BY <1>1, <1>6, <1>9, <3>1, <3>3, <4>1, <4>2 DEF Precedes, LastOf
      <4>. QED BY <3>1, <4>3 DEF Placed
    <3>4. origin # "other"
      BY <1>5, <1>14, <3>1
    <3>. QED BY <1>1, <3>2, <3>3, <3>4
  <2>. QED BY <2>1, <2>2
<1>15. AllPlaced'
  BY <1>14 DEF AllPlaced, Intact, OfSession
<1>16. ASSUME NEW u \in Users, sessions'[u] # NoSession,
              NEW x, x = sessions'[u].id, Intact(x)'
       PROVE  \E d \in Out(u)' : /\ d.session = x
                                 /\ LastOf(d, Out(u)') /\ Tells(d, u)'
  <2>0. Intact(x)
    BY <1>10, <1>16
  <2>1. CASE u # v \/ origin = "other"
    <3>1. sessions'[u] = sessions[u] /\ ~StepUnderWay(u)
      BY <1>3, <1>4, <2>1 DEF StepUnderWay
    <3>2. PICK d \in Out(u) : /\ d.session = x /\ LastOf(d, Out(u)) /\ Tells(d, u)
      BY <1>16, <2>0, <3>1 DEF ProtocolInv, StateTold
    <3>3. \A f \in Out(u)' : f.session = x => f \in Out(u)
      BY <1>1, <1>3, <1>8, <1>16, <2>1, <3>1, <1>2 DEF Session
    <3>4. LastOf(d, Out(u)')
      BY <1>3, <3>2, <3>3, LastKept
    <3>5. Tells(d, u)'
      BY <1>11, <3>1, <3>2 DEF Tells, LastPlaying
    <3>. QED BY <1>3, <3>2, <3>4, <3>5
  <2>2. CASE u = v /\ origin \in {"start", "step"}
    <3>1. x = ev.session
      BY <1>4, <1>9, <1>16, <2>2
    <3>2. ev \in Out(v)'
      BY <1>1, <1>2, <1>16, <3>1 DEF Intact
    <3>3. LastOf(ev, Out(v)')
      BY <1>1, <1>3, <1>6, <3>2 DEF LastOf
    <3>4. Tells(ev, v)'
      BY <1>4, <1>5, <1>9, <1>11, <2>2 DEF Tells, LastPlaying
    <3>. QED BY <2>2, <3>1, <3>2, <3>3, <3>4
  <2>3. CASE u = v /\ origin = "finish"
    BY <1>4, <1>16, <2>3
  <2>. QED BY <1>1, <2>1, <2>2, <2>3
<1>17. StateTold'
  BY <1>16, StateToldLater
<1>. QED BY <1>12, <1>13, <1>15, <1>17 DEF ProtocolInv

(* Nothing new is given to librdkafka, and what it gives up is lost.        *)
LEMMA QuietKeepsProtocol ==
    ASSUME TypeOK, ProtocolInv, made' = made, accepted' = accepted,
           lost \subseteq lost',
           \A u \in Users : Out(u)' \subseteq Out(u),
           \A u \in Users : \A e \in Out(u) : e \in Out(u)' \/ e \in lost',
           \/ sending' = sending /\ sessions' = sessions
           \/ /\ sending # NoSend /\ sending' # NoSend /\ sessions' = sessions
              /\ sending'.origin = sending.origin /\ sending'.ev = sending.ev
           \/ /\ sending # NoSend /\ sending' = NoSend /\ sessions' = sessions
              /\ sending.ev \in lost'
           \/ sending' = NoSend /\ sessions' = [u \in Users |-> NoSession]
    PROVE  ProtocolInv'
<1>1. \A x : Intact(x)' => Intact(x)
  <2>1. \A e \in accepted : e.user \in Users
    BY DEF TypeOK, Event
  <2>. QED BY <2>1 DEF Intact
<1>2. sending' # NoSend =>
        /\ sending # NoSend /\ sessions' = sessions
        /\ sending'.origin = sending.origin /\ sending'.ev = sending.ev
  OBVIOUS
<1>3. Fresh'
  BY <1>2 DEF ProtocolInv, Fresh
<1>4. NewSession'
  BY <1>2 DEF ProtocolInv, NewSession
<1>5. OldSession'
  <2>. SUFFICES ASSUME sending' # NoSend PROVE OldSession'
    BY DEF OldSession
  <2>. QED BY <1>2 DEF ProtocolInv, OldSession
<1>6. \A x : HasBegun(x)' = HasBegun(x)
  BY DEF HasBegun
<1>7. \A u \in Users : sessions'[u] # NoSession => sessions' = sessions
  OBVIOUS
<1>8. Begun'
  BY <1>6, <1>7 DEF ProtocolInv, Begun, OfSession
<1>9. ASSUME NEW u \in Users, NEW e \in Out(u), NEW x, e.session = x, Intact(x)'
      PROVE  e \in Out(u)'
  BY <1>9 DEF Intact
<1>10. ASSUME NEW u \in Users, NEW e \in Out(u)', OfSession(e), NEW x,
              x = e.session, Intact(x)'
       PROVE  Placed(e, Out(u)')
  <2>1. Placed(e, Out(u))
    BY <1>1, <1>10 DEF ProtocolInv, AllPlaced
  <2>. QED BY <1>9, <1>10, <2>1, PlacedKept
<1>11. AllPlaced'
  BY <1>10 DEF AllPlaced, Intact, OfSession
<1>12. ASSUME NEW u \in Users, sessions'[u] # NoSession,
              NEW x, x = sessions'[u].id, Intact(x)'
       PROVE  \E d \in Out(u)' : /\ d.session = x
                                 /\ LastOf(d, Out(u)') /\ Tells(d, u)'
  <2>1. sessions' = sessions /\ Intact(x)
    BY <1>1, <1>7, <1>12
  <2>2. PICK d \in Out(u) : d.session = x /\ LastOf(d, Out(u)) /\ Tells(d, u)
    BY <1>12, <2>1 DEF ProtocolInv, StateTold
  <2>3. d \in Out(u)' /\ LastOf(d, Out(u)')
    BY <1>9, <1>12, <2>2, LastKept
  <2>4. StepUnderWay(u)' <=> StepUnderWay(u)
    <3>1. CASE sending' = NoSend /\ sending # NoSend /\ sending.ev \in lost'
      <4>1. sending.ev.session # x
        BY <1>12, <3>1 DEF Intact
      <4>2. ~StepUnderWay(u)
        BY <1>12, <2>1, <3>1, <4>1 DEF StepUnderWay, ProtocolInv, OldSession
      <4>. QED BY <3>1, <4>2 DEF StepUnderWay
    <3>2. CASE sending' = sending
      BY <3>2 DEF StepUnderWay
    <3>3. CASE sending' # NoSend
      BY <1>2, <3>3 DEF StepUnderWay
    <3>4. CASE sessions' = [w \in Users |-> NoSession]
      BY <1>12, <3>4
    <3>. QED BY <3>1, <3>2, <3>3, <3>4
  <2>5. Tells(d, u)'
    BY <2>1, <2>2, <2>4 DEF Tells, LastPlaying
  <2>. QED BY <2>2, <2>3, <2>5
<1>13. StateTold'
  BY <1>12, StateToldLater
<1>. QED BY <1>3, <1>4, <1>5, <1>8, <1>11, <1>13 DEF ProtocolInv

(* What a delivery takes out of the queue is in the topic, or was lost.     *)
LEMMA DeliveryKeepsOrLoses ==
    ASSUME TypeOK, queue # <<>>, queue' = Tail(queue),
           \/ topic' = Delivered(Head(queue))
           \/ topic' = topic /\ Head(queue) \in lost'
    PROVE  \A u \in Users : \A e \in Out(u) : e \in Out(u)' \/ e \in lost'
<1>1. /\ Head(queue) \in Event /\ Head(queue) = queue[1]
      /\ Len(queue) \in Nat /\ Len(queue) > 0
      /\ DOMAIN queue = 1 .. Len(queue)
      /\ DOMAIN queue' = 1 .. Len(queue) - 1
      /\ \A i \in DOMAIN queue' : queue'[i] = queue[i + 1]
  BY TailFacts DEF TypeOK
<1>2. topic \in [Users -> Seq(Event)] /\ Head(queue).user \in Users
  BY <1>1 DEF TypeOK, Event
<1>3. ASSUME NEW u \in Users, NEW i \in DOMAIN topic[u]
      PROVE  i \in DOMAIN topic'[u] /\ topic'[u][i] = topic[u][i]
  <2>1. CASE topic'[u] = topic[u]
    BY <1>3, <2>1
  <2>2. CASE topic'[u] # topic[u]
    <3>1. topic'[u] = Append(topic[u], Head(queue))
      BY <2>2, <1>2 DEF Delivered
    <3>. QED BY <3>1, <1>1, <1>2, <1>3, AppendFacts
  <2>. QED BY <2>1, <2>2
<1>4. ASSUME NEW i \in DOMAIN queue
      PROVE  \/ i - 1 \in DOMAIN queue' /\ queue'[i - 1] = queue[i]
             \/ queue[i] = Head(queue)
  <2>1. CASE i = 1
    BY <1>1, <2>1
  <2>2. CASE i # 1
    <3>1. i - 1 \in DOMAIN queue' /\ (i - 1) + 1 = i
      BY <1>1, <1>4, <2>2
    <3>. QED BY <1>1, <3>1
  <2>. QED BY <2>1, <2>2
<1>5. ASSUME topic' = Delivered(Head(queue)), NEW u \in Users, Head(queue).user = u
      PROVE  \E i \in DOMAIN topic'[u] : topic'[u][i] = Head(queue)
  <2>1. topic'[u] = Append(topic[u], Head(queue))
    BY <1>2, <1>5 DEF Delivered
  <2>2. /\ topic[u] \in Seq(Event)
        /\ Len(topic[u]) + 1 \in DOMAIN Append(topic[u], Head(queue))
        /\ Append(topic[u], Head(queue))[Len(topic[u]) + 1] = Head(queue)
    BY <1>1, <1>2, AppendFacts
  <2>. QED BY <2>1, <2>2
<1>. SUFFICES ASSUME NEW u \in Users, NEW e \in Out(u)
              PROVE  e \in Out(u)' \/ e \in lost'
  OBVIOUS
<1>6. CASE \E i \in DOMAIN topic[u] : e = topic[u][i]
  BY <1>3, <1>6 DEF Out
<1>7. CASE \E i \in DOMAIN queue : e = queue[i] /\ queue[i].user = u
  <2>1. PICK i \in DOMAIN queue : e = queue[i] /\ queue[i].user = u
    BY <1>7
  <2>2. CASE i - 1 \in DOMAIN queue' /\ queue'[i - 1] = queue[i]
    BY <2>1, <2>2 DEF Out
  <2>3. CASE queue[i] = Head(queue)
    BY <1>5, <2>1, <2>3 DEF Out
  <2>. QED BY <1>4, <2>2, <2>3
<1>. QED BY <1>6, <1>7 DEF Out

LEMMA ProtocolPreserved ==
    ASSUME TypeOK, TypeOK', SessionInv, ProtocolInv, [Next]_vars
    PROVE  ProtocolInv'
<1>. USE ConstantsAssumption
<1>t. /\ sessions \in [Users -> Session]
      /\ made \in Nat /\ queue \in Seq(Event)
  BY DEF TypeOK, Session
<1>q. ASSUME UNCHANGED <<queue, topic>>
      PROVE  \A u \in Users : Out(u)' = Out(u)
  BY <1>q DEF Out
<1>c. ASSUME NEW u \in Users, sessions' = sessions, NEW origin, NEW type, NEW id \in Nat,
             Call(u, id, type, origin),
             \/ origin \in {"start", "other"} /\ id = made + 1
             \/ /\ origin = "finish" /\ id = sessions[u].id
                /\ sessions[u] # NoSession /\ sessions[u].steps = 0
      PROVE  ProtocolInv'
  <2>1. origin # "step"
    BY <1>c
  <2>. QED BY <1>c, <2>1, CallKeepsProtocol
<1>1. ASSUME NEW u \in Viewers, StartSession(u) PROVE ProtocolInv'
  <2>1. u \in Users /\ made + 1 \in Nat
    BY <1>t DEF ConstantsAssumption
  <2>2. Call(u, made + 1, "VIEW_STARTED", "start") /\ sessions' = sessions
    BY <1>1 DEF StartSession
  <2>. QED BY <2>1, <2>2, <1>c
<1>2. ASSUME NEW u \in Viewers, ContinueSession(u) PROVE ProtocolInv'
  <2> PICK flip, type :
        /\ flip = IF sessions[u].state = "playing" THEN "paused" ELSE "playing"
        /\ type = IF flip = "paused" THEN "VIEW_PAUSED" ELSE "VIEW_RESUMED"
    OBVIOUS
  <2>1. u \in Users /\ sessions[u] \in Session
    BY <1>t DEF ConstantsAssumption
  <2>2. /\ Call(u, sessions[u].id, type, "step") /\ sessions[u] # NoSession
        /\ sessions' = [sessions EXCEPT ![u].steps = @ - 1, ![u].state = flip]
    BY <1>2 DEF ContinueSession
  <2>3. \A v \in Users : sessions'[v] =
           IF v = u THEN [sessions[u] EXCEPT !.steps = @ - 1, !.state = flip]
           ELSE sessions[v]
    BY <2>1, <2>2, <1>t
  <2>4. sessions'[u].id = sessions[u].id /\ sessions'[u].state = flip
    BY <2>1, <2>3 DEF Session
  <2>5. sessions'[u] # NoSession
    BY <2>4 DEF NoSession
  <2>6. /\ type = (IF sessions'[u].state = "playing" THEN "VIEW_RESUMED"
                   ELSE "VIEW_PAUSED")
        /\ sessions'[u].state = "playing" <=> sessions[u].state # "playing"
    BY <2>4
  <2>7. \A v \in Users : /\ sessions'[v].id = sessions[v].id
                         /\ sessions'[v] # NoSession <=> sessions[v] # NoSession
                         /\ v # u => sessions'[v] = sessions[v]
    BY <2>2, <2>3, <2>4, <2>5
  <2>8. sessions[u].id \in Nat
    BY <2>1 DEF Session
  <2>. QED BY <2>1, <2>2, <2>6, <2>7, <2>8, CallKeepsProtocol
<1>3. ASSUME NEW u \in Viewers, FinishSession(u) PROVE ProtocolInv'
  <2>1. u \in Users /\ sessions[u].id \in Nat
    BY <1>t DEF ConstantsAssumption, Session
  <2>2. /\ Call(u, sessions[u].id, "VIEW_FINISHED", "finish") /\ sessions' = sessions
        /\ sessions[u] # NoSession /\ sessions[u].steps = 0
    BY <1>3 DEF FinishSession
  <2>. QED BY <2>1, <2>2, <1>c
<1>4. ASSUME NEW u \in Users, SendOther(u) PROVE ProtocolInv'
  <2>1. made + 1 \in Nat
    BY <1>t
  <2>2. Call(u, made + 1, "OTHER", "other") /\ sessions' = sessions
    BY <1>4 DEF SendOther
  <2>. QED BY <2>1, <2>2, <1>c
<1>5. ASSUME Produce PROVE ProtocolInv'
  <2>1. /\ sending # NoSend /\ Return /\ made' = made /\ lost' = lost /\ topic' = topic
        /\ sending.ev \in Event /\ queue' = Append(queue, sending.ev)
    BY <1>5 DEF Produce, TypeOK, Sending
  <2>2. /\ DOMAIN queue' = 1 .. Len(queue) + 1 /\ DOMAIN queue = 1 .. Len(queue)
        /\ Len(queue) \in Nat /\ queue'[Len(queue) + 1] = sending.ev
        /\ \A i \in DOMAIN queue : queue'[i] = queue[i]
    BY <1>t, <2>1, AppendFacts
  <2>3. \A u \in Users : Out(u) \cup {e \in {sending.ev} : e.user = u} \subseteq Out(u)'
    BY <2>1, <2>2 DEF Out
  <2>4. \A u \in Users : Out(u)' = Out(u) \cup {e \in {sending.ev} : e.user = u}
    BY <1>5, <2>3, OutProduce
  <2>. QED BY <2>1, <2>4, ReturnKeepsProtocol
<1>6. ASSUME BufferError PROVE ProtocolInv'
  <2>1. /\ sending # NoSend /\ sending \in Sending /\ made' = made /\ lost' = lost
        /\ UNCHANGED <<queue, topic>>
    BY <1>6 DEF BufferError, TypeOK
  <2>2. CASE sending.try + 1 < MaxRetries
    <3>1. /\ sessions' = sessions /\ accepted' = accepted /\ sending' # NoSend
          /\ sending'.origin = sending.origin /\ sending'.ev = sending.ev
      <4>1. sending' = [sending EXCEPT !.try = @ + 1]
            /\ UNCHANGED <<sessions, accepted>>
        BY <1>6, <2>2 DEF BufferError
      <4>2. DOMAIN sending' = {"origin", "try", "ev"}
        BY <2>1, <4>1 DEF Sending
      <4>. QED BY <2>1, <4>1, <4>2 DEF Sending, NoSend
    <3>. QED BY <2>1, <3>1, <1>q, QuietKeepsProtocol
  <2>3. CASE ~(sending.try + 1 < MaxRetries)
    <3>1. Return
      BY <1>6, <2>3 DEF BufferError
    <3>. QED BY <2>1, <3>1, <1>q, ReturnKeepsProtocol
  <2>. QED BY <2>2, <2>3
<1>7. ASSUME SendRaises PROVE ProtocolInv'
  <2>1. /\ sending # NoSend /\ sending \in Sending /\ made' = made
        /\ UNCHANGED <<queue, topic, sessions, accepted>>
    BY <1>7 DEF SendRaises, TypeOK
  <2>2. CASE sending.try + 1 < MaxRetries
    <3>1. sending' = [sending EXCEPT !.try = @ + 1] /\ lost' = lost
      BY <1>7, <2>2 DEF SendRaises
    <3>2. DOMAIN sending' = {"origin", "try", "ev"}
      BY <2>1, <3>1 DEF Sending
    <3>3. /\ sending' # NoSend
          /\ sending'.origin = sending.origin /\ sending'.ev = sending.ev
      BY <2>1, <3>1, <3>2 DEF Sending, NoSend
    <3>. QED BY <2>1, <3>1, <3>3, <1>q, QuietKeepsProtocol
  <2>3. CASE ~(sending.try + 1 < MaxRetries)
    <3>1. sending' = NoSend /\ lost' = lost \cup {sending.ev}
      BY <1>7, <2>3 DEF SendRaises
    <3>. QED BY <2>1, <3>1, <1>q, QuietKeepsProtocol
  <2>. QED BY <2>2, <2>3
<1>8. ASSUME Deliver \/ DeliveryFails PROVE ProtocolInv'
  <2>1. /\ queue # <<>> /\ queue' = Tail(queue)
        /\ \/ topic' = Delivered(Head(queue))
           \/ topic' = topic /\ Head(queue) \in lost'
        /\ lost \subseteq lost'
        /\ made' = made /\ UNCHANGED <<sending, sessions, accepted>>
    BY <1>8 DEF Deliver, DeliveryFails
  <2>. QED BY <2>1, OutDelivers, DeliveryKeepsOrLoses, QuietKeepsProtocol
<1>9. ASSUME Flush \/ Stop PROVE ProtocolInv'
  <2>1. UNCHANGED <<made, queue, topic, sending, sessions, accepted, lost>>
    BY <1>9, Zenon DEF Flush, Stop
  <2>. QED BY <2>1, <1>q, QuietKeepsProtocol
<1>10. ASSUME Halt PROVE ProtocolInv'
  <2>1. /\ queue' = <<>> /\ UNCHANGED <<topic, made, accepted>>
        /\ sending' = NoSend /\ sessions' = [u \in Users |-> NoSession]
        /\ lost' = lost \cup Range(queue)
    BY <1>10, Zenon DEF Halt
  <2>2. DOMAIN queue' = {}
    BY <2>1
  <2>3. /\ \A u \in Users : Out(u)' \subseteq Out(u)
        /\ \A u \in Users : \A e \in Out(u) : e \in Out(u)' \/ e \in lost'
    BY <2>1, <2>2 DEF Out, Range
  <2>. QED BY <2>1, <2>3, QuietKeepsProtocol
<1>11. ASSUME UNCHANGED vars PROVE ProtocolInv'
  <2>1. UNCHANGED <<made, queue, topic, sending, sessions, accepted, lost>>
    BY <1>11 DEF vars
  <2>. QED BY <2>1, <1>q, QuietKeepsProtocol
<1>. QED
  BY <1>1, <1>2, <1>3, <1>4, <1>5, <1>6, <1>7, <1>8, <1>9, <1>10, <1>11,
     Zenon DEF Next, GenerateFor, Send

(* In the topic, where events stand in their order, the event before is     *)
(* the one at the position before in the session.                           *)
LEMMA PlacedInTopic ==
    ASSUME TypeOK, OrderInv, NEW u \in Users, NEW i \in DOMAIN topic[u],
           OfSession(topic[u][i]), Placed(topic[u][i], Out(u)),
           NEW before,
           before = {k \in 1 .. i - 1 : topic[u][k].session = topic[u][i].session}
    PROVE  IF before = {} THEN topic[u][i].type = "VIEW_STARTED"
           ELSE topic[u][i].type \in
                  MayFollow[topic[u][CHOOSE k \in before :
                                        \A l \in before : l <= k].type]
<1>. PICK t, e : t = topic[u] /\ e = t[i]
  OBVIOUS
<1>1. /\ t \in Seq(Event) /\ DOMAIN t = 1 .. Len(t) /\ Len(t) \in Nat
      /\ i \in 1 .. Len(t) /\ before \subseteq DOMAIN t
      /\ \A k \in DOMAIN t : t[k] \in Event /\ t[k].n \in Nat /\ t[k] \in Out(u)
  <2>1. t \in Seq(Event) /\ i \in DOMAIN t
    BY DEF TypeOK
  <2>2. DOMAIN t = 1 .. Len(t) /\ Len(t) \in Nat /\ \A k \in DOMAIN t : t[k] \in Event
    BY <2>1
  <2>3. \A k \in 1 .. i - 1 : k \in 1 .. Len(t)
    BY <2>1, <2>2
  <2>4. \A k \in DOMAIN t : t[k].n \in Nat /\ t[k] \in Out(u)
    BY <2>2 DEF Event, Out
  <2>. QED BY <2>1, <2>2, <2>3, <2>4
<1>2. \A k, l \in DOMAIN t : k < l => t[k].n < t[l].n
  BY DEF OrderInv, TopicOrdered, Earlier
<1>3. ASSUME e.type = "VIEW_STARTED",
             \A f \in Out(u) : f.session = e.session => e.n <= f.n
      PROVE  before = {}
  <2>1. \A k \in before : k < i /\ t[k].session = e.session
    BY <1>1
  <2>. QED BY <1>1, <1>2, <1>3, <2>1
<1>4. ASSUME NEW d, Precedes(d, e, Out(u))
      PROVE  before # {} /\ e.type \in
               MayFollow[t[CHOOSE k \in before : \A l \in before : l <= k].type]
  <2>1. PICK j \in DOMAIN t : d = t[j]
    <3>1. CASE \E j \in DOMAIN queue : d = queue[j] /\ queue[j].user = u
      <4>1. e.n < d.n
        BY <3>1 DEF OrderInv, TopicBeforeQueue, Earlier
      <4>2. d \in Event
        BY <1>4, OutTypes DEF Precedes
      <4>3. d.n < e.n /\ d.n \in Nat /\ e.n \in Nat
        BY <1>1, <1>4, <4>2 DEF Precedes, Event
      <4>. QED BY <4>1, <4>3
    <3>. QED BY <1>4, <3>1 DEF Precedes, Out
  <2>2. j < i
    <3>1. ~(i < j) /\ i # j
      BY <1>1, <1>2, <1>4, <2>1 DEF Precedes
    <3>. QED BY <1>1, <2>1, <3>1
  <2>3. j \in before
    BY <1>1, <1>4, <2>1, <2>2 DEF Precedes
  <2>4. \A l \in before : l <= j
    <3>. SUFFICES ASSUME NEW l \in before, j < l PROVE FALSE
      BY <1>1
    <3>1. t[j].n < t[l].n /\ t[l].n < e.n /\ t[l].session = e.session
      BY <1>1, <1>2
    <3>2. t[l] \in Out(u) /\ t[l].n \in Nat /\ t[j].n \in Nat /\ t[i].n \in Nat
      BY <1>1
    <3>3. t[l].n <= t[j].n \/ t[i].n <= t[l].n
      BY <1>4, <2>1, <3>1, <3>2 DEF Precedes
    <3>. QED BY <3>1, <3>2, <3>3
  <2>5. (CHOOSE k \in before : \A l \in before : l <= k) = j
    <3>1. \A k \in before : (\A l \in before : l <= k) => k = j
      BY <1>1, <2>3, <2>4
    <3>. DEFINE last == CHOOSE k \in before : \A l \in before : l <= k
    <3>2. last \in before /\ \A l \in before : l <= last
      BY <2>3, <2>4, Zenon
    <3>. QED BY <3>1, <3>2
  <2>. QED BY <1>4, <2>1, <2>3, <2>5 DEF Precedes
<1>. QED BY <1>3, <1>4 DEF Placed

(* A session whose first event was refused does not go on, and the events   *)
(* of a session of which nothing was lost alternate as the generator made   *)
(* them, through full queues, retries, restarts and a broker that fails.    *)
THEOREM SessionsKeepAlternating == Spec => []SessionsAlternate
<1>1. ASSUME TypeOK, OrderInv, ProtocolInv
      PROVE  SessionsAlternate
  <2>1. ASSUME NEW u \in Users, NEW i \in DOMAIN topic[u],
               OfSession(topic[u][i])
        PROVE  /\ HasBegun(topic[u][i].session)
               /\ Whole(topic[u][i].session) => Placed(topic[u][i], Out(u))
    <3>1. topic[u][i] \in Out(u)
      BY DEF Out
    <3>2. \A id : Whole(id) => Intact(id)
      BY <1>1 DEF Whole, Intact, Out, Range, TypeOK, Event
    <3>. QED BY <1>1, <2>1, <3>1, <3>2 DEF ProtocolInv, Begun, AllPlaced
  <2>2. StartsAccepted
    BY <2>1 DEF StartsAccepted, HasBegun
  <2>3. InOrderOf(MayFollow)
    BY <1>1, <2>1, PlacedInTopic DEF InOrderOf
  <2>. QED BY <2>2, <2>3 DEF SessionsAlternate
<1>. QED
  BY <1>1, TypeCorrect, OrderInitially, OrderPreserved, ProtocolInitially,
     ProtocolPreserved, PTL DEF Spec
=============================================================================
