---------------------------- MODULE EventProducer ----------------------------
(***************************************************************************)
(* The producer of the cinema pipeline (hm5/producer): the generator plays *)
(* viewing sessions of users, clients post events of their own, and        *)
(* KafkaProducer.send hands each event to librdkafka, three times if need  *)
(* be.  The generator and the requests share one event loop and send never *)
(* awaits, so one event is sent at a time; librdkafka's thread works off   *)
(* its queue meanwhile.                                                    *)
(*                                                                         *)
(* Kafka keeps the order of a key within its partition, so the topic is a  *)
(* sequence of events per user.                                            *)
(***************************************************************************)
EXTENDS Integers, Sequences, Functions

CONSTANTS
    Users,          \* whoever an event is about: the key
    Viewers,        \* the users the generator plays
    Steps,          \* values of random.randint(1, 5), the steps of a session
    QueueLimit,     \* queue.buffering.max.messages
    MaxEvents,      \* bound on the events after which nothing new is begun
    MaxFaults       \* bound on exceptions, failed deliveries and restarts

ASSUME ConstantsAssumption ==
    /\ Viewers \subseteq Users
    /\ Steps \subseteq 1 .. 5 /\ Steps # {}
    /\ QueueLimit \in Nat \ {0}
    /\ MaxEvents \in Nat /\ MaxFaults \in Nat

VARIABLES
    sessions,       \* _active_sessions
    sending,        \* the event in send, its attempt, and what sent it
    queue,          \* librdkafka: messages the broker has not acknowledged
    reports,        \* delivery reports poll has not served; they count too
    topic,          \* movie-events, by key
    running,        \* the process is up and not stopping
    made,           \* events made so far
    faults

VARIABLES           \* history variables: they record, no action reads them
    accepted,       \* events whose send returned
    lost            \* events that send refused, the broker did not take, or
                    \* a stop cut off

vars == <<sessions, sending, queue, reports, topic, running, made, faults,
          accepted, lost>>

Types == {"VIEW_STARTED", "VIEW_PAUSED", "VIEW_RESUMED", "VIEW_FINISHED",
          "OTHER"}      \* LIKED, SEARCHED, and what clients post
Event == [user : Users, session : Nat, type : Types, n : Nat]

NoSession == [id |-> 0, state |-> "none", steps |-> 0]
NoSend == [origin |-> "nobody"]
MaxRetries == 3

Init ==
    /\ sessions = [u \in Users |-> NoSession]
    /\ sending = NoSend
    /\ queue = <<>>
    /\ reports = 0
    /\ topic = [u \in Users |-> <<>>]
    /\ running = TRUE
    /\ made = 0
    /\ faults = 0
    /\ accepted = {}
    /\ lost = {}

Faulty == faults < MaxFaults /\ faults' = faults + 1
-----------------------------------------------------------------------------
(* The generator's next batch, or a request.                                *)

(* send(event) is called.                                                   *)
Call(u, id, type, origin) ==
    /\ running /\ sending = NoSend
    /\ sending' = [origin |-> origin, try |-> 0,
                   ev |-> [user |-> u, session |-> id, type |-> type,
                           n |-> made + 1]]
    /\ made' = made + 1
    /\ UNCHANGED <<queue, reports, topic, running, faults, accepted, lost>>

(* Mutant: the session is stored before its first event is sent.            *)
MutStartSession(u) ==
    /\ made < MaxEvents
    /\ sessions[u] = NoSession
    /\ Call(u, made + 1, "VIEW_STARTED", "other")
    /\ \E k \in Steps :
          sessions' = [sessions EXCEPT ![u] =
                          [id |-> made + 1, state |-> "playing", steps |-> k]]

StartSession(u) ==
    /\ made < MaxEvents
    /\ sessions[u] = NoSession
    /\ Call(u, made + 1, "VIEW_STARTED", "start")
    /\ UNCHANGED sessions

(* _generate_liked, _generate_searched and POST /events.                    *)
SendOther(u) ==
    /\ made < MaxEvents
    /\ Call(u, made + 1, "OTHER", "other")
    /\ UNCHANGED sessions

(* Mutant: the last step of a session is left out.                          *)
MutContinueSession(u) ==
    LET s == sessions[u]
        flip == IF s.state = "playing" THEN "paused" ELSE "playing"
    IN /\ s # NoSession
       /\ s.steps > 1
       /\ Call(u, s.id, IF flip = "paused" THEN "VIEW_PAUSED"
                        ELSE "VIEW_RESUMED", "step")
       /\ sessions' = [sessions EXCEPT ![u].steps = @ - 1, ![u].state = flip]

(* The session has changed before the event about it is sent.               *)
ContinueSession(u) ==
    LET s == sessions[u]
        flip == IF s.state = "playing" THEN "paused" ELSE "playing"
    IN /\ s # NoSession
       /\ s.steps > 0
       /\ Call(u, s.id, IF flip = "paused" THEN "VIEW_PAUSED"
                        ELSE "VIEW_RESUMED", "step")
       /\ sessions' = [sessions EXCEPT ![u].steps = @ - 1, ![u].state = flip]

(* A session ends in either state; it is deleted when send has returned.    *)
FinishSession(u) ==
    /\ sessions[u] # NoSession
    /\ sessions[u].steps = 0
    /\ Call(u, sessions[u].id, "VIEW_FINISHED", "finish")
    /\ UNCHANGED sessions
-----------------------------------------------------------------------------
(* send.                                                                    *)

(* What the caller of send does with its session when send returns.         *)
After(s) ==
    LET u == s.ev.user
    IN CASE s.origin = "start" ->
              {[sessions EXCEPT ![u] = [id |-> s.ev.session,
                                        state |-> "playing", steps |-> k]]
                 : k \in Steps}
         [] s.origin = "finish" -> {[sessions EXCEPT ![u] = NoSession]}
         [] OTHER -> {sessions}

Return ==
    /\ accepted' = accepted \cup {sending.ev}
    /\ sessions' \in After(sending)
    /\ sending' = NoSend

(* Mutant: the limit is compared one too high.                              *)
MutFull == Len(queue) + reports > QueueLimit

Full == Len(queue) + reports >= QueueLimit

(* produce takes the event, and poll(0) serves the reports there are.       *)
Produce ==
    /\ sending # NoSend /\ ~Full
    /\ queue' = Append(queue, sending.ev)
    /\ reports' = 0
    /\ Return
    /\ UNCHANGED <<topic, running, made, faults, lost>>

(* The queue is full: poll(1) serves the reports, and after the third time  *)
(* the loop ends and send returns all the same.                             *)
BufferError ==
    /\ sending # NoSend /\ Full
    /\ reports' = 0
    /\ IF sending.try + 1 < MaxRetries
       THEN /\ sending' = [sending EXCEPT !.try = @ + 1]
            /\ UNCHANGED <<sessions, accepted>>
       ELSE Return
    /\ UNCHANGED <<queue, topic, running, made, faults, lost>>

(* Serializing or producing fails otherwise; the third time send raises,    *)
(* and its caller changes nothing (the generator goes on, the client gets   *)
(* a 500).                                                                  *)
SendRaises ==
    /\ sending # NoSend
    /\ Faulty
    /\ IF sending.try + 1 < MaxRetries
       THEN sending' = [sending EXCEPT !.try = @ + 1] /\ UNCHANGED lost
       ELSE sending' = NoSend /\ lost' = lost \cup {sending.ev}
    /\ UNCHANGED <<sessions, queue, reports, topic, running, made, accepted>>
-----------------------------------------------------------------------------
(* librdkafka's thread and the broker: acks=all, idempotence.               *)

Delivered(e) == [topic EXCEPT ![e.user] = Append(@, e)]

(* Mutant: no idempotence; a batch that is retried overtakes.               *)
MutDeliver ==
    /\ queue # <<>>
    /\ \E i \in DOMAIN queue :
          /\ topic' = Delivered(queue[i])
          /\ queue' = [j \in 1 .. Len(queue) - 1 |->
                          IF j < i THEN queue[j] ELSE queue[j + 1]]
    /\ reports' = reports + 1
    /\ UNCHANGED <<sessions, sending, running, made, faults, accepted, lost>>

Deliver ==
    /\ queue # <<>>
    /\ topic' = Delivered(Head(queue))
    /\ queue' = Tail(queue)
    /\ reports' = reports + 1
    /\ UNCHANGED <<sessions, sending, running, made, faults, accepted, lost>>

(* A delivery times out; _delivery_callback only logs it.                   *)
DeliveryFails ==
    /\ queue # <<>>
    /\ Faulty
    /\ \/ topic' = Delivered(Head(queue)) /\ UNCHANGED lost
       \/ lost' = lost \cup {Head(queue)} /\ UNCHANGED topic
    /\ queue' = Tail(queue)
    /\ reports' = reports + 1
    /\ UNCHANGED <<sessions, sending, running, made, accepted>>

(* POST /flush; it may return before the queue is empty.                    *)
Flush ==
    /\ running /\ sending = NoSend
    /\ reports' = 0
    /\ UNCHANGED <<sessions, sending, queue, topic, running, made, faults,
                   accepted, lost>>
-----------------------------------------------------------------------------
(* SIGTERM: no batch or request is under way; what flush does not get out   *)
(* within its timeout is lost (Halt).                                       *)
Stop ==
    /\ running /\ sending = NoSend
    /\ Faulty
    /\ running' = FALSE
    /\ UNCHANGED <<sessions, sending, queue, reports, topic, made, accepted,
                   lost>>

(* The process ends: after its last flush, or killed at any point.          *)
Halt ==
    /\ running => Faulty
    /\ ~running => UNCHANGED faults
    /\ lost' = lost \cup Range(queue)
    /\ queue' = <<>>
    /\ reports' = 0
    /\ sending' = NoSend
    /\ sessions' = [u \in Users |-> NoSession]
    /\ running' = TRUE          \* restart: unless-stopped
    /\ UNCHANGED <<topic, made, accepted>>
-----------------------------------------------------------------------------
GenerateFor(u) == StartSession(u) \/ ContinueSession(u) \/ FinishSession(u)

Send == Produce \/ BufferError

Next ==
    \/ \E u \in Viewers : GenerateFor(u)
    \/ \E u \in Users : SendOther(u)
    \/ Send \/ SendRaises
    \/ Deliver \/ DeliveryFails
    \/ Flush \/ Stop \/ Halt

Spec == Init /\ [][Next]_vars

(* send is a loop, the generator goes on while the process does and picks   *)
(* each user again and again, also while clients post, and librdkafka works *)
(* off its queue.                                                           *)
FairSpec ==
    /\ Spec
    /\ WF_vars(Send) /\ WF_vars(Deliver) /\ WF_vars(~running /\ Halt)
    /\ \A u \in Viewers : SF_vars(GenerateFor(u))
-----------------------------------------------------------------------------
Sending == [origin : {"start", "step", "finish", "other"},
            try : 0 .. MaxRetries - 1, ev : Event]

(* Every variable keeps its type, and the queue its limit.                  *)
TypeOK ==
    /\ sessions \in [Users -> [id : Nat, state : {"none", "playing", "paused"},
                               steps : 0 .. 5]]
    /\ sending \in Sending \cup {NoSend}
    /\ queue \in Seq(Event)
    /\ reports \in Nat
    /\ Len(queue) + reports <= QueueLimit
    /\ topic \in [Users -> Seq(Event)]
    /\ running \in BOOLEAN
    /\ made \in Nat /\ faults \in Nat
    /\ accepted \subseteq Event /\ lost \subseteq Event

OfSession(e) == e.type # "OTHER"

(* The events of a user are in the topic in the order they were made, each  *)
(* once, with the sessions one after another and VIEW_STARTED always before *)
(* VIEW_FINISHED (README 16-18), whatever is retried, dropped or cut off  *)
(* by a restart.                                                            *)
SessionsInOrder ==
    \A u \in Users : \A i, j \in DOMAIN topic[u] : i < j =>
        LET a == topic[u][i]
            b == topic[u][j]
        IN /\ a.n < b.n
           /\ OfSession(a) /\ OfSession(b) =>
                /\ a.session <= b.session
                /\ a.session = b.session =>
                     a.type # "VIEW_FINISHED" /\ b.type # "VIEW_STARTED"

(* What _continue_session may send right after what it sent before (lines   *)
(* 108-136): a session may end in either state.                             *)
MayFollow == [VIEW_STARTED  |-> {"VIEW_PAUSED"},
              VIEW_PAUSED   |-> {"VIEW_RESUMED", "VIEW_FINISHED"},
              VIEW_RESUMED  |-> {"VIEW_PAUSED", "VIEW_FINISHED"},
              VIEW_FINISHED |-> {}]

Whole(id) ==
    /\ \A e \in lost : e.session # id
    /\ \A e \in accepted : e.session = id =>
          e \in Range(queue) \cup Range(topic[e.user])

StartsAccepted ==
    \A u \in Users : \A i \in DOMAIN topic[u] :
        OfSession(topic[u][i]) =>
            \E s \in accepted : /\ s.type = "VIEW_STARTED"
                                /\ s.session = topic[u][i].session

(* In a session of which no event was lost, every event in the topic is one *)
(* that next admits after the event of the session before it.               *)
InOrderOf(next) ==
    \A u \in Users : \A i \in DOMAIN topic[u] :
        LET e == topic[u][i]
            before == {k \in 1 .. i - 1 : topic[u][k].session = e.session}
            prev == CHOOSE k \in before : \A l \in before : l <= k
        IN OfSession(e) /\ Whole(e.session) =>
              IF before = {} THEN e.type = "VIEW_STARTED"
              ELSE e.type \in next[topic[u][prev].type]

(* A session whose first event send refused does not go on (generator.py    *)
(* 96-98); and in one of which no event was lost, pauses and resumptions    *)
(* alternate between VIEW_STARTED and one VIEW_FINISHED, although sending   *)
(* is tried again, refused and cut off around them and the session changes  *)
(* before its event is sent (line 130).  This is less than the protocol the *)
(* generator announces: SessionsFollowProtocol below.                       *)
SessionsAlternate == StartsAccepted /\ InOrderOf(MayFollow)

(* A session that was begun is finished, or the process is restarted.       *)
SessionsEnd == \A u \in Users : []<>(sessions[u] = NoSession)
-----------------------------------------------------------------------------
(* What the documents say and the code does not do.                         *)

(* The docstring of EventGenerator (generator.py 13-17): each session       *)
(* follows VIEW_STARTED -> (VIEW_PAUSED -> VIEW_RESUMED)* -> VIEW_FINISHED. *)
Announced == [VIEW_STARTED  |-> {"VIEW_PAUSED", "VIEW_FINISHED"},
              VIEW_PAUSED   |-> {"VIEW_RESUMED"},
              VIEW_RESUMED  |-> {"VIEW_PAUSED", "VIEW_FINISHED"},
              VIEW_FINISHED |-> {}]

(* The sessions of the topic, those of which an event was lost excepted,    *)
(* follow that protocol.                                                    *)
SessionsFollowProtocol == InOrderOf(Announced)

(* README 26 (acks=all and idempotence, "guaranteed delivery"): an event   *)
(* that was accepted is delivered or still on its way, as long as the       *)
(* broker takes what it gets and the process lives.                         *)
AcceptedIsKept ==
    \A e \in accepted : e \in Range(queue) \cup Range(topic[e.user]) \cup lost
=============================================================================
