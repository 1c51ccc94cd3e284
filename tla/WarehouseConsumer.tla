-------------------------- MODULE WarehouseConsumer --------------------------
(***************************************************************************)
(* The warehouse state consumer (hm6/consumer/main.py): it polls           *)
(* warehouse-events, runs the handler of each event, marks the event as    *)
(* processed with a lightweight transaction, executes the handler's        *)
(* statements as a LOGGED BATCH and commits the offset; what it cannot use *)
(* goes to the dead letter queue.  Reads, marks, batches and commits fail; *)
(* the process crashes, stops and starts again; the group rebalances.      *)
(*                                                                         *)
(* A batch that was logged is applied row by row, by its coordinator or    *)
(* from the batchlog, also after the client gave up on it; the newest      *)
(* write time wins in every row.                                           *)
(***************************************************************************)
EXTENDS WarehouseHandlers, FiniteSets, Functions

CONSTANTS
    Partitions,
    Logs,              \* the contents the topic may have
    MaxInfraErrors,    \* bound on failing Cassandra calls and lost DLQ sends
    MaxRestarts        \* bound on crashes, stops and rebalances

(* A message that cannot be deserialized, has no event_id or names no       *)
(* handler.                                                                 *)
Unusable == [type |-> "UNUSABLE"]

ASSUME LogsAssumption ==
    Logs \subseteq [Partitions -> Seq(Messages \cup {Unusable})]

ASSUME BoundsAssumption == MaxInfraErrors \in Nat /\ MaxRestarts \in Nat

Mirrors == {"inventory_by_product", "inventory_by_zone"}
Primary == "inventory_by_product_zone"

(* The rows and columns a batch can write; one element of a batch's left is *)
(* one mutation.                                                            *)
InventoryRow == ({Primary} \cup Mirrors) \X Cell
OrderRow == {"orders"} \X OrderIds
OrderColumn == {"status", "items"} \X OrderIds

StoredRow == [available: Nat, reserved: Nat, ts: Nat]

IsBatch(b) ==
    /\ b = [wt |-> b.wt, rows |-> b.rows, order |-> b.order, put |-> b.put,
            left |-> b.left]
    /\ b.wt \in Nat
    /\ DOMAIN b.rows \subseteq Cell
    /\ b.rows \in [DOMAIN b.rows -> StoredRow]
    /\ b.order \in OrderIds
    /\ b.put \in Order
    /\ b.left \subseteq (({Primary} \cup Mirrors) \X DOMAIN b.rows)
                       \cup {<<"orders", b.order>>}

VARIABLES
    log,         \* the topic: a sequence of messages per partition
    position,    \* next offset poll returns, in the memory of the consumer
    committed,   \* committed offset of the group
    running,     \* the process is up
    src,         \* partition and offset of the message being handled
    processed,   \* ids in processed_events
    mirrors,     \* inventory_by_product and inventory_by_zone
    written,     \* write time of each inventory row and order column
    batches,     \* batches of the batchlog, with what is left to apply
    dlqBuffer,   \* DLQ messages in the memory of the DLQ producer
    dlq,         \* DLQ messages the broker has
    infraErrors, restarts

VARIABLES        \* history variables: they record, no action reads them
    journal,     \* event ids in the order their batches were logged
    concluded,   \* offsets whose handling reached its commit
    abandoned,   \* offsets whose handling ended in an infrastructure error
    rejected     \* offsets handed to the DLQ producer

kafkaVars   == <<log, position, committed, running, src>>
storeVars   == <<zones, orders, mirrors, written, batches>>
dlqVars     == <<dlqBuffer, dlq>>
boundVars   == <<infraErrors, restarts>>
historyVars == <<journal, concluded, abandoned, rejected>>

vars == <<handlerVars, kafkaVars, processed, storeVars, dlqVars, boundVars,
          historyVars>>

NoSource == <<>>

Init ==
    /\ log \in Logs
    /\ position = [p \in Partitions |-> 0]
    /\ committed = [p \in Partitions |-> 0]
    /\ running = TRUE
    /\ src = NoSource
    /\ ev = NoEvent
    /\ phase = "idle"
    /\ seen = NoRows
    /\ lines = <<>>
    /\ processed = {}
    /\ zones = [c \in Cell |-> EmptyZone]
    /\ orders = [o \in OrderIds |-> NoOrder]
    /\ mirrors = [t \in Mirrors |-> [c \in Cell |-> EmptyZone]]
    /\ written = [t \in InventoryRow \cup OrderColumn |-> 0]
    /\ batches = {}
    /\ dlqBuffer = {}
    /\ dlq = {}
    /\ infraErrors = 0
    /\ restarts = 0
    /\ journal = <<>>
    /\ concluded = {}
    /\ abandoned = {}
    /\ rejected = {}
-----------------------------------------------------------------------------
(* The consume loop up to the handler's verdict.                            *)

(* Mutant: the client commits by itself what it has polled.                 *)
MutPollAutoCommits(p) ==
    /\ running /\ phase = "idle"
    /\ position[p] < Len(log[p])
    /\ LET m == log[p][position[p] + 1]
       IN /\ ev' = m
          /\ phase' = IF m = Unusable THEN "unusable" ELSE "handling"
    /\ src' = <<p, position[p]>>
    /\ position' = [position EXCEPT ![p] = @ + 1]
    /\ committed' = position'
    /\ UNCHANGED <<seen, lines, log, running, processed, storeVars, dlqVars,
                   boundVars, historyVars>>

(* poll returns the next message of a partition; the position moves on.     *)
Poll(p) ==
    /\ running /\ phase = "idle"
    /\ position[p] < Len(log[p])
    /\ LET m == log[p][position[p] + 1]
       IN /\ ev' = m
          /\ phase' = IF m = Unusable THEN "unusable" ELSE "handling"
    /\ src' = <<p, position[p]>>
    /\ position' = [position EXCEPT ![p] = @ + 1]
    /\ UNCHANGED <<seen, lines, log, committed, running, processed, storeVars,
                   dlqVars, boundVars, historyVars>>

Handle ==
    /\ HandlerStep
    /\ UNCHANGED <<kafkaVars, processed, storeVars, dlqVars, boundVars,
                   historyVars>>

(* The schema registry does not answer: deserialize raises, and a good      *)
(* message goes the way of one that cannot be deserialized.                 *)
RegistryFails ==
    /\ phase = "handling"
    /\ infraErrors < MaxInfraErrors
    /\ infraErrors' = infraErrors + 1
    /\ phase' = "unusable"
    /\ UNCHANGED <<ev, seen, lines, kafkaVars, processed, storeVars, dlqVars,
                   restarts, historyVars>>

(* Everything local to the handling of one message is gone.                 *)
Forget ==
    /\ phase' = "idle"
    /\ ev' = NoEvent
    /\ src' = NoSource
    /\ seen' = NoRows
    /\ lines' = <<>>

(* main.py 391-402: an error that is neither ValidationError nor            *)
(* HandlerError is logged; the offset is not committed, and the position    *)
(* stays behind the message.                                                *)
InfraError ==
    /\ infraErrors < MaxInfraErrors
    /\ infraErrors' = infraErrors + 1
    /\ abandoned' = abandoned \cup {src}
    /\ Forget
    /\ UNCHANGED <<log, position, committed, running, dlqVars, restarts,
                   concluded, rejected>>

(* The handler's next step queries Cassandra.                               *)
ReadsTable ==
    \/ /\ phase = "handling"
       /\ \/ ev.type = "ORDER_COMPLETED"
          \/ /\ ev.type \notin {"ORDER_CREATED", "ORDER_COMPLETED"}
             /\ ev.qty >= 0
             /\ ev.type = "PRODUCT_MOVED" => ev.cell # ev.to
    \/ /\ phase = "lines" /\ lines # <<>>
       /\ Head(lines).qty >= 0
       /\ Head(lines).cell \notin DOMAIN seen

ReadFails ==
    /\ ReadsTable
    /\ InfraError
    /\ UNCHANGED <<processed, storeVars, journal>>
-----------------------------------------------------------------------------
(* Mark, batch, commit.                                                     *)

(* Mutant: the answer of the transaction is not looked at.                  *)
MutMarkIgnoresAnswer ==
    /\ phase = "ops"
    /\ phase' = "batch"
    /\ processed' = processed \cup {ev.id}
    /\ UNCHANGED <<ev, seen, lines, kafkaVars, storeVars, dlqVars, boundVars,
                   historyVars>>

(* INSERT ... IF NOT EXISTS: a new id is marked, a known one is a duplicate *)
(* whose offset is committed.                                               *)
Mark ==
    /\ phase = "ops"
    /\ phase' = IF ev.id \in processed THEN "commit" ELSE "batch"
    /\ processed' = processed \cup {ev.id}
    /\ UNCHANGED <<ev, seen, lines, kafkaVars, storeVars, dlqVars, boundVars,
                   historyVars>>

(* The transaction raises, whether or not it took effect.                   *)
MarkFails ==
    /\ phase = "ops"
    /\ processed' \in {processed, processed \cup {ev.id}}
    /\ InfraError
    /\ UNCHANGED <<storeVars, journal>>

(* Mutant: one of the denormalised tables is forgotten.                     *)
MutBatchWithoutZoneTable ==
    [wt    |-> Len(journal) + 1,
     rows  |-> seen,
     order |-> ev.order,
     put   |-> IF CreatesOrder THEN CreatedOrder
               ELSE [status |-> "COMPLETED", items |-> <<>>],
     left  |-> {Primary, "inventory_by_product"} \X DOMAIN seen
                 \cup IF CreatesOrder \/ CompletesOrder
                      THEN {<<"orders", ev.order>>} ELSE {}]

(* The batch of the handler's statements, with the time the client gives    *)
(* it; every row of seen goes to all three inventory tables.                *)
NewBatch ==
    [wt    |-> Len(journal) + 1,
     rows  |-> seen,
     order |-> ev.order,
     put   |-> IF CreatesOrder THEN CreatedOrder
               ELSE [status |-> "COMPLETED", items |-> <<>>],
     left  |-> ({Primary} \cup Mirrors) \X DOMAIN seen
                 \cup IF CreatesOrder \/ CompletesOrder
                      THEN {<<"orders", ev.order>>} ELSE {}]

(* execute_batch: the coordinator has logged the batch.                     *)
ExecuteBatch ==
    /\ phase = "batch"
    /\ phase' = "executing"
    /\ batches' = IF NewBatch.left = {} THEN batches ELSE batches \cup {NewBatch}
    /\ journal' = Append(journal, ev.id)
    /\ UNCHANGED <<ev, seen, lines, kafkaVars, processed, zones, orders, mirrors,
                   written, dlqVars, boundVars, concluded, abandoned, rejected>>

(* The batch fails before it is logged.                                     *)
BatchFails ==
    /\ phase = "batch"
    /\ InfraError
    /\ UNCHANGED <<processed, storeVars, journal>>

(* The client gives up waiting for a batch that was logged.                 *)
BatchTimesOut ==
    /\ phase = "executing"
    /\ InfraError
    /\ UNCHANGED <<processed, storeVars, journal>>

(* Mutant: the consumer does not wait for the batch.                        *)
MutBatchReturnsAtOnce ==
    /\ phase = "executing"
    /\ phase' = "commit"
    /\ UNCHANGED <<ev, seen, lines, kafkaVars, processed, storeVars, dlqVars,
                   boundVars, historyVars>>

(* All mutations of the current batch are acknowledged.                     *)
BatchReturns ==
    /\ phase = "executing"
    /\ \A b \in batches : b.wt # Len(journal)
    /\ phase' = "commit"
    /\ UNCHANGED <<ev, seen, lines, kafkaVars, processed, storeVars, dlqVars,
                   boundVars, historyVars>>

(* Mutant: a rejected message is not skipped but read again.                *)
MutSendToDlqRetries ==
    /\ phase \in {"invalid", "unusable"}
    /\ dlqBuffer' = dlqBuffer \cup {src}
    /\ rejected' = rejected \cup {src}
    /\ position' = [position EXCEPT ![src[1]] = src[2]]
    /\ Forget
    /\ UNCHANGED <<log, committed, running, processed, storeVars, dlq,
                   boundVars, journal, concluded, abandoned>>

(* Mutant: the offset of a rejected message is committed, nothing is sent.  *)
MutSendToDlqDrops ==
    /\ phase \in {"invalid", "unusable"}
    /\ rejected' = rejected \cup {src}
    /\ phase' = "commit"
    /\ UNCHANGED <<ev, seen, lines, kafkaVars, processed, storeVars, dlqVars,
                   boundVars, journal, concluded, abandoned>>

(* dlq.send only puts the message into the producer's buffer.               *)
SendToDlq ==
    /\ phase \in {"invalid", "unusable"}
    /\ dlqBuffer' = dlqBuffer \cup {src}
    /\ rejected' = rejected \cup {src}
    /\ phase' = "commit"
    /\ UNCHANGED <<ev, seen, lines, kafkaVars, processed, storeVars, dlq,
                   boundVars, journal, concluded, abandoned>>

(* Mutant: a stale event is marked as processed before its commit.          *)
MutCommitMarksStale ==
    /\ phase \in {"commit", "stale"}
    /\ \/ committed' = [committed EXCEPT ![src[1]] = src[2] + 1]
       \/ committed' = committed
    /\ concluded' = concluded \cup {src}
    /\ processed' = IF phase = "stale" THEN processed \cup {ev.id} ELSE processed
    /\ Forget
    /\ UNCHANGED <<log, position, running, storeVars, dlqVars, boundVars, journal,
                   abandoned, rejected>>

(* _commit_offset, which swallows a KafkaException.  A stale event gets     *)
(* here from its handler.                                                   *)
Commit ==
    /\ phase \in {"commit", "stale"}
    /\ \/ committed' = [committed EXCEPT ![src[1]] = src[2] + 1]
       \/ committed' = committed
    /\ concluded' = concluded \cup {src}
    /\ Forget
    /\ UNCHANGED <<log, position, running, processed, storeVars, dlqVars,
                   boundVars, journal, abandoned, rejected>>
-----------------------------------------------------------------------------
(* Cassandra: a logged batch is applied, mutation by mutation.              *)

Applied(b, m) ==
    IF b.left = {m} THEN batches \ {b}
    ELSE (batches \ {b}) \cup {[b EXCEPT !.left = @ \ {m}]}

ApplyRow(b, t, c) ==
    /\ <<t, c>> \in b.left
    /\ LET wins == b.wt > written[<<t, c>>]
       IN /\ written' = IF wins THEN [written EXCEPT ![<<t, c>>] = b.wt]
                        ELSE written
          /\ zones' = IF wins /\ t = Primary
                      THEN [zones EXCEPT ![c] = b.rows[c]] ELSE zones
          /\ mirrors' = IF wins /\ t \in Mirrors
                        THEN [mirrors EXCEPT ![t][c] = b.rows[c]] ELSE mirrors
    /\ batches' = Applied(b, <<t, c>>)
    /\ UNCHANGED orders

(* Status and items have write times of their own: update_order_status      *)
(* writes the status only.                                                  *)
ApplyOrder(b) ==
    /\ <<"orders", b.order>> \in b.left
    /\ LET o == b.order
           status == b.wt > written[<<"status", o>>]
           items == b.put.status = "CREATED" /\ b.wt > written[<<"items", o>>]
       IN /\ orders' = [orders EXCEPT ![o] =
                [status |-> IF status THEN b.put.status ELSE @.status,
                 items  |-> IF items THEN b.put.items ELSE @.items]]
          /\ written' = [written EXCEPT
                ![<<"status", o>>] = IF status THEN b.wt ELSE @,
                ![<<"items", o>>] = IF items THEN b.wt ELSE @]
    /\ batches' = Applied(b, <<"orders", b.order>>)
    /\ UNCHANGED <<zones, mirrors>>

ApplyMutation ==
    /\ \E b \in batches :
          \/ \E t \in {Primary} \cup Mirrors, c \in Cell : ApplyRow(b, t, c)
          \/ ApplyOrder(b)
    /\ UNCHANGED <<handlerVars, kafkaVars, processed, dlqVars, boundVars,
                   historyVars>>
-----------------------------------------------------------------------------
(* The DLQ producer's background thread.                                    *)

DlqDelivers ==
    /\ running
    /\ \E d \in dlqBuffer :
          /\ dlq' = dlq \cup {d}
          /\ dlqBuffer' = dlqBuffer \ {d}
    /\ UNCHANGED <<handlerVars, kafkaVars, processed, storeVars, boundVars,
                   historyVars>>

(* A message the broker does not take in time is dropped; no delivery       *)
(* callback is set.                                                         *)
DlqExpires ==
    /\ running /\ infraErrors < MaxInfraErrors
    /\ infraErrors' = infraErrors + 1
    /\ \E d \in dlqBuffer : dlqBuffer' = dlqBuffer \ {d}
    /\ UNCHANGED <<handlerVars, kafkaVars, processed, storeVars, dlq, restarts,
                   historyVars>>
-----------------------------------------------------------------------------
(* The life of the process.                                                 *)

(* Killed at any point: everything in memory is lost.                       *)
Crash ==
    /\ running
    /\ restarts < MaxRestarts
    /\ restarts' = restarts + 1
    /\ running' = FALSE
    /\ dlqBuffer' = {}
    /\ Forget
    /\ UNCHANGED <<log, position, committed, processed, storeVars, dlq,
                   infraErrors, historyVars>>

(* SIGTERM: the loop ends between two messages and the DLQ producer is      *)
(* flushed; what it does not get out within its timeout is lost.            *)
Stop ==
    /\ running /\ phase = "idle"
    /\ restarts < MaxRestarts
    /\ restarts' = restarts + 1
    /\ running' = FALSE
    /\ \E flushed \in SUBSET dlqBuffer : dlq' = dlq \cup flushed
    /\ dlqBuffer' = {}
    /\ UNCHANGED <<handlerVars, log, position, committed, src, processed,
                   storeVars, infraErrors, historyVars>>

(* Mutant: a restarted consumer begins at the end of the topic.             *)
MutStartAtLatest ==
    /\ ~running
    /\ running' = TRUE
    /\ position' = [p \in Partitions |-> Len(log[p])]
    /\ UNCHANGED <<handlerVars, log, committed, src, processed, storeVars,
                   dlqVars, boundVars, historyVars>>

(* The restarted container resumes at the committed offsets.                *)
Start ==
    /\ ~running
    /\ running' = TRUE
    /\ position' = committed
    /\ UNCHANGED <<handlerVars, log, committed, src, processed, storeVars,
                   dlqVars, boundVars, historyVars>>

(* A poll rejoins the group and gets its partitions back.                   *)
Rebalance ==
    /\ running /\ phase = "idle"
    /\ restarts < MaxRestarts
    /\ restarts' = restarts + 1
    /\ position' = committed
    /\ UNCHANGED <<handlerVars, log, committed, running, src, processed,
                   storeVars, dlqVars, infraErrors, historyVars>>
-----------------------------------------------------------------------------
(* One step of the consumer without failure.                                *)
Progress ==
    \/ \E p \in Partitions : Poll(p)
    \/ Handle
    \/ Mark
    \/ ExecuteBatch
    \/ BatchReturns
    \/ SendToDlq
    \/ Commit
    \/ Start

Failure ==
    \/ RegistryFails
    \/ ReadFails
    \/ MarkFails
    \/ BatchFails
    \/ BatchTimesOut
    \/ DlqExpires
    \/ Crash
    \/ Stop
    \/ Rebalance

Next == Progress \/ ApplyMutation \/ DlqDelivers \/ Failure

Spec == Init /\ [][Next]_vars

(* The loop runs as long as the process does, the container is restarted    *)
(* (restart: unless-stopped), Cassandra works off its batches and librdkafka *)
(* its queue.                                                               *)
FairSpec ==
    Spec /\ WF_vars(Progress) /\ WF_vars(ApplyMutation) /\ WF_vars(DlqDelivers)
-----------------------------------------------------------------------------
Phases == {"idle", "unusable", "handling", "lines", "ops", "stale", "invalid",
           "batch", "executing", "commit"}

Source == Partitions \X Nat

(* Every variable keeps its type, and no failure, redelivery or late batch  *)
(* brings a quantity below zero in any of the three tables, in a batch on   *)
(* its way to them, or in the rows a handler is about to store.             *)
TypeOK ==
    /\ log \in [Partitions -> Seq(Messages \cup {Unusable})]
    /\ position \in [Partitions -> Nat]
    /\ committed \in [Partitions -> Nat]
    /\ running \in BOOLEAN
    /\ src \in Source \cup {NoSource}
    /\ ev \in Event \cup {NoEvent, Unusable}
    /\ phase \in Phases
    /\ phase \notin {"idle", "unusable", "invalid", "commit"} => ev \in Event
    /\ phase # "idle" => src \in Source
    /\ DOMAIN seen \subseteq Cell
    /\ seen \in [DOMAIN seen -> StoredRow]
    /\ lines \in Seq(Line)
    /\ processed \subseteq EventIds
    /\ zones \in [Cell -> StoredRow]
    /\ orders \in [OrderIds -> Order]
    /\ mirrors \in [Mirrors -> [Cell -> StoredRow]]
    /\ written \in [InventoryRow \cup OrderColumn -> Nat]
    /\ \A b \in batches : IsBatch(b)
    /\ dlqBuffer \subseteq Source /\ dlq \subseteq Source
    /\ infraErrors \in Nat /\ restarts \in Nat
    /\ journal \in Seq(EventIds)
    /\ concluded \subseteq Source /\ abandoned \subseteq Source
    /\ rejected \subseteq Source

(* The state changes of one event id are handed to Cassandra at most once,  *)
(* through redelivery, crashes, rebalances and timeouts, and producers that *)
(* send an event twice (README 115-137).                                    *)
Journal == INSTANCE EventJournal
             WITH journal <- journal, EventIds <- EventIds
AppliedAtMostOnce == Journal!Spec

(* A committed offset means that the handling of the message ended: the     *)
(* consumer may fail between any two steps, but never commits a message it  *)
(* has not worked on (enable.auto.commit is off, main.py 126).              *)
CommittedWasHandled ==
    \A p \in Partitions : \A off \in 0 .. committed[p] - 1 :
        <<p, off>> \in concluded \cup abandoned

(* Once Cassandra has worked off its batches, the three denormalised tables *)
(* agree on every row, whatever timed out or crashed on the way             *)
(* (README 172-175).                                                        *)
TablesAgree ==
    batches = {} => \A t \in Mirrors : mirrors[t] = zones

(* An event that is in processed_events but not in the journal is skipped   *)
(* as a duplicate from then on: it is lost although it is marked.  Every    *)
(* such loss costs a failed call or a restart of its own, between mark and  *)
(* batch (main.py 311-334).  Events that were never marked are lost in      *)
(* other places: one that a later commit passes (AbandonedIsRetried), and   *)
(* one that RegistryFails sends to the DLQ.                                 *)
LossBoundedByFailures ==
    Cardinality({e \in processed : /\ e \notin Range(journal)
                                   /\ ~(phase = "batch" /\ ev.id = e)})
      <= infraErrors + restarts

(* No message, however malformed or failing, keeps the messages behind it   *)
(* from being handled: the consumer always gets to the end of the topic     *)
(* (README 205-225).                                                        *)
NoMessageBlocks ==
    <>[](\A p \in Partitions : position[p] = Len(log[p]) /\ phase = "idle")

(* Every message is handled to its commit, or ended in an infrastructure    *)
(* error: crashes, rebalances, failing commits and malformed neighbours     *)
(* lose none (at-least-once delivery).  What has ended stays so.            *)
EveryMessageEnds ==
    []<>(\A p \in Partitions : \A off \in 0 .. Len(log[p]) - 1 :
            <<p, off>> \in concluded \cup abandoned)

(* A rejected message ends up in the DLQ although its offset is committed   *)
(* while it is still in the producer's memory (dlq.py 56-57): only a        *)
(* restart or an expired send loses one.                                    *)
RejectsReachDlq ==
    <>[](infraErrors = 0 /\ restarts = 0 => rejected = dlq)

(* As long as no call fails and the process is not restarted, the newest    *)
(* event of every row stands: each handler reads what the events before it  *)
(* wrote, because a message is committed only after its batch was           *)
(* acknowledged (main.py 333-335, _is_stale).                               *)
NewestEventStands ==
    [][infraErrors = 0 /\ restarts = 0
         => \A c \in Cell : zones'[c].ts >= zones[c].ts]_vars
-----------------------------------------------------------------------------
(* What the README and a comment say and the code does not do.              *)

(* README 227-229, main.py 392: after an infrastructure error the offset is *)
(* not committed and the consumer retries the message; so no commit passes  *)
(* a message that was abandoned and not handled since.                      *)
AbandonedIsRetried ==
    \A p \in Partitions : \A off \in 0 .. committed[p] - 1 :
        <<p, off>> \in abandoned => <<p, off>> \in concluded
=============================================================================
