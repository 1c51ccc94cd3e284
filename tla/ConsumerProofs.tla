---------------------------- MODULE ConsumerProofs ----------------------------
(***************************************************************************)
(* Proofs about WarehouseConsumer for all topics, partitions and numbers   *)
(* of failures and restarts: an event is applied at most once, a committed *)
(* offset was handled, a failure loses at most one event, and the three    *)
(* tables agree once Cassandra has worked off its batches.                 *)
(***************************************************************************)
EXTENDS WarehouseConsumer, FiniteSetTheorems, SequenceTheorems, TLAPS

(* The lemmas about the event handlers are those of WarehouseProofs, whose  *)
(* module has its own copy of the handlers' definitions.                    *)
Warehouse == INSTANCE WarehouseProofs

LEMMA SameHandlers ==
    /\ HandlerStep <=> Warehouse!HandlerStep
    /\ Messages \subseteq Warehouse!Event
    /\ Cell = Warehouse!Cell /\ Line = Warehouse!Line
    /\ Event = Warehouse!Event /\ Order = Warehouse!Order
    /\ ZoneState = Warehouse!ZoneState
BY MessagesAssumption
DEF
    Cell, Line, EventTypes, Event, NoEvent, NoTs, ZoneState, EmptyZone, Order,
    NoOrder, NoRows, IsStale, Handling, Skip, Reject, Emit, Adjusted,
    EmitCell, CellHandler, HandleProductReceived, HandleProductShipped,
    HandleProductReserved, HandleProductReleased, HandleInventoryCounted,
    HandleProductMoved, StartLines, HandleOrderCreated, HandleOrderCompleted,
    InLoop, LineRow, KeepLine, OrderCreatedLine, OrderCompletedLine,
    OrderLinesDone, HandlerStep,
    Warehouse!Cell, Warehouse!Line, Warehouse!EventTypes, Warehouse!Event,
    Warehouse!NoEvent, Warehouse!NoTs, Warehouse!ZoneState,
    Warehouse!EmptyZone, Warehouse!Order, Warehouse!NoOrder, Warehouse!NoRows,
    Warehouse!IsStale, Warehouse!Handling, Warehouse!Skip, Warehouse!Reject,
    Warehouse!Emit, Warehouse!Adjusted, Warehouse!EmitCell,
    Warehouse!CellHandler, Warehouse!HandleProductReceived,
    Warehouse!HandleProductShipped, Warehouse!HandleProductReserved,
    Warehouse!HandleProductReleased, Warehouse!HandleInventoryCounted,
    Warehouse!HandleProductMoved, Warehouse!StartLines,
    Warehouse!HandleOrderCreated, Warehouse!HandleOrderCompleted,
    Warehouse!InLoop, Warehouse!LineRow, Warehouse!KeepLine,
    Warehouse!OrderCreatedLine, Warehouse!OrderCompletedLine,
    Warehouse!OrderLinesDone, Warehouse!HandlerStep

(* The phases in which ev is an event a handler has been found for.         *)
WithEvent == {"handling", "lines", "ops", "stale", "batch", "executing"}

(* A step between poll and commit that does not end the handling.           *)
Inside == Handle \/ RegistryFails \/ Mark \/ ExecuteBatch \/ BatchReturns \/ SendToDlq

(* A step that has nothing to do with the message being handled.            *)
Outside == ApplyMutation \/ DlqDelivers \/ DlqExpires \/ UNCHANGED vars

Fails == ReadFails \/ MarkFails \/ BatchFails \/ BatchTimesOut

LEMMA Cases ==
    ASSUME [Next]_vars
    PROVE  \/ \E p \in Partitions : Poll(p)
           \/ Inside \/ Outside \/ Fails \/ Commit
           \/ Crash \/ Stop \/ Start \/ Rebalance
BY DEF Next, Progress, Failure, Inside, Outside, Fails

LEMMA HandlerKeepsEvent ==
    ASSUME HandlerStep
    PROVE  /\ ev' = ev /\ phase \in {"handling", "lines"}
           /\ phase' \in {"lines", "ops", "stale", "invalid"}
<1>1. ASSUME NEW t, NEW h, NEW a, NEW r, CellHandler(t, h, a, r)
      PROVE  ev' = ev /\ phase = "handling" /\ phase' \in {"ops", "stale", "invalid"}
  BY <1>1 DEF CellHandler, Handling, Skip, Reject, EmitCell, Emit
<1>2. CASE \/ HandleProductReceived \/ HandleProductShipped
           \/ HandleProductReserved \/ HandleProductReleased
           \/ HandleInventoryCounted
  BY <1>1, <1>2 DEF HandleProductReceived, HandleProductShipped,
         HandleProductReserved, HandleProductReleased, HandleInventoryCounted
<1>3. CASE HandleProductMoved \/ HandleOrderCreated \/ HandleOrderCompleted
  BY <1>3 DEF HandleProductMoved, HandleOrderCreated, HandleOrderCompleted,
              Handling, Skip, Reject, Emit, StartLines
<1>4. CASE OrderCreatedLine \/ OrderCompletedLine \/ OrderLinesDone
  BY <1>4 DEF OrderCreatedLine, OrderCompletedLine, OrderLinesDone, InLoop,
              Skip, Reject, Emit, KeepLine
<1> QED BY <1>2, <1>3, <1>4 DEF HandlerStep

LEMMA InsideIs ==
    ASSUME Inside
    PROVE  /\ phase # "idle" /\ phase' # "idle" /\ ev' = ev
           /\ UNCHANGED <<kafkaVars, concluded, abandoned>>
           /\ phase' \in WithEvent => phase \in WithEvent
<1>1. CASE Handle
  BY <1>1, HandlerKeepsEvent DEF Handle, historyVars, WithEvent
<1>2. CASE RegistryFails \/ SendToDlq
  BY <1>2 DEF RegistryFails, SendToDlq, historyVars, WithEvent
<1>3. CASE Mark \/ ExecuteBatch \/ BatchReturns
  BY <1>3 DEF Mark, ExecuteBatch, BatchReturns, historyVars, WithEvent
<1> QED BY <1>1, <1>2, <1>3 DEF Inside

LEMMA OutsideIs ==
    ASSUME Outside
    PROVE  /\ UNCHANGED <<handlerVars, kafkaVars, processed, historyVars, restarts>>
           /\ infraErrors' \in {infraErrors, infraErrors + 1}
<1>1. CASE ApplyMutation
  BY <1>1 DEF ApplyMutation, boundVars
<1>2. CASE DlqDelivers \/ DlqExpires
  BY <1>2 DEF DlqDelivers, DlqExpires, boundVars
<1>3. CASE UNCHANGED vars
  BY <1>3 DEF vars, handlerVars, kafkaVars, historyVars, boundVars
<1> QED BY <1>1, <1>2, <1>3 DEF Outside

LEMMA FailsIs ==
    ASSUME Fails
    PROVE  /\ phase \in {"handling", "lines", "ops", "batch", "executing"}
           /\ InfraError
           /\ processed' \in {processed, processed \cup {ev.id}}
           /\ phase # "ops" => processed' = processed
           /\ UNCHANGED <<storeVars, journal>>
BY DEF Fails, ReadFails, ReadsTable, MarkFails, BatchFails, BatchTimesOut
-----------------------------------------------------------------------------
(* Where the consumer stands in the topic.                                  *)

Located ==
    /\ log \in [Partitions -> Seq(Messages \cup {Unusable})]
    /\ running \in BOOLEAN
    /\ position \in [Partitions -> Nat]
    /\ committed \in [Partitions -> Nat]
    /\ \A p \in Partitions : committed[p] <= position[p]
    /\ phase # "idle" =>
         /\ running
         /\ \E p \in Partitions : position[p] > 0 /\ src = <<p, position[p] - 1>>
    /\ phase \in WithEvent => ev \in Messages

LEMMA LocatedStep == Located /\ [Next]_vars => Located'
<1> SUFFICES ASSUME Located, [Next]_vars PROVE Located'
  OBVIOUS
<1> USE DEF Located
<1>1. ASSUME NEW p \in Partitions, Poll(p) PROVE Located'
  <2>1. /\ UNCHANGED <<log, committed, running>> /\ running
        /\ src' = <<p, position[p]>>
        /\ position' = [position EXCEPT ![p] = @ + 1]
        /\ position[p] < Len(log[p])
        /\ ev' = log[p][position[p] + 1]
        /\ phase' = IF ev' = Unusable THEN "unusable" ELSE "handling"
    BY <1>1 DEF Poll
  <2>2. log[p] \in Seq(Messages \cup {Unusable}) /\ position[p] + 1 \in 1 .. Len(log[p])
    BY <2>1
  <2>3. ev' \in Messages \cup {Unusable}
    BY <2>1, <2>2, ElementOfSeq
  <2>4. /\ position'[p] = position[p] + 1 /\ position[p] \in Nat
        /\ position' \in [Partitions -> Nat]
        /\ \A q \in Partitions : committed[q] <= position'[q]
    <3>1. \A q \in Partitions : position[q] \in Nat /\ committed[q] \in Nat
      OBVIOUS
    <3>2. \A q \in Partitions :
             position'[q] = IF q = p THEN position[q] + 1 ELSE position[q]
      BY <2>1
    <3> QED BY <2>1, <3>1, <3>2
  <2>5. position'[p] > 0 /\ src' = <<p, position'[p] - 1>>
    BY <2>1, <2>4
  <2> QED BY <2>1, <2>3, <2>4, <2>5 DEF WithEvent
<1>2. CASE Inside
  BY <1>2, InsideIs DEF kafkaVars
<1>3. CASE Outside
  BY <1>3, OutsideIs DEF kafkaVars, handlerVars
<1>4. CASE Fails
  BY <1>4, FailsIs DEF InfraError, Forget, WithEvent
<1>5. CASE Commit
  <2>1. PICK p \in Partitions : position[p] > 0 /\ src = <<p, position[p] - 1>>
    BY <1>5 DEF Commit
  <2>2. src[1] = p /\ src[2] + 1 = position[p]
    BY <2>1
  <2>3. /\ committed' \in {committed, [committed EXCEPT ![p] = position[p]]}
        /\ UNCHANGED <<log, position, running>> /\ phase' = "idle"
    BY <1>5, <2>2 DEF Commit, Forget
  <2>4. /\ committed' \in [Partitions -> Nat]
        /\ \A q \in Partitions : committed'[q] <= position[q]
    <3>1. \A q \in Partitions : position[q] \in Nat /\ committed[q] \in Nat
      OBVIOUS
    <3>2. CASE committed' = committed
      BY <3>2
    <3>3. CASE committed' = [committed EXCEPT ![p] = position[p]]
      <4>1. \A q \in Partitions :
               committed'[q] = IF q = p THEN position[q] ELSE committed[q]
        BY <3>3
      <4> QED BY <3>1, <3>3, <4>1
    <3> QED BY <2>3, <3>2, <3>3
  <2> QED BY <2>3, <2>4 DEF WithEvent
<1>6. CASE Crash
  BY <1>6 DEF Crash, Forget, WithEvent
<1>7. CASE Stop
  BY <1>7 DEF Stop, handlerVars
<1>8. CASE Start \/ Rebalance
  <2>1. /\ phase = "idle" /\ phase' = "idle" /\ running'
        /\ position' = committed /\ UNCHANGED <<log, committed>>
    BY <1>8 DEF Start, Rebalance, handlerVars
  <2>2. \A p \in Partitions : committed[p] <= committed[p]
    <3>1. \A p \in Partitions : committed[p] \in Nat
      OBVIOUS
    <3> QED BY <3>1
  <2> QED BY <2>1, <2>2 DEF WithEvent
<1> QED BY <1>1, <1>2, <1>3, <1>4, <1>5, <1>6, <1>7, <1>8, Cases

LEMMA LocatedAlways == Spec => []Located
<1>1. Init => Located
  BY LogsAssumption DEF Init, Located, WithEvent
<1> QED BY <1>1, LocatedStep, PTL DEF Spec

(* Every message behind the position of a running consumer was handled, but *)
(* the one at hand.                                                         *)
Ended(p, off) == <<p, off>> \in concluded \cup abandoned

BehindIsHandled ==
    /\ CommittedWasHandled
    /\ running => \A p \in Partitions : \A off \in 0 .. position[p] - 1 :
                    \/ Ended(p, off)
                    \/ phase # "idle" /\ src = <<p, off>>

LEMMA BehindStep == Located /\ BehindIsHandled /\ [Next]_vars => BehindIsHandled'
<1> SUFFICES ASSUME Located, BehindIsHandled, [Next]_vars PROVE BehindIsHandled'
  OBVIOUS
<1> USE DEF BehindIsHandled, CommittedWasHandled, Ended
<1>a. ASSUME NEW p \in Partitions
      PROVE  /\ position[p] \in Nat /\ committed[p] \in Nat
             /\ committed[p] <= position[p]
  BY DEF Located
<1>1. ASSUME NEW p \in Partitions, Poll(p) PROVE BehindIsHandled'
  <2>1. /\ UNCHANGED <<committed, running, concluded, abandoned>>
        /\ phase = "idle" /\ phase' # "idle" /\ running
        /\ src' = <<p, position[p]>>
        /\ position' = [position EXCEPT ![p] = @ + 1]
    BY <1>1 DEF Poll, historyVars
  <2>2. ASSUME NEW q \in Partitions, NEW off \in 0 .. position'[q] - 1
        PROVE  Ended(q, off) \/ src' = <<q, off>>
    <3>1. CASE q = p /\ off = position[p]
      BY <2>1, <3>1
    <3>2. CASE ~(q = p /\ off = position[p])
      <4>1. off \in 0 .. position[q] - 1
        BY <1>a, <2>1, <2>2, <3>2 DEF Located
      <4> QED BY <2>1, <4>1
    <3> QED BY <3>1, <3>2
  <2>3. CommittedWasHandled'
    BY <2>1
  <2>4. \A q \in Partitions : \A off \in 0 .. position'[q] - 1 :
           \/ Ended(q, off)'
           \/ phase' # "idle" /\ src' = <<q, off>>
    BY <2>1, <2>2
  <2> QED BY <2>3, <2>4
<1>2. CASE Inside
  BY <1>2, InsideIs DEF kafkaVars
<1>3. CASE Outside
  BY <1>3, OutsideIs DEF kafkaVars, handlerVars, historyVars
<1>b. ASSUME phase # "idle", UNCHANGED <<position, running>>,
             concluded' \cup abandoned' = concluded \cup abandoned \cup {src},
             \/ committed' = committed
             \/ committed' = [committed EXCEPT ![src[1]] = src[2] + 1]
      PROVE  BehindIsHandled'
  <2>1. PICK p \in Partitions : position[p] > 0 /\ src = <<p, position[p] - 1>>
    BY <1>b DEF Located
  <2>2. running /\ src[1] = p /\ src[2] + 1 = position[p]
    BY <1>a, <1>b, <2>1 DEF Located
  <2>3. ASSUME NEW q \in Partitions, NEW off \in 0 .. position[q] - 1
        PROVE  <<q, off>> \in concluded' \cup abandoned'
    BY <1>b, <2>2, <2>3
  <2>4. \A q \in Partitions : committed'[q] = committed[q] \/ committed'[q] = position[q]
    BY <1>b, <2>2 DEF Located
  <2>5. ASSUME NEW q \in Partitions, NEW off \in 0 .. committed'[q] - 1
        PROVE  off \in 0 .. position[q] - 1
    BY <1>a, <2>4, <2>5
  <2>6. CommittedWasHandled'
    BY <2>3, <2>5
  <2>7. \A q \in Partitions : \A off \in 0 .. position'[q] - 1 : Ended(q, off)'
    BY <1>b, <2>3
  <2> QED BY <2>6, <2>7
<1>4. CASE Fails
  <2>1. /\ abandoned' = abandoned \cup {src} /\ phase # "idle"
        /\ UNCHANGED <<position, running, committed, concluded>>
    BY <1>4, FailsIs DEF InfraError
  <2> QED BY <1>b, <2>1
<1>5. CASE Commit
  <2>1. /\ concluded' = concluded \cup {src} /\ phase # "idle"
        /\ UNCHANGED <<position, running, abandoned>>
        /\ \/ committed' = committed
           \/ committed' = [committed EXCEPT ![src[1]] = src[2] + 1]
    BY <1>5 DEF Commit
  <2> QED BY <1>b, <2>1
<1>6. CASE Crash \/ Stop
  BY <1>6 DEF Crash, Stop, historyVars
<1>7. CASE Start \/ Rebalance
  <2>1. position' = committed /\ UNCHANGED <<committed, concluded, abandoned>>
    BY <1>7 DEF Start, Rebalance, historyVars
  <2>2. CommittedWasHandled'
    BY <2>1
  <2>3. \A q \in Partitions : \A off \in 0 .. position'[q] - 1 : Ended(q, off)'
    BY <2>1
  <2> QED BY <2>2, <2>3
<1> QED BY <1>1, <1>2, <1>3, <1>4, <1>5, <1>6, <1>7, Cases

(* No offset is committed before the handling of its message ended.         *)
THEOREM CommitsFollowHandling == Spec => []CommittedWasHandled
<1>1. Init => BehindIsHandled
  BY DEF Init, BehindIsHandled, CommittedWasHandled
<1>2. BehindIsHandled => CommittedWasHandled
  BY DEF BehindIsHandled
<1> QED BY <1>1, <1>2, BehindStep, LocatedAlways, PTL DEF Spec
-----------------------------------------------------------------------------
(* Marks and the journal.  An event between mark and batch is marked and    *)
(* not yet in the journal; everything in the journal is marked.             *)

Marked ==
    /\ journal \in Seq(EventIds)
    /\ Range(journal) \subseteq processed
    /\ phase = "batch" => ev.id \in processed \ Range(journal)

LEMMA JournalStep ==
    ASSUME Located, Marked, [Next]_vars
    PROVE  /\ Marked'
           /\ \/ journal' = journal
              \/ phase = "batch" /\ journal' = Append(journal, ev.id)
<1> USE DEF Marked
<1>1. ASSUME journal' = journal, processed \subseteq processed', phase' # "batch"
      PROVE  Marked'
  BY <1>1
<1>2. CASE Mark
  <2>1. journal' = journal /\ ev' = ev /\ processed' = processed \cup {ev.id}
    BY <1>2 DEF Mark, historyVars
  <2>2. phase' = "batch" => ev.id \notin processed
    BY <1>2 DEF Mark
  <2> QED BY <2>1, <2>2
<1>3. CASE ExecuteBatch
  <2>1. /\ journal' = Append(journal, ev.id) /\ processed' = processed
        /\ phase = "batch" /\ phase' = "executing"
    BY <1>3 DEF ExecuteBatch
  <2>2. ev.id \in EventIds
    BY <2>1, MessagesAssumption DEF Located, WithEvent, Event
  <2>3. journal' \in Seq(EventIds)
    BY <2>1, <2>2
  <2>4. Range(journal') = Range(journal) \cup {ev.id}
    <3>1. /\ DOMAIN journal' = 1 .. Len(journal) + 1 /\ DOMAIN journal = 1 .. Len(journal)
          /\ \A i \in 1 .. Len(journal) : journal'[i] = journal[i]
          /\ journal'[Len(journal) + 1] = ev.id
      BY <2>1, <2>2, AppendProperties
    <3>2. Len(journal) \in Nat
      OBVIOUS
    <3> HIDE DEF Marked
    <3> QED BY <3>1, <3>2 DEF Range
  <2> QED BY <2>1, <2>3, <2>4
<1>4. CASE Handle \/ RegistryFails \/ BatchReturns \/ SendToDlq
  BY <1>1, <1>4, HandlerKeepsEvent
     DEF Handle, RegistryFails, BatchReturns, SendToDlq, historyVars
<1>5. CASE Outside
  BY <1>5, OutsideIs DEF handlerVars, historyVars
<1>6. CASE Fails
  BY <1>1, <1>6, FailsIs DEF InfraError, Forget
<1>7. CASE Commit \/ \E p \in Partitions : Poll(p)
  BY <1>1, <1>7 DEF Commit, Poll, Forget, historyVars
<1>8. CASE Crash \/ Stop \/ Rebalance
  BY <1>1, <1>8 DEF Crash, Stop, Rebalance, Forget, handlerVars, historyVars
<1>9. CASE Start
  BY <1>9 DEF Start, handlerVars, historyVars
<1> QED BY <1>2, <1>3, <1>4, <1>5, <1>6, <1>7, <1>8, <1>9, Cases DEF Inside

LEMMA MarkedAlways == Spec => []Marked
<1>1. Init => Marked
  BY DEF Init, Marked, Range
<1>2. ASSUME Located, Marked, [Next]_vars PROVE Marked'
  BY <1>2, JournalStep
<1> QED BY <1>1, <1>2, LocatedAlways, PTL DEF Spec

(* The consumer implements the journal: each event id is recorded at most   *)
(* once.                                                                    *)
THEOREM EachEventOnce == Spec => AppliedAtMostOnce
<1>1. Init => Journal!Init
  BY DEF Init, Journal!Init
<1>2. ASSUME Located, Marked, [Next]_vars PROVE [Journal!Next]_journal
  <2>1. CASE phase = "batch" /\ journal' = Append(journal, ev.id)
    <3>1. ev.id \in EventIds
      BY <2>1, <1>2, MessagesAssumption DEF Located, WithEvent, Event
    <3>2. ev.id \notin Range(journal)
      BY <1>2, <2>1 DEF Marked
    <3> QED BY <2>1, <3>1, <3>2 DEF Journal!Next, Journal!Record, Journal!Range, Range
  <2> QED BY <1>2, <2>1, JournalStep
<1> QED BY <1>1, <1>2, LocatedAlways, MarkedAlways, PTL
        DEF Spec, AppliedAtMostOnce, Journal!Spec
-----------------------------------------------------------------------------
(* Types of what the handlers compute and of the tables.  No quantity is    *)
(* negative in a table, in a batch or in the rows of a handler.             *)

RowsTyped ==
    /\ DOMAIN seen \subseteq Cell
    /\ seen \in [DOMAIN seen -> StoredRow]
    /\ lines \in Seq(Line)
    /\ zones \in [Cell -> StoredRow]
    /\ orders \in [OrderIds -> Order]
    /\ mirrors \in [Mirrors -> [Cell -> StoredRow]]
    /\ written \in [InventoryRow \cup OrderColumn -> Nat]
    /\ \A b \in batches : IsBatch(b)

(* Which step writes what.                                                  *)
LEMMA StoreSteps ==
    ASSUME [Next]_vars
    PROVE  /\ ApplyMutation \/ ExecuteBatch \/ UNCHANGED storeVars
           /\ \/ Handle
              \/ seen' = seen /\ lines' = lines
              \/ phase' = "idle" /\ seen' = NoRows /\ lines' = <<>>
<1>1. CASE Inside
  BY <1>1 DEF Inside, Handle, RegistryFails, Mark, ExecuteBatch, BatchReturns, SendToDlq
<1>2. CASE Outside
  BY <1>2, OutsideIs DEF Outside, DlqDelivers, DlqExpires, vars, handlerVars
<1>3. CASE Fails
  BY <1>3, FailsIs DEF InfraError, Forget
<1>4. CASE Commit \/ Crash \/ Stop \/ Start \/ Rebalance \/ \E p \in Partitions : Poll(p)
  BY <1>4 DEF Commit, Crash, Stop, Start, Rebalance, Poll, Forget, handlerVars
<1> QED BY <1>1, <1>2, <1>3, <1>4, Cases

LEMMA RowsToHandler ==
    ASSUME RowsTyped, phase \in {"handling", "lines"} => ev \in Event
    PROVE  /\ Warehouse!HandlerTyped
           /\ Warehouse!RowsNonNegative(zones) /\ Warehouse!RowsNonNegative(seen)
<1>1. StoredRow \subseteq ZoneState
  BY DEF StoredRow, ZoneState
<1>2. /\ zones \in [Cell -> ZoneState] /\ seen \in [DOMAIN seen -> ZoneState]
      /\ \A c \in Cell : zones[c] \in StoredRow
      /\ \A c \in DOMAIN seen : seen[c] \in StoredRow
  BY <1>1 DEF RowsTyped
<1>3. ASSUME NEW row \in StoredRow PROVE row.available >= 0 /\ row.reserved >= 0
  BY DEF StoredRow
<1>4. Warehouse!RowsNonNegative(zones) /\ Warehouse!RowsNonNegative(seen)
  BY <1>2, <1>3 DEF Warehouse!RowsNonNegative, RowsTyped
<1> QED BY <1>2, <1>4, SameHandlers DEF Warehouse!HandlerTyped, RowsTyped

LEMMA NewBatchTyped ==
    ASSUME Located, Marked, RowsTyped, phase = "batch"
    PROVE  IsBatch(NewBatch)
<1>1. ev \in Event
  BY MessagesAssumption DEF Located, WithEvent
<1>2. ev.order \in OrderIds /\ ev.items \in Seq(Line)
  BY <1>1 DEF Event
<1>3. (IF CreatesOrder THEN CreatedOrder
       ELSE [status |-> "COMPLETED", items |-> <<>>]) \in Order
  BY <1>2 DEF CreatedOrder, Order
<1>6. NewBatch.left \subseteq (({Primary} \cup Mirrors) \X DOMAIN seen)
                                 \cup {<<"orders", ev.order>>}
  BY DEF NewBatch
<1>7. Len(journal) + 1 \in Nat
  BY DEF Marked
<1> QED BY <1>2, <1>3, <1>6, <1>7 DEF NewBatch, IsBatch, RowsTyped

(* What is left of a batch after a mutation is a batch.                     *)
Rest(b, m) == [b EXCEPT !.left = @ \ {m}]

LEMMA AppliedIs ==
    ASSUME NEW b \in batches, NEW m, IsBatch(b)
    PROVE  /\ IsBatch(Rest(b, m))
           /\ Rest(b, m).wt = b.wt /\ Rest(b, m).rows = b.rows
           /\ Rest(b, m).left = b.left \ {m}
           /\ \A a \in Applied(b, m) : (a \in batches /\ a # b) \/ a = Rest(b, m)
           /\ \A a \in batches : a # b => a \in Applied(b, m)
           /\ b.left # {m} => Rest(b, m) \in Applied(b, m)
<1> DEFINE a == Rest(b, m)
<1>1. /\ a.wt = b.wt /\ a.rows = b.rows /\ a.left = b.left \ {m}
      /\ a.order = b.order /\ a.put = b.put
      /\ a = [wt |-> a.wt, rows |-> a.rows, order |-> a.order, put |-> a.put,
              left |-> a.left]
  BY DEF IsBatch, Rest
<1>2. a.left \subseteq (({Primary} \cup Mirrors) \X DOMAIN a.rows)
                          \cup {<<"orders", a.order>>}
  BY <1>1 DEF IsBatch
<1>4. Applied(b, m) = IF b.left = {m} THEN batches \ {b} ELSE (batches \ {b}) \cup {a}
  BY DEF Applied, Rest
<1> HIDE DEF a
<1>3. IsBatch(a)
  BY <1>1, <1>2 DEF IsBatch
<1> HIDE DEF IsBatch
<1> QED BY <1>1, <1>3, <1>4 DEF a

LEMMA RowsTypedStep ==
    ASSUME Located, Marked, RowsTyped, [Next]_vars
    PROVE  RowsTyped'
<1>h. /\ DOMAIN seen' \subseteq Cell /\ seen' \in [DOMAIN seen' -> StoredRow]
      /\ lines' \in Seq(Line)
  <2>1. CASE Handle
    <3>0. phase \in {"handling", "lines"} => ev \in Event
      BY MessagesAssumption DEF Located, WithEvent
    <3>1. /\ Warehouse!HandlerTyped
          /\ Warehouse!RowsNonNegative(zones) /\ Warehouse!RowsNonNegative(seen)
      BY <3>0, RowsToHandler
    <3>2. HandlerStep
      BY <2>1 DEF Handle
    <3>3. /\ DOMAIN seen' \subseteq Cell /\ seen' \in [DOMAIN seen' -> ZoneState]
          /\ lines' \in Seq(Line)
      BY <3>1, <3>2, SameHandlers, Warehouse!HandlerTypes
    <3>4. Warehouse!RowsNonNegative(seen')
      BY <3>1, <3>2, SameHandlers, Warehouse!HandlerNonNegative
    <3>5. ASSUME NEW row \in ZoneState, row.available >= 0, row.reserved >= 0
          PROVE  row \in StoredRow
      BY <3>5 DEF ZoneState, StoredRow
    <3>6. \A c \in DOMAIN seen' : seen'[c] \in StoredRow
      BY <3>3, <3>4, <3>5 DEF Warehouse!RowsNonNegative
    <3> QED BY <3>3, <3>6
  <2>2. CASE seen' = seen /\ lines' = lines
    BY <2>2 DEF RowsTyped
  <2>3. CASE seen' = NoRows /\ lines' = <<>>
    BY <2>3 DEF NoRows
  <2> QED BY <2>1, <2>2, <2>3, StoreSteps
<1>1. CASE UNCHANGED storeVars
  BY <1>1, <1>h DEF RowsTyped, storeVars
<1>2. CASE ExecuteBatch
  <2>1. IsBatch(NewBatch)
    BY <1>2, NewBatchTyped DEF ExecuteBatch
  <2>2. /\ batches' \subseteq batches \cup {NewBatch}
        /\ UNCHANGED <<zones, orders, mirrors, written>>
    BY <1>2 DEF ExecuteBatch
  <2> QED BY <1>h, <2>1, <2>2 DEF RowsTyped
<1>3. ASSUME NEW b \in batches, NEW t \in {Primary} \cup Mirrors, NEW c \in Cell,
             ApplyRow(b, t, c)
      PROVE  RowsTyped'
  <2>1. /\ <<t, c>> \in InventoryRow /\ <<t, c>> \in b.left /\ IsBatch(b)
        /\ b.wt \in Nat
    BY <1>3 DEF ApplyRow, RowsTyped, InventoryRow, IsBatch
  <2>2. \A a \in batches' : IsBatch(a)
    <3>1. batches' = Applied(b, <<t, c>>)
      BY <1>3 DEF ApplyRow
    <3>2. \A a \in batches : IsBatch(a)
      BY DEF RowsTyped
    <3> HIDE DEF IsBatch
    <3> QED BY <2>1, <3>1, <3>2, AppliedIs
  <2>3. b.rows[c] \in StoredRow
    <3>1. <<t, c>> # <<"orders", b.order>>
      BY DEF Primary, Mirrors
    <3>2. c \in DOMAIN b.rows
      BY <2>1, <3>1 DEF IsBatch
    <3> QED BY <2>1, <3>2 DEF IsBatch
  <2>4. /\ written' \in {written, [written EXCEPT ![<<t, c>>] = b.wt]}
        /\ zones' \in {zones, [zones EXCEPT ![c] = b.rows[c]]}
        /\ orders' = orders
    BY <1>3 DEF ApplyRow
  <2>5. \/ mirrors' = mirrors
        \/ t \in Mirrors /\ mirrors' = [mirrors EXCEPT ![t][c] = b.rows[c]]
    BY <1>3 DEF ApplyRow
  <2>6. written' \in [InventoryRow \cup OrderColumn -> Nat]
    BY <2>1, <2>4 DEF RowsTyped
  <2>7. zones' \in [Cell -> StoredRow]
    BY <2>3, <2>4 DEF RowsTyped
  <2>8. mirrors' \in [Mirrors -> [Cell -> StoredRow]]
    <3>1. CASE mirrors' = mirrors
      BY <3>1 DEF RowsTyped
    <3>2. CASE t \in Mirrors /\ mirrors' = [mirrors EXCEPT ![t][c] = b.rows[c]]
      <4>1. [mirrors[t] EXCEPT ![c] = b.rows[c]] \in [Cell -> StoredRow]
        BY <2>3, <3>2 DEF RowsTyped
      <4> QED BY <3>2, <4>1 DEF RowsTyped
    <3> QED BY <2>5, <3>1, <3>2
  <2> QED BY <1>h, <2>2, <2>4, <2>6, <2>7, <2>8 DEF RowsTyped
<1>4. ASSUME NEW b \in batches, ApplyOrder(b)
      PROVE  RowsTyped'
  <2>1. /\ <<"orders", b.order>> \in b.left /\ IsBatch(b) /\ b.wt \in Nat
        /\ b.order \in OrderIds /\ b.put \in Order
        /\ UNCHANGED <<zones, mirrors>>
    BY <1>4 DEF ApplyOrder, RowsTyped, IsBatch
  <2>2. \A a \in batches' : IsBatch(a)
    <3>1. batches' = Applied(b, <<"orders", b.order>>)
      BY <1>4 DEF ApplyOrder
    <3>2. \A a \in batches : IsBatch(a)
      BY DEF RowsTyped
    <3> HIDE DEF IsBatch
    <3> QED BY <2>1, <3>1, <3>2, AppliedIs
  <2> DEFINE o == b.order
             s == b.wt > written[<<"status", o>>]
             i == b.put.status = "CREATED" /\ b.wt > written[<<"items", o>>]
  <2>3. /\ orders' = [orders EXCEPT ![o] =
                       [status |-> IF s THEN b.put.status ELSE @.status,
                        items  |-> IF i THEN b.put.items ELSE @.items]]
        /\ written' = [written EXCEPT
                       ![<<"status", o>>] = IF s THEN b.wt ELSE @,
                       ![<<"items", o>>] = IF i THEN b.wt ELSE @]
    BY <1>4 DEF ApplyOrder
  <2> HIDE DEF s, i
  <2>4. orders' \in [OrderIds -> Order]
    <3>1. [status |-> IF s THEN b.put.status ELSE orders[o].status,
           items  |-> IF i THEN b.put.items ELSE orders[o].items] \in Order
      BY <2>1 DEF Order, RowsTyped
    <3> HIDE DEF Order
    <3> QED BY <2>1, <2>3, <3>1 DEF RowsTyped
  <2>5. written' \in [InventoryRow \cup OrderColumn -> Nat]
    BY <2>1, <2>3 DEF RowsTyped
  <2> QED BY <1>h, <2>1, <2>2, <2>4, <2>5 DEF RowsTyped
<1> QED BY <1>1, <1>2, <1>3, <1>4, StoreSteps DEF ApplyMutation

LEMMA RowsTypedAlways == Spec => []RowsTyped
<1>1. Init => RowsTyped
  <2>1. EmptyZone \in StoredRow /\ NoOrder \in Order
    BY DEF EmptyZone, NoTs, StoredRow, NoOrder, Order
  <2> QED BY <2>1 DEF Init, RowsTyped, NoRows
<1> QED BY <1>1, RowsTypedStep, LocatedAlways, MarkedAlways, PTL DEF Spec

(* The types of the remaining variables.                                    *)
LoopTyped ==
    /\ src \in Source \cup {NoSource}
    /\ ev \in Event \cup {NoEvent, Unusable}
    /\ phase \in Phases
    /\ processed \subseteq EventIds
    /\ dlqBuffer \subseteq Source /\ dlq \subseteq Source
    /\ infraErrors \in Nat /\ restarts \in Nat
    /\ concluded \subseteq Source /\ abandoned \subseteq Source
    /\ rejected \subseteq Source

LEMMA LoopTypedStep ==
    ASSUME Located, LoopTyped, [Next]_vars
    PROVE  LoopTyped'
<1> USE DEF LoopTyped
<1>a. phase # "idle" => src \in Source
  BY DEF Located, Source
<1>b. phase \in WithEvent => ev.id \in EventIds
  BY MessagesAssumption DEF Located, Event
<1>1. ASSUME NEW p \in Partitions, Poll(p) PROVE LoopTyped'
  <2>1. log[p] \in Seq(Messages \cup {Unusable}) /\ position[p] \in Nat
    BY DEF Located
  <2>2. log[p][position[p] + 1] \in Messages \cup {Unusable}
    <3>1. position[p] + 1 \in 1 .. Len(log[p])
      BY <1>1, <2>1 DEF Poll
    <3> QED BY <2>1, <3>1, ElementOfSeq
  <2> QED BY <1>1, <2>1, <2>2, MessagesAssumption
          DEF Poll, Source, Phases, dlqVars, boundVars, historyVars
<1>2. CASE Inside
  <2>1. CASE Handle
    BY <2>1, HandlerKeepsEvent DEF Handle, kafkaVars, dlqVars, boundVars,
       historyVars, Phases
  <2>2. CASE RegistryFails \/ BatchReturns \/ ExecuteBatch
    BY <2>2 DEF RegistryFails, BatchReturns, ExecuteBatch, kafkaVars, dlqVars,
       boundVars, historyVars, Phases
  <2>3. CASE Mark
    BY <1>b, <2>3 DEF Mark, kafkaVars, dlqVars, boundVars, historyVars, Phases,
       WithEvent
  <2>4. CASE SendToDlq
    BY <1>a, <2>4 DEF SendToDlq, kafkaVars, dlqVars, boundVars, historyVars, Phases
  <2> QED BY <1>2, <2>1, <2>2, <2>3, <2>4 DEF Inside
<1>3. CASE Outside
  <2>1. /\ UNCHANGED <<src, ev, phase, processed, concluded, abandoned, rejected,
                       restarts>>
        /\ infraErrors' \in Nat
    BY <1>3, OutsideIs DEF handlerVars, kafkaVars, historyVars
  <2>2. dlqBuffer' \subseteq dlqBuffer /\ dlq' \subseteq dlq \cup dlqBuffer
    BY <1>3 DEF Outside, ApplyMutation, DlqDelivers, DlqExpires, dlqVars, vars
  <2> QED BY <2>1, <2>2
<1>4. CASE Fails
  <2>1. /\ phase' = "idle" /\ ev' = NoEvent /\ src' = NoSource
        /\ infraErrors' = infraErrors + 1 /\ abandoned' = abandoned \cup {src}
        /\ UNCHANGED <<dlqVars, restarts, concluded, rejected>>
        /\ phase # "idle"
    BY <1>4, FailsIs DEF InfraError, Forget
  <2>2. processed' \subseteq EventIds
    BY <1>4, <1>b, FailsIs DEF WithEvent
  <2> QED BY <1>a, <2>1, <2>2 DEF dlqVars, Phases
<1>5. CASE Commit
  BY <1>a, <1>5 DEF Commit, Forget, dlqVars, boundVars, Phases
<1>6. CASE Crash
  BY <1>6 DEF Crash, Forget, historyVars, Phases
<1>7. CASE Stop
  BY <1>7 DEF Stop, handlerVars, historyVars
<1>8. CASE Start \/ Rebalance
  BY <1>8 DEF Start, Rebalance, handlerVars, dlqVars, boundVars, historyVars
<1> QED BY <1>1, <1>2, <1>3, <1>4, <1>5, <1>6, <1>7, <1>8, Cases

(* Every variable keeps its type, and no quantity becomes negative.         *)
THEOREM TypeCorrect == Spec => []TypeOK
<1>1. Init => LoopTyped
  BY DEF Init, LoopTyped, Phases
<1>2. Located /\ Marked /\ RowsTyped /\ LoopTyped => TypeOK
  <2> SUFFICES ASSUME Located, Marked, RowsTyped, LoopTyped PROVE TypeOK
    OBVIOUS
  <2>1. running \in BOOLEAN
    BY DEF Located
  <2>2. phase \notin {"idle", "unusable", "invalid", "commit"} => ev \in Event
    BY MessagesAssumption DEF Located, LoopTyped, Phases, WithEvent
  <2>3. phase # "idle" => src \in Source
    BY DEF Located, Source
  <2> QED BY <2>1, <2>2, <2>3 DEF TypeOK, Located, Marked, RowsTyped, LoopTyped
<1> QED BY <1>1, <1>2, LoopTypedStep, LocatedAlways, MarkedAlways,
           RowsTypedAlways, PTL DEF Spec
-----------------------------------------------------------------------------
(* The three tables.  Two of them may differ in a row only while a batch    *)
(* that one of them has seen is still to reach the other.                   *)

Tables == {Primary} \cup Mirrors

Written(t, c) == written[<<t, c>>]

Value(t, c) == IF t = Primary THEN zones[c] ELSE mirrors[t][c]

WriteTimes ==
    /\ \A t \in Tables, c \in Cell : Written(t, c) <= Len(journal)
    /\ \A b \in batches : b.wt \in 1 .. Len(journal)
    /\ \A a, b \in batches : a.wt = b.wt => a = b

Reached ==
    \A b \in batches, t \in Tables, c \in Cell :
        c \in DOMAIN b.rows /\ <<t, c>> \notin b.left => b.wt <= Written(t, c)

Shown ==
    \A b \in batches, t \in Tables, c \in Cell :
        c \in DOMAIN b.rows /\ Written(t, c) = b.wt => Value(t, c) = b.rows[c]

Pending ==
    \A t, u \in Tables, c \in Cell :
        Written(t, c) < Written(u, c)
          => \E b \in batches : b.wt = Written(u, c) /\ <<t, c>> \in b.left

Agreeing ==
    \A t, u \in Tables, c \in Cell :
        Written(t, c) = Written(u, c) => Value(t, c) = Value(u, c)

StoresInv == WriteTimes /\ Reached /\ Shown /\ Pending /\ Agreeing

(* A mutation in full: what it leaves alone, and what it changes if it wins. *)
LEMMA ApplyRowIs ==
    ASSUME RowsTyped, NEW b \in batches, NEW t \in Tables, NEW c \in Cell,
           ApplyRow(b, t, c)
    PROVE  /\ b.wt \in Nat /\ c \in DOMAIN b.rows /\ <<t, c>> \in b.left
           /\ \A u \in Tables, d \in Cell :
                /\ Written(u, d) \in Nat
                /\ Written(u, d)' = IF u = t /\ d = c /\ b.wt > Written(t, c)
                                    THEN b.wt ELSE Written(u, d)
                /\ Value(u, d)' = IF u = t /\ d = c /\ b.wt > Written(t, c)
                                  THEN b.rows[c] ELSE Value(u, d)
<1>1. /\ IsBatch(b) /\ <<t, c>> \in b.left
      /\ \A u \in Tables, d \in Cell : <<u, d>> \in InventoryRow
  BY DEF ApplyRow, RowsTyped, InventoryRow, Tables
<1>2. b.wt \in Nat /\ c \in DOMAIN b.rows
  <2>1. <<t, c>> # <<"orders", b.order>>
    BY DEF Tables, Primary, Mirrors
  <2> QED BY <1>1, <2>1 DEF IsBatch
<1> DEFINE wins == b.wt > written[<<t, c>>]
<1>3. /\ written' = IF wins THEN [written EXCEPT ![<<t, c>>] = b.wt] ELSE written
      /\ zones' = IF wins /\ t = Primary THEN [zones EXCEPT ![c] = b.rows[c]]
                  ELSE zones
      /\ mirrors' = IF wins /\ t \in Mirrors
                    THEN [mirrors EXCEPT ![t][c] = b.rows[c]] ELSE mirrors
  BY DEF ApplyRow
<1> HIDE DEF wins
<1>4. ASSUME NEW u \in Tables, NEW d \in Cell
      PROVE  /\ written[<<u, d>>] \in Nat
             /\ written'[<<u, d>>] = IF u = t /\ d = c /\ wins
                                     THEN b.wt ELSE written[<<u, d>>]
  BY <1>1, <1>3 DEF RowsTyped
<1>5. ASSUME NEW d \in Cell
      PROVE  zones'[d] = IF t = Primary /\ d = c /\ wins THEN b.rows[c] ELSE zones[d]
  BY <1>3 DEF RowsTyped
<1>6. ASSUME NEW u \in Mirrors, NEW d \in Cell
      PROVE  mirrors'[u][d] = IF u = t /\ d = c /\ wins THEN b.rows[c] ELSE mirrors[u][d]
  <2>1. mirrors[u] \in [Cell -> StoredRow]
    BY DEF RowsTyped
  <2> QED BY <1>3, <2>1 DEF RowsTyped
<1>7. \A u \in Tables : u = Primary \/ u \in Mirrors
  BY DEF Tables
<1>8. Primary \notin Mirrors
  BY DEF Primary, Mirrors
<1>9. ASSUME NEW u \in Tables, NEW d \in Cell
      PROVE  (IF u = Primary THEN zones'[d] ELSE mirrors'[u][d])
               = IF u = t /\ d = c /\ wins THEN b.rows[c]
                 ELSE IF u = Primary THEN zones[d] ELSE mirrors[u][d]
  BY <1>5, <1>6, <1>7, <1>8
<1> QED BY <1>1, <1>2, <1>4, <1>9 DEF Written, Value, wins

LEMMA ApplyRowKeeps ==
    ASSUME RowsTyped, StoresInv, UNCHANGED journal, journal \in Seq(EventIds),
           NEW b \in batches, NEW t \in Tables, NEW c \in Cell, ApplyRow(b, t, c)
    PROVE  StoresInv'
<1>1. /\ b.wt \in Nat /\ c \in DOMAIN b.rows /\ <<t, c>> \in b.left
      /\ \A u \in Tables, d \in Cell :
           /\ Written(u, d) \in Nat
           /\ Written(u, d)' = IF u = t /\ d = c /\ b.wt > Written(t, c)
                               THEN b.wt ELSE Written(u, d)
           /\ Value(u, d)' = IF u = t /\ d = c /\ b.wt > Written(t, c)
                             THEN b.rows[c] ELSE Value(u, d)
  BY ApplyRowIs
<1>2. /\ IsBatch(b) /\ batches' = Applied(b, <<t, c>>)
      /\ \A a \in batches : a.wt \in Nat
  BY DEF ApplyRow, RowsTyped, IsBatch
<1> DEFINE r == Rest(b, <<t, c>>)
<1>3. /\ r.wt = b.wt /\ r.rows = b.rows /\ r.left = b.left \ {<<t, c>>}
      /\ \A a \in batches' : (a \in batches /\ a # b) \/ a = r
      /\ \A a \in batches : a # b => a \in batches'
      /\ b.left # {<<t, c>>} => r \in batches'
  <2> HIDE DEF IsBatch
  <2> QED BY <1>2, AppliedIs
<1>4. Len(journal) \in Nat /\ journal' = journal
  OBVIOUS
<1>5. ASSUME NEW u \in Tables, NEW d \in Cell
      PROVE  /\ Written(u, d) \in Nat /\ Written(u, d)' \in Nat
             /\ Written(u, d) <= Written(u, d)'
             /\ ~(u = t /\ d = c) => /\ Written(u, d)' = Written(u, d)
                                     /\ Value(u, d)' = Value(u, d)
             /\ b.wt <= Written(t, c) => /\ Written(u, d)' = Written(u, d)
                                         /\ Value(u, d)' = Value(u, d)
  BY <1>1
<1>6. /\ b.wt <= Written(t, c)'
      /\ b.wt > Written(t, c) => /\ Written(t, c)' = b.wt
                                 /\ Value(t, c)' = b.rows[c]
  BY <1>1
<1> HIDE DEF r, RowsTyped, IsBatch, ApplyRow
<1>7. WriteTimes'
  <2>1. \A a \in batches' : a.wt \in 1 .. Len(journal)
    BY <1>3 DEF StoresInv, WriteTimes
  <2>2. ASSUME NEW u \in Tables, NEW d \in Cell
        PROVE  Written(u, d)' <= Len(journal)
    BY <1>1, <1>4 DEF StoresInv, WriteTimes
  <2>3. \A a, e \in batches' : a.wt = e.wt => a = e
    BY <1>3 DEF StoresInv, WriteTimes
  <2> QED BY <1>4, <2>1, <2>2, <2>3 DEF WriteTimes
<1>8. Reached'
  <2> SUFFICES ASSUME NEW a \in batches', NEW u \in Tables, NEW d \in Cell,
                      d \in DOMAIN a.rows, <<u, d>> \notin a.left
               PROVE  a.wt <= Written(u, d)'
    BY DEF Reached
  <2>1. CASE a \in batches
    <3>1. a.wt <= Written(u, d)
      BY <2>1 DEF StoresInv, Reached
    <3> QED BY <1>2, <1>5, <2>1, <3>1
  <2>2. CASE a = r /\ u = t /\ d = c
    BY <1>3, <1>6, <2>2
  <2>3. CASE a = r /\ ~(u = t /\ d = c)
    <3>1. <<u, d>> \notin b.left
      BY <1>3, <2>3
    <3>2. b.wt <= Written(u, d)
      BY <1>3, <2>3, <3>1 DEF StoresInv, Reached
    <3> QED BY <1>3, <1>5, <2>3, <3>2
  <2> QED BY <1>3, <2>1, <2>2, <2>3
<1>9. Shown'
  <2> SUFFICES ASSUME NEW a \in batches', NEW u \in Tables, NEW d \in Cell,
                      d \in DOMAIN a.rows, Written(u, d)' = a.wt
               PROVE  Value(u, d)' = a.rows[d]
    BY DEF Shown
  <2>1. PICK e \in batches : e.wt = a.wt /\ e.rows = a.rows
    BY <1>3
  <2>2. CASE Written(u, d)' = Written(u, d) /\ Value(u, d)' = Value(u, d)
    BY <2>1, <2>2 DEF StoresInv, Shown
  <2>3. CASE u = t /\ d = c /\ b.wt > Written(t, c)
    <3>1. e.wt = b.wt
      BY <1>6, <2>1, <2>3
    <3>2. e = b
      BY <3>1 DEF StoresInv, WriteTimes
    <3> QED BY <1>6, <2>1, <2>3, <3>2
  <2> QED BY <1>1, <1>5, <2>2, <2>3
<1>10. Pending'
  <2> SUFFICES ASSUME NEW u \in Tables, NEW v \in Tables, NEW d \in Cell,
                      Written(u, d)' < Written(v, d)'
               PROVE  \E a \in batches' : a.wt = Written(v, d)' /\ <<u, d>> \in a.left
    BY DEF Pending
  <2>0. Written(u, d) <= Written(u, d)'
    BY <1>5
  <2>1. ASSUME NEW e \in batches, e.wt = Written(v, d)', <<u, d>> \in e.left,
               e # b \/ <<u, d>> # <<t, c>>
        PROVE  \E a \in batches' : a.wt = Written(v, d)' /\ <<u, d>> \in a.left
    <3>1. CASE e # b
      BY <1>3, <2>1, <3>1
    <3>2. CASE e = b
      <4>1. <<u, d>> \in r.left /\ r.wt = Written(v, d)' /\ b.left # {<<t, c>>}
        BY <1>3, <2>1, <3>2
      <4> QED BY <1>3, <4>1
    <3> QED BY <3>1, <3>2
  <2>2. CASE Written(v, d)' = Written(v, d)
    <3>1. Written(u, d) < Written(v, d)
      BY <1>5, <2>0, <2>2
    <3>2. PICK e \in batches : e.wt = Written(v, d) /\ <<u, d>> \in e.left
      BY <3>1 DEF StoresInv, Pending
    <3>3. e # b \/ <<u, d>> # <<t, c>>
      BY <1>1, <1>6, <2>2, <3>2
    <3> QED BY <2>1, <2>2, <3>2, <3>3
  <2>3. CASE v = t /\ d = c /\ b.wt > Written(t, c)
    <3>1. Written(v, d)' = b.wt
      BY <1>6, <2>3
    <3>2. u # t
      <4>1. \A n \in Nat : ~(n < n)
        OBVIOUS
      <4> QED BY <1>5, <2>3, <4>1 DEF Written
    <3>3. Written(u, d) < b.wt
      BY <1>1, <1>5, <2>0, <3>1
    <3>4. <<u, d>> \in b.left
      BY <1>1, <2>3, <3>3 DEF StoresInv, Reached
    <3> QED BY <2>1, <3>1, <3>2, <3>4
  <2> QED BY <1>1, <1>5, <2>2, <2>3
<1>11. Agreeing'
  <2>a. ASSUME b.wt > Written(t, c), NEW v \in Tables, v # t,
               Written(v, c)' = Written(t, c)'
        PROVE  Value(v, c)' = Value(t, c)'
    <3>1. Written(v, c) = b.wt /\ Value(v, c)' = Value(v, c)
      BY <1>5, <1>6, <2>a
    <3>2. Value(v, c) = b.rows[c]
      BY <1>1, <3>1 DEF StoresInv, Shown
    <3> QED BY <1>6, <2>a, <3>1, <3>2
  <2> SUFFICES ASSUME NEW u \in Tables, NEW v \in Tables, NEW d \in Cell,
                      Written(u, d)' = Written(v, d)'
               PROVE  Value(u, d)' = Value(v, d)'
    BY DEF Agreeing
  <2>1. CASE d = c /\ b.wt > Written(t, c) /\ (u = t \/ v = t)
    BY <2>a, <2>1
  <2>2. CASE ~(d = c /\ b.wt > Written(t, c) /\ (u = t \/ v = t))
    <3>1. /\ Written(u, d)' = Written(u, d) /\ Value(u, d)' = Value(u, d)
          /\ Written(v, d)' = Written(v, d) /\ Value(v, d)' = Value(v, d)
      BY <1>1, <2>2
    <3>2. Written(u, d) = Written(v, d)
      BY <3>1
    <3>3. Value(u, d) = Value(v, d)
      BY <3>2 DEF StoresInv, Agreeing
    <3> QED BY <3>1, <3>3
  <2> QED BY <2>1, <2>2
<1> QED BY <1>7, <1>8, <1>9, <1>10, <1>11 DEF StoresInv

LEMMA ApplyOrderKeeps ==
    ASSUME RowsTyped, StoresInv, UNCHANGED journal, journal \in Seq(EventIds),
           NEW b \in batches, ApplyOrder(b)
    PROVE  StoresInv'
<1> DEFINE m == <<"orders", b.order>>
           r == Rest(b, m)
<1>1. IsBatch(b) /\ batches' = Applied(b, m)
  BY DEF ApplyOrder, RowsTyped
<1>2. /\ r.wt = b.wt /\ r.rows = b.rows /\ r.left = b.left \ {m}
      /\ \A a \in batches' : (a \in batches /\ a # b) \/ a = r
      /\ \A a \in batches : a # b => a \in batches'
      /\ b.left # {m} => r \in batches'
  <2> HIDE DEF IsBatch
  <2> QED BY <1>1, AppliedIs
<1>3. \A u \in Tables, d \in Cell :
         /\ <<u, d>> # m
         /\ Written(u, d)' = Written(u, d) /\ Value(u, d)' = Value(u, d)
  <2>1. ASSUME NEW u \in Tables, NEW d \in Cell
        PROVE  /\ <<u, d>> # m /\ <<u, d>> \in InventoryRow
               /\ <<u, d>> # <<"status", b.order>> /\ <<u, d>> # <<"items", b.order>>
    BY DEF Tables, Primary, Mirrors, InventoryRow
  <2>2. /\ UNCHANGED <<zones, mirrors>>
        /\ \E s, i : written' = [written EXCEPT ![<<"status", b.order>>] = s,
                                                ![<<"items", b.order>>] = i]
    BY DEF ApplyOrder
  <2>3. \A u \in Tables, d \in Cell : written'[<<u, d>>] = written[<<u, d>>]
    BY <2>1, <2>2 DEF RowsTyped
  <2> QED BY <2>1, <2>2, <2>3 DEF Written, Value
<1> HIDE DEF m, r, RowsTyped, ApplyOrder
<1>4. /\ Len(journal) \in Nat /\ journal' = journal
      /\ \A a \in batches' : \E e \in batches : a.wt = e.wt /\ a.rows = e.rows
            /\ \A u \in Tables, d \in Cell : <<u, d>> \in a.left <=> <<u, d>> \in e.left
      /\ \A e \in batches, u \in Tables, d \in Cell : <<u, d>> \in e.left =>
            \E a \in batches' : a.wt = e.wt /\ <<u, d>> \in a.left
  <2>1. ASSUME NEW a \in batches'
        PROVE  \E e \in batches : a.wt = e.wt /\ a.rows = e.rows
            /\ \A u \in Tables, d \in Cell : <<u, d>> \in a.left <=> <<u, d>> \in e.left
    <3>1. CASE a \in batches
      BY <3>1
    <3>2. CASE a = r
      BY <1>2, <1>3, <3>2
    <3> QED BY <1>2, <3>1, <3>2
  <2>2. ASSUME NEW e \in batches, NEW u \in Tables, NEW d \in Cell, <<u, d>> \in e.left
        PROVE  \E a \in batches' : a.wt = e.wt /\ <<u, d>> \in a.left
    BY <1>2, <1>3, <2>2
  <2> QED BY <2>1, <2>2
<1>5. WriteTimes'
  BY <1>2, <1>3, <1>4 DEF StoresInv, WriteTimes
<1>6. Reached'
  BY <1>3, <1>4 DEF StoresInv, Reached
<1>7. Shown'
  BY <1>3, <1>4 DEF StoresInv, Shown
<1>8. Pending'
  <2> SUFFICES ASSUME NEW u \in Tables, NEW v \in Tables, NEW d \in Cell,
                      Written(u, d)' < Written(v, d)'
               PROVE  \E a \in batches' : a.wt = Written(v, d)' /\ <<u, d>> \in a.left
    BY DEF Pending
  <2>1. PICK e \in batches : e.wt = Written(v, d) /\ <<u, d>> \in e.left
    BY <1>3 DEF StoresInv, Pending
  <2> QED BY <1>3, <1>4, <2>1
<1>9. Agreeing'
  BY <1>3 DEF StoresInv, Agreeing
<1> QED BY <1>5, <1>6, <1>7, <1>8, <1>9 DEF StoresInv

LEMMA ExecuteKeeps ==
    ASSUME RowsTyped, StoresInv, journal \in Seq(EventIds), ExecuteBatch
    PROVE  StoresInv'
<1> DEFINE n == NewBatch
<1>1. /\ batches' \subseteq batches \cup {n} /\ batches \subseteq batches'
      /\ UNCHANGED <<zones, mirrors, written>>
      /\ journal' = Append(journal, ev.id)
  BY DEF ExecuteBatch
<1>2. /\ Len(journal) \in Nat /\ Len(journal') = Len(journal) + 1
      /\ n.wt = Len(journal) + 1
      /\ \A u \in Tables, d \in DOMAIN n.rows : <<u, d>> \in n.left
  BY <1>1 DEF NewBatch, Tables
<1>3. \A u \in Tables, d \in Cell :
         /\ Written(u, d)' = Written(u, d) /\ Value(u, d)' = Value(u, d)
         /\ Written(u, d) \in Nat /\ Written(u, d) <= Len(journal)
  <2>1. \A u \in Tables, d \in Cell : <<u, d>> \in InventoryRow
    BY DEF Tables, InventoryRow
  <2> QED BY <1>1, <2>1 DEF Written, Value, RowsTyped, StoresInv, WriteTimes
<1> HIDE DEF n, RowsTyped
<1>4. \A a \in batches : a.wt \in 1 .. Len(journal)
  BY DEF StoresInv, WriteTimes
<1>5. WriteTimes'
  <2>1. \A a \in batches' : a.wt \in 1 .. Len(journal')
    BY <1>1, <1>2, <1>4
  <2>2. \A u \in Tables, d \in Cell : Written(u, d)' <= Len(journal')
    BY <1>2, <1>3
  <2>3. \A a, e \in batches' : a.wt = e.wt => a = e
    BY <1>1, <1>2, <1>4 DEF StoresInv, WriteTimes
  <2> QED BY <2>1, <2>2, <2>3 DEF WriteTimes
<1>6. Reached'
  <2> SUFFICES ASSUME NEW a \in batches', NEW u \in Tables, NEW d \in Cell,
                      d \in DOMAIN a.rows, <<u, d>> \notin a.left
               PROVE  a.wt <= Written(u, d)'
    BY DEF Reached
  <2>1. a \in batches
    BY <1>1, <1>2
  <2> QED BY <1>3, <2>1 DEF StoresInv, Reached
<1>7. Shown'
  <2>1. \A u \in Tables, d \in Cell : Written(u, d) # n.wt
    BY <1>2, <1>3
  <2> SUFFICES ASSUME NEW a \in batches', NEW u \in Tables, NEW d \in Cell,
                      d \in DOMAIN a.rows, Written(u, d)' = a.wt
               PROVE  Value(u, d)' = a.rows[d]
    BY DEF Shown
  <2>2. Written(u, d) = a.wt
    BY <1>3
  <2>3. a \in batches
    BY <1>1, <2>1, <2>2
  <2>4. Value(u, d) = a.rows[d]
    BY <2>2, <2>3 DEF StoresInv, Shown
  <2> QED BY <1>3, <2>4
<1>8. Pending'
  <2> SUFFICES ASSUME NEW u \in Tables, NEW v \in Tables, NEW d \in Cell,
                      Written(u, d)' < Written(v, d)'
               PROVE  \E a \in batches' : a.wt = Written(v, d)' /\ <<u, d>> \in a.left
    BY DEF Pending
  <2>1. PICK a \in batches : a.wt = Written(v, d) /\ <<u, d>> \in a.left
    BY <1>3 DEF StoresInv, Pending
  <2> QED BY <1>1, <1>3, <2>1
<1>9. Agreeing'
  BY <1>3 DEF StoresInv, Agreeing
<1> QED BY <1>5, <1>6, <1>7, <1>8, <1>9 DEF StoresInv

(* Once Cassandra has worked off its batches, the denormalised tables agree *)
(* on every row.                                                            *)
THEOREM MirrorsAgree == Spec => []TablesAgree
<1>1. Init => StoresInv
  <2> SUFFICES ASSUME Init PROVE StoresInv
    OBVIOUS
  <2>1. batches = {} /\ Len(journal) = 0
    BY DEF Init
  <2>2. \A u \in Tables, d \in Cell : Written(u, d) = 0 /\ Value(u, d) = EmptyZone
    BY DEF Init, Written, Value, Tables, InventoryRow
  <2> QED BY <2>1, <2>2 DEF StoresInv, WriteTimes, Reached, Shown, Pending, Agreeing
<1>2. ASSUME Located, Marked, RowsTyped, StoresInv, [Next]_vars PROVE StoresInv'
  <2>0. journal \in Seq(EventIds)
    BY <1>2 DEF Marked
  <2>1. CASE ApplyMutation
    <3>1. UNCHANGED journal
      BY <2>1 DEF ApplyMutation, historyVars
    <3>2. PICK b \in batches : \/ \E t \in Tables, c \in Cell : ApplyRow(b, t, c)
                               \/ ApplyOrder(b)
      BY <2>1 DEF ApplyMutation, Tables
    <3> QED BY <1>2, <2>0, <3>1, <3>2, ApplyRowKeeps, ApplyOrderKeeps
  <2>2. CASE ExecuteBatch
    BY <1>2, <2>0, <2>2, ExecuteKeeps
  <2>3. CASE ~ApplyMutation /\ ~ExecuteBatch
    <3>1. UNCHANGED storeVars
      BY <1>2, <2>3, StoreSteps
    <3>2. UNCHANGED journal
      BY <1>2, <2>3, Cases, FailsIs, OutsideIs
         DEF Inside, Handle, RegistryFails, Mark, BatchReturns, SendToDlq, Commit,
             Crash, Stop, Start, Rebalance, Poll, historyVars
    <3> QED BY <1>2, <3>1, <3>2 DEF storeVars, StoresInv, WriteTimes, Reached, Shown,
                                    Pending, Agreeing, Written, Value
  <2> QED BY <2>1, <2>2, <2>3
<1>3. RowsTyped /\ StoresInv => TablesAgree
  <2> SUFFICES ASSUME RowsTyped, StoresInv, batches = {}, NEW t \in Mirrors
               PROVE  mirrors[t] = zones
    BY DEF TablesAgree
  <2>1. ASSUME NEW c \in Cell PROVE mirrors[t][c] = zones[c]
    <3>1. t \in Tables /\ Primary \in Tables /\ t # Primary
      BY DEF Tables, Primary, Mirrors
    <3>2. Written(t, c) \in Nat /\ Written(Primary, c) \in Nat
      BY <3>1 DEF Written, RowsTyped, Tables, InventoryRow
    <3>3. Written(t, c) = Written(Primary, c)
      BY <3>1, <3>2 DEF StoresInv, Pending
    <3>4. Value(t, c) = Value(Primary, c)
      BY <3>1, <3>3 DEF StoresInv, Agreeing
    <3> QED BY <3>1, <3>4 DEF Value
  <2>2. mirrors[t] \in [Cell -> StoredRow] /\ zones \in [Cell -> StoredRow]
    BY DEF RowsTyped
  <2> QED BY <2>1, <2>2
<1> QED BY <1>1, <1>2, <1>3, LocatedAlways, MarkedAlways, RowsTypedAlways, PTL
        DEF Spec
-----------------------------------------------------------------------------
(* Losses.  A step adds at most one event to the lost ones, and then it     *)
(* uses up a failure or a restart.                                          *)

Lost == {e \in processed : /\ e \notin Range(journal)
                           /\ ~(phase = "batch" /\ ev.id = e)}

Faults == infraErrors + restarts

LossInv == IsFiniteSet(Lost) /\ Cardinality(Lost) <= Faults

LEMMA LossStep ==
    ASSUME Located, Marked, LoopTyped, [Next]_vars
    PROVE  \/ Lost' \subseteq Lost /\ Faults' \in {Faults, Faults + 1}
           \/ Lost' \subseteq Lost \cup {ev.id} /\ Faults' = Faults + 1
<1>0. infraErrors \in Nat /\ restarts \in Nat
  BY DEF LoopTyped
<1>a. ASSUME UNCHANGED <<processed, journal, infraErrors, restarts>>,
             phase # "batch", phase' # "batch"
      PROVE  Lost' \subseteq Lost /\ Faults' = Faults
  BY <1>a DEF Lost, Faults
<1>1. CASE Mark
  <2>1. /\ processed' = processed \cup {ev.id} /\ ev' = ev /\ phase = "ops"
        /\ phase' = IF ev.id \in processed THEN "commit" ELSE "batch"
        /\ UNCHANGED <<journal, infraErrors, restarts>>
    BY <1>1 DEF Mark, boundVars, historyVars
  <2> QED BY <2>1 DEF Lost, Faults
<1>2. CASE ExecuteBatch
  <2>1. /\ journal' = Append(journal, ev.id) /\ phase = "batch" /\ phase' = "executing"
        /\ UNCHANGED <<processed, ev, infraErrors, restarts>>
    BY <1>2 DEF ExecuteBatch, boundVars
  <2>2. Range(journal) \subseteq Range(journal') /\ ev.id \in Range(journal')
    <3>1. /\ journal \in Seq(EventIds) /\ ev.id \in EventIds
      BY <2>1, MessagesAssumption DEF Marked, Located, WithEvent, Event
    <3>2. /\ DOMAIN journal' = 1 .. Len(journal) + 1 /\ DOMAIN journal = 1 .. Len(journal)
          /\ \A i \in 1 .. Len(journal) : journal'[i] = journal[i]
          /\ journal'[Len(journal) + 1] = ev.id
      BY <2>1, <3>1, AppendProperties
    <3>3. Len(journal) \in Nat
      BY <3>1
    <3> QED BY <3>2, <3>3 DEF Range
  <2> QED BY <2>1, <2>2 DEF Lost, Faults
<1>3. CASE Handle \/ BatchReturns \/ SendToDlq
  BY <1>a, <1>3, HandlerKeepsEvent
     DEF Handle, BatchReturns, SendToDlq, boundVars, historyVars
<1>4. CASE RegistryFails
  BY <1>0, <1>4 DEF RegistryFails, historyVars, Lost, Faults
<1>5. CASE Outside
  <2>1. /\ UNCHANGED <<processed, journal, phase, ev, restarts>>
        /\ infraErrors' \in {infraErrors, infraErrors + 1}
    BY <1>5, OutsideIs DEF handlerVars, historyVars
  <2>2. Lost' = Lost
    BY <2>1 DEF Lost
  <2>3. Faults' = Faults \/ Faults' = Faults + 1
    <3>1. restarts' = restarts
      BY <2>1
    <3>2. CASE infraErrors' = infraErrors
      BY <3>1, <3>2 DEF Faults
    <3>3. CASE infraErrors' = infraErrors + 1
      BY <1>0, <3>1, <3>3 DEF Faults
    <3> QED BY <2>1, <3>2, <3>3
  <2> QED BY <2>2, <2>3
<1>6. CASE Fails
  <2>1. /\ infraErrors' = infraErrors + 1 /\ UNCHANGED <<restarts, journal>>
        /\ processed' \subseteq processed \cup {ev.id}
    BY <1>6, FailsIs DEF InfraError
  <2> QED BY <1>0, <2>1 DEF Lost, Faults
<1>7. CASE Crash
  <2>1. restarts' = restarts + 1 /\ UNCHANGED <<infraErrors, journal, processed>>
    BY <1>7 DEF Crash, historyVars
  <2> QED BY <1>0, <2>1 DEF Lost, Faults
<1>8. CASE Stop \/ Rebalance
  <2>1. /\ restarts' = restarts + 1 /\ phase = "idle" /\ phase' = "idle"
        /\ UNCHANGED <<infraErrors, journal, processed>>
    BY <1>8 DEF Stop, Rebalance, handlerVars, historyVars
  <2> QED BY <1>0, <2>1 DEF Lost, Faults
<1>9. CASE Start
  <2>1. UNCHANGED <<phase, ev, infraErrors, restarts, journal, processed>>
    BY <1>9 DEF Start, handlerVars, boundVars, historyVars
  <2> QED BY <2>1 DEF Lost, Faults
<1>10. CASE Commit \/ \E p \in Partitions : Poll(p)
  BY <1>a, <1>10 DEF Commit, Poll, Forget, boundVars, historyVars
<1> QED BY <1>1, <1>2, <1>3, <1>4, <1>5, <1>6, <1>7, <1>8, <1>9, <1>10, Cases
        DEF Inside

(* Every lost event costs a failed call or a restart of its own.            *)
THEOREM LossIsBounded == Spec => []LossBoundedByFailures
<1>1. Init => LoopTyped /\ LossInv
  <2> SUFFICES ASSUME Init PROVE LoopTyped /\ LossInv
    OBVIOUS
  <2>1. LoopTyped /\ Lost = {} /\ Faults = 0
    BY DEF Init, LoopTyped, Phases, Lost, Faults
  <2> QED BY <2>1, FS_EmptySet DEF LossInv
<1>2. ASSUME Located, Marked, LoopTyped, LossInv, [Next]_vars PROVE LossInv'
  <2> DEFINE l == Lost
             e == ev.id
  <2>1. IsFiniteSet(l) /\ Cardinality(l) \in Nat /\ Cardinality(l) <= Faults
    BY <1>2, FS_CardinalityType DEF LossInv
  <2>2. Faults \in Nat
    BY <1>2 DEF LoopTyped, Faults
  <2>3. /\ IsFiniteSet(l \cup {e})
        /\ Cardinality(l \cup {e}) \in Nat /\ Cardinality(l \cup {e}) <= Cardinality(l) + 1
    <3> HIDE DEF l, e
    <3>1. /\ IsFiniteSet(l \cup {e})
          /\ \/ Cardinality(l \cup {e}) = Cardinality(l)
             \/ Cardinality(l \cup {e}) = Cardinality(l) + 1
      BY <2>1, FS_AddElement
    <3> QED BY <2>1, <3>1
  <2>4. \/ Lost' \subseteq l /\ Faults' \in {Faults, Faults + 1}
        \/ Lost' \subseteq l \cup {e} /\ Faults' = Faults + 1
    BY <1>2, LossStep
  <2> HIDE DEF l, e
  <2>5. CASE Lost' \subseteq l /\ Faults' \in {Faults, Faults + 1}
    <3>1. IsFiniteSet(Lost') /\ Cardinality(Lost') <= Cardinality(l)
      BY <2>1, <2>5, FS_Subset
    <3>2. Cardinality(Lost') \in Nat
      BY <3>1, FS_CardinalityType
    <3> QED BY <2>1, <2>2, <2>5, <3>1, <3>2 DEF LossInv
  <2>6. CASE Lost' \subseteq l \cup {e} /\ Faults' = Faults + 1
    <3>1. IsFiniteSet(Lost') /\ Cardinality(Lost') <= Cardinality(l \cup {e})
      BY <2>3, <2>6, FS_Subset
    <3>2. Cardinality(Lost') \in Nat
      BY <3>1, FS_CardinalityType
    <3> QED BY <2>1, <2>2, <2>3, <2>6, <3>1, <3>2 DEF LossInv
  <2> QED BY <2>4, <2>5, <2>6
<1>3. LossInv => LossBoundedByFailures
  BY DEF LossInv, Lost, Faults, LossBoundedByFailures
<1> QED BY <1>1, <1>2, <1>3, LoopTypedStep, LocatedAlways, MarkedAlways, PTL DEF Spec
-----------------------------------------------------------------------------
(* The order of events without failures.  The only batch under way is that  *)
(* of the current event, so that what the handler read is what the batch    *)
(* overwrites.                                                              *)

FreshBatch(b) ==
    /\ b.wt = Len(journal) /\ b.rows = seen
    /\ \A c \in DOMAIN seen : <<Primary, c>> \in b.left => zones[c].ts < seen[c].ts

Undisturbed ==
    /\ Warehouse!SeenFresh
    /\ phase = "batch" => \A c \in DOMAIN seen : Warehouse!Older(c) /\ seen[c].ts = ev.ts
    /\ phase # "executing" => batches = {}
    /\ \A b \in batches : FreshBatch(b)
    /\ \A a, b \in batches : a = b

OrderInv == Faults = 0 => Undisturbed

(* Between two events nothing is under way.                                 *)
LEMMA IdleUndisturbed ==
    ASSUME phase' = "idle", seen' = NoRows, batches' = {}
    PROVE  Undisturbed'
BY DEF Undisturbed, Warehouse!SeenFresh, NoRows

(* A mutation of a fresh batch makes its row newer.                         *)
LEMMA FreshMutation ==
    ASSUME RowsTyped, Undisturbed, ApplyMutation
    PROVE  Undisturbed' /\ \A c \in Cell : zones'[c].ts >= zones[c].ts
<1>1. UNCHANGED <<ev, phase, seen, journal>>
  BY DEF ApplyMutation, handlerVars, historyVars
<1>2. phase = "executing"
  BY DEF ApplyMutation, Undisturbed
<1>3. \A c \in Cell : zones[c].ts \in Nat
  BY DEF RowsTyped, StoredRow
<1>t. \A b \in batches : IsBatch(b) /\ FreshBatch(b)
  BY DEF RowsTyped, Undisturbed
<1>a. ASSUME NEW b \in batches, NEW m, m \in b.left, batches' = Applied(b, m),
             \A c \in DOMAIN seen : <<Primary, c>> \in b.left /\ <<Primary, c>> # m
                                      => zones'[c].ts < seen[c].ts
      PROVE  Undisturbed'
  <2>1. \A a \in batches' : (a \in batches /\ a # b) \/ a = Rest(b, m)
    BY <1>t, <1>a, AppliedIs
  <2>2. FreshBatch(Rest(b, m))'
    <3>1. /\ Rest(b, m).wt = b.wt /\ Rest(b, m).rows = b.rows
          /\ Rest(b, m).left = b.left \ {m}
      BY <1>t, AppliedIs
    <3> QED BY <1>1, <1>t, <1>a, <3>1 DEF FreshBatch
  <2>3. \A a \in batches : a = b
    BY DEF Undisturbed
  <2>4. \A a \in batches' : a = Rest(b, m)
    BY <2>1, <2>3
  <2>5. \A a \in batches' : FreshBatch(a)'
    BY <2>2, <2>4
  <2> QED BY <1>1, <1>2, <2>4, <2>5 DEF Undisturbed, Warehouse!SeenFresh
<1>4. ASSUME NEW b \in batches, NEW t \in {Primary} \cup Mirrors, NEW c \in Cell,
             ApplyRow(b, t, c)
      PROVE  Undisturbed' /\ \A d \in Cell : zones'[d].ts >= zones[d].ts
  <2>1. /\ <<t, c>> \in b.left /\ batches' = Applied(b, <<t, c>>)
        /\ \/ zones' = zones
           \/ t = Primary /\ zones' = [zones EXCEPT ![c] = b.rows[c]]
    BY <1>4 DEF ApplyRow
  <2>2. t = Primary => /\ zones[c].ts < seen[c].ts /\ b.rows[c] = seen[c]
                       /\ c \in DOMAIN seen
    <3>1. <<t, c>> # <<"orders", b.order>>
      BY <1>4 DEF Primary, Mirrors
    <3>2. c \in DOMAIN b.rows
      BY <1>t, <2>1, <3>1 DEF IsBatch
    <3> QED BY <1>t, <2>1, <3>2 DEF FreshBatch
  <2>3. seen[c].ts \in Nat \/ c \notin DOMAIN seen
    BY DEF RowsTyped, StoredRow
  <2>4. \A d \in Cell : zones'[d].ts >= zones[d].ts
    <3>1. \A d \in Cell : zones[d].ts >= zones[d].ts
      BY <1>3
    <3>2. CASE t = Primary /\ zones' = [zones EXCEPT ![c] = b.rows[c]]
      <4>1. \A d \in Cell : zones'[d] = IF d = c THEN seen[c] ELSE zones[d]
        BY <2>2, <3>2 DEF RowsTyped
      <4>2. seen[c].ts >= zones[c].ts
        BY <1>3, <2>2, <2>3, <3>2
      <4> QED BY <3>1, <4>1, <4>2
    <3> QED BY <2>1, <3>1, <3>2
  <2>5. ASSUME NEW d \in Cell, d # c \/ t # Primary PROVE zones'[d] = zones[d]
    BY <2>1, <2>5 DEF RowsTyped
  <2>6. \A d \in DOMAIN seen : <<Primary, d>> \in b.left /\ <<Primary, d>> # <<t, c>>
                                  => zones'[d].ts < seen[d].ts
    BY <1>t, <2>5 DEF FreshBatch, RowsTyped
  <2> QED BY <1>a, <2>1, <2>4, <2>6
<1>5. ASSUME NEW b \in batches, ApplyOrder(b)
      PROVE  Undisturbed' /\ \A d \in Cell : zones'[d].ts >= zones[d].ts
  <2>1. /\ <<"orders", b.order>> \in b.left /\ zones' = zones
        /\ batches' = Applied(b, <<"orders", b.order>>)
    BY <1>5 DEF ApplyOrder
  <2> QED BY <1>3, <1>a, <1>t, <2>1 DEF FreshBatch
<1> QED BY <1>4, <1>5 DEF ApplyMutation

LEMMA OrderStep ==
    ASSUME Located, Marked, RowsTyped, LoopTyped, OrderInv, Faults = 0, [Next]_vars
    PROVE  OrderInv' /\ \A c \in Cell : zones'[c].ts >= zones[c].ts
<1>0. Undisturbed /\ infraErrors = 0 /\ restarts = 0
  BY DEF OrderInv, Faults, LoopTyped
<1>z. ASSUME zones' = zones PROVE \A c \in Cell : zones'[c].ts >= zones[c].ts
  BY <1>z DEF RowsTyped, StoredRow
<1>f. ASSUME infraErrors' = 1 \/ restarts' = 1, UNCHANGED storeVars, LoopTyped'
      PROVE  OrderInv' /\ \A c \in Cell : zones'[c].ts >= zones[c].ts
  <2>1. infraErrors' \in Nat /\ restarts' \in Nat
    BY <1>f DEF LoopTyped
  <2>2. \A i, r \in Nat : i = 1 \/ r = 1 => i + r # 0
    OBVIOUS
  <2>3. Faults' # 0
    BY <1>f, <2>1, <2>2 DEF Faults
  <2> QED BY <1>f, <1>z, <2>3 DEF OrderInv, storeVars
<1>l. LoopTyped'
  BY LoopTypedStep
<1>1. CASE Handle
  <2>1. /\ HandlerStep /\ UNCHANGED <<storeVars, journal>>
        /\ phase \in {"handling", "lines"} /\ phase' \in {"lines", "ops", "stale", "invalid"}
    BY <1>1, HandlerKeepsEvent DEF Handle, historyVars
  <2>2. Warehouse!HandlerTyped
    <3>1. phase \in {"handling", "lines"} => ev \in Event
      BY MessagesAssumption DEF Located, WithEvent
    <3> QED BY <3>1, RowsToHandler
  <2>3. Warehouse!SeenFresh'
    BY <1>0, <2>1, <2>2, SameHandlers, Warehouse!HandlerFresh DEF Undisturbed, storeVars
  <2>4. batches' = {}
    BY <1>0, <2>1 DEF Undisturbed, storeVars
  <2> QED BY <1>z, <2>1, <2>3, <2>4 DEF Undisturbed, OrderInv, storeVars
<1>2. CASE Mark
  BY <1>0, <1>z, <1>2
  DEF Mark, Undisturbed, Warehouse!SeenFresh, OrderInv, Warehouse!Older, storeVars
<1>3. CASE ExecuteBatch
  <2>1. /\ batches = {} /\ batches' \subseteq {NewBatch} /\ phase' = "executing"
        /\ UNCHANGED <<ev, seen, zones>> /\ journal' = Append(journal, ev.id)
        /\ \A c \in DOMAIN seen : Warehouse!Older(c) /\ seen[c].ts = ev.ts
    BY <1>0, <1>3 DEF ExecuteBatch, Undisturbed
  <2>2. NewBatch.wt = Len(journal') /\ NewBatch.rows = seen
    BY <2>1 DEF NewBatch, Marked
  <2>3. \A c \in DOMAIN seen' : zones'[c].ts < seen'[c].ts
    BY <2>1 DEF Warehouse!Older
  <2> DEFINE n == NewBatch
  <2> HIDE DEF n
  <2>4. \A b \in batches' : b = n /\ b.wt = Len(journal') /\ b.rows = seen'
    BY <2>1, <2>2 DEF n
  <2>5. Undisturbed'
    BY <2>1, <2>3, <2>4 DEF Undisturbed, Warehouse!SeenFresh, FreshBatch
  <2> QED BY <1>z, <2>1, <2>5 DEF OrderInv
<1>4. CASE BatchReturns
  <2>1. batches = {}
    BY <1>0, <1>4 DEF BatchReturns, Undisturbed, FreshBatch
  <2> QED BY <1>z, <1>4, <2>1
          DEF BatchReturns, Undisturbed, Warehouse!SeenFresh, OrderInv, storeVars
<1>5. CASE SendToDlq
  BY <1>0, <1>z, <1>5 DEF SendToDlq, Undisturbed, Warehouse!SeenFresh, OrderInv, storeVars
<1>6. CASE Commit
  BY <1>0, <1>z, <1>6, IdleUndisturbed DEF Commit, Forget, Undisturbed, OrderInv, storeVars
<1>7. ASSUME NEW p \in Partitions, Poll(p)
      PROVE  OrderInv' /\ \A c \in Cell : zones'[c].ts >= zones[c].ts
  <2>1. /\ phase = "idle" /\ phase' \in {"unusable", "handling"} /\ seen' = seen
        /\ UNCHANGED storeVars
    BY <1>7 DEF Poll
  <2> QED BY <1>0, <1>z, <2>1 DEF Undisturbed, Warehouse!SeenFresh, OrderInv, storeVars
<1>8. CASE RegistryFails
  BY <1>0, <1>8, <1>f, <1>l DEF RegistryFails
<1>9. CASE Fails
  <2>1. infraErrors' = 1 /\ UNCHANGED storeVars
    BY <1>0, <1>9, FailsIs DEF InfraError
  <2> QED BY <1>f, <1>l, <2>1
<1>10. CASE Crash \/ Stop \/ Rebalance
  <2>1. restarts' = 1 /\ UNCHANGED storeVars
    BY <1>0, <1>10 DEF Crash, Stop, Rebalance
  <2> QED BY <1>f, <1>l, <2>1
<1>11. CASE Start
  BY <1>0, <1>z, <1>11 DEF Start, Undisturbed, Warehouse!SeenFresh,
     Warehouse!Older, FreshBatch, OrderInv,
     handlerVars, storeVars, historyVars
<1>12. CASE ApplyMutation
  BY <1>0, <1>12, FreshMutation DEF OrderInv
<1>13. CASE DlqDelivers \/ UNCHANGED vars
  <2>1. UNCHANGED <<ev, phase, seen, journal, zones, batches>>
    BY <1>13 DEF DlqDelivers, vars, handlerVars, storeVars, historyVars
  <2> QED BY <1>0, <1>z, <2>1
          DEF Undisturbed, Warehouse!SeenFresh, Warehouse!Older, FreshBatch, OrderInv
<1>14. CASE DlqExpires
  BY <1>0, <1>14, <1>f, <1>l DEF DlqExpires
<1> QED BY <1>1, <1>2, <1>3, <1>4, <1>5, <1>6, <1>7, <1>8, <1>9, <1>10, <1>11, <1>12,
           <1>13, <1>14, Cases DEF Inside, Outside

(* As long as nothing fails, the newest event of every row stands.          *)
THEOREM NewestStands == Spec => NewestEventStands
<1>1. Init => LoopTyped /\ OrderInv
  BY DEF Init, LoopTyped, Phases, OrderInv, Undisturbed, Warehouse!SeenFresh, NoRows
<1>2. ASSUME Located, Marked, RowsTyped, LoopTyped, OrderInv, [Next]_vars
      PROVE  OrderInv'
  <2>1. CASE Faults = 0
    BY <1>2, <2>1, OrderStep
  <2>2. CASE Faults # 0
    <3>1. Faults \in Nat /\ Faults' \in {Faults, Faults + 1}
      BY <1>2, LossStep DEF Faults, LoopTyped
    <3> QED BY <2>2, <3>1 DEF OrderInv
  <2> QED BY <2>1, <2>2
<1>3. ASSUME Located, Marked, RowsTyped, LoopTyped, OrderInv, [Next]_vars
      PROVE  [infraErrors = 0 /\ restarts = 0
                => \A c \in Cell : zones'[c].ts >= zones[c].ts]_vars
  BY <1>3, OrderStep DEF Faults
<1> QED BY <1>1, <1>2, <1>3, LoopTypedStep, LocatedAlways, MarkedAlways,
           RowsTypedAlways, PTL DEF Spec, NewestEventStands
=============================================================================
