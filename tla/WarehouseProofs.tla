--------------------------- MODULE WarehouseProofs ---------------------------
(***************************************************************************)
(* Proofs about the event handlers and about Warehouse, for all products,  *)
(* zones, orders and events.  First what a step of a handler keeps,        *)
(* wherever the handlers run (ConsumerProofs cites this part): the types,  *)
(* that no quantity becomes negative, and that the rows it computes belong *)
(* to stored rows older than the event.  Then the properties of Warehouse: *)
(* the loop over the lines of an order against its reference, moves, and   *)
(* the reservations of open orders.                                        *)
(***************************************************************************)
EXTENDS Warehouse, SumTheorems

(* What a handler finds: well-typed tables, rows and lines, and an event    *)
(* while it is at work.                                                     *)
HandlerTyped ==
    /\ zones \in [Cell -> ZoneState]
    /\ orders \in [OrderIds -> Order]
    /\ phase \in {"handling", "lines"} => ev \in Event
    /\ DOMAIN seen \subseteq Cell
    /\ seen \in [DOMAIN seen -> ZoneState]
    /\ lines \in Seq(Line)

Verdicts == {"ops", "stale", "invalid"}

(* Changing reserved or the timestamp of a row gives a row.                 *)
LEMMA RowUpdates ==
    ASSUME NEW row \in ZoneState, NEW r \in Int, NEW t \in Nat
    PROVE  /\ [row EXCEPT !.reserved = @ + r] =
                 [available |-> row.available, reserved |-> row.reserved + r,
                  ts |-> row.ts]
           /\ [row EXCEPT !.ts = t] =
                 [available |-> row.available, reserved |-> row.reserved,
                  ts |-> t]
           /\ [row EXCEPT !.reserved = @ + r] \in ZoneState
           /\ [row EXCEPT !.ts = t] \in ZoneState
BY DEF ZoneState

(* A handler computes only while the phase says so, and what it emits is    *)
(* well-typed.  Handled per handler, since each has its own rows.           *)
LEMMA HandlerTypes ==
    ASSUME HandlerTyped, HandlerStep
    PROVE  /\ ev' = ev
           /\ phase' \in {"lines"} \cup Verdicts
           /\ phase \in {"handling", "lines"}
           /\ ev \in Event
           /\ DOMAIN seen' \subseteq Cell
           /\ seen' \in [DOMAIN seen' -> ZoneState]
           /\ lines' \in Seq(Line)
<1> USE DEF HandlerTyped, Verdicts, Event, ZoneState
<1>0. phase \in {"handling", "lines"} /\ ev \in Event
  BY DEF HandlerStep, HandleProductReceived, HandleProductShipped, CellHandler,
         HandleProductMoved, HandleProductReserved, HandleProductReleased,
         HandleInventoryCounted, HandleOrderCreated, HandleOrderCompleted,
         OrderCreatedLine, OrderCompletedLine, OrderLinesDone, Handling, InLoop
<1>a. ASSUME Skip \/ Reject
      PROVE  /\ ev' = ev /\ phase' \in {"lines"} \cup Verdicts
             /\ seen' = seen /\ lines' = lines
  BY <1>a DEF Skip, Reject
<1>b. ASSUME NEW a \in Int, NEW r \in Int, EmitCell(a, r)
      PROVE  /\ ev' = ev /\ phase' = "ops" /\ lines' = lines
             /\ DOMAIN seen' \subseteq Cell
             /\ seen' \in [DOMAIN seen' -> ZoneState]
  BY <1>0, <1>b DEF EmitCell, Emit, Adjusted
<1>c. ASSUME NEW t, NEW h, NEW a \in Int, NEW r \in Int, CellHandler(t, h, a, r)
      PROVE  /\ ev' = ev /\ phase' \in {"lines"} \cup Verdicts /\ lines' = lines
             /\ DOMAIN seen' \subseteq Cell
             /\ seen' \in [DOMAIN seen' -> ZoneState]
  BY <1>a, <1>b, <1>c DEF CellHandler
<1>d. /\ ev.qty \in Int /\ -ev.qty \in Int /\ 0 \in Int
      /\ ev.qty - zones[ev.cell].available \in Int
  BY <1>0
<1>1. CASE HandleProductReceived
  BY <1>0, <1>1, <1>c, <1>d DEF HandleProductReceived
<1>2. CASE HandleProductShipped
  BY <1>0, <1>2, <1>c, <1>d DEF HandleProductShipped
<1>3. CASE HandleProductMoved
  <2>1. CASE Skip \/ Reject
    BY <1>0, <1>a, <2>1
  <2>2. CASE Emit([c \in {ev.cell, ev.to} |->
                    Adjusted(c, IF c = ev.cell THEN -ev.qty ELSE ev.qty, 0)])
    BY <1>0, <1>d, <2>2, SMTT(30) DEF Emit, Adjusted
  <2> QED BY <1>3, <2>1, <2>2 DEF HandleProductMoved
<1>4. CASE HandleProductReserved
  BY <1>0, <1>4, <1>c, <1>d DEF HandleProductReserved
<1>5. CASE HandleProductReleased
  BY <1>0, <1>5, <1>c, <1>d DEF HandleProductReleased
<1>6. CASE HandleInventoryCounted
  BY <1>0, <1>6, <1>c, <1>d DEF HandleInventoryCounted
<1>7. CASE HandleOrderCreated
  BY <1>0, <1>a, <1>7 DEF HandleOrderCreated, StartLines
<1>8. CASE HandleOrderCompleted
  BY <1>0, <1>a, <1>8 DEF HandleOrderCompleted, StartLines, Emit, NoRows, Order
<1>e. ASSUME phase = "lines", lines # <<>>
      PROVE  /\ Head(lines) \in Line
             /\ Tail(lines) \in Seq(Line)
             /\ LineRow(Head(lines).cell) \in ZoneState
  <2>1. Head(lines) \in Line /\ Tail(lines) \in Seq(Line)
    BY <1>e
  <2> QED BY <2>1 DEF LineRow, Line
<1>f. ASSUME phase = "lines", NEW c \in Cell, NEW r \in Int, KeepLine(c, r),
             LineRow(c) \in ZoneState, Tail(lines) \in Seq(Line)
      PROVE  /\ ev' = ev /\ phase' = "lines" /\ lines' \in Seq(Line)
             /\ DOMAIN seen' \subseteq Cell
             /\ seen' \in [DOMAIN seen' -> ZoneState]
  <2>1. [LineRow(c) EXCEPT !.reserved = @ + r] \in ZoneState
    BY <1>f, RowUpdates, 0 \in Nat
  <2>2. \A d \in DOMAIN seen : seen[d] \in ZoneState
    OBVIOUS
  <2> QED BY <1>f, <2>1, <2>2 DEF KeepLine
<1>9. CASE OrderCreatedLine
  BY <1>0, <1>9, <1>a, <1>e, <1>f DEF OrderCreatedLine, InLoop, Line
<1>10. CASE OrderCompletedLine
  <2>0. phase = "lines" /\ lines # <<>>
    BY <1>10 DEF OrderCompletedLine, InLoop
  <2>1. /\ Head(lines) \in Line /\ Tail(lines) \in Seq(Line)
        /\ LineRow(Head(lines).cell) \in ZoneState
    BY <2>0, <1>e
  <2>a. Head(lines).cell \in Cell /\ -(Head(lines).qty) \in Int
    <3> DEFINE item == Head(lines)
    <3>1. item \in Line
      BY <2>1
    <3> HIDE DEF item, HandlerTyped
    <3>2. item.cell \in Cell /\ item.qty \in Int
      BY <3>1 DEF Line
    <3>3. -(item.qty) \in Int
      BY <3>2
    <3> QED BY <3>2, <3>3 DEF item
  <2>2. CASE Skip \/ Reject
    BY <1>0, <1>a, <2>2
  <2>3. CASE KeepLine(Head(lines).cell, -(Head(lines).qty))
    BY <1>0, <1>f, <2>0, <2>1, <2>a, <2>3
  <2> QED BY <1>10, <2>2, <2>3 DEF OrderCompletedLine
<1>11. CASE OrderLinesDone
  BY <1>0, <1>11 DEF OrderLinesDone, Emit
<1> QED
  BY <1>0, <1>1, <1>2, <1>3, <1>4, <1>5, <1>6, <1>7, <1>8, <1>9, <1>10, <1>11
  DEF HandlerStep
-----------------------------------------------------------------------------
(* Non-negativity.  It is inductive with the type invariant: each handler   *)
(* subtracts from a row of zones or seen only after comparing it.           *)

RowsNonNegative(rows) ==
    \A c \in DOMAIN rows : rows[c].available >= 0 /\ rows[c].reserved >= 0

LEMMA HandlerNonNegative ==
    ASSUME HandlerTyped, RowsNonNegative(zones), RowsNonNegative(seen),
           HandlerStep
    PROVE  RowsNonNegative(seen')
<1> USE DEF HandlerTyped, Event, ZoneState
<1>0. ev \in Event
  BY HandlerTypes
<1>z. \A c \in Cell : /\ zones[c].available \in Int /\ zones[c].reserved \in Int
                      /\ zones[c].available >= 0 /\ zones[c].reserved >= 0
  BY DEF RowsNonNegative
<1>s. RowsNonNegative(seen)
  OBVIOUS
<1>a. ASSUME seen' = seen PROVE RowsNonNegative(seen')
  BY <1>s, <1>a
<1>b. ASSUME NEW a \in Int, NEW r \in Int, EmitCell(a, r),
             zones[ev.cell].available + a >= 0, zones[ev.cell].reserved + r >= 0
      PROVE  RowsNonNegative(seen')
  BY <1>0, <1>b DEF EmitCell, Emit, Adjusted, RowsNonNegative
<1>c. ASSUME NEW t, NEW h \in Int, NEW a \in Int, NEW r \in Int,
             CellHandler(t, h, a, r),
             ev.qty >= 0 /\ h >= ev.qty =>
               /\ zones[ev.cell].available + a >= 0
               /\ zones[ev.cell].reserved + r >= 0
      PROVE  RowsNonNegative(seen')
  <2>1. CASE Skip \/ Reject
    BY <1>a, <2>1 DEF Skip, Reject
  <2>2. CASE EmitCell(a, r) /\ ev.qty >= 0 /\ h >= ev.qty
    BY <1>b, <1>c, <2>2
  <2> QED BY <1>c, <2>1, <2>2 DEF CellHandler
<1>d. /\ ev.qty \in Int /\ -ev.qty \in Int /\ ev.cell \in Cell /\ ev.to \in Cell
      /\ zones[ev.cell].available \in Int /\ zones[ev.cell].available >= 0
      /\ zones[ev.cell].reserved \in Int /\ zones[ev.cell].reserved >= 0
      /\ ev.qty - zones[ev.cell].available \in Int
  BY <1>0, <1>z
<1>1. CASE HandleProductReceived
  <2>1. CellHandler("PRODUCT_RECEIVED", ev.qty, ev.qty, 0)
    BY <1>1 DEF HandleProductReceived
  <2>2. ev.qty >= 0 /\ ev.qty >= ev.qty =>
          /\ zones[ev.cell].available + (ev.qty) >= 0
          /\ zones[ev.cell].reserved + 0 >= 0
    BY <1>d
  <2> HIDE DEF HandlerTyped
  <2> QED BY <1>c, <1>d, <2>1, <2>2
<1>2. CASE HandleProductShipped
  <2>1. CellHandler("PRODUCT_SHIPPED", zones[ev.cell].available, -ev.qty, 0)
    BY <1>2 DEF HandleProductShipped
  <2>2. ev.qty >= 0 /\ zones[ev.cell].available >= ev.qty =>
          /\ zones[ev.cell].available + (-ev.qty) >= 0
          /\ zones[ev.cell].reserved + 0 >= 0
    BY <1>d
  <2> HIDE DEF HandlerTyped
  <2> QED BY <1>c, <1>d, <2>1, <2>2
<1>3. CASE HandleProductMoved
  <2>1. CASE Skip \/ Reject
    BY <1>a, <2>1 DEF Skip, Reject
  <2>2. CASE /\ ev.qty >= 0 /\ zones[ev.cell].available >= ev.qty
             /\ Emit([c \in {ev.cell, ev.to} |->
                    Adjusted(c, IF c = ev.cell THEN -ev.qty ELSE ev.qty, 0)])
    <3>1. /\ DOMAIN seen' = {ev.cell, ev.to}
          /\ seen'[ev.cell].available = zones[ev.cell].available + (-ev.qty)
          /\ seen'[ev.cell].reserved = zones[ev.cell].reserved + 0
          /\ ev.to # ev.cell =>
               seen'[ev.to].available = zones[ev.to].available + ev.qty
          /\ seen'[ev.to].reserved = zones[ev.to].reserved + 0
      BY <2>2 DEF Emit, Adjusted
    <3>4. /\ zones[ev.to].available \in Int /\ zones[ev.to].available >= 0
          /\ zones[ev.to].reserved \in Int /\ zones[ev.to].reserved >= 0
      BY <1>d, <1>z
    <3> HIDE DEF HandlerTyped
    <3>2. seen'[ev.cell].available >= 0 /\ seen'[ev.cell].reserved >= 0
      BY <1>d, <2>2, <3>1
    <3>3. seen'[ev.to].available >= 0 /\ seen'[ev.to].reserved >= 0
      BY <1>d, <2>2, <3>1, <3>2, <3>4
    <3> QED BY <3>1, <3>2, <3>3 DEF RowsNonNegative
  <2> QED BY <1>3, <2>1, <2>2 DEF HandleProductMoved
<1>4. CASE HandleProductReserved
  <2>1. CellHandler("PRODUCT_RESERVED", zones[ev.cell].available, -ev.qty, ev.qty)
    BY <1>4 DEF HandleProductReserved
  <2>2. ev.qty >= 0 /\ zones[ev.cell].available >= ev.qty =>
          /\ zones[ev.cell].available + (-ev.qty) >= 0
          /\ zones[ev.cell].reserved + (ev.qty) >= 0
    BY <1>d
  <2> HIDE DEF HandlerTyped
  <2> QED BY <1>c, <1>d, <2>1, <2>2
<1>5. CASE HandleProductReleased
  <2>1. CellHandler("PRODUCT_RELEASED", zones[ev.cell].reserved, ev.qty, -ev.qty)
    BY <1>5 DEF HandleProductReleased
  <2>2. ev.qty >= 0 /\ zones[ev.cell].reserved >= ev.qty =>
          /\ zones[ev.cell].available + (ev.qty) >= 0
          /\ zones[ev.cell].reserved + (-ev.qty) >= 0
    BY <1>d
  <2> HIDE DEF HandlerTyped
  <2> QED BY <1>c, <1>d, <2>1, <2>2
<1>6. CASE HandleInventoryCounted
  <2>1. CellHandler("INVENTORY_COUNTED", ev.qty, ev.qty - zones[ev.cell].available, 0)
    BY <1>6 DEF HandleInventoryCounted
  <2>2. ev.qty >= 0 /\ ev.qty >= ev.qty =>
          /\ zones[ev.cell].available + (ev.qty - zones[ev.cell].available) >= 0
          /\ zones[ev.cell].reserved + 0 >= 0
    BY <1>d
  <2> HIDE DEF HandlerTyped
  <2> QED BY <1>c, <1>d, <2>1, <2>2
<1>7. CASE HandleOrderCreated
  BY <1>a, <1>7 DEF HandleOrderCreated, StartLines, Reject
<1>8. CASE HandleOrderCompleted
  BY <1>a, <1>8 DEF HandleOrderCompleted, StartLines, Reject, Emit, NoRows,
                    RowsNonNegative
<1>e. ASSUME phase = "lines", lines # <<>>
      PROVE  LET c == Head(lines).cell
             IN  /\ Head(lines).qty \in Int /\ c \in Cell
                 /\ LineRow(c) \in ZoneState
                 /\ LineRow(c).available >= 0 /\ LineRow(c).reserved >= 0
  <2>1. Head(lines) \in Line
    BY <1>e
  <2> QED BY <1>s, <1>z, <2>1 DEF Line, LineRow, RowsNonNegative
<1>f. ASSUME NEW c \in Cell, NEW r \in Int, KeepLine(c, r),
             LineRow(c) \in ZoneState, LineRow(c).available >= 0,
             LineRow(c).reserved + r >= 0
      PROVE  RowsNonNegative(seen')
  <2>1. /\ [LineRow(c) EXCEPT !.reserved = @ + r].available >= 0
        /\ [LineRow(c) EXCEPT !.reserved = @ + r].reserved >= 0
    BY <1>f, RowUpdates, 0 \in Nat
  <2>2. \A d \in DOMAIN seen' :
           seen'[d] = [LineRow(c) EXCEPT !.reserved = @ + r]
             \/ (d \in DOMAIN seen /\ seen'[d] = seen[d])
    BY <1>f DEF KeepLine
  <2> QED BY <1>s, <2>1, <2>2 DEF RowsNonNegative
<1>9. CASE OrderCreatedLine
  <2>0. phase = "lines" /\ lines # <<>>
    BY <1>9 DEF OrderCreatedLine, InLoop
  <2>1. CASE Skip \/ Reject
    BY <1>a, <2>1 DEF Skip, Reject
  <2>2. CASE Head(lines).qty >= 0 /\ KeepLine(Head(lines).cell, Head(lines).qty)
    <3>1. LineRow(Head(lines).cell).reserved + Head(lines).qty >= 0
      BY <1>e, <2>0, <2>2
    <3> QED BY <1>e, <1>f, <2>0, <2>2, <3>1
  <2> QED BY <1>9, <2>1, <2>2 DEF OrderCreatedLine
<1>10. CASE OrderCompletedLine
  <2>0. phase = "lines" /\ lines # <<>>
    BY <1>10 DEF OrderCompletedLine, InLoop
  <2>1. CASE Skip \/ Reject
    BY <1>a, <2>1 DEF Skip, Reject
  <2>2. CASE /\ LineRow(Head(lines).cell).reserved >= Head(lines).qty
             /\ KeepLine(Head(lines).cell, -(Head(lines).qty))
    <3> DEFINE have == LineRow(Head(lines).cell).reserved
               qty  == Head(lines).qty
    <3>1. have \in Int /\ qty \in Int
      BY <1>e, <2>0
    <3>2. have >= qty
      BY <2>2
    <3>3. have + (-qty) >= 0 /\ -qty \in Int
      <4> HIDE DEF have, qty, HandlerTyped, HandlerStep, RowsNonNegative
      <4> QED BY <3>1, <3>2
    <3> QED BY <1>e, <1>f, <2>0, <2>2, <3>3
  <2> QED BY <1>10, <2>1, <2>2 DEF OrderCompletedLine
<1>11. CASE OrderLinesDone
  <2>1. \A c \in DOMAIN seen : seen[c] \in ZoneState
    OBVIOUS
  <2>2. /\ DOMAIN seen' = DOMAIN seen
        /\ \A c \in DOMAIN seen : seen'[c] = [seen[c] EXCEPT !.ts = ev.ts]
    BY <1>11 DEF OrderLinesDone, Emit
  <2>3. \A c \in DOMAIN seen : /\ seen'[c].available = seen[c].available
                               /\ seen'[c].reserved = seen[c].reserved
    BY <1>0, <2>1, <2>2, RowUpdates, 0 \in Int
  <2> QED BY <1>s, <2>2, <2>3 DEF RowsNonNegative
<1> QED
  BY <1>1, <1>2, <1>3, <1>4, <1>5, <1>6, <1>7, <1>8, <1>9, <1>10, <1>11
  DEF HandlerStep
-----------------------------------------------------------------------------
(* The order of events.  The rows a handler has computed belong to cells    *)
(* whose stored rows are all older than the event; while the loop over the  *)
(* order lines runs they still carry the stored time.                       *)

Older(c) == c \in Cell /\ zones[c].ts < ev.ts

SeenFresh ==
    /\ phase \in {"idle", "handling"} => DOMAIN seen = {}
    /\ phase = "lines" =>
         \A c \in DOMAIN seen : Older(c) /\ seen[c].ts = zones[c].ts
    /\ phase = "ops" =>
         \A c \in DOMAIN seen : Older(c) /\ seen[c].ts = ev.ts

LEMMA NotStale ==
    ASSUME NEW ts \in Nat \ {0}, NEW last \in Nat, ~IsStale(ts, last)
    PROVE  last < ts
BY DEF IsStale, NoTs

LEMMA HandlerFresh ==
    ASSUME HandlerTyped, SeenFresh, HandlerStep, UNCHANGED zones
    PROVE  SeenFresh'
<1>0. /\ ev.ts \in Nat \ {0} /\ ev.cell \in Cell /\ ev.to \in Cell
      /\ \A c \in Cell : zones[c].ts \in Nat
      /\ ev' = ev
  <2>1. ev \in Event /\ ev' = ev
    BY HandlerTypes
  <2> QED BY <2>1 DEF Event, HandlerTyped, ZoneState
<1>s. \A c \in Cell : ~IsStale(ev.ts, zones[c].ts) => Older(c)
  BY <1>0, NotStale DEF Older
<1>a. ASSUME phase' \in {"stale", "invalid"} PROVE SeenFresh'
  BY <1>a DEF SeenFresh
<1>c. ASSUME NEW t, NEW h, NEW a, NEW r, CellHandler(t, h, a, r)
      PROVE  SeenFresh'
  <2>1. CASE Skip \/ Reject
    BY <1>a, <2>1 DEF Skip, Reject
  <2>2. CASE EmitCell(a, r) /\ ~IsStale(ev.ts, zones[ev.cell].ts)
    <3>1. /\ phase' = "ops" /\ DOMAIN seen' = {ev.cell}
          /\ seen'[ev.cell].ts = ev.ts
      BY <2>2 DEF EmitCell, Emit, Adjusted
    <3> QED BY <1>0, <1>s, <2>2, <3>1 DEF SeenFresh, Older
  <2> QED BY <1>c, <2>1, <2>2 DEF CellHandler
<1>1. CASE HandleProductReceived
  BY <1>1, <1>c DEF HandleProductReceived
<1>2. CASE HandleProductShipped
  BY <1>2, <1>c DEF HandleProductShipped
<1>3. CASE HandleProductMoved
  <2>1. CASE Skip \/ Reject
    BY <1>a, <2>1 DEF Skip, Reject
  <2>2. CASE /\ ~IsStale(ev.ts, zones[ev.cell].ts)
             /\ ~IsStale(ev.ts, zones[ev.to].ts)
             /\ Emit([c \in {ev.cell, ev.to} |->
                    Adjusted(c, IF c = ev.cell THEN -ev.qty ELSE ev.qty, 0)])
    <3>1. /\ phase' = "ops" /\ DOMAIN seen' = {ev.cell, ev.to}
          /\ seen'[ev.cell].ts = ev.ts /\ seen'[ev.to].ts = ev.ts
      BY <2>2 DEF Emit, Adjusted
    <3> QED BY <1>0, <1>s, <2>2, <3>1 DEF SeenFresh, Older
  <2> QED BY <1>3, <2>1, <2>2 DEF HandleProductMoved
<1>4. CASE HandleProductReserved
  BY <1>4, <1>c DEF HandleProductReserved
<1>5. CASE HandleProductReleased
  BY <1>5, <1>c DEF HandleProductReleased
<1>6. CASE HandleInventoryCounted
  BY <1>6, <1>c DEF HandleInventoryCounted
<1>i. ASSUME phase = "handling", phase' = "lines", seen' = seen PROVE SeenFresh'
  BY <1>i DEF SeenFresh
<1>7. CASE HandleOrderCreated
  BY <1>a, <1>i, <1>7 DEF HandleOrderCreated, Handling, StartLines, Reject
<1>8. CASE HandleOrderCompleted
  <2>1. CASE Emit(NoRows)
    BY <2>1 DEF Emit, NoRows, SeenFresh
  <2> QED BY <1>a, <1>i, <1>8, <2>1
          DEF HandleOrderCompleted, Handling, StartLines, Reject
<1>k. ASSUME phase = "lines", NEW c \in Cell, NEW r, KeepLine(c, r),
             ~IsStale(ev.ts, LineRow(c).ts), LineRow(c) \in ZoneState
      PROVE  SeenFresh'
  <2>1. LineRow(c).ts = zones[c].ts
    BY <1>k DEF SeenFresh, LineRow
  <2>2. [LineRow(c) EXCEPT !.reserved = @ + r].ts = LineRow(c).ts
    BY <1>k DEF ZoneState
  <2>3. /\ phase' = "lines" /\ DOMAIN seen' = DOMAIN seen \cup {c}
        /\ \A d \in DOMAIN seen' :
             seen'[d].ts = IF d = c THEN LineRow(c).ts ELSE seen[d].ts
    BY <1>k, <2>2 DEF KeepLine
  <2>4. Older(c)
    BY <1>k, <1>s, <2>1
  <2> QED BY <1>0, <1>k, <2>1, <2>3, <2>4 DEF SeenFresh, Older
<1>e. ASSUME phase = "lines", lines # <<>>
      PROVE  Head(lines).cell \in Cell /\ LineRow(Head(lines).cell) \in ZoneState
  <2>1. Head(lines) \in Line
    BY <1>e DEF HandlerTyped
  <2> QED BY <2>1 DEF Line, LineRow, HandlerTyped
<1>9. CASE OrderCreatedLine
  BY <1>a, <1>e, <1>k, <1>9 DEF OrderCreatedLine, InLoop, Skip, Reject
<1>10. CASE OrderCompletedLine
  BY <1>a, <1>e, <1>k, <1>10 DEF OrderCompletedLine, InLoop, Skip, Reject
<1>11. CASE OrderLinesDone
  <2>1. /\ phase = "lines" /\ phase' = "ops" /\ DOMAIN seen' = DOMAIN seen
        /\ \A c \in DOMAIN seen : seen'[c] = [seen[c] EXCEPT !.ts = ev.ts]
    BY <1>11 DEF OrderLinesDone, Emit
  <2>2. \A c \in DOMAIN seen : [seen[c] EXCEPT !.ts = ev.ts].ts = ev.ts
    BY DEF HandlerTyped, ZoneState
  <2>3. \A c \in DOMAIN seen : Older(c) /\ seen'[c].ts = ev.ts
    BY <2>1, <2>2 DEF SeenFresh
  <2>4. \A c \in DOMAIN seen : Older(c)'
    BY <1>0, <2>3 DEF Older
  <2> QED BY <1>0, <2>1, <2>3, <2>4 DEF SeenFresh
<1> QED
  BY <1>1, <1>2, <1>3, <1>4, <1>5, <1>6, <1>7, <1>8, <1>9, <1>10, <1>11
  DEF HandlerStep
-----------------------------------------------------------------------------

LEMMA HandlersTyped == TypeOK => HandlerTyped
BY DEF TypeOK, HandlerTyped

(* Type correctness of the warehouse for every set of events.               *)
THEOREM TypeCorrect == Spec => []TypeOK
<1>1. Init => TypeOK
  BY DEF Init, TypeOK, Phases, ZoneState, EmptyZone, Order, NoOrder, NoRows, NoTs
<1>2. TypeOK /\ [Next]_vars => TypeOK'
  <2> SUFFICES ASSUME TypeOK, [Next]_vars PROVE TypeOK'
    OBVIOUS
  <2>1. ASSUME NEW m \in Messages, Receive(m) PROVE TypeOK'
    BY <2>1, MessagesAssumption DEF Receive, TypeOK, Phases
  <2>2. CASE Handle
    BY <2>2, HandlersTyped, HandlerTypes DEF Handle, TypeOK, Phases, Verdicts
  <2>3. CASE Execute
    <3>1. ev \in Event BY <2>3 DEF Execute, TypeOK
    <3>2. zones' \in [Cell -> ZoneState]
      BY <2>3 DEF Execute, TypeOK
    <3>3. orders' \in [OrderIds -> Order]
      BY <2>3, <3>1 DEF Execute, TypeOK, Event, Order, CreatedOrder
    <3> QED BY <2>3, <3>2, <3>3 DEF Execute, Done, TypeOK, Phases, NoRows
  <2>4. CASE Drop
    BY <2>4 DEF Drop, Done, TypeOK, Phases, NoRows
  <2>5. CASE UNCHANGED vars
    BY <2>5 DEF vars, TypeOK
  <2> QED BY <2>1, <2>2, <2>3, <2>4, <2>5 DEF Next
<1> QED BY <1>1, <1>2, PTL DEF Spec
-----------------------------------------------------------------------------
(* No stored quantity is ever negative, for every set of events.            *)
THEOREM StockStaysNonNegative == Spec => []StockNonNegative
<1>1. Init => StockNonNegative
  BY DEF Init, StockNonNegative, EmptyZone, NoRows
<1>2. TypeOK /\ StockNonNegative /\ [Next]_vars => StockNonNegative'
  <2> SUFFICES ASSUME TypeOK, StockNonNegative, [Next]_vars
               PROVE  StockNonNegative'
    OBVIOUS
  <2>1. ASSUME NEW m \in Messages, Receive(m) PROVE StockNonNegative'
    BY <2>1 DEF Receive, StockNonNegative
  <2>2. CASE Handle
    <3>1. RowsNonNegative(zones) /\ RowsNonNegative(seen)
      BY DEF TypeOK, StockNonNegative, RowsNonNegative
    <3>2. RowsNonNegative(seen')
      BY <2>2, <3>1, HandlersTyped, HandlerNonNegative DEF Handle
    <3> QED BY <2>2, <3>2 DEF Handle, StockNonNegative, RowsNonNegative
  <2>3. CASE Execute
    <3>1. \A c \in Cell : zones'[c] = zones[c]
                            \/ (c \in DOMAIN seen /\ zones'[c] = seen[c])
      BY <2>3 DEF Execute
    <3> QED BY <2>3, <3>1 DEF Execute, Done, StockNonNegative, NoRows
  <2>4. CASE Drop
    BY <2>4 DEF Drop, Done, StockNonNegative, NoRows
  <2>5. CASE UNCHANGED vars
    BY <2>5 DEF vars, StockNonNegative
  <2> QED BY <2>1, <2>2, <2>3, <2>4, <2>5 DEF Next
<1> QED BY <1>1, <1>2, TypeCorrect, PTL DEF Spec
-----------------------------------------------------------------------------
(* The invariant that explains why no old event changes a row.              *)
THEOREM RowsToWriteAreFresh == Spec => []SeenFresh
<1>1. Init => SeenFresh
  BY DEF Init, SeenFresh, NoRows
<1>2. TypeOK /\ SeenFresh /\ [Next]_vars => SeenFresh'
  <2> SUFFICES ASSUME TypeOK, SeenFresh, [Next]_vars PROVE SeenFresh'
    OBVIOUS
  <2>1. ASSUME NEW m \in Messages, Receive(m) PROVE SeenFresh'
    BY <2>1 DEF Receive, SeenFresh
  <2>2. CASE Handle
    BY <2>2, HandlersTyped, HandlerFresh DEF Handle
  <2>3. CASE Execute
    BY <2>3 DEF Execute, Done, SeenFresh, NoRows
  <2>4. CASE Drop
    BY <2>4 DEF Drop, Done, SeenFresh, NoRows
  <2>5. CASE UNCHANGED vars
    BY <2>5 DEF vars, SeenFresh, Older
  <2> QED BY <2>1, <2>2, <2>3, <2>4, <2>5 DEF Next
<1> QED BY <1>1, <1>2, TypeCorrect, PTL DEF Spec

(* A stored row changes only for an event that is newer than it.            *)
THEOREM OnlyNewerEvents == Spec => OnlyNewerEventsChangeRows
<1>1. TypeOK /\ SeenFresh /\ [Next]_vars =>
        [\A c \in Cell : zones'[c] # zones[c] => zones'[c].ts > zones[c].ts]_vars
  <2> SUFFICES ASSUME TypeOK, SeenFresh, [Next]_vars,
                      NEW c \in Cell, zones'[c] # zones[c]
               PROVE  zones'[c].ts > zones[c].ts
    OBVIOUS
  <2>1. Execute
    BY DEF Next, Receive, Handle, Drop, vars
  <2>2. phase = "ops" /\ c \in DOMAIN seen /\ zones'[c] = seen[c]
    BY <2>1 DEF Execute
  <2>3. zones[c].ts < ev.ts /\ zones'[c].ts = ev.ts
    BY <2>2 DEF SeenFresh, Older
  <2>4. zones[c].ts \in Nat /\ ev.ts \in Nat
    BY <2>2 DEF TypeOK, ZoneState, Event
  <2> QED BY <2>3, <2>4
<1> QED BY <1>1, TypeCorrect, RowsToWriteAreFresh, PTL
        DEF Spec, OnlyNewerEventsChangeRows
-----------------------------------------------------------------------------
(* The loop over the order lines.  What it has visited is a beginning of    *)
(* the order's items: k lines, which leave k fewer to visit.                *)

OrderItems == IF CreatesOrder THEN ev.items ELSE orders[ev.order].items

Sign == IF CreatesOrder THEN 1 ELSE -1

FirstOn(items, k, c) == {i \in 1 .. k : items[i].cell = c}

FirstTotal(items, k, c) ==
    SumFunction([i \in FirstOn(items, k, c) |-> items[i].qty])

RowOf(items, k, c, sign, time) ==
    [available |-> zones[c].available,
     reserved  |-> zones[c].reserved + sign * FirstTotal(items, k, c),
     ts        |-> time]

Visited(items, k) ==
    /\ DOMAIN seen = {items[i].cell : i \in 1 .. k}
    /\ CreatesOrder => \A i \in 1 .. k : items[i].qty >= 0

LoopAt(items, k) ==
    /\ ev.type \in {"ORDER_CREATED", "ORDER_COMPLETED"}
    /\ ~CreatesOrder => orders[ev.order].status = "CREATED"
    /\ k + Len(lines) = Len(items)
    /\ \A j \in 1 .. Len(lines) : lines[j] = items[k + j]
    /\ Visited(items, k)
    /\ \A c \in DOMAIN seen :
          seen[c] = RowOf(items, k, c, Sign, zones[c].ts)

Loop == \E k \in 0 .. Len(OrderItems) : LoopAt(OrderItems, k)

LoopDone ==
    /\ ~CreatesOrder => orders[ev.order].status = "CREATED"
    /\ Visited(OrderItems, Len(OrderItems))
    /\ \A c \in DOMAIN seen :
         seen[c] = RowOf(OrderItems, Len(OrderItems), c, Sign, ev.ts)

(* What the single-row handlers and the move have computed.                 *)
OnRow(c) == seen[c].available + seen[c].reserved
InZone(c) == zones[c].available + zones[c].reserved

Computed ==
    LET t == ev.type
    IN  /\ t \in {"ORDER_CREATED", "ORDER_COMPLETED"} =>
             \/ LoopDone
             \/ ~CreatesOrder /\ DOMAIN seen = {}
        /\ t \in {"PRODUCT_RESERVED", "PRODUCT_RELEASED"} =>
             DOMAIN seen = {ev.cell} /\ OnRow(ev.cell) = InZone(ev.cell)
        /\ t = "PRODUCT_MOVED" =>
             /\ ev.cell # ev.to /\ DOMAIN seen = {ev.cell, ev.to}
             /\ OnRow(ev.cell) = InZone(ev.cell) - ev.qty
             /\ OnRow(ev.to) = InZone(ev.to) + ev.qty
        /\ t \notin {"ORDER_CREATED", "ORDER_COMPLETED", "PRODUCT_RELEASED"} =>
             \A c \in DOMAIN seen : seen[c].reserved >= zones[c].reserved

LoopInv ==
    /\ phase \in {"idle", "handling"} => seen = NoRows /\ lines = <<>>
    /\ phase = "lines" => Loop
    /\ phase = "ops" => Computed

(* The tables: finitely many rows are stored, only stored rows hold         *)
(* anything, and stored orders reserve no negative quantity.                *)
TablesInv ==
    /\ IsFiniteSet(StoredRows(zones)) /\ IsFiniteSet(OpenOrders(orders))
    /\ IsFiniteSet(DOMAIN seen)
    /\ \A c \in Cell : zones[c].ts = NoTs => zones[c] = EmptyZone
    /\ \A o \in OrderIds : \A i \in DOMAIN orders[o].items :
          orders[o].items[i].qty >= 0

(* Sums over the first lines of an order.                                   *)
LEMMA FirstSums ==
    ASSUME NEW items \in Seq(Line), NEW k \in 0 .. Len(items), NEW c
    PROVE  /\ Summable([i \in FirstOn(items, k, c) |-> items[i].qty])
           /\ FirstTotal(items, k, c) \in Int
<1>0. Len(items) \in Nat /\ k \in Nat /\ 1 .. k \subseteq 1 .. Len(items)
  <2>1. Len(items) \in Nat
    OBVIOUS
  <2> QED BY <2>1
<1>1. IsFiniteSet(FirstOn(items, k, c))
  <2>1. IsFiniteSet(1 .. k)
    BY <1>0, FS_Interval
  <2>2. FirstOn(items, k, c) \in SUBSET (1 .. k)
    BY DEF FirstOn
  <2> QED BY <2>1, <2>2, FS_Subset
<1>2. \A i \in FirstOn(items, k, c) : items[i].qty \in Int
  <2> SUFFICES ASSUME NEW i \in FirstOn(items, k, c) PROVE items[i].qty \in Int
    OBVIOUS
  <2>1. i \in 1 .. Len(items)
    BY <1>0 DEF FirstOn
  <2>2. items[i] \in Line
    BY <2>1
  <2> QED BY <2>2 DEF Line
<1>3. Summable([i \in FirstOn(items, k, c) |-> items[i].qty])
  BY <1>1, <1>2 DEF Summable
<1> QED BY <1>3, SumFunctionInt DEF FirstTotal

(* A row that no line names has the total zero.                             *)
LEMMA FirstNone ==
    ASSUME NEW items, NEW k, NEW c, \A i \in 1 .. k : items[i].cell # c
    PROVE  FirstTotal(items, k, c) = 0
<1>1. FirstOn(items, k, c) = {}
  BY DEF FirstOn
<1> QED BY <1>1, SumFunctionEmpty DEF FirstTotal

(* One line more adds its quantity to the total of its row.                 *)
LEMMA FirstNext ==
    ASSUME NEW items \in Seq(Line), NEW k \in 0 .. Len(items), k < Len(items), NEW c
    PROVE  FirstTotal(items, k + 1, c) =
             FirstTotal(items, k, c) +
               (IF items[k + 1].cell = c THEN items[k + 1].qty ELSE 0)
<1> DEFINE f == [i \in FirstOn(items, k, c) |-> items[i].qty]
           g == [i \in FirstOn(items, k + 1, c) |-> items[i].qty]
<1>1. Summable(f) /\ SumFunction(f) \in Int
  BY FirstSums, SumFunctionInt
<1>0. Len(items) \in Nat
  OBVIOUS
<1>k. k \in Nat /\ k + 1 \in 1 .. Len(items)
  BY <1>0
<1>2. items[k + 1].qty \in Int
  <2>1. items[k + 1] \in Line
    BY <1>k
  <2> QED BY <2>1 DEF Line
<1>3. CASE items[k + 1].cell = c
  <2>1. DOMAIN g = DOMAIN f \cup {k + 1} /\ k + 1 \notin DOMAIN f
    BY <1>3, <1>k DEF FirstOn
  <2>2. \A i \in DOMAIN f : g[i] = f[i]
    BY <2>1
  <2>3. g[k + 1] = items[k + 1].qty
    BY <2>1
  <2> HIDE DEF f, g
  <2>4. SumFunction(g) = SumFunction(f) + items[k + 1].qty
    BY <1>1, <1>2, <2>1, <2>2, <2>3, SumFunctionExtend
  <2> QED BY <1>3, <2>4 DEF FirstTotal, f, g
<1>4. CASE items[k + 1].cell # c
  <2>1. FirstOn(items, k + 1, c) = FirstOn(items, k, c)
    BY <1>4, <1>k DEF FirstOn
  <2>2. FirstTotal(items, k + 1, c) = FirstTotal(items, k, c)
    BY <2>1 DEF FirstTotal
  <2> QED BY <1>1, <1>4, <2>2 DEF FirstTotal
<1> QED BY <1>3, <1>4

(* All lines: the total of the reference.                                   *)
LEMMA FirstAll ==
    ASSUME NEW items \in Seq(Line), NEW c
    PROVE  FirstTotal(items, Len(items), c) = LineTotal(items, c)
<1>1. FirstOn(items, Len(items), c) = LinesOn(items, c)
  BY DEF FirstOn, LinesOn
<1> QED BY <1>1 DEF FirstTotal, LineTotal
-----------------------------------------------------------------------------
(* The handlers keep LoopInv.                                               *)

LEMMA ItemsTyped ==
    ASSUME HandlerTyped, ev \in Event
    PROVE  /\ OrderItems \in Seq(Line) /\ Len(OrderItems) \in Nat
           /\ ev.order \in OrderIds /\ ev.items \in Seq(Line)
           /\ orders[ev.order].items \in Seq(Line)
<1>1. ev.order \in OrderIds /\ ev.items \in Seq(Line)
  BY DEF Event
<1>2. orders[ev.order].items \in Seq(Line)
  BY <1>1 DEF HandlerTyped, Order
<1> QED BY <1>1, <1>2 DEF OrderItems

(* One line of the loop: it is the next one of the order's items, and its   *)
(* row moves by its quantity.                                               *)
LEMMA LineStep ==
    ASSUME HandlerTyped, ev \in Event, Loop, lines # <<>>, ev' = ev,
           UNCHANGED <<zones, orders>>, NEW q \in Int,
           KeepLine(Head(lines).cell, q), q = Sign * Head(lines).qty,
           CreatesOrder => Head(lines).qty >= 0
    PROVE  Loop'
<1> PICK items : items = OrderItems
  OBVIOUS
<1> PICK k \in 0 .. Len(items) : LoopAt(items, k)
  BY DEF Loop
<1> PICK c : c = Head(lines).cell
  OBVIOUS
<1>0. /\ items \in Seq(Line) /\ Len(items) \in Nat /\ lines \in Seq(Line)
  BY ItemsTyped DEF HandlerTyped
<1>1. /\ items \in Seq(Line) /\ Len(items) \in Nat /\ k \in Nat
      /\ lines \in Seq(Line) /\ Len(lines) \in Nat /\ Len(lines) > 0
  BY <1>0
<1>2. /\ ev.type \in {"ORDER_CREATED", "ORDER_COMPLETED"}
      /\ ~CreatesOrder => orders[ev.order].status = "CREATED"
      /\ k + Len(lines) = Len(items)
      /\ \A j \in 1 .. Len(lines) : lines[j] = items[k + j]
      /\ Visited(items, k)
      /\ \A d \in DOMAIN seen : seen[d] = RowOf(items, k, d, Sign, zones[d].ts)
  BY DEF LoopAt
<1>3. k < Len(items) /\ Head(lines) = items[k + 1]
  BY <1>1, <1>2
<1>n. k + 1 \in 1 .. Len(items) /\ k + 1 \in 0 .. Len(items)
  BY <1>1, <1>3
<1>4. /\ c \in Cell /\ items[k + 1].qty \in Int /\ items[k + 1].cell = c
      /\ zones[c] \in ZoneState
  <2>1. items[k + 1] \in Line
    BY <1>1, <1>n
  <2>2. c \in Cell /\ items[k + 1].qty \in Int /\ items[k + 1].cell = c
    BY <1>3, <2>1 DEF Line
  <2> QED BY <2>2 DEF HandlerTyped
<1>5. /\ DOMAIN seen' = DOMAIN seen \cup {c}
      /\ seen'[c] = [LineRow(c) EXCEPT !.reserved = @ + q]
      /\ \A d \in DOMAIN seen : d # c => seen'[d] = seen[d]
      /\ lines' = Tail(lines)
  BY DEF KeepLine
<1>6. OrderItems' = items /\ Sign' = Sign /\ CreatesOrder' = CreatesOrder
  BY DEF OrderItems, Sign, CreatesOrder
<1>7. /\ Len(lines') = Len(lines) - 1
      /\ \A j \in 1 .. Len(lines') : lines'[j] = lines[j + 1]
  BY <1>1, <1>5
<1>8. k + 1 \in 0 .. Len(items) /\ (k + 1) + Len(lines') = Len(items)
  <2>1. Len(lines') \in Nat /\ Len(lines') = Len(lines) - 1
    BY <1>1, <1>7
  <2>2. k + Len(lines) = Len(items)
    BY <1>2
  <2> QED BY <1>1, <1>n, <2>1, <2>2
<1>9. \A j \in 1 .. Len(lines') : lines'[j] = items[(k + 1) + j]
  <2> SUFFICES ASSUME NEW j \in 1 .. Len(lines')
               PROVE  lines'[j] = items[(k + 1) + j]
    OBVIOUS
  <2>1. lines'[j] = lines[j + 1] /\ j + 1 \in 1 .. Len(lines)
    BY <1>1, <1>7
  <2>2. lines[j + 1] = items[k + (j + 1)] /\ k + (j + 1) = (k + 1) + j
    BY <1>1, <1>2, <2>1
  <2> QED BY <2>1, <2>2
<1>10. Visited(items, k + 1)'
  <2>1. DOMAIN seen' = {items[i].cell : i \in 1 .. k + 1}
    BY <1>1, <1>2, <1>4, <1>5 DEF Visited
  <2>2. CreatesOrder => \A i \in 1 .. k + 1 : items[i].qty >= 0
    BY <1>1, <1>2, <1>3 DEF Visited
  <2> QED BY <1>6, <2>1, <2>2 DEF Visited
<1>11. ASSUME NEW d \in DOMAIN seen'
       PROVE  seen'[d] = RowOf(items, k + 1, d, Sign, zones[d].ts)
  <2> PICK total : total = FirstTotal(items, k, d)
    OBVIOUS
  <2>0. total \in Int /\ Sign \in {1, -1}
    BY <1>1, <1>2, FirstSums DEF Sign
  <2>1. CASE d # c
    <3>1. FirstTotal(items, k + 1, d) = total
      BY <1>1, <1>2, <1>3, <1>4, <2>0, <2>1, FirstNext
    <3>2. d \in DOMAIN seen /\ seen'[d] = seen[d]
      BY <1>5, <1>11, <2>1
    <3> QED BY <1>2, <3>1, <3>2 DEF RowOf
  <2>2. CASE d = c
    <3>1. FirstTotal(items, k + 1, c) = total + items[k + 1].qty
      BY <1>1, <1>2, <1>3, <1>4, <2>2, FirstNext
    <3>2. LineRow(c) = RowOf(items, k, c, Sign, zones[c].ts)
      <4>1. CASE c \in DOMAIN seen
        BY <1>2, <4>1 DEF LineRow
      <4>2. CASE c \notin DOMAIN seen
        <5>1. total = 0
          <6>1. \A i \in 1 .. k : items[i].cell # c
            BY <1>2, <4>2 DEF Visited
          <6> QED BY <2>2, <6>1, FirstNone
        <5>2. zones[c] = [available |-> zones[c].available,
                          reserved |-> zones[c].reserved, ts |-> zones[c].ts]
              /\ zones[c].reserved \in Int
          BY <1>4 DEF ZoneState
        <5> QED BY <2>0, <2>2, <4>2, <5>1, <5>2 DEF LineRow, RowOf
      <4> QED BY <4>1, <4>2
    <3>3. Sign * (total + items[k + 1].qty) = Sign * total + q
      <4>1. q = Sign * items[k + 1].qty
        BY <1>3
      <4>2. CASE Sign = 1
        BY <1>4, <2>0, <4>1, <4>2, SMTT(60)
      <4>3. CASE Sign = -1
        BY <1>4, <2>0, <4>1, <4>3, SMTT(60)
      <4> QED BY <2>0, <4>2, <4>3
    <3>4. zones[c].reserved + (Sign * total + q) = (zones[c].reserved + Sign * total) + q
      <4>1. zones[c].reserved \in Int /\ Sign * total \in Int
        BY <1>4, <2>0 DEF ZoneState
      <4> QED BY <4>1
    <3> QED BY <1>5, <2>2, <3>1, <3>2, <3>3, <3>4 DEF RowOf
  <2> QED BY <2>1, <2>2
<1>12. LoopAt(items, k + 1)'
  <2>1. \A d : RowOf(items, k + 1, d, Sign, zones[d].ts)'
                = RowOf(items, k + 1, d, Sign, zones[d].ts)
    BY <1>6 DEF RowOf
  <2> QED BY <1>2, <1>6, <1>8, <1>9, <1>10, <1>11, <2>1 DEF LoopAt
<1> QED BY <1>6, <1>8, <1>12 DEF Loop

(* The row of the event's cell is loaded as stored and changed by a free    *)
(* and r reserved units.                                                    *)
Shifts(a, r) ==
    /\ zones[ev.cell].available \in Int /\ zones[ev.cell].reserved \in Int
    /\ ev' = ev /\ UNCHANGED zones
    /\ seen'[ev.cell].available = zones[ev.cell].available + a
    /\ seen'[ev.cell].reserved = zones[ev.cell].reserved + r

(* What a row gives up in one column it gets in the other.                  *)
LEMMA UnitsShifted ==
    ASSUME NEW a \in Int, NEW r \in Int, Shifts(a, r)
    PROVE  a + r = 0 => OnRow(ev.cell)' = InZone(ev.cell)
<1>0. PICK x \in Int, y \in Int :
         x = zones[ev.cell].available /\ y = zones[ev.cell].reserved
  BY DEF Shifts
<1>1. OnRow(ev.cell)' = (x + a) + (y + r) /\ InZone(ev.cell) = x + y
  BY <1>0 DEF OnRow, InZone, Shifts
<1>2. a + r = 0 => (x + a) + (y + r) = x + y
  OBVIOUS
<1> QED BY <1>1, <1>2

(* What a single row written by a handler is.                               *)
LEMMA CellComputed ==
    ASSUME HandlerTyped, HandlerStep, NEW t \in EventTypes, NEW h, NEW a \in Int,
           NEW r \in Int, CellHandler(t, h, a, r), LoopInv,
           UNCHANGED <<zones, orders>>,
           t \in {"PRODUCT_RECEIVED", "PRODUCT_SHIPPED", "PRODUCT_RESERVED",
                  "PRODUCT_RELEASED", "INVENTORY_COUNTED"},
           t \in {"PRODUCT_RESERVED", "PRODUCT_RELEASED"} => a + r = 0,
           t # "PRODUCT_RELEASED" /\ ev.qty >= 0 => r >= 0
    PROVE  LoopInv'
<1>0. ev' = ev /\ ev \in Event /\ ev.type = t
  BY HandlerTypes DEF CellHandler, Handling
<1>1. CASE Skip \/ Reject
  BY <1>1 DEF Skip, Reject, LoopInv
<1>2. CASE EmitCell(a, r) /\ ev.qty >= 0
  <2>1. phase' = "ops" /\ seen' = [c \in {ev.cell} |-> Adjusted(c, a, r)]
    BY <1>2 DEF EmitCell, Emit
  <2>2. /\ ev.cell \in Cell /\ zones[ev.cell].available \in Int
        /\ zones[ev.cell].reserved \in Int
    BY <1>0 DEF Event, HandlerTyped, ZoneState
  <2>3. /\ DOMAIN seen' = {ev.cell}
        /\ seen'[ev.cell].available = zones[ev.cell].available + a
        /\ seen'[ev.cell].reserved = zones[ev.cell].reserved + r
    BY <2>1 DEF Adjusted
  <2>4. a + r = 0 => OnRow(ev.cell)' = InZone(ev.cell)
    BY <1>0, <2>2, <2>3, UnitsShifted DEF Shifts
  <2>5. r >= 0 => \A c \in DOMAIN seen' : seen'[c].reserved >= zones[c].reserved
    <3> SUFFICES ASSUME r >= 0, NEW c \in DOMAIN seen'
                 PROVE  seen'[c].reserved >= zones[c].reserved
      OBVIOUS
    <3>1. c = ev.cell
      BY <2>3
    <3> PICK y : y = zones[ev.cell].reserved
      OBVIOUS
    <3>2. y \in Int /\ y + r >= y
      BY <2>2
    <3> QED BY <2>3, <3>1, <3>2
  <2>6. InZone(ev.cell)' = InZone(ev.cell)
    BY <1>0 DEF InZone
  <2>7. Computed'
    BY <1>0, <1>2, <2>3, <2>4, <2>5, <2>6 DEF Computed, CreatesOrder
  <2> QED BY <2>1, <2>7 DEF LoopInv
<1> QED BY <1>1, <1>2 DEF CellHandler

(* Every handler keeps what is known about the rows it computes.            *)
LEMMA HandlersKeepLoop ==
    ASSUME HandlerTyped, LoopInv, HandlerStep, UNCHANGED <<zones, orders>>
    PROVE  LoopInv'
<1>0. ev \in Event /\ ev' = ev /\ ev.qty \in Int /\ -ev.qty \in Int
  <2>1. ev \in Event /\ ev' = ev
    BY HandlerTypes
  <2> QED BY <2>1 DEF Event
<1>z. ev.cell \in Cell /\ zones[ev.cell].available \in Int
  BY <1>0 DEF Event, HandlerTyped, ZoneState
<1>a. ASSUME Skip \/ Reject PROVE LoopInv'
  BY <1>a DEF Skip, Reject, LoopInv
<1>1. CASE HandleProductReceived
  BY <1>0, <1>1, CellComputed DEF HandleProductReceived, EventTypes
<1>2. CASE HandleProductShipped
  BY <1>0, <1>2, CellComputed DEF HandleProductShipped, EventTypes
<1>3. CASE HandleProductMoved
  <2>1. CASE ev.cell # ev.to /\
             Emit([c \in {ev.cell, ev.to} |->
                     Adjusted(c, IF c = ev.cell THEN -ev.qty ELSE ev.qty, 0)])
    <3> PICK q, x, y, u, v :
          /\ q = ev.qty
          /\ x = zones[ev.cell].available /\ y = zones[ev.cell].reserved
          /\ u = zones[ev.to].available /\ v = zones[ev.to].reserved
      OBVIOUS
    <3>1. /\ q \in Int /\ x \in Int /\ y \in Int /\ u \in Int /\ v \in Int
      BY <1>0 DEF Event, HandlerTyped, ZoneState
    <3>2. /\ phase' = "ops" /\ DOMAIN seen' = {ev.cell, ev.to}
          /\ seen'[ev.cell].available = x + (-q) /\ seen'[ev.cell].reserved = y + 0
          /\ seen'[ev.to].available = u + q /\ seen'[ev.to].reserved = v + 0
      BY <2>1 DEF Emit, Adjusted
    <3>3. (x + (-q)) + (y + 0) = (x + y) - q /\ (u + q) + (v + 0) = (u + v) + q
      BY <3>1
    <3>4. /\ OnRow(ev.cell)' = (x + (-q)) + (y + 0)
          /\ OnRow(ev.to)' = (u + q) + (v + 0)
      BY <1>0, <3>2 DEF OnRow
    <3>5. InZone(ev.cell)' = x + y /\ InZone(ev.to)' = u + v
      BY <1>0 DEF InZone
    <3>6. y + 0 = y /\ v + 0 = v /\ y >= y /\ v >= v
      BY <3>1
    <3>7. \A c \in DOMAIN seen' : seen'[c].reserved >= zones[c].reserved
      BY <3>2, <3>6
    <3>8. ev.type = "PRODUCT_MOVED"
      BY <1>3 DEF HandleProductMoved, Handling
    <3>9. Computed'
      BY <1>0, <2>1, <3>2, <3>3, <3>4, <3>5, <3>7, <3>8 DEF Computed
    <3> QED BY <3>2, <3>9 DEF LoopInv
  <2> QED BY <1>3, <1>a, <2>1 DEF HandleProductMoved
<1>4. CASE HandleProductReserved
  <2>1. -ev.qty + ev.qty = 0
    BY <1>0
  <2> QED BY <1>0, <1>4, <2>1, CellComputed DEF HandleProductReserved, EventTypes
<1>5. CASE HandleProductReleased
  <2>1. ev.qty + (-ev.qty) = 0
    BY <1>0
  <2> QED BY <1>0, <1>5, <2>1, CellComputed DEF HandleProductReleased, EventTypes
<1>6. CASE HandleInventoryCounted
  <2>1. ev.qty - zones[ev.cell].available \in Int
    BY <1>0, <1>z
  <2> QED BY <1>0, <1>6, <2>1, CellComputed DEF HandleInventoryCounted, EventTypes
<1>s. ASSUME NEW items, phase = "handling", StartLines(items),
             ev.type \in {"ORDER_CREATED", "ORDER_COMPLETED"},
             ~CreatesOrder => orders[ev.order].status = "CREATED",
             items = OrderItems
      PROVE  LoopInv'
  <2>1. items \in Seq(Line) /\ Len(items) \in Nat
    BY <1>0, <1>s, ItemsTyped
  <2>2. /\ phase' = "lines" /\ lines' = items /\ seen' = NoRows
        /\ DOMAIN seen' = {}
    BY <1>s DEF StartLines, LoopInv, NoRows
  <2>3. OrderItems' = items /\ CreatesOrder' = CreatesOrder
    BY <1>0, <1>s DEF OrderItems, CreatesOrder
  <2>4. 0 \in 0 .. Len(items) /\ 0 + Len(items) = Len(items) /\ 1 .. 0 = {}
    BY <2>1
  <2>5. \A j \in 1 .. Len(items) : items[j] = items[0 + j]
    BY <2>1
  <2>6. LoopAt(items, 0)'
    BY <1>0, <1>s, <2>2, <2>3, <2>4, <2>5 DEF LoopAt, Visited
  <2> QED BY <2>2, <2>3, <2>4, <2>6 DEF LoopInv, Loop
<1>7. CASE HandleOrderCreated
  BY <1>7, <1>a, <1>s DEF HandleOrderCreated, Handling, OrderItems, CreatesOrder
<1>8. CASE HandleOrderCompleted
  <2>1. CASE Emit(NoRows)
    <3>1. phase' = "ops" /\ DOMAIN seen' = {} /\ ev.type = "ORDER_COMPLETED"
      BY <1>8, <2>1 DEF Emit, NoRows, HandleOrderCompleted, Handling
    <3> QED BY <1>0, <3>1 DEF LoopInv, Computed, CreatesOrder
  <2> QED BY <1>8, <1>a, <1>s, <2>1
          DEF HandleOrderCompleted, Handling, OrderItems, CreatesOrder
<1>l. ASSUME phase = "lines", lines # <<>>, NEW q \in Int,
             KeepLine(Head(lines).cell, q), q = Sign * Head(lines).qty,
             CreatesOrder => Head(lines).qty >= 0
      PROVE  LoopInv'
  <2>1. Loop'
    BY <1>0, <1>l, LineStep DEF LoopInv
  <2> QED BY <1>l, <2>1 DEF LoopInv, KeepLine
<1>h. lines # <<>> => Head(lines).qty \in Int
  <2>1. lines # <<>> => Head(lines) \in Line
    BY DEF HandlerTyped
  <2> QED BY <2>1 DEF Line
<1>9. CASE OrderCreatedLine
  <2> PICK q : q = Head(lines).qty
    OBVIOUS
  <2>1. phase = "lines" /\ lines # <<>> /\ ev.type = "ORDER_CREATED"
    BY <1>9 DEF OrderCreatedLine, InLoop
  <2>2. q \in Int /\ q = Sign * q
    <3>1. Sign = 1
      BY <2>1 DEF Sign, CreatesOrder
    <3>2. q \in Int
      BY <1>h, <2>1
    <3> QED BY <3>1, <3>2
  <2>3. CASE q >= 0 /\ KeepLine(Head(lines).cell, q)
    BY <1>l, <2>1, <2>2, <2>3
  <2> QED BY <1>9, <1>a, <2>3 DEF OrderCreatedLine
<1>10. CASE OrderCompletedLine
  <2> PICK q : q = Head(lines).qty
    OBVIOUS
  <2>1. phase = "lines" /\ lines # <<>> /\ ev.type = "ORDER_COMPLETED"
    BY <1>10 DEF OrderCompletedLine, InLoop
  <2>2. -q \in Int /\ -q = Sign * q
    <3>1. Sign = -1
      BY <2>1 DEF Sign, CreatesOrder
    <3>2. q \in Int
      BY <1>h, <2>1
    <3> QED BY <3>1, <3>2
  <2>3. CASE KeepLine(Head(lines).cell, -q)
    BY <1>l, <2>1, <2>2, <2>3 DEF CreatesOrder
  <2> QED BY <1>10, <1>a, <2>3 DEF OrderCompletedLine
<1>11. CASE OrderLinesDone
  <2> PICK items : items = OrderItems
    OBVIOUS
  <2>1. items \in Seq(Line) /\ Len(items) \in Nat
    BY <1>0, ItemsTyped
  <2>2. phase = "lines" /\ lines = <<>> /\ phase' = "ops"
    BY <1>11 DEF OrderLinesDone, Emit
  <2>3. LoopAt(items, Len(items))
    <3>1. PICK k \in 0 .. Len(items) : LoopAt(items, k)
      BY <2>2 DEF LoopInv, Loop
    <3>2. k + 0 = Len(items) /\ k \in Nat
      BY <2>1, <2>2, <3>1 DEF LoopAt
    <3>3. k = Len(items)
      BY <2>1, <3>2
    <3> QED BY <3>1, <3>3
  <2>4. /\ DOMAIN seen' = DOMAIN seen
        /\ \A c \in DOMAIN seen : seen'[c] = [seen[c] EXCEPT !.ts = ev.ts]
    BY <1>11 DEF OrderLinesDone, Emit
  <2>5. \A c \in DOMAIN seen :
           [seen[c] EXCEPT !.ts = ev.ts] = RowOf(items, Len(items), c, Sign, ev.ts)
    BY <2>3 DEF LoopAt, RowOf
  <2>6. OrderItems' = items /\ Sign' = Sign /\ CreatesOrder' = CreatesOrder
    BY <1>0 DEF OrderItems, Sign, CreatesOrder
  <2>7. \A c : RowOf(items, Len(items), c, Sign, ev.ts)'
                 = RowOf(items, Len(items), c, Sign, ev.ts)
    BY <1>0, <2>6 DEF RowOf
  <2>8. Visited(items, Len(items))'
    BY <2>3, <2>4, <2>6 DEF LoopAt, Visited
  <2>9. ev.type \in {"ORDER_CREATED", "ORDER_COMPLETED"}
        /\ (~CreatesOrder => orders[ev.order].status = "CREATED")
    BY <2>3 DEF LoopAt
  <2>10. LoopDone'
    BY <1>0, <2>4, <2>5, <2>6, <2>7, <2>8, <2>9 DEF LoopDone
  <2>11. Computed'
    BY <1>0, <2>9, <2>10 DEF Computed
  <2> QED BY <2>2, <2>11 DEF LoopInv
<1> QED
  BY <1>1, <1>2, <1>3, <1>4, <1>5, <1>6, <1>7, <1>8, <1>9, <1>10, <1>11
  DEF HandlerStep
-----------------------------------------------------------------------------
(* The inductive invariant of the order loop and of the tables.             *)

LEMMA HandlerFinite ==
    ASSUME HandlerStep, IsFiniteSet(DOMAIN seen)
    PROVE  IsFiniteSet(DOMAIN seen')
<1> DEFINE Grows == \E a, b : DOMAIN seen' \subseteq DOMAIN seen \cup {a, b}
<1>1. Grows
  <2>1. CASE seen' = seen
    BY <2>1
  <2>2. ASSUME NEW a, NEW r, EmitCell(a, r) PROVE Grows
    BY <2>2 DEF EmitCell, Emit
  <2>3. ASSUME NEW c, NEW r, KeepLine(c, r) PROVE Grows
    BY <2>3 DEF KeepLine
  <2>4. CASE HandleProductMoved
    BY <2>1, <2>4 DEF HandleProductMoved, Skip, Reject, Emit
  <2>5. CASE OrderLinesDone \/ Emit(NoRows)
    BY <2>5 DEF OrderLinesDone, Emit, NoRows
  <2>6. CASE OrderCreatedLine \/ OrderCompletedLine
    BY <2>1, <2>3, <2>6 DEF OrderCreatedLine, OrderCompletedLine, Skip, Reject
  <2>7. CASE HandleOrderCreated \/ HandleOrderCompleted
    BY <2>1, <2>5, <2>7
    DEF HandleOrderCreated, HandleOrderCompleted, StartLines, Reject
  <2>8. ASSUME NEW t, NEW h, NEW a, NEW r, CellHandler(t, h, a, r)
        PROVE  Grows
    BY <2>1, <2>2, <2>8 DEF CellHandler, Skip, Reject
  <2> QED
    BY <2>4, <2>5, <2>6, <2>7, <2>8
    DEF HandlerStep, HandleProductReceived, HandleProductShipped,
        HandleProductReserved, HandleProductReleased, HandleInventoryCounted
<1>2. PICK a, b : DOMAIN seen' \subseteq DOMAIN seen \cup {a, b}
  BY <1>1
<1>3. IsFiniteSet((DOMAIN seen \cup {a}) \cup {b})
  BY FS_AddElement
<1>4. DOMAIN seen' \in SUBSET ((DOMAIN seen \cup {a}) \cup {b})
  BY <1>2
<1> QED BY <1>3, <1>4, FS_Subset

THEOREM LoopAndTables == Spec => [](LoopInv /\ TablesInv)
<1>1. Init => LoopInv /\ TablesInv
  <2> SUFFICES ASSUME Init PROVE LoopInv /\ TablesInv
    OBVIOUS
  <2>1. StoredRows(zones) = {} /\ OpenOrders(orders) = {} /\ DOMAIN seen = {}
    BY DEF Init, StoredRows, OpenOrders, EmptyZone, NoOrder, NoRows
  <2>2. \A o \in OrderIds : DOMAIN orders[o].items = {}
    BY DEF Init, NoOrder
  <2> QED BY <2>1, <2>2, FS_EmptySet DEF Init, LoopInv, TablesInv
<1>2. TypeOK /\ SeenFresh /\ LoopInv /\ TablesInv /\ [Next]_vars
        => (LoopInv /\ TablesInv)'
  <2> SUFFICES ASSUME TypeOK, SeenFresh, LoopInv, TablesInv, [Next]_vars
               PROVE  (LoopInv /\ TablesInv)'
    OBVIOUS
  <2>1. ASSUME NEW m \in Messages, Receive(m) PROVE (LoopInv /\ TablesInv)'
    BY <2>1 DEF Receive, LoopInv, TablesInv
  <2>2. CASE Handle
    <3>1. LoopInv'
      BY <2>2, HandlersTyped, HandlersKeepLoop DEF Handle
    <3>2. IsFiniteSet(DOMAIN seen')
      BY <2>2, HandlerFinite DEF Handle, TablesInv
    <3> QED BY <2>2, <3>1, <3>2 DEF Handle, TablesInv
  <2>3. CASE Execute
    <3>0. /\ phase = "ops" /\ ev \in Event /\ ev.order \in OrderIds
          /\ ev.ts # NoTs
      BY <2>3 DEF Execute, TypeOK, Event, NoTs
    <3>1. LoopInv' /\ DOMAIN seen' = {}
      BY <2>3 DEF Execute, Done, LoopInv, NoRows
    <3>2. \A c \in Cell : zones'[c].ts = NoTs => zones'[c] = EmptyZone
      BY <2>3, <3>0 DEF Execute, SeenFresh, TablesInv
    <3>3. IsFiniteSet(StoredRows(zones'))
      <4>1. StoredRows(zones') \in SUBSET (StoredRows(zones) \cup DOMAIN seen)
        BY <2>3 DEF Execute, StoredRows
      <4> QED BY <4>1, FS_Union, FS_Subset DEF TablesInv
    <3>4. \A o \in OrderIds : o # ev.order => orders'[o] = orders[o]
      BY <2>3 DEF Execute, TypeOK
    <3>5. IsFiniteSet(OpenOrders(orders'))
      <4>1. OpenOrders(orders') \in SUBSET (OpenOrders(orders) \cup {ev.order})
        BY <3>4 DEF OpenOrders
      <4> QED BY <4>1, FS_AddElement, FS_Subset DEF TablesInv
    <3>6. \A i \in DOMAIN orders'[ev.order].items :
             orders'[ev.order].items[i].qty >= 0
      <4>1. CASE CreatesOrder
        <5>1. orders'[ev.order].items = ev.items
          BY <2>3, <3>0, <4>1 DEF Execute, TypeOK, CreatedOrder
        <5>2. Visited(ev.items, Len(ev.items))
          BY <3>0, <4>1
          DEF LoopInv, Computed, LoopDone, OrderItems, CreatesOrder
        <5>3. DOMAIN ev.items = 1 .. Len(ev.items)
          BY <3>0 DEF Event
        <5> QED BY <4>1, <5>1, <5>2, <5>3 DEF Visited
      <4>2. CASE ~CreatesOrder
        <5>1. orders'[ev.order].items = orders[ev.order].items
          BY <2>3, <3>0, <4>2 DEF Execute, TypeOK, Order
        <5> QED BY <3>0, <5>1 DEF TablesInv
      <4> QED BY <4>1, <4>2
    <3>7. IsFiniteSet(DOMAIN seen')
      BY <3>1, FS_EmptySet
    <3> QED BY <3>1, <3>2, <3>3, <3>4, <3>5, <3>6, <3>7 DEF TablesInv
  <2>4. CASE Drop
    <3>1. DOMAIN seen' = {}
      BY <2>4 DEF Drop, Done, NoRows
    <3> QED BY <2>4, <3>1, FS_EmptySet DEF Drop, Done, LoopInv, TablesInv
  <2>5. CASE UNCHANGED vars
    <3> PICK items : items = OrderItems
      OBVIOUS
    <3>a. /\ OrderItems' = items /\ Sign' = Sign
          /\ CreatesOrder' = CreatesOrder /\ UNCHANGED vars
      BY <2>5 DEF vars, OrderItems, Sign, CreatesOrder
    <3>b. ASSUME NEW k, NEW c, NEW s, NEW t
          PROVE  RowOf(items, k, c, s, t)' = RowOf(items, k, c, s, t)
      BY <2>5 DEF vars, RowOf
    <3>c. Loop => Loop'
      <4> SUFFICES ASSUME NEW k \in 0 .. Len(items), LoopAt(items, k)
                   PROVE  LoopAt(items, k)'
        BY <3>a DEF Loop
      <4> QED BY <3>a, <3>b DEF vars, LoopAt, Visited
    <3>d. LoopDone => LoopDone'
      BY <3>a, <3>b DEF vars, LoopDone, Visited
    <3>e. Computed => Computed'
      BY <3>a, <3>d DEF vars, Computed, OnRow, InZone
    <3>1. LoopInv'
      BY <2>5, <3>c, <3>e DEF vars, LoopInv
    <3> QED BY <2>5, <3>1 DEF vars, TablesInv
  <2> QED BY <2>1, <2>2, <2>3, <2>4, <2>5 DEF Next
<1> QED BY <1>1, <1>2, TypeCorrect, RowsToWriteAreFresh, PTL DEF Spec

(* What the loop has computed when it ends is the reference meaning of the  *)
(* order, however its lines repeat a row.                                   *)
THEOREM LoopMeetsReference == Spec => []OrderLoopMeetsReference
<1>1. TypeOK /\ LoopInv => OrderLoopMeetsReference
  <2> SUFFICES ASSUME TypeOK, LoopInv, phase = "ops", CreatesOrder \/ CompletesOrder
               PROVE
                 /\ CreatesOrder =>
                      \A c \in Cell :
                        /\ c \in DOMAIN seen
                             <=> \E i \in DOMAIN ev.items : ev.items[i].cell = c
                        /\ c \in DOMAIN seen =>
                             /\ seen[c].reserved =
                                  zones[c].reserved + 1 * LineTotal(ev.items, c)
                             /\ seen[c].ts = ev.ts
                 /\ CompletesOrder =>
                      /\ \A c \in Cell :
                           /\ c \in DOMAIN seen
                                <=> \E i \in DOMAIN orders[ev.order].items :
                                      orders[ev.order].items[i].cell = c
                           /\ c \in DOMAIN seen =>
                                /\ seen[c].reserved = zones[c].reserved
                                     + (-1) * LineTotal(orders[ev.order].items, c)
                                /\ seen[c].ts = ev.ts
                      /\ \A c \in DOMAIN seen :
                            seen[c].available = zones[c].available
    BY DEF OrderLoopMeetsReference
  <2> PICK items : items = OrderItems
    OBVIOUS
  <2>1. items \in Seq(Line) /\ DOMAIN items = 1 .. Len(items)
    <3>1. items \in Seq(Line)
      BY HandlersTyped, ItemsTyped DEF TypeOK
    <3> QED BY <3>1
  <2>2. LoopDone
    BY DEF LoopInv, Computed, CreatesOrder, CompletesOrder
  <2>3. \A c : c \in DOMAIN seen <=> \E i \in DOMAIN items : items[i].cell = c
    BY <2>1, <2>2 DEF LoopDone, Visited
  <2>4. \A c \in DOMAIN seen :
           seen[c] = [available |-> zones[c].available,
                      reserved |-> zones[c].reserved + Sign * LineTotal(items, c),
                      ts |-> ev.ts]
    <3> SUFFICES ASSUME NEW c \in DOMAIN seen
                 PROVE  seen[c] = [available |-> zones[c].available,
                                   reserved |-> zones[c].reserved
                                                  + Sign * LineTotal(items, c),
                                   ts |-> ev.ts]
      OBVIOUS
    <3>1. FirstTotal(items, Len(items), c) = LineTotal(items, c)
      BY <2>1, FirstAll
    <3> QED BY <2>2, <3>1 DEF LoopDone, RowOf
  <2>5. CASE CreatesOrder
    <3>1. items = ev.items /\ Sign = 1 /\ ~CompletesOrder
      BY <2>5 DEF OrderItems, Sign, CreatesOrder, CompletesOrder
    <3> QED BY <2>3, <2>4, <3>1
  <2>6. CASE ~CreatesOrder
    <3>1. items = orders[ev.order].items /\ Sign = -1
      BY <2>6 DEF OrderItems, Sign
    <3> QED BY <2>3, <2>4, <2>6, <3>1
  <2> QED BY <2>5, <2>6
<1> QED BY <1>1, TypeCorrect, LoopAndTables, PTL
-----------------------------------------------------------------------------
(* The two properties that add up rows and orders.                          *)

Held(zs, S) == [c \in S |-> zs[c].available + zs[c].reserved]

(* Rows that are not stored hold nothing, so any finite set of cells with   *)
(* all stored rows has the units on hand.                                   *)
LEMMA OnHandOf ==
    ASSUME NEW zs \in [Cell -> ZoneState], NEW S \in SUBSET Cell, IsFiniteSet(S),
           StoredRows(zs) \subseteq S,
           \A c \in Cell : zs[c].ts = NoTs => zs[c] = EmptyZone
    PROVE  Summable(Held(zs, S)) /\ OnHand(zs) = SumFunction(Held(zs, S))
<1> DEFINE f == Held(zs, S)
           g == Held(zs, StoredRows(zs))
<1>1. Summable(f)
  BY DEF Summable, Held, ZoneState
<1>2. DOMAIN g \subseteq DOMAIN f /\ \A c \in DOMAIN g : g[c] = f[c]
  BY DEF Held
<1>3. \A c \in DOMAIN f \ DOMAIN g : f[c] = 0
  BY DEF Held, StoredRows, EmptyZone
<1>4. OnHand(zs) = SumFunction(g)
  BY DEF OnHand, Held
<1> HIDE DEF f, g
<1>5. SumFunction(g) = SumFunction(f)
  BY <1>1, <1>2, <1>3, SumFunctionSupport
<1> QED BY <1>1, <1>4, <1>5 DEF f

(* Moving, reserving and releasing neither create nor lose a unit, for      *)
(* every set of events and any number of products and zones.                *)
THEOREM TransfersLoseNothing == Spec => TransfersConserve
<1>1. TypeOK /\ TypeOK' /\ SeenFresh /\ LoopInv /\ TablesInv /\ TablesInv'
        /\ [Next]_vars
        => [ev.type \in {"PRODUCT_MOVED", "PRODUCT_RESERVED", "PRODUCT_RELEASED"}
              => OnHand(zones') = OnHand(zones)]_vars
  <2> SUFFICES ASSUME TypeOK, TypeOK', SeenFresh, LoopInv, TablesInv, TablesInv',
                      [Next]_vars,
                      ev.type \in {"PRODUCT_MOVED", "PRODUCT_RESERVED",
                                   "PRODUCT_RELEASED"}
               PROVE  OnHand(zones') = OnHand(zones)
    OBVIOUS
  <2>1. CASE zones' = zones
    BY <2>1
  <2>2. CASE Execute
    <3> DEFINE S == StoredRows(zones) \cup StoredRows(zones')
               f == Held(zones, S)
               g == Held(zones', S)
    <3>1. /\ S \in SUBSET Cell /\ IsFiniteSet(S)
          /\ zones \in [Cell -> ZoneState] /\ zones' \in [Cell -> ZoneState]
      BY FS_Union DEF StoredRows, TypeOK, TablesInv
    <3>2. Summable(f) /\ OnHand(zones) = SumFunction(f)
      BY <3>1, OnHandOf DEF TablesInv
    <3>3. Summable(g) /\ OnHand(zones') = SumFunction(g)
      BY <3>1, OnHandOf DEF TablesInv
    <3>4. /\ phase = "ops" /\ ev \in Event /\ ev.ts # NoTs
          /\ \A c \in Cell : zones'[c] = IF c \in DOMAIN seen THEN seen[c]
                                                              ELSE zones[c]
      BY <2>2 DEF Execute, TypeOK, Event, NoTs
    <3>5. DOMAIN seen \subseteq S
      BY <3>4 DEF SeenFresh, Older, StoredRows
    <3>6. /\ DOMAIN f = S /\ DOMAIN g = S
          /\ \A c \in S : f[c] = InZone(c) /\ f[c] \in Int /\ g[c] \in Int
          /\ \A c \in DOMAIN seen : g[c] = OnRow(c)
          /\ \A c \in S \ DOMAIN seen : g[c] = f[c]
      <4>1. \A c \in S : f[c] \in Int /\ g[c] \in Int
        BY <3>2, <3>3 DEF Held, Summable
      <4> QED BY <3>1, <3>4, <3>5, <4>1 DEF Held, InZone, OnRow
    <3> HIDE DEF f, g, S
    <3>7. CASE ev.type # "PRODUCT_MOVED"
      <4>1. DOMAIN seen = {ev.cell} /\ OnRow(ev.cell) = InZone(ev.cell)
        BY <3>4, <3>7 DEF LoopInv, Computed
      <4>2. \A c \in DOMAIN f : g[c] = f[c]
        BY <3>5, <3>6, <4>1
      <4> QED BY <3>2, <3>3, <3>6, <4>2, SumFunctionSame
    <3>8. CASE ev.type = "PRODUCT_MOVED"
      <4> PICK from, to, q : from = ev.cell /\ to = ev.to /\ q = ev.qty
        OBVIOUS
      <4>1. /\ from # to /\ DOMAIN seen = {from, to}
            /\ OnRow(from) = InZone(from) - q /\ OnRow(to) = InZone(to) + q
        BY <3>4, <3>8 DEF LoopInv, Computed
      <4>2. /\ from \in S /\ to \in S /\ q \in Int
            /\ g[from] = f[from] - q /\ g[to] = f[to] + q
        BY <3>4, <3>5, <3>6, <4>1 DEF Event
      <4> DEFINE h == [f EXCEPT ![from] = f[from] - q]
      <4>3. /\ DOMAIN h = DOMAIN f /\ h[from] = f[from] - q
            /\ \A c \in DOMAIN f : c # from => h[c] = f[c]
        BY <3>6, <4>2
      <4>4. /\ DOMAIN g = DOMAIN h /\ h[to] = f[to]
            /\ \A c \in DOMAIN h : c # to => g[c] = h[c]
        BY <3>6, <4>1, <4>2, <4>3
      <4> HIDE DEF h
      <4>5. f[from] \in Int /\ f[to] \in Int /\ f[from] - q \in Int
        BY <3>6, <4>2
      <4>6. Summable(h) /\ SumFunction(h) = SumFunction(f) + (h[from] - f[from])
        BY <3>2, <3>6, <4>2, <4>3, <4>5, SumFunctionUpdate
      <4>7. SumFunction(g) = SumFunction(h) + (g[to] - h[to])
        BY <3>6, <4>2, <4>3, <4>4, <4>6, SumFunctionUpdate
      <4>8. SumFunction(f) \in Int
        BY <3>2, SumFunctionInt
      <4>9. h[from] - f[from] = -q /\ g[to] - h[to] = q
        BY <4>2, <4>3, <4>4, <4>5
      <4>10. SumFunction(g) = (SumFunction(f) + (-q)) + q
        BY <4>6, <4>7, <4>9
      <4>11. SumFunction(g) = SumFunction(f)
        BY <4>2, <4>8, <4>10
      <4> QED BY <3>2, <3>3, <4>11
    <3> QED BY <3>7, <3>8
  <2> QED BY <2>1, <2>2 DEF Next, Receive, Handle, Drop, vars
<1> QED BY <1>1, TypeCorrect, RowsToWriteAreFresh, LoopAndTables, PTL
        DEF Spec, TransfersConserve
-----------------------------------------------------------------------------
(* What an order holds on a row.                                            *)
LEMMA LineTotalInt ==
    ASSUME NEW items \in Seq(Line), NEW c
    PROVE  /\ LineTotal(items, c) \in Int
           /\ (\A i \in DOMAIN items : items[i].qty >= 0)
                => LineTotal(items, c) >= 0
           /\ (\A i \in DOMAIN items : items[i].cell # c)
                => LineTotal(items, c) = 0
<1> DEFINE f == [i \in LinesOn(items, c) |-> items[i].qty]
<1>0. DOMAIN items = 1 .. Len(items) /\ Len(items) \in Nat
  OBVIOUS
<1>1. Summable(f)
  <2>1. Len(items) \in 0 .. Len(items)
    BY <1>0
  <2>2. Summable([i \in FirstOn(items, Len(items), c) |-> items[i].qty])
    BY <2>1, FirstSums
  <2>3. FirstOn(items, Len(items), c) = LinesOn(items, c)
    BY <1>0 DEF FirstOn, LinesOn
  <2> QED BY <2>2, <2>3
<1>2. LineTotal(items, c) = SumFunction(f)
  BY DEF LineTotal
<1>3. (\A i \in DOMAIN items : items[i].qty >= 0)
        => \A x \in DOMAIN f : f[x] >= 0
  BY DEF LinesOn
<1>4. (\A i \in DOMAIN items : items[i].cell # c) => DOMAIN f = {}
  BY DEF LinesOn
<1> HIDE DEF f
<1> QED BY <1>1, <1>2, <1>3, <1>4, SumFunctionInt, SumFunctionNat, SumFunctionEmpty

(* Executing an order's statements moves the reserve of every row by what   *)
(* the order's lines name on it.                                            *)
LEMMA OrderMovesReserve ==
    ASSUME TypeOK, LoopDone, Execute, ev \in Event, NEW c \in Cell
    PROVE  zones'[c].reserved = zones[c].reserved + Sign * LineTotal(OrderItems, c)
<1> PICK items : items = OrderItems
  OBVIOUS
<1>1. items \in Seq(Line)
  BY HandlersTyped, ItemsTyped
<1>0. DOMAIN items = 1 .. Len(items)
  BY <1>1
<1>2. zones'[c] = IF c \in DOMAIN seen THEN seen[c] ELSE zones[c]
  BY DEF Execute
<1>3. CASE c \in DOMAIN seen
  <2>1. FirstTotal(items, Len(items), c) = LineTotal(items, c)
    BY <1>1, FirstAll
  <2> QED BY <1>2, <1>3, <2>1 DEF LoopDone, RowOf
<1>4. CASE c \notin DOMAIN seen
  <2>1. \A i \in DOMAIN items : items[i].cell # c
    BY <1>0, <1>4 DEF LoopDone, Visited
  <2>2. LineTotal(items, c) = 0
    BY <1>1, <2>1, LineTotalInt
  <2>3. zones[c].reserved \in Int /\ Sign \in {1, -1}
    BY DEF TypeOK, ZoneState, Sign
  <2>4. zones[c].reserved = zones[c].reserved + Sign * 0
    BY <2>3
  <2> QED BY <1>2, <1>4, <2>2, <2>4
<1> QED BY <1>3, <1>4

OrderTotals(os, c) == [o \in OpenOrders(os) |-> LineTotal(os[o].items, c)]

LEMMA OpenTotalOf ==
    ASSUME NEW os \in [OrderIds -> Order], IsFiniteSet(OpenOrders(os)), NEW c
    PROVE  /\ Summable(OrderTotals(os, c))
           /\ OpenTotal(os, c) = SumFunction(OrderTotals(os, c))
           /\ OpenTotal(os, c) \in Int
<1> DEFINE f == OrderTotals(os, c)
<1>1. \A o \in DOMAIN f : f[o] \in Int
  BY LineTotalInt DEF OrderTotals, OpenOrders, Order
<1>2. IsFiniteSet(DOMAIN f)
  BY DEF OrderTotals
<1>3. OpenTotal(os, c) = SumFunction(f)
  BY DEF OpenTotal, OrderTotals
<1> HIDE DEF f
<1>4. Summable(f) /\ SumFunction(f) \in Int
  BY <1>1, <1>2, SumFunctionInt DEF Summable
<1> QED BY <1>3, <1>4 DEF f

(* Creating, re-creating or completing an order changes the total of the    *)
(* open orders on a row by no more than the row's reserve moves.            *)
LEMMA OrderTotalMoves ==
    ASSUME TypeOK, TablesInv, LoopDone, Execute, ev \in Event,
           CreatesOrder \/ CompletesOrder, NEW c \in Cell
    PROVE  OpenTotal(orders', c)
             <= OpenTotal(orders, c) + Sign * LineTotal(OrderItems, c)
<1> PICK items, o, total :
      items = OrderItems /\ o = ev.order /\ total = LineTotal(items, c)
  OBVIOUS
<1> DEFINE f == OrderTotals(orders, c)
           g == OrderTotals(orders', c)
<1>1. items \in Seq(Line) /\ o \in OrderIds /\ total \in Int
  BY HandlersTyped, ItemsTyped, LineTotalInt
<1>2. \A p \in OrderIds : orders[p].items \in Seq(Line)
  BY DEF TypeOK, Order
<1>3. Summable(f) /\ OpenTotal(orders, c) = SumFunction(f)
  BY OpenTotalOf DEF TypeOK, TablesInv
<1>4. OpenTotal(orders', c) = SumFunction(g)
  BY DEF OpenTotal, OrderTotals
<1>5. SumFunction(f) \in Int
  BY <1>3, SumFunctionInt
<1>6. \A p \in OrderIds : p # o => orders'[p] = orders[p]
  BY DEF Execute, TypeOK
<1>d. /\ DOMAIN f = OpenOrders(orders) /\ DOMAIN g = OpenOrders(orders')
      /\ \A p \in DOMAIN f : f[p] = LineTotal(orders[p].items, c)
      /\ \A p \in DOMAIN g : g[p] = LineTotal(orders'[p].items, c)
  BY DEF OrderTotals
<1>g. \A p \in DOMAIN g : p # o => p \in DOMAIN f /\ g[p] = f[p]
  BY <1>6, <1>d DEF OpenOrders
<1>7. CASE CreatesOrder
  <2>1. orders'[o].status = "CREATED" /\ orders'[o].items = items
    BY <1>1, <1>7 DEF Execute, TypeOK, CreatedOrder, OrderItems
  <2>2. /\ DOMAIN g = DOMAIN f \cup {o} /\ g[o] = total
        /\ \A p \in DOMAIN f : p # o => g[p] = f[p]
    BY <1>1, <1>6, <1>d, <2>1 DEF OpenOrders
  <2>3. Sign * total = total
    BY <1>1, <1>7 DEF Sign
  <2> HIDE DEF f, g
  <2>4. CASE o \notin DOMAIN f
    <3>1. \A p \in DOMAIN f : g[p] = f[p]
      BY <2>2, <2>4
    <3>2. SumFunction(g) = SumFunction(f) + total
      BY <1>1, <1>3, <2>2, <2>4, <3>1, SumFunctionExtend
    <3> QED BY <1>1, <1>3, <1>4, <1>5, <2>3, <3>2
  <2>5. CASE o \in DOMAIN f
    <3>1. f[o] \in Int /\ f[o] >= 0
      BY <1>1, <1>2, <1>d, <2>5, LineTotalInt DEF TablesInv
    <3>2. DOMAIN g = DOMAIN f
      BY <2>2, <2>5
    <3>3. SumFunction(g) = SumFunction(f) + (total - f[o])
      BY <1>1, <1>3, <2>2, <2>5, <3>2, SumFunctionUpdate
    <3>4. SumFunction(f) + (total - f[o]) <= SumFunction(f) + total
      BY <1>1, <1>5, <3>1
    <3> QED BY <1>3, <1>4, <1>5, <2>3, <3>3, <3>4
  <2> QED BY <2>4, <2>5
<1>8. CASE ~CreatesOrder
  <2>1. orders[o].status = "CREATED" /\ items = orders[o].items
    BY <1>8 DEF LoopDone, OrderItems
  <2>2. orders'[o].status = "COMPLETED"
    BY <1>1, <1>8 DEF Execute, TypeOK, Order
  <2>3. /\ o \in DOMAIN f /\ f[o] = total /\ o \notin DOMAIN g
        /\ DOMAIN f = DOMAIN g \cup {o}
    BY <1>1, <1>6, <1>d, <2>1, <2>2 DEF OpenOrders
  <2>4. Sign * total = -total
    <3>1. Sign = -1
      BY <1>8 DEF Sign
    <3> QED BY <1>1, <3>1
  <2>5. \A p \in DOMAIN g : f[p] = g[p]
    BY <1>g, <2>3
  <2> HIDE DEF f, g
  <2>6. Summable(g)
    <3>1. IsFiniteSet(DOMAIN g)
      BY <1>3, <2>3, FS_Subset DEF Summable
    <3> QED BY <1>3, <2>3, <2>5, <3>1 DEF Summable
  <2>7. SumFunction(f) = SumFunction(g) + total
    BY <1>1, <2>3, <2>5, <2>6, SumFunctionExtend
  <2>8. SumFunction(g) \in Int
    BY <2>6, SumFunctionInt
  <2>9. SumFunction(g) <= SumFunction(f) + (-total)
    BY <1>1, <2>7, <2>8
  <2> QED BY <1>3, <1>4, <1>5, <2>4, <2>9
<1> QED BY <1>7, <1>8

(* What the open orders have reserved stays in reserve until an event that  *)
(* names no order takes it.                                                 *)
THEOREM OpenOrdersKeepReserve == Spec => OpenOrdersStayCovered
<1>1. TypeOK /\ TypeOK' /\ LoopInv /\ TablesInv /\ TablesInv' /\ [Next]_vars
        => [Covers(zones, orders) /\ ev.type # "PRODUCT_RELEASED"
              => Covers(zones', orders')]_vars
  <2> SUFFICES ASSUME TypeOK, TypeOK', LoopInv, TablesInv, TablesInv',
                      [Next]_vars, Covers(zones, orders),
                      ev.type # "PRODUCT_RELEASED"
               PROVE  Covers(zones', orders')
    OBVIOUS
  <2>0. \A c \in Cell :
          /\ zones[c].reserved \in Int /\ zones'[c].reserved \in Int
          /\ OpenTotal(orders, c) \in Int /\ OpenTotal(orders', c) \in Int
    BY OpenTotalOf DEF TypeOK, TablesInv, ZoneState
  <2>1. CASE zones' = zones /\ orders' = orders
    BY <2>1
  <2>2. CASE Execute
    <3>0. /\ phase = "ops" /\ ev \in Event
          /\ \A c \in Cell : zones'[c] = IF c \in DOMAIN seen THEN seen[c]
                                                              ELSE zones[c]
      BY <2>2 DEF Execute, TypeOK
    <3>1. CASE CreatesOrder \/ CompletesOrder
      <4>1. LoopDone
        BY <3>0, <3>1 DEF LoopInv, Computed, CreatesOrder, CompletesOrder
      <4> SUFFICES ASSUME NEW c \in Cell
                   PROVE  zones'[c].reserved >= OpenTotal(orders', c)
        BY DEF Covers
      <4> PICK d : d = Sign * LineTotal(OrderItems, c)
        OBVIOUS
      <4>2. zones'[c].reserved = zones[c].reserved + d
        BY <2>2, <3>0, <4>1, OrderMovesReserve
      <4>3. OpenTotal(orders', c) <= OpenTotal(orders, c) + d
        BY <2>2, <3>0, <3>1, <4>1, OrderTotalMoves
      <4>4. d \in Int
        <5>1. LineTotal(OrderItems, c) \in Int
          BY <3>0, HandlersTyped, ItemsTyped, LineTotalInt
        <5> QED BY <5>1 DEF Sign
      <4>5. zones[c].reserved >= OpenTotal(orders, c)
        BY DEF Covers
      <4> QED BY <2>0, <4>2, <4>3, <4>4, <4>5
    <3>2. CASE ~CreatesOrder /\ ~CompletesOrder
      <4>1. orders' = orders
        BY <2>2, <3>2 DEF Execute, TypeOK
      <4>2. \A c \in DOMAIN seen : seen[c].reserved >= zones[c].reserved
        BY <3>0, <3>2 DEF LoopInv, Computed, CreatesOrder, CompletesOrder
      <4>3. \A c \in Cell : zones'[c].reserved >= zones[c].reserved
        BY <2>0, <3>0, <4>2
      <4> QED BY <2>0, <4>1, <4>3 DEF Covers
    <3> QED BY <3>1, <3>2
  <2> QED BY <2>1, <2>2 DEF Next, Receive, Handle, Drop, vars
<1> QED BY <1>1, TypeCorrect, LoopAndTables, PTL DEF Spec, OpenOrdersStayCovered
=============================================================================
