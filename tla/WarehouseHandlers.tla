-------------------------- MODULE WarehouseHandlers --------------------------
(***************************************************************************)
(* The event handlers of the warehouse state consumer                      *)
(* (hm6/consumer/handlers.py).  A handler reads rows of the inventory and  *)
(* order tables and ends in one of three verdicts:                         *)
(*                                                                         *)
(*   "ops"      it returns statements: the rows in seen are to be written; *)
(*   "stale"    it returns None: the event is out of order;                *)
(*   "invalid"  it raises ValidationError.                                 *)
(*                                                                         *)
(* Each handler is one action; the two order handlers, whose loop reads a  *)
(* row per order line, take a step per line.  The handlers never write a   *)
(* table: the modules that extend this one do.                             *)
(***************************************************************************)
EXTENDS Integers, Sequences

CONSTANTS
    Products, Zones, OrderIds, EventIds,
    Messages                  \* the events producers may put on the topic

Cell == Products \X Zones     \* primary key of inventory_by_product_zone

Line == [cell: Cell, qty: Int]

EventTypes == {"PRODUCT_RECEIVED", "PRODUCT_SHIPPED", "PRODUCT_MOVED",
               "PRODUCT_RESERVED", "PRODUCT_RELEASED", "INVENTORY_COUNTED",
               "ORDER_CREATED", "ORDER_COMPLETED"}

(* One record shape for all eight Avro schemas: cell is the event's zone    *)
(* (from_zone of a move), to the destination of a move, qty the quantity or *)
(* counted_quantity, order and items those of the order events.             *)
Event == [id: EventIds, type: EventTypes, ts: Nat \ {0}, cell: Cell,
          to: Cell, qty: Int, order: OrderIds, items: Seq(Line)]

NoEvent == [type |-> "NONE"]

ASSUME MessagesAssumption == Messages \subseteq Event

(* A row; ts = NoTs is last_ts None, the state of an absent row.            *)
NoTs == 0
ZoneState == [available: Int, reserved: Int, ts: Nat]
EmptyZone == [available |-> 0, reserved |-> 0, ts |-> NoTs]

Order == [status: {"NONE", "CREATED", "COMPLETED"}, items: Seq(Line)]
NoOrder == [status |-> "NONE", items |-> <<>>]

VARIABLES
    zones,    \* inventory_by_product_zone: [Cell -> ZoneState]
    orders,   \* orders: [OrderIds -> Order]
    ev,       \* the event being handled, or NoEvent
    phase,    \* where its handling stands
    seen,     \* the rows the handler computed, a function on a set of cells
    lines     \* the order lines the loop has still to visit

handlerVars == <<ev, phase, seen, lines>>

NoRows == [c \in {} |-> EmptyZone]
-----------------------------------------------------------------------------
(* _is_stale and the three ways a handler ends.                             *)

(* Mutant: an event as old as the row is taken for newer.                   *)
MutIsStaleStrict(ts, last) == last # NoTs /\ ts < last

IsStale(ts, last) == last # NoTs /\ ts <= last

Handling(t) == phase = "handling" /\ ev.type = t

Skip == phase' = "stale" /\ UNCHANGED <<ev, seen, lines>>

Reject == phase' = "invalid" /\ UNCHANGED <<ev, seen, lines>>

Emit(rows) == phase' = "ops" /\ seen' = rows /\ UNCHANGED <<ev, lines>>

Adjusted(c, dAvailable, dReserved) ==
    [available |-> zones[c].available + dAvailable,
     reserved  |-> zones[c].reserved + dReserved,
     ts        |-> ev.ts]

EmitCell(dAvailable, dReserved) ==
    Emit([c \in {ev.cell} |-> Adjusted(c, dAvailable, dReserved)])

(* The checks all single-row handlers share, in the order of the code:      *)
(* quantity, then staleness, then the amount the row must hold (have).      *)
CellHandler(t, have, dAvailable, dReserved) ==
    /\ Handling(t)
    /\ \/ /\ ev.qty < 0
          /\ Reject
       \/ /\ ev.qty >= 0
          /\ IsStale(ev.ts, zones[ev.cell].ts)
          /\ Skip
       \/ /\ ev.qty >= 0
          /\ ~IsStale(ev.ts, zones[ev.cell].ts)
          /\ have < ev.qty
          /\ Reject
       \/ /\ ev.qty >= 0
          /\ ~IsStale(ev.ts, zones[ev.cell].ts)
          /\ have >= ev.qty
          /\ EmitCell(dAvailable, dReserved)

HandleProductReceived ==
    CellHandler("PRODUCT_RECEIVED", ev.qty, ev.qty, 0)

(* Mutant: a shipment is not compared with what is available.               *)
MutShipUnchecked ==
    CellHandler("PRODUCT_SHIPPED", ev.qty, -ev.qty, 0)

HandleProductShipped ==
    CellHandler("PRODUCT_SHIPPED", zones[ev.cell].available, -ev.qty, 0)

HandleProductReserved ==
    CellHandler("PRODUCT_RESERVED", zones[ev.cell].available, -ev.qty, ev.qty)

(* Mutant: a release is compared with available instead of reserved.        *)
MutReleaseChecksAvailable ==
    CellHandler("PRODUCT_RELEASED", zones[ev.cell].available, ev.qty, -ev.qty)

(* Mutant: a release does not give the units back to available.             *)
MutReleaseLosesUnits ==
    CellHandler("PRODUCT_RELEASED", zones[ev.cell].reserved, 0, -ev.qty)

HandleProductReleased ==
    CellHandler("PRODUCT_RELEASED", zones[ev.cell].reserved, ev.qty, -ev.qty)

(* The counted quantity replaces available; reserved is kept.               *)
HandleInventoryCounted ==
    CellHandler("INVENTORY_COUNTED", ev.qty,
                ev.qty - zones[ev.cell].available, 0)

HandleProductMoved ==
    LET stale == \/ IsStale(ev.ts, zones[ev.cell].ts)
                 \/ IsStale(ev.ts, zones[ev.to].ts)
    IN  /\ Handling("PRODUCT_MOVED")
        /\ \/ /\ ev.qty < 0 \/ ev.cell = ev.to
              /\ Reject
           \/ /\ ev.qty >= 0 /\ ev.cell # ev.to
              /\ stale
              /\ Skip
           \/ /\ ev.qty >= 0 /\ ev.cell # ev.to
              /\ ~stale
              /\ zones[ev.cell].available < ev.qty
              /\ Reject
           \/ /\ ev.qty >= 0 /\ ev.cell # ev.to
              /\ ~stale
              /\ zones[ev.cell].available >= ev.qty
              /\ Emit([c \in {ev.cell, ev.to} |->
                        Adjusted(c, IF c = ev.cell THEN -ev.qty ELSE ev.qty, 0)])
-----------------------------------------------------------------------------
(* ORDER_CREATED and ORDER_COMPLETED: the loop over the order's lines.      *)

StartLines(items) ==
    /\ phase' = "lines"
    /\ lines' = items
    /\ UNCHANGED <<ev, seen>>

HandleOrderCreated ==
    /\ Handling("ORDER_CREATED")
    /\ \/ ev.items = <<>> /\ Reject
       \/ ev.items # <<>> /\ StartLines(ev.items)

(* A completed order gets a history row only (no rows to write).            *)
HandleOrderCompleted ==
    /\ Handling("ORDER_COMPLETED")
    /\ \/ orders[ev.order].status = "NONE" /\ Reject
       \/ orders[ev.order].status = "COMPLETED" /\ Emit(NoRows)
       \/ orders[ev.order].status = "CREATED"
          /\ StartLines(orders[ev.order].items)

InLoop(t) == phase = "lines" /\ ev.type = t

(* Mutant: every line reads its row from the table again.                   *)
MutLineRowFromTable(c) == zones[c]

(* The row a line works on: read once, then kept in seen for later lines.   *)
LineRow(c) == IF c \in DOMAIN seen THEN seen[c] ELSE zones[c]

(* Mutant: a line's quantity replaces reserved instead of adding to it.     *)
MutKeepLineReplaces(c, dReserved) ==
    /\ seen' = [d \in DOMAIN seen \cup {c} |->
                  IF d = c
                  THEN [LineRow(c) EXCEPT !.reserved = dReserved]
                  ELSE seen[d]]
    /\ lines' = Tail(lines)
    /\ UNCHANGED <<ev, phase>>

KeepLine(c, dReserved) ==
    /\ seen' = [d \in DOMAIN seen \cup {c} |->
                  IF d = c
                  THEN [LineRow(c) EXCEPT !.reserved = @ + dReserved]
                  ELSE seen[d]]
    /\ lines' = Tail(lines)
    /\ UNCHANGED <<ev, phase>>

(* A new order checks each line against available, which it leaves as it    *)
(* is, and only adds to reserved.                                           *)
OrderCreatedLine ==
    /\ InLoop("ORDER_CREATED")
    /\ lines # <<>>
    /\ LET item == Head(lines)
           row  == LineRow(item.cell)
       IN \/ item.qty < 0 /\ Reject
          \/ item.qty >= 0 /\ IsStale(ev.ts, row.ts) /\ Skip
          \/ /\ item.qty >= 0 /\ ~IsStale(ev.ts, row.ts)
             /\ row.available < item.qty
             /\ Reject
          \/ /\ item.qty >= 0 /\ ~IsStale(ev.ts, row.ts)
             /\ row.available >= item.qty
             /\ KeepLine(item.cell, item.qty)

OrderCompletedLine ==
    /\ InLoop("ORDER_COMPLETED")
    /\ lines # <<>>
    /\ LET item == Head(lines)
           row  == LineRow(item.cell)
       IN \/ IsStale(ev.ts, row.ts) /\ Skip
          \/ /\ ~IsStale(ev.ts, row.ts)
             /\ row.reserved < item.qty
             /\ Reject
          \/ /\ ~IsStale(ev.ts, row.ts)
             /\ row.reserved >= item.qty
             /\ KeepLine(item.cell, -item.qty)

(* After the last line every row read is written with the event's time.     *)
OrderLinesDone ==
    /\ phase = "lines"
    /\ lines = <<>>
    /\ Emit([c \in DOMAIN seen |-> [seen[c] EXCEPT !.ts = ev.ts]])

HandlerStep ==
    \/ HandleProductReceived
    \/ HandleProductShipped
    \/ HandleProductMoved
    \/ HandleProductReserved
    \/ HandleProductReleased
    \/ HandleInventoryCounted
    \/ HandleOrderCreated
    \/ HandleOrderCompleted
    \/ OrderCreatedLine
    \/ OrderCompletedLine
    \/ OrderLinesDone
-----------------------------------------------------------------------------
(* What the statements of a handler that returned "ops" do to the orders    *)
(* table: upsert_order, update_order_status or nothing.                     *)
CreatesOrder == ev.type = "ORDER_CREATED"

CompletesOrder == ev.type = "ORDER_COMPLETED" /\ DOMAIN seen # {}

(* Mutant: the event type is stored as the status.                          *)
MutCreatedOrder == [status |-> "ORDER_CREATED", items |-> ev.items]

CreatedOrder == [status |-> "CREATED", items |-> ev.items]
=============================================================================
