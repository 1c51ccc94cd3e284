------------------------------ MODULE Warehouse ------------------------------
(***************************************************************************)
(* The warehouse state as one sequence of events would shape it: an event  *)
(* is handled, and the statements of its handler are executed at once,     *)
(* without Kafka, failures or idempotency marks.  This is the meaning of   *)
(* the eight events; WarehouseConsumer adds everything around it.          *)
(***************************************************************************)
EXTENDS WarehouseHandlers, Functions

vars == <<zones, orders, ev, phase, seen, lines>>

Init ==
    /\ zones = [c \in Cell |-> EmptyZone]
    /\ orders = [o \in OrderIds |-> NoOrder]
    /\ ev = NoEvent
    /\ phase = "idle"
    /\ seen = NoRows
    /\ lines = <<>>

(* The next event reaches its handler.                                      *)
Receive(m) ==
    /\ phase = "idle"
    /\ ev' = m
    /\ phase' = "handling"
    /\ UNCHANGED <<zones, orders, seen, lines>>

Handle == HandlerStep /\ UNCHANGED <<zones, orders>>

Done ==
    /\ phase' = "idle"
    /\ ev' = NoEvent
    /\ seen' = NoRows
    /\ lines' = <<>>

(* The handler's statements take effect.                                    *)
Execute ==
    /\ phase = "ops"
    /\ zones' = [c \in Cell |-> IF c \in DOMAIN seen THEN seen[c] ELSE zones[c]]
    /\ orders' = [orders EXCEPT ![ev.order] =
                    IF CreatesOrder THEN CreatedOrder
                    ELSE IF CompletesOrder THEN [@ EXCEPT !.status = "COMPLETED"]
                    ELSE @]
    /\ Done

(* A stale or invalid event changes no table.                               *)
Drop ==
    /\ phase \in {"stale", "invalid"}
    /\ Done
    /\ UNCHANGED <<zones, orders>>

Next ==
    \/ \E m \in Messages : Receive(m)
    \/ Handle
    \/ Execute
    \/ Drop

Spec == Init /\ [][Next]_vars
-----------------------------------------------------------------------------
Phases == {"idle", "handling", "lines", "ops", "stale", "invalid"}

(* Every variable keeps its type.                                           *)
TypeOK ==
    /\ zones \in [Cell -> ZoneState]
    /\ orders \in [OrderIds -> Order]
    /\ ev \in Event \cup {NoEvent}
    /\ phase \in Phases
    /\ phase # "idle" => ev \in Event
    /\ DOMAIN seen \subseteq Cell
    /\ seen \in [DOMAIN seen -> ZoneState]
    /\ lines \in Seq(Line)

(* No sequence of events, whatever its quantities and order lines, brings a *)
(* stored quantity or one a handler is about to store below zero: every     *)
(* subtraction is covered by the check before it, the accumulated lines of  *)
(* one order included (handlers.py 202, 244, 292, 330, 518).                *)
StockNonNegative ==
    /\ \A c \in Cell : zones[c].available >= 0 /\ zones[c].reserved >= 0
    /\ \A c \in DOMAIN seen : seen[c].available >= 0 /\ seen[c].reserved >= 0

(* A row changes only for an event newer than the newest one it reflects,   *)
(* so replaying old events in any order cannot undo newer state             *)
(* (_is_stale, handlers.py 52-55; README "Обработка событий вне порядка").  *)
OnlyNewerEventsChangeRows ==
    [][\A c \in Cell : zones'[c] # zones[c] => zones'[c].ts > zones[c].ts]_vars

StoredRows(zs) == {c \in Cell : zs[c].ts # NoTs}

OnHand(zs) ==
    SumFunction([c \in StoredRows(zs) |-> zs[c].available + zs[c].reserved])

(* Moving, reserving and releasing shift units between zones and between    *)
(* available and reserved, and never create or lose one.                    *)
TransfersConserve ==
    [][ev.type \in {"PRODUCT_MOVED", "PRODUCT_RESERVED", "PRODUCT_RELEASED"}
         => OnHand(zones') = OnHand(zones)]_vars

LinesOn(items, c) == {i \in DOMAIN items : items[i].cell = c}

LineTotal(items, c) == SumFunction([i \in LinesOn(items, c) |-> items[i].qty])

(* Reference meaning of the order loops: the rows to write are the rows     *)
(* named by the lines, with reserved moved by the total of all lines on the *)
(* row, however the lines repeat a row; completing an order leaves          *)
(* available alone (handlers.py 422-424, 471-476, 518).  What creating one  *)
(* does to available is the subject of OrdersReserveLikeEvents.             *)
OrderLoopMeetsReference ==
    LET meets(items, sign) ==
          \A c \in Cell :
             /\ c \in DOMAIN seen <=> \E i \in DOMAIN items : items[i].cell = c
             /\ c \in DOMAIN seen =>
                  /\ seen[c].reserved = zones[c].reserved
                                          + sign * LineTotal(items, c)
                  /\ seen[c].ts = ev.ts
    IN  phase = "ops" =>
          /\ CreatesOrder => meets(ev.items, 1)
          /\ CompletesOrder =>
               /\ meets(orders[ev.order].items, -1)
               /\ \A c \in DOMAIN seen :
                     seen[c].available = zones[c].available

OpenOrders(os) == {o \in OrderIds : os[o].status = "CREATED"}

OpenTotal(os, c) ==
    SumFunction([o \in OpenOrders(os) |-> LineTotal(os[o].items, c)])

Covers(zs, os) == \A c \in Cell : zs[c].reserved >= OpenTotal(os, c)

(* If every zone holds in reserve all that its open orders have reserved,   *)
(* so that each of them can be completed (handle_order_completed finds      *)
(* reserved >= quantity for every line), then only PRODUCT_RELEASED, which  *)
(* names no order, can change that: creating, re-creating or completing an  *)
(* order never uses up what another order has reserved.                     *)
OpenOrdersStayCovered ==
    [][Covers(zones, orders) /\ ev.type # "PRODUCT_RELEASED"
         => Covers(zones', orders')]_vars
-----------------------------------------------------------------------------
(* What the docstrings say and the code does not do.                        *)

(* handlers.py 386-387, 474-476: creating an order reserves every position  *)
(* as PRODUCT_RESERVED does, so the units leave available when they are     *)
(* reserved.  The code adds to reserved only (handlers.py 424).             *)
OrdersReserveLikeEvents ==
    phase = "ops" /\ CreatesOrder =>
        \A c \in DOMAIN seen :
            /\ seen[c].available = zones[c].available - LineTotal(ev.items, c)
            /\ seen[c].reserved = zones[c].reserved + LineTotal(ev.items, c)
=============================================================================
