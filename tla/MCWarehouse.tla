----------------------------- MODULE MCWarehouse -----------------------------
(* Constants for model-checking Warehouse: one product in two zones, events *)
(* of the chosen Types with timestamps 1..MaxTs, quantities that are        *)
(* negative, small or too large, and order lines that are missing, single,  *)
(* repeated, on two rows or negative.  Zone B is filled by receipts, moves  *)
(* and order lines.                                                         *)
EXTENDS Warehouse

CONSTANTS p1, za, zb, e1, MaxTs, MaxQty, Types

CellA == <<p1, za>>
CellB == <<p1, zb>>

MCProducts == {p1}
MCZones == {za, zb}
MCEventIds == {e1}

Message(type, ts, from, to, qty, order, items) ==
    [id |-> e1, type |-> type, ts |-> ts, cell |-> from, to |-> to,
     qty |-> qty, order |-> order, items |-> items]

AnyOrder == CHOOSE o \in OrderIds : TRUE

CellTypes == {"PRODUCT_RECEIVED", "PRODUCT_SHIPPED", "PRODUCT_RESERVED",
              "PRODUCT_RELEASED", "INVENTORY_COUNTED"}

ItemLists ==
    LET line(c, q) == [cell |-> c, qty |-> q]
    IN  {<<>>, <<line(CellA, 1)>>, <<line(CellA, 2), line(CellA, 1)>>,
         <<line(CellB, 1), line(CellA, 1)>>, <<line(CellA, 1), line(CellB, -1)>>}

AllMessages ==
    {Message(t, ts, CellA, CellA, q, AnyOrder, <<>>) :
        t \in CellTypes, ts \in 1..MaxTs, q \in {-1} \cup 1..MaxQty}
    \cup {Message("PRODUCT_RECEIVED", ts, CellB, CellB, 1, AnyOrder, <<>>) :
        ts \in 1..MaxTs}
    \cup {Message("PRODUCT_MOVED", ts, CellA, c, q, AnyOrder, <<>>) :
        ts \in 1..MaxTs, c \in {CellA, CellB}, q \in {-1} \cup 1..MaxQty}
    \cup {Message("ORDER_CREATED", ts, CellA, CellA, 0, o, l) :
        ts \in 1..MaxTs, o \in OrderIds, l \in ItemLists}
    \cup {Message("ORDER_COMPLETED", ts, CellA, CellA, 0, o, <<>>) :
        ts \in 1..MaxTs, o \in OrderIds}

MCMessages == {m \in AllMessages : m.type \in Types}
=============================================================================
