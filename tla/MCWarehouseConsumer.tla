------------------------- MODULE MCWarehouseConsumer -------------------------
(* Constants for model-checking WarehouseConsumer: one product in two       *)
(* zones, a small catalogue of messages, and every topic whose partitions   *)
(* hold at most MaxLog of the catalogue's messages in any order, repeated   *)
(* or not.                                                                  *)
EXTENDS WarehouseConsumer

CONSTANTS p1, za, zb, o1, MaxLog, Catalogue

CellA == <<p1, za>>
CellB == <<p1, zb>>

MCProducts == {p1}
MCZones == {za, zb}
MCOrderIds == {o1}

Message(id, type, ts, from, to, qty, items) ==
    [id |-> id, type |-> type, ts |-> ts, cell |-> from, to |-> to,
     qty |-> qty, order |-> o1, items |-> items]

OnA(id, type, ts, qty) == Message(id, type, ts, CellA, CellA, qty, <<>>)

(* The catalogue: name -> message.  "again" is "receive" sent twice under   *)
(* one id with a later timestamp by a retrying producer.                    *)
Named ==
    [receive  |-> OnA("e1", "PRODUCT_RECEIVED", 1, 2),
     again    |-> OnA("e1", "PRODUCT_RECEIVED", 4, 2),
     ship     |-> OnA("e2", "PRODUCT_SHIPPED", 2, 1),
     badship  |-> OnA("e3", "PRODUCT_SHIPPED", 3, -1),
     reserve  |-> OnA("e4", "PRODUCT_RESERVED", 3, 1),
     release  |-> OnA("e5", "PRODUCT_RELEASED", 4, 1),
     count    |-> OnA("e6", "INVENTORY_COUNTED", 3, 1),
     move     |-> Message("e7", "PRODUCT_MOVED", 3, CellA, CellB, 1, <<>>),
     create   |-> Message("e8", "ORDER_CREATED", 3, CellA, CellA, 0,
                          <<[cell |-> CellA, qty |-> 1], [cell |-> CellA, qty |-> 1]>>),
     complete |-> Message("e9", "ORDER_COMPLETED", 4, CellA, CellA, 0, <<>>)]

EventNames == {"receive", "again", "ship", "badship", "reserve", "release",
               "count", "move", "create", "complete"}

MCEventIds == {Named[n].id : n \in EventNames}

MCMessages == {Named[n] : n \in Catalogue \cap EventNames}

OnTopic == MCMessages \cup IF "unusable" \in Catalogue THEN {Unusable} ELSE {}

MCLogs == [Partitions -> UNION {[1 .. n -> OnTopic] : n \in 0 .. MaxLog}]
=============================================================================
