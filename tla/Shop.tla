--------------------------------- MODULE Shop ---------------------------------
(***************************************************************************)
(* The shop (hm2): OrderService and ProductService.  Each request is a     *)
(* READ COMMITTED transaction without row locks or version columns: a row  *)
(* is read when it is first needed, kept in the persistence context, and   *)
(* written back whole at the commit if it was changed there.  Requests of  *)
(* several clients interleave between their reads and their commit.        *)
(***************************************************************************)
EXTENDS Integers, Sequences, FiniteSets, Functions

CONSTANTS
    Users, Admins, Products, OrderIds,
    Clients,         \* requests the server handles at one time
    Carts,           \* the item lists clients send
    Rows,            \* the product rows sellers write
    MaxUses,         \* max_uses of the promo code
    MinAmount,       \* its min_order_amount
    MaxRequests      \* bound on the number of requests

Row == [price: Nat, stock: Int, status: {"ACTIVE", "INACTIVE", "ARCHIVED"}]
NoProduct == [status |-> "NONE"]

Line == [product: Products, qty: Nat \ {0}]

ASSUME CartsAssumption == Carts \subseteq Seq(Line) \ {<<>>}
ASSUME RowsAssumption ==
    Rows \subseteq [price: Nat, stock: Nat, status: {"ACTIVE", "INACTIVE", "ARCHIVED"}]
ASSUME PromoAssumption == MaxUses \in Nat /\ MinAmount \in Nat
ASSUME AdminsAssumption == Admins \subseteq Users
ASSUME ClientsAssumption == IsFiniteSet(Clients)

Order == [user: Users, status: {"CREATED", "CANCELED"}, items: Seq(Line),
          total: Nat, promo: BOOLEAN]
NoOrder == [status |-> "NONE"]

VARIABLES
    products,    \* table products
    orders,      \* tables orders and order_items
    uses,        \* promo_codes.current_uses
    recent,      \* user_operations younger than rate-limit-seconds
    tx,          \* the request each client has under way
    requests     \* number of requests so far

tables == <<products, orders, uses, recent>>
vars == <<tables, tx, requests>>

Idle == [op |-> "none"]
NoRows == [p \in {} |-> NoProduct]

(* A request: who asks for what, and what its transaction has read: was,    *)
(* the product rows, old, the order, and code, the uses of the promo code.  *)
Request(op, user, order, cart, promo, put, at, todo) ==
    [op |-> op, user |-> user, order |-> order, cart |-> cart, promo |-> promo,
     put |-> put, at |-> at, todo |-> todo, was |-> NoRows, old |-> NoOrder,
     code |-> 0]

Init ==
    /\ products \in [Products -> Rows \cup {NoProduct}]
    /\ orders = [o \in OrderIds |-> NoOrder]
    /\ uses = 0
    /\ recent = {}
    /\ tx = [c \in Clients |-> Idle]
    /\ requests = 0

ProductsOf(items) == {items[i].product : i \in DOMAIN items}

LinesOf(items, p) == {i \in DOMAIN items : items[i].product = p}

Qty(items, p) == SumFunction([i \in LinesOf(items, p) |-> items[i].qty])

IsActive(order) == order.status = "CREATED"

Step(c, t) == tx' = [tx EXCEPT ![c] = t] /\ UNCHANGED <<tables, requests>>
-----------------------------------------------------------------------------
(* Requests arrive.                                                         *)

Arrive(c, t) ==
    /\ tx[c] = Idle
    /\ requests < MaxRequests
    /\ requests' = requests + 1
    /\ tx' = [tx EXCEPT ![c] = t]
    /\ UNCHANGED tables

Unused(o) ==
    /\ orders[o] = NoOrder
    /\ \A d \in Clients : tx[d] # Idle => tx[d].order # o

(* createOrder; the order gets a fresh id.                                  *)
CreateOrder(c) ==
    \E u \in Users, o \in OrderIds, cart \in Carts, promo \in BOOLEAN :
        /\ Unused(o)
        /\ Arrive(c, Request("create", u, o, cart, promo, NoProduct, "rate",
                             ProductsOf(cart)))

UpdateOrder(c) ==
    \E u \in Users, o \in OrderIds, cart \in Carts, promo \in BOOLEAN :
        /\ orders[o] # NoOrder
        /\ Arrive(c, Request("update", u, o, cart, promo, NoProduct, "find",
                             ProductsOf(cart)))

CancelOrder(c) ==
    \E u \in Users, o \in OrderIds :
        /\ orders[o] # NoOrder
        /\ Arrive(c, Request("cancel", u, o, <<>>, FALSE, NoProduct, "find", {}))

(* update and delete of ProductService, sent by a seller who owns the       *)
(* product, or an admin.                                                    *)
UpdateProduct(c) ==
    \E p \in Products, r \in Rows :
        Arrive(c, Request("edit", "seller", "none", <<>>, FALSE, r, "load", {p}))

DeleteProduct(c) ==
    \E p \in Products :
        Arrive(c, Request("archive", "seller", "none", <<>>, FALSE, NoProduct,
                          "load", {p}))

(* create of ProductService is a single insertion.                          *)
CreateProduct ==
    /\ requests < MaxRequests
    /\ requests' = requests + 1
    /\ \E p \in Products, r \in Rows :
          /\ products[p] = NoProduct
          /\ products' = [products EXCEPT ![p] = r]
    /\ UNCHANGED <<orders, uses, recent, tx>>
-----------------------------------------------------------------------------
(* Reads.  A check that fails ends the request with a rollback, which       *)
(* Rollback allows at any point: a failed check only withholds the next     *)
(* step.                                                                    *)

(* The order is found; checkOwnership and the check of its status.          *)
FindOrder(c) ==
    LET t == tx[c]
        found == orders[t.order]
    IN  /\ t.op \in {"update", "cancel"} /\ t.at = "find"
        /\ t.user \in Admins \/ found.user = t.user
        /\ IsActive(found)
        /\ Step(c, [t EXCEPT !.old = found,
                             !.todo = @ \cup ProductsOf(found.items),
                             !.at = IF t.op = "update" THEN "rate" ELSE "load"])

CheckRateLimit(c) ==
    LET t == tx[c]
    IN  /\ t.op \in {"create", "update"} /\ t.at = "rate"
        /\ <<t.user, t.op>> \notin recent
        /\ Step(c, [t EXCEPT !.at = IF t.op = "create" THEN "count" ELSE "load"])

(* Mutant: the user's active orders are not counted.                        *)
MutCountActiveSkipped(c) ==
    LET t == tx[c]
    IN  /\ t.op = "create" /\ t.at = "count"
        /\ Step(c, [t EXCEPT !.at = "load"])

CountActive(c) ==
    LET t == tx[c]
    IN  /\ t.op = "create" /\ t.at = "count"
        /\ \A o \in OrderIds : IsActive(orders[o]) => orders[o].user # t.user
        /\ Step(c, [t EXCEPT !.at = "load"])

(* findById of a product of the old or the new items; a row is read once.   *)
LoadProduct(c) ==
    LET t == tx[c]
    IN  /\ t # Idle /\ t.at = "load"
        /\ \E p \in t.todo :
              /\ products[p] # NoProduct
              /\ Step(c, [t EXCEPT
                    !.todo = @ \ {p},
                    !.was = [q \in DOMAIN t.was \cup {p} |->
                               IF q = p THEN products[p] ELSE t.was[q]]])

NeedsPromo(t) ==
    \/ t.op \in {"create", "update"} /\ t.promo
    \/ t.op \in {"update", "cancel"} /\ t.old.promo

(* After the last product: findByCode or findById of the promo code.        *)
LoadPromo(c) ==
    LET t == tx[c]
    IN  /\ t # Idle /\ t.at = "load" /\ t.todo = {}
        /\ Step(c, [t EXCEPT !.code = IF NeedsPromo(t) THEN uses ELSE @,
                             !.at = "commit"])

Rollback(c) ==
    /\ tx[c] # Idle
    /\ Step(c, Idle)
-----------------------------------------------------------------------------
(* What a transaction computes from the rows it has read.                   *)

(* Mutant: an update does not give the old items back.                      *)
MutReturnedOnCancelOnly(t, p) ==
    IF t.op = "cancel" THEN Qty(t.old.items, p) ELSE 0

Returned(t, p) ==
    IF t.op \in {"update", "cancel"} THEN Qty(t.old.items, p) ELSE 0

Taken(t, p) ==
    IF t.op \in {"create", "update"} THEN Qty(t.cart, p) ELSE 0

(* Mutant: the last unit can be sold twice.                                 *)
MutEnoughStockOff(t) ==
    \A i \in DOMAIN t.cart :
        LET p == t.cart[i].product
        IN  /\ t.was[p].status = "ACTIVE"
            /\ t.was[p].stock + Returned(t, p) + 1 >= t.cart[i].qty

(* Each line by itself is compared with the stock.                          *)
EnoughStock(t) ==
    \A i \in DOMAIN t.cart :
        LET p == t.cart[i].product
        IN  /\ t.was[p].status = "ACTIVE"
            /\ t.was[p].stock + Returned(t, p) >= t.cart[i].qty

Total(t) ==
    SumFunction([i \in DOMAIN t.cart |->
                    t.cart[i].qty * t.was[t.cart[i].product].price])

(* The promo code an order already has is kept or dropped, a new one is     *)
(* applied.                                                                 *)
Drops(t) == t.op = "cancel" \/ Total(t) < MinAmount

HadPromo(t) == t.op \in {"update", "cancel"} /\ t.old.promo

(* Mutant: one use more than the limit.                                     *)
MutPromoApplies(t) == t.code <= MaxUses /\ Total(t) >= MinAmount

PromoApplies(t) == t.code < MaxUses /\ Total(t) >= MinAmount

(* The request gets as far as its commit.                                   *)
Accepts(t) ==
    /\ EnoughStock(t)
    /\ t.promo /\ ~HadPromo(t) => PromoApplies(t)

(* Mutant: cancelling does not give the use of the promo code back.         *)
MutCodeAfterKeepsUse(t) ==
    IF HadPromo(t) THEN t.code
    ELSE IF t.promo THEN t.code + 1 ELSE t.code

CodeAfter(t) ==
    IF HadPromo(t) THEN IF Drops(t) THEN t.code - 1 ELSE t.code
    ELSE IF t.promo THEN t.code + 1 ELSE t.code

RowAfter(t, p) ==
    [t.was[p] EXCEPT !.stock = @ + Returned(t, p) - Taken(t, p)]

CreatedRow(t) ==
    [user |-> t.user, status |-> "CREATED", items |-> t.cart,
     total |-> Total(t), promo |-> t.promo]

UpdatedRow(t) ==
    [t.old EXCEPT !.items = t.cart, !.total = Total(t),
                  !.promo = IF HadPromo(t) THEN ~Drops(t) ELSE t.promo]

(* An order row is written whole if one of its columns was changed; the     *)
(* items are rows of their own, which only an update replaces.              *)
OrderAfter(t) ==
    CASE t.op = "create" -> CreatedRow(t)
      [] t.op = "update" ->
            IF [UpdatedRow(t) EXCEPT !.items = t.old.items] = t.old
            THEN [orders[t.order] EXCEPT !.items = t.cart]
            ELSE UpdatedRow(t)
      [] t.op = "cancel" ->
            [t.old EXCEPT !.status = "CANCELED", !.items = orders[t.order].items]
-----------------------------------------------------------------------------
(* Commits.                                                                 *)

WriteBack(t, after) ==
    products' = [p \in Products |->
                    IF p \in DOMAIN t.was /\ after[p] # t.was[p]
                    THEN after[p] ELSE products[p]]

(* The items another update of the same order has read are gone: it fails   *)
(* when it deletes them.                                                    *)
Doomed(c, d) ==
    /\ tx[c].op = "update" /\ tx[d].op = "update"
    /\ tx[d].order = tx[c].order /\ tx[d].old # NoOrder

CommitOrder(c) ==
    LET t == tx[c]
    IN  /\ t.op \in {"create", "update", "cancel"} /\ t.at = "commit"
        /\ Accepts(t)
        /\ WriteBack(t, [p \in DOMAIN t.was |-> RowAfter(t, p)])
        /\ uses' = IF CodeAfter(t) # t.code THEN CodeAfter(t) ELSE uses
        /\ orders' = [orders EXCEPT ![t.order] = OrderAfter(t)]
        /\ recent' = recent \cup {<<t.user, t.op>>}
        /\ tx' = [d \in Clients |->
                    IF d = c THEN Idle
                    ELSE IF Doomed(c, d) THEN [tx[d] EXCEPT !.at = "doomed"]
                    ELSE tx[d]]
        /\ UNCHANGED requests

CommitProduct(c) ==
    LET t == tx[c]
    IN  /\ t.op \in {"edit", "archive"} /\ t.at = "commit"
        /\ WriteBack(t, [p \in DOMAIN t.was |->
                           IF t.op = "edit" THEN t.put
                           ELSE [t.was[p] EXCEPT !.status = "ARCHIVED"]])
        /\ tx' = [tx EXCEPT ![c] = Idle]
        /\ UNCHANGED <<orders, uses, recent, requests>>

(* rate-limit-seconds pass.                                                 *)
Cool(u, op) ==
    /\ <<u, op>> \in recent
    /\ recent' = recent \ {<<u, op>>}
    /\ UNCHANGED <<products, orders, uses, tx, requests>>

Next ==
    \/ CreateProduct
    \/ \E c \in Clients :
        \/ CreateOrder(c) \/ UpdateOrder(c) \/ CancelOrder(c)
        \/ UpdateProduct(c) \/ DeleteProduct(c)
        \/ FindOrder(c) \/ CheckRateLimit(c) \/ CountActive(c)
        \/ LoadProduct(c) \/ LoadPromo(c)
        \/ CommitOrder(c) \/ CommitProduct(c) \/ Rollback(c)
    \/ \E u \in Users, op \in {"create", "update", "cancel"} : Cool(u, op)

Spec == Init /\ [][Next]_vars
-----------------------------------------------------------------------------
Active == {o \in OrderIds : IsActive(orders[o])}

Reserved(p) == SumFunction([o \in Active |-> Qty(orders[o].items, p)])

WithPromo == {o \in Active : orders[o].promo}

(* What the request of a client has read is still what the tables hold.     *)
UpToDate(c) ==
    LET t == tx[c]
    IN  /\ \A p \in DOMAIN t.was : products[p] = t.was[p]
        /\ t.old # NoOrder => orders[t.order] = t.old
        /\ NeedsPromo(t) => uses = t.code

(* An order request that commits before anything it has read changes        *)
(* conserves: what the stock loses, active orders hold, and the uses of the *)
(* promo code move with the active orders that have it (createOrder,        *)
(* updateOrder, cancelOrder, each over three tables).  Nothing is claimed   *)
(* of a request that was overtaken: the code takes no locks.                *)
FreshCommitsConserve ==
    [][\A c \in Clients :
          /\ tx[c] # Idle /\ tx'[c] = Idle
          /\ tx[c].op \in {"create", "update", "cancel"} /\ tx[c].at = "commit"
          /\ UpToDate(c)
          => /\ \A p \in DOMAIN tx[c].was :
                  products[p] # NoProduct =>
                  products'[p].stock + Reserved(p)' = products[p].stock + Reserved(p)
             /\ uses' - uses = Cardinality(WithPromo') - Cardinality(WithPromo)]_vars

(* The check of createOrder for active orders races with other requests of  *)
(* the user, and an update that has read an order before its cancellation   *)
(* brings it back; even so a user never has more active orders than the     *)
(* server handles requests at one time.                                     *)
ActiveOrdersBounded ==
    \A u \in Users :
        Cardinality({o \in Active : orders[o].user = u}) <= Cardinality(Clients)

(* The counter of the promo code never exceeds its limit, although it is    *)
(* written back from a value that may be old (applyPromoCode, cancelOrder). *)
UsesWithinLimit == uses <= MaxUses

Twice(items, p) == Cardinality(LinesOf(items, p)) > 1

(* However requests race, a stock goes below zero only through an order     *)
(* that names the product in two lines, each of which is compared with the  *)
(* whole stock (lines 69, 179), or through a transaction that read it when  *)
(* it was below zero already: a stock that is written back was compared     *)
(* with what is taken from it.                                              *)
OversoldOnlyByTwoLines ==
    [][\A p \in Products :
          /\ products[p] # NoProduct /\ products'[p].stock < 0
          /\ products'[p] # products[p]
          => \E c \in Clients :
                /\ tx[c] # Idle /\ tx'[c] = Idle
                /\ p \in DOMAIN tx[c].was
                /\ Twice(tx[c].cart, p) \/ tx[c].was[p].stock < 0]_vars
=============================================================================
