----------------------------- MODULE ShopProofs -----------------------------
(***************************************************************************)
(* Proofs about Shop for all users, products, orders, carts, product rows  *)
(* and promo codes, and any finite number of concurrent requests: the      *)
(* counter of the promo code keeps its limit, a user has at most as many   *)
(* active orders as the server handles requests at one time, and a request *)
(* that nobody overtook conserves units and uses and oversells a product   *)
(* only by two lines of its own.                                           *)
(***************************************************************************)
EXTENDS Shop, SumTheorems

(* The shapes of records that the steps rely on: what is a request, what an *)
(* order, and that an update past its first step has read an order.         *)
RequestFields == {"op", "user", "order", "cart", "promo", "put", "at", "todo",
                  "was", "old", "code"}

OrderFields == {"user", "status", "items", "total", "promo"}

IsOrder(r) == DOMAIN r = OrderFields

IsRequest(t) ==
    /\ DOMAIN t = RequestFields
    /\ t.op \in {"create", "update", "cancel"} => t.order \in OrderIds
    /\ t.op \in {"update", "cancel"} => IsOrder(orders[t.order])
    /\ t.op \in {"update", "cancel"} /\ t.at # "find" => IsOrder(t.old)
    /\ t.at = "find" => t.old = NoOrder

Shapes ==
    /\ DOMAIN tx = Clients
    /\ DOMAIN orders = OrderIds
    /\ \A c \in Clients : tx[c] = Idle \/ IsRequest(tx[c])
    /\ \A o \in OrderIds : orders[o] = NoOrder \/ IsOrder(orders[o])

(* A request that takes its next step, whatever it reads, keeps its shape.  *)
LEMMA StepShapes ==
    ASSUME Shapes, NEW c \in Clients, NEW t, t = Idle \/ IsRequest(t), Step(c, t)
    PROVE  Shapes'
<1>1. DOMAIN tx' = Clients /\ orders' = orders
  BY DEF Shapes, Step, tables
<1>2. \A d \in Clients : tx'[d] = IF d = c THEN t ELSE tx[d]
  BY DEF Shapes, Step
<1> QED BY <1>1, <1>2 DEF Shapes, IsRequest, IsOrder

(* Likewise a request that arrives.                                         *)
LEMMA ArriveShapes ==
    ASSUME Shapes, NEW c \in Clients, NEW t, IsRequest(t), Arrive(c, t)
    PROVE  Shapes'
<1>1. DOMAIN tx' = Clients /\ orders' = orders
  BY DEF Shapes, Arrive, tables
<1>2. \A d \in Clients : tx'[d] = IF d = c THEN t ELSE tx[d]
  BY DEF Shapes, Arrive
<1> QED BY <1>1, <1>2 DEF Shapes, IsRequest, IsOrder

(* The order row a transaction writes has the columns of an order.          *)
LEMMA OrderAfterShape ==
    ASSUME Shapes, NEW c \in Clients, tx[c] # Idle, tx[c].at = "commit",
           tx[c].op \in {"create", "update", "cancel"}
    PROVE  IsOrder(OrderAfter(tx[c]))
<1>1. CASE tx[c].op = "create"
  BY <1>1 DEF OrderAfter, CreatedRow, IsOrder, OrderFields
<1>2. CASE tx[c].op = "update"
  <2>1. IsOrder(tx[c].old)
    BY <1>2 DEF Shapes, IsRequest
  <2>2. IsOrder(UpdatedRow(tx[c]))
    BY <2>1 DEF UpdatedRow, IsOrder
  <2>3. IsOrder([orders[tx[c].order] EXCEPT !.items = tx[c].cart])
    BY <1>2 DEF Shapes, IsRequest, IsOrder
  <2> QED BY <1>2, <2>2, <2>3 DEF OrderAfter
<1>3. CASE tx[c].op = "cancel"
  <2>1. IsOrder(tx[c].old)
    BY <1>3 DEF Shapes, IsRequest
  <2> QED BY <1>3, <2>1 DEF OrderAfter, IsOrder
<1> QED BY <1>1, <1>2, <1>3

(* A commit writes an order row and ends the requests it overtook.          *)
LEMMA CommitShapes ==
    ASSUME Shapes, NEW c \in Clients, CommitOrder(c)
    PROVE  Shapes'
<1> DEFINE o == tx[c].order
<1>1. /\ tx[c] # Idle /\ IsRequest(tx[c]) /\ tx[c].at = "commit" /\ o \in OrderIds
      /\ tx[c].op \in {"create", "update", "cancel"}
  BY DEF CommitOrder, Shapes, IsRequest, Idle
<1>2. IsOrder(OrderAfter(tx[c]))
  BY <1>1, OrderAfterShape
<1>3. /\ DOMAIN tx' = Clients /\ DOMAIN orders' = OrderIds
      /\ \A q \in OrderIds : orders'[q] = IF q = o THEN OrderAfter(tx[c]) ELSE orders[q]
  BY <1>1 DEF CommitOrder, Shapes
<1>4. \A q \in OrderIds : IsOrder(orders[q]) => IsOrder(orders'[q])
  BY <1>2, <1>3
<1>5. ASSUME NEW d \in Clients PROVE tx'[d] = Idle \/ IsRequest(tx[d])'
  <2>1. CASE tx'[d] = tx[d]
    BY <2>1, <1>4 DEF Shapes, IsRequest, IsOrder
  <2>2. CASE Doomed(c, d) /\ tx'[d] = [tx[d] EXCEPT !.at = "doomed"]
    <3>1. tx[d] # Idle /\ IsRequest(tx[d]) /\ tx[d].op = "update" /\ tx[d].at # "find"
      BY <2>2 DEF Doomed, Shapes, IsRequest, Idle
    <3> QED BY <3>1, <2>2, <1>4 DEF IsRequest, RequestFields, IsOrder
  <2> QED BY <2>1, <2>2 DEF CommitOrder
<1>6. \A q \in OrderIds : orders'[q] = NoOrder \/ IsOrder(orders'[q])
  BY <1>2, <1>3 DEF Shapes
<1> QED BY <1>3, <1>5, <1>6 DEF Shapes, IsOrder

(* Every step keeps the shapes.                                             *)
LEMMA ShapesStep == Shapes /\ [Next]_vars => Shapes'
<1> SUFFICES ASSUME Shapes, [Next]_vars PROVE Shapes'
  OBVIOUS
<1>1. CASE CreateProduct
  BY <1>1 DEF CreateProduct, Shapes, IsRequest, IsOrder
<1>2. ASSUME NEW c \in Clients, CreateOrder(c) PROVE Shapes'
  <2>1. PICK u \in Users, o \in OrderIds, cart \in Carts, promo \in BOOLEAN :
            Arrive(c, Request("create", u, o, cart, promo, NoProduct, "rate",
                              ProductsOf(cart)))
    BY <1>2 DEF CreateOrder
  <2>2. IsRequest(Request("create", u, o, cart, promo, NoProduct, "rate",
                          ProductsOf(cart)))
    BY DEF IsRequest, Request, RequestFields
  <2> QED BY <2>1, <2>2, ArriveShapes
<1>3. ASSUME NEW c \in Clients, UpdateOrder(c) PROVE Shapes'
  <2>1. PICK u \in Users, o \in OrderIds, cart \in Carts, promo \in BOOLEAN :
            /\ orders[o] # NoOrder
            /\ Arrive(c, Request("update", u, o, cart, promo, NoProduct, "find",
                                 ProductsOf(cart)))
    BY <1>3 DEF UpdateOrder
  <2>2. IsRequest(Request("update", u, o, cart, promo, NoProduct, "find",
                          ProductsOf(cart)))
    BY <2>1 DEF IsRequest, Request, RequestFields, Shapes
  <2> QED BY <2>1, <2>2, ArriveShapes
<1>4. ASSUME NEW c \in Clients, CancelOrder(c) PROVE Shapes'
  <2>1. PICK u \in Users, o \in OrderIds :
            /\ orders[o] # NoOrder
            /\ Arrive(c, Request("cancel", u, o, <<>>, FALSE, NoProduct, "find", {}))
    BY <1>4 DEF CancelOrder
  <2>2. IsRequest(Request("cancel", u, o, <<>>, FALSE, NoProduct, "find", {}))
    BY <2>1 DEF IsRequest, Request, RequestFields, Shapes
  <2> QED BY <2>1, <2>2, ArriveShapes
<1>5. ASSUME NEW c \in Clients, UpdateProduct(c) \/ DeleteProduct(c) PROVE Shapes'
  <2>1. \A p, put : IsRequest(Request("edit", "seller", "none", <<>>, FALSE, put,
                                      "load", {p}))
    BY DEF IsRequest, Request, RequestFields
  <2>2. \A p, put : IsRequest(Request("archive", "seller", "none", <<>>, FALSE, put,
                                      "load", {p}))
    BY DEF IsRequest, Request, RequestFields
  <2> QED BY <1>5, <2>1, <2>2, ArriveShapes DEF UpdateProduct, DeleteProduct
<1>6. ASSUME NEW c \in Clients, FindOrder(c) PROVE Shapes'
  <2> DEFINE t == [tx[c] EXCEPT !.old = orders[tx[c].order],
                     !.todo = @ \cup ProductsOf(orders[tx[c].order].items),
                     !.at = IF tx[c].op = "update" THEN "rate" ELSE "load"]
  <2>1. Step(c, t) /\ tx[c] # Idle /\ IsRequest(tx[c])
    BY <1>6 DEF FindOrder, Shapes, Idle
  <2>2. tx[c].op \in {"update", "cancel"} /\ IsOrder(orders[tx[c].order])
    BY <1>6, <2>1 DEF FindOrder, IsRequest
  <2>3. IsRequest(t)
    BY <2>1, <2>2 DEF IsRequest, RequestFields
  <2> QED BY <2>1, <2>3, StepShapes
<1>7. ASSUME NEW c \in Clients, CheckRateLimit(c) \/ CountActive(c) PROVE Shapes'
  <2>1. PICK place \in {"count", "load"} : Step(c, [tx[c] EXCEPT !.at = place])
    BY <1>7 DEF CheckRateLimit, CountActive
  <2>2. IsRequest(tx[c]) /\ tx[c].at # "find"
    BY <1>7 DEF CheckRateLimit, CountActive, Shapes, Idle
  <2>3. IsRequest([tx[c] EXCEPT !.at = place])
    BY <2>2 DEF IsRequest, RequestFields
  <2> QED BY <2>1, <2>3, StepShapes
<1>8. ASSUME NEW c \in Clients, LoadProduct(c) PROVE Shapes'
  <2>1. PICK todo, was : Step(c, [tx[c] EXCEPT !.todo = todo, !.was = was])
    BY <1>8 DEF LoadProduct
  <2>2. IsRequest(tx[c]) /\ tx[c].at # "find"
    BY <1>8 DEF LoadProduct, Shapes
  <2>3. IsRequest([tx[c] EXCEPT !.todo = todo, !.was = was])
    BY <2>2 DEF IsRequest, RequestFields
  <2> QED BY <2>1, <2>3, StepShapes
<1>9. ASSUME NEW c \in Clients, LoadPromo(c) PROVE Shapes'
  <2>1. PICK code : Step(c, [tx[c] EXCEPT !.code = code, !.at = "commit"])
    BY <1>9 DEF LoadPromo
  <2>2. IsRequest(tx[c]) /\ tx[c].at # "find"
    BY <1>9 DEF LoadPromo, Shapes
  <2>3. IsRequest([tx[c] EXCEPT !.code = code, !.at = "commit"])
    BY <2>2 DEF IsRequest, RequestFields
  <2> QED BY <2>1, <2>3, StepShapes
<1>10. ASSUME NEW c \in Clients, Rollback(c) PROVE Shapes'
  BY <1>10, StepShapes DEF Rollback
<1>11. ASSUME NEW c \in Clients, CommitProduct(c) PROVE Shapes'
  BY <1>11 DEF CommitProduct, Shapes, IsRequest, IsOrder
<1>12. ASSUME NEW u, NEW op, Cool(u, op) PROVE Shapes'
  BY <1>12 DEF Cool, Shapes, IsRequest, IsOrder
<1>13. CASE UNCHANGED vars
  BY <1>13 DEF vars, tables, Shapes, IsRequest, IsOrder
<1> QED
  BY <1>1, <1>2, <1>3, <1>4, <1>5, <1>6, <1>7, <1>8, <1>9, <1>10, <1>11, <1>12,
     <1>13, CommitShapes
  DEF Next

(* No request and no order exists at first.                                 *)
LEMMA ShapesInit == Init => Shapes
  BY DEF Init, Shapes

(* The shapes hold in every reachable state.                                *)
THEOREM ShapesHold == Spec => []Shapes
  BY ShapesInit, ShapesStep, PTL DEF Spec
-----------------------------------------------------------------------------
(* A request may still make an order of u active: it creates one and has    *)
(* passed the count, or it updates one of u that it has read as active.     *)
Activates(t, u) ==
    \/ t.op = "create" /\ t.at \in {"load", "commit"} /\ t.user = u
    \/ t.op = "update" /\ t.at # "find" /\ t.old.user = u

MayActivate(c, u) == Activates(tx[c], u)

ActiveOf(u) == {o \in OrderIds : IsActive(orders[o]) /\ orders[o].user = u}

OrdersUnderWay(u) == {tx[c].order : c \in {d \in Clients : MayActivate(d, u)}}

(* The active orders of u and those that may become active.                 *)
Held(u) == ActiveOf(u) \cup OrdersUnderWay(u)

HeldBounded ==
    \A u \in Users : /\ IsFiniteSet(Held(u))
                     /\ Cardinality(Held(u)) <= Cardinality(Clients)

(* One order per request at most.                                           *)
LEMMA UnderWayBounded ==
    ASSUME NEW D \in SUBSET Clients, NEW requestOf
    PROVE  LET S == {requestOf[c].order : c \in D}
           IN  IsFiniteSet(S) /\ Cardinality(S) <= Cardinality(Clients)
<1> DEFINE S == {requestOf[c].order : c \in D}
           f == [c \in D |-> requestOf[c].order]
<1>1. IsFiniteSet(D) /\ Cardinality(D) <= Cardinality(Clients)
  BY ClientsAssumption, FS_Subset
<1>2. f \in Surjection(D, S)
  BY DEF Surjection
<1>3. IsFiniteSet(S) /\ Cardinality(S) <= Cardinality(D)
  <2> HIDE DEF f, S
  <2> QED BY <1>1, <1>2, FS_Surjection
<1>4. Cardinality(D) \in Nat /\ Cardinality(Clients) \in Nat /\ Cardinality(S) \in Nat
  BY <1>1, <1>3, ClientsAssumption, FS_CardinalityType
<1> QED BY <1>1, <1>3, <1>4

(* A commit moves orders of u from "may become active" to "active" at most. *)
LEMMA CommitHeld ==
    ASSUME Shapes, NEW c \in Clients, CommitOrder(c), NEW u
    PROVE  Held(u)' \subseteq Held(u)
<1> DEFINE t == tx[c]
<1>1. /\ t # Idle /\ IsRequest(t) /\ t.at = "commit" /\ t.order \in OrderIds
      /\ t.op \in {"create", "update", "cancel"}
  BY DEF CommitOrder, Shapes, IsRequest, Idle
<1>2. \A q \in OrderIds : orders'[q] = IF q = t.order THEN OrderAfter(t) ELSE orders[q]
  BY <1>1 DEF CommitOrder, Shapes
<1>3. ASSUME IsActive(OrderAfter(t)), OrderAfter(t).user = u
      PROVE  t.order \in Held(u)
  <2>1. CASE t.op = "create"
    BY <1>1, <1>3, <2>1
    DEF OrderAfter, CreatedRow, Held, OrdersUnderWay, MayActivate, Activates
  <2>2. CASE t.op = "update" /\ OrderAfter(t) = UpdatedRow(t)
    <3>1. IsOrder(t.old)
      BY <1>1, <2>2 DEF IsRequest
    <3>2. UpdatedRow(t).user = t.old.user
      BY <3>1 DEF UpdatedRow, IsOrder, OrderFields
    <3> QED BY <1>1, <1>3, <2>2, <3>2 DEF Held, OrdersUnderWay, MayActivate, Activates
  <2>3. CASE t.op = "update" /\ OrderAfter(t) = [orders[t.order] EXCEPT !.items = t.cart]
    <3>1. IsOrder(orders[t.order])
      BY <1>1, <2>3 DEF IsRequest
    <3>2. /\ OrderAfter(t).user = orders[t.order].user
          /\ OrderAfter(t).status = orders[t.order].status
      BY <2>3, <3>1 DEF IsOrder, OrderFields
    <3> QED BY <1>1, <1>3, <3>2 DEF Held, ActiveOf, IsActive
  <2>4. CASE t.op = "cancel"
    <3>1. IsOrder(t.old)
      BY <1>1, <2>4 DEF IsRequest
    <3>2. OrderAfter(t).status = "CANCELED"
      BY <2>4, <3>1 DEF OrderAfter, IsOrder, OrderFields
    <3> QED BY <1>3, <3>2 DEF IsActive
  <2> QED BY <1>1, <2>1, <2>2, <2>3, <2>4 DEF OrderAfter
<1>4. ActiveOf(u)' \subseteq Held(u)
  BY <1>2, <1>3 DEF ActiveOf, Held, IsActive
<1>5. ASSUME NEW d \in Clients, MayActivate(d, u)'
      PROVE  MayActivate(d, u) /\ tx'[d].order = tx[d].order
  <2>1. CASE tx'[d] = Idle
    BY <1>5, <2>1 DEF MayActivate, Activates, Idle
  <2>2. CASE tx'[d] = tx[d]
    BY <1>5, <2>2 DEF MayActivate, Activates
  <2>3. CASE Doomed(c, d) /\ tx'[d] = [tx[d] EXCEPT !.at = "doomed"]
    <3>1. tx[d] # Idle /\ IsRequest(tx[d]) /\ tx[d].op = "update" /\ tx[d].at # "find"
      BY <2>3 DEF Doomed, Shapes, IsRequest, Idle
    <3>2. tx'[d].order = tx[d].order /\ tx'[d].old = tx[d].old /\ tx'[d].op = "update"
      BY <2>3, <3>1 DEF IsRequest, RequestFields
    <3> QED BY <1>5, <3>1, <3>2 DEF MayActivate, Activates
  <2> QED BY <2>1, <2>2, <2>3 DEF CommitOrder
<1>6. OrdersUnderWay(u)' \subseteq OrdersUnderWay(u)
  BY <1>5 DEF OrdersUnderWay
<1> QED BY <1>4, <1>6 DEF Held

(* A step of one request adds no order as long as the one it may activate   *)
(* was held before.                                                         *)
LEMMA StepHeld ==
    ASSUME Shapes, NEW c \in Clients, NEW t, Step(c, t) \/ Arrive(c, t), NEW u,
           Activates(t, u) => t.order \in Held(u)
    PROVE  Held(u)' \subseteq Held(u)
<1>1. ActiveOf(u)' = ActiveOf(u)
  BY DEF Step, Arrive, tables, ActiveOf, IsActive
<1>2. \A d \in Clients : tx'[d] = IF d = c THEN t ELSE tx[d]
  BY DEF Shapes, Step, Arrive
<1>3. OrdersUnderWay(u)' \subseteq Held(u)
  BY <1>2 DEF OrdersUnderWay, MayActivate, Held
<1> QED BY <1>1, <1>3 DEF Held

(* Only the count of createOrder lets new orders of u in, and then none was *)
(* active.                                                                  *)
LEMMA HeldShrinks ==
    ASSUME Shapes, [Next]_vars, NEW u \in Users
    PROVE  \/ Held(u)' \subseteq Held(u)
           \/ ActiveOf(u)' = {}
<1>1. CASE CreateProduct
  BY <1>1 DEF CreateProduct, Held, ActiveOf, OrdersUnderWay, MayActivate, IsActive
<1>2. ASSUME NEW c \in Clients,
             \/ CreateOrder(c) \/ UpdateOrder(c) \/ CancelOrder(c)
             \/ UpdateProduct(c) \/ DeleteProduct(c)
      PROVE  Held(u)' \subseteq Held(u)
  <2>1. \A v, o, cart, promo, put, todo :
            /\ ~Activates(Request("create", v, o, cart, promo, put, "rate", todo), u)
            /\ ~Activates(Request("update", v, o, cart, promo, put, "find", todo), u)
            /\ ~Activates(Request("cancel", v, o, cart, promo, put, "find", todo), u)
            /\ ~Activates(Request("edit", v, o, cart, promo, put, "load", todo), u)
            /\ ~Activates(Request("archive", v, o, cart, promo, put, "load", todo), u)
    BY DEF Request, Activates
  <2>2. CASE CreateOrder(c)
    BY <2>1, <2>2, StepHeld DEF CreateOrder
  <2>3. CASE UpdateOrder(c)
    BY <2>1, <2>3, StepHeld DEF UpdateOrder
  <2>4. CASE CancelOrder(c)
    BY <2>1, <2>4, StepHeld DEF CancelOrder
  <2>5. CASE UpdateProduct(c) \/ DeleteProduct(c)
    BY <2>1, <2>5, StepHeld DEF UpdateProduct, DeleteProduct
  <2> QED BY <1>2, <2>2, <2>3, <2>4, <2>5
<1>3. ASSUME NEW c \in Clients, FindOrder(c) PROVE Held(u)' \subseteq Held(u)
  <2> DEFINE t == [tx[c] EXCEPT !.old = orders[tx[c].order],
                     !.todo = @ \cup ProductsOf(orders[tx[c].order].items),
                     !.at = IF tx[c].op = "update" THEN "rate" ELSE "load"]
  <2>1. Step(c, t) /\ tx[c] # Idle /\ IsRequest(tx[c]) /\ IsActive(orders[tx[c].order])
    BY <1>3 DEF FindOrder, Shapes, Idle
  <2>2. tx[c].op \in {"update", "cancel"} /\ tx[c].order \in OrderIds
    BY <1>3, <2>1 DEF FindOrder, IsRequest
  <2>3. t.op = tx[c].op /\ t.order = tx[c].order /\ t.old = orders[tx[c].order]
    BY <2>1 DEF IsRequest, RequestFields
  <2>4. Activates(t, u) => t.order \in Held(u)
    BY <2>1, <2>2, <2>3 DEF Activates, Held, ActiveOf
  <2> HIDE DEF t
  <2> QED BY <2>1, <2>4, StepHeld
<1>4. ASSUME NEW c \in Clients, CheckRateLimit(c) PROVE Held(u)' \subseteq Held(u)
  <2>1. IsRequest(tx[c]) /\ tx[c].at = "rate"
    BY <1>4 DEF CheckRateLimit, Shapes, Idle
  <2> DEFINE t == [tx[c] EXCEPT !.at = IF tx[c].op = "create" THEN "count" ELSE "load"]
  <2>2. Activates(t, u) => Activates(tx[c], u) /\ t.order = tx[c].order
    BY <2>1 DEF IsRequest, RequestFields, Activates
  <2>3. Step(c, t)
    BY <1>4 DEF CheckRateLimit
  <2> HIDE DEF t
  <2> QED BY <2>2, <2>3, StepHeld DEF Held, OrdersUnderWay, MayActivate
<1>5. ASSUME NEW c \in Clients, CountActive(c)
      PROVE  Held(u)' \subseteq Held(u) \/ ActiveOf(u)' = {}
  <2>1. IsRequest(tx[c]) /\ tx[c].op = "create"
    BY <1>5 DEF CountActive, Shapes, Idle
  <2>2. CASE tx[c].user = u
    BY <1>5, <2>2 DEF CountActive, Step, tables, ActiveOf, IsActive
  <2>3. CASE tx[c].user # u
    <3> DEFINE t == [tx[c] EXCEPT !.at = "load"]
    <3>1. ~Activates(t, u)
      BY <2>1, <2>3 DEF IsRequest, RequestFields, Activates
    <3>2. Step(c, t)
      BY <1>5 DEF CountActive
    <3> HIDE DEF t
    <3> QED BY <3>1, <3>2, StepHeld
  <2> QED BY <2>2, <2>3
<1>6. ASSUME NEW c \in Clients, LoadProduct(c) PROVE Held(u)' \subseteq Held(u)
  <2>1. PICK todo, was : Step(c, [tx[c] EXCEPT !.todo = todo, !.was = was])
    BY <1>6 DEF LoadProduct
  <2> DEFINE t == [tx[c] EXCEPT !.todo = todo, !.was = was]
  <2>2. IsRequest(tx[c])
    BY <1>6 DEF LoadProduct, Shapes
  <2>3. Activates(t, u) => Activates(tx[c], u) /\ t.order = tx[c].order
    BY <2>2 DEF IsRequest, RequestFields, Activates
  <2>4. Step(c, t)
    BY <2>1
  <2> HIDE DEF t
  <2> QED BY <2>3, <2>4, StepHeld DEF Held, OrdersUnderWay, MayActivate
<1>7. ASSUME NEW c \in Clients, LoadPromo(c) PROVE Held(u)' \subseteq Held(u)
  <2>1. PICK code : Step(c, [tx[c] EXCEPT !.code = code, !.at = "commit"])
    BY <1>7 DEF LoadPromo
  <2> DEFINE t == [tx[c] EXCEPT !.code = code, !.at = "commit"]
  <2>2. IsRequest(tx[c]) /\ tx[c].at = "load"
    BY <1>7 DEF LoadPromo, Shapes
  <2>3. Activates(t, u) => Activates(tx[c], u) /\ t.order = tx[c].order
    BY <2>2 DEF IsRequest, RequestFields, Activates
  <2>4. Step(c, t)
    BY <2>1
  <2> HIDE DEF t
  <2> QED BY <2>3, <2>4, StepHeld DEF Held, OrdersUnderWay, MayActivate
<1>8. ASSUME NEW c \in Clients, Rollback(c) PROVE Held(u)' \subseteq Held(u)
  <2>1. ~Activates(Idle, u)
    BY DEF Activates, Idle
  <2> QED BY <1>8, <2>1, StepHeld DEF Rollback
<1>9. ASSUME NEW c \in Clients, CommitProduct(c) PROVE Held(u)' \subseteq Held(u)
  <2>1. /\ orders' = orders
        /\ \A d \in Clients : tx'[d] = IF d = c THEN Idle ELSE tx[d]
    BY <1>9 DEF CommitProduct, Shapes
  <2>2. ~Activates(Idle, u)
    BY DEF Activates, Idle
  <2>3. OrdersUnderWay(u)' \subseteq OrdersUnderWay(u)
    BY <2>1, <2>2 DEF OrdersUnderWay, MayActivate
  <2> QED BY <2>1, <2>3 DEF Held, ActiveOf, IsActive
<1>10. CASE (\E v \in Users, op \in {"create", "update", "cancel"} : Cool(v, op))
            \/ UNCHANGED vars
  BY <1>10 DEF Cool, vars, tables, Held, ActiveOf, OrdersUnderWay, MayActivate, IsActive
<1> QED
  BY <1>1, <1>2, <1>3, <1>4, <1>5, <1>6, <1>7, <1>8, <1>9, <1>10, CommitHeld DEF Next

(* Every step keeps the bound.                                              *)
LEMMA HeldStep == Shapes /\ HeldBounded /\ [Next]_vars => HeldBounded'
<1> SUFFICES ASSUME Shapes, HeldBounded, [Next]_vars, NEW u \in Users
             PROVE  /\ IsFiniteSet(Held(u)')
                    /\ Cardinality(Held(u)') <= Cardinality(Clients)
  BY DEF HeldBounded
<1>1. CASE Held(u)' \subseteq Held(u)
  <2>1. /\ IsFiniteSet(Held(u)') /\ IsFiniteSet(Held(u))
        /\ Cardinality(Held(u)') <= Cardinality(Held(u))
        /\ Cardinality(Held(u)) <= Cardinality(Clients)
    BY <1>1, FS_Subset DEF HeldBounded
  <2>2. /\ Cardinality(Held(u)') \in Nat /\ Cardinality(Held(u)) \in Nat
        /\ Cardinality(Clients) \in Nat
    BY <2>1, ClientsAssumption, FS_CardinalityType
  <2> QED BY <2>1, <2>2
<1>2. CASE ActiveOf(u)' = {}
  <2>1. Held(u)' = {tx'[c].order : c \in {d \in Clients : MayActivate(d, u)'}}
    BY <1>2 DEF Held, OrdersUnderWay
  <2> DEFINE D == {d \in Clients : MayActivate(d, u)'}
  <2>2. D \in SUBSET Clients
    OBVIOUS
  <2>3. Held(u)' = {tx'[c].order : c \in D}
    BY <2>1
  <2> HIDE DEF D
  <2> QED BY <2>2, <2>3, UnderWayBounded
<1> QED BY <1>1, <1>2, HeldShrinks

(* However requests race, a user never has more active orders than the      *)
(* server handles requests at one time: the count before an insertion is    *)
(* zero, and only requests that are under way then can add to it            *)
(* (createOrder, updateOrder, cancelOrder).                                 *)
THEOREM ActiveOrdersStayBounded == Spec => []ActiveOrdersBounded
<1>1. Init => HeldBounded
  <2> SUFFICES ASSUME Init, NEW u \in Users
               PROVE  /\ IsFiniteSet(Held(u))
                      /\ Cardinality(Held(u)) <= Cardinality(Clients)
    BY DEF HeldBounded
  <2>1. ActiveOf(u) = {}
    BY DEF Init, ActiveOf, IsActive, NoOrder
  <2>2. Held(u) = {tx[c].order : c \in {d \in Clients : MayActivate(d, u)}}
    BY <2>1 DEF Held, OrdersUnderWay
  <2> DEFINE D == {d \in Clients : MayActivate(d, u)}
  <2>3. D \in SUBSET Clients
    OBVIOUS
  <2>4. Held(u) = {tx[c].order : c \in D}
    BY <2>2
  <2> HIDE DEF D
  <2> QED BY <2>3, <2>4, UnderWayBounded
<1>2. HeldBounded => ActiveOrdersBounded
  <2> SUFFICES ASSUME HeldBounded, NEW u \in Users
               PROVE  Cardinality({o \in Active : orders[o].user = u})
                        <= Cardinality(Clients)
    BY DEF ActiveOrdersBounded
  <2>1. {o \in Active : orders[o].user = u} \subseteq Held(u)
    BY DEF Active, Held, ActiveOf
  <2>2. /\ IsFiniteSet({o \in Active : orders[o].user = u}) /\ IsFiniteSet(Held(u))
        /\ Cardinality({o \in Active : orders[o].user = u}) <= Cardinality(Held(u))
        /\ Cardinality(Held(u)) <= Cardinality(Clients)
    BY <2>1, FS_Subset DEF HeldBounded
  <2>3. /\ Cardinality({o \in Active : orders[o].user = u}) \in Nat
        /\ Cardinality(Held(u)) \in Nat /\ Cardinality(Clients) \in Nat
    BY <2>2, ClientsAssumption, FS_CardinalityType
  <2> QED BY <2>2, <2>3
<1> QED BY <1>1, <1>2, HeldStep, ShapesHold, PTL DEF Spec
-----------------------------------------------------------------------------
(* The counter, and every copy of it that a request has read, are within    *)
(* the limit.                                                               *)
CodesWithin ==
    /\ uses \in Int /\ uses <= MaxUses
    /\ \A c \in Clients : tx[c] # Idle => tx[c].code \in Int /\ tx[c].code <= MaxUses

(* A commit writes a counter within the limit.                              *)
LEMMA CodeAfterWithin ==
    ASSUME CodesWithin, NEW c \in Clients, CommitOrder(c)
    PROVE  CodeAfter(tx[c]) \in Int /\ CodeAfter(tx[c]) <= MaxUses
<1>1. tx[c].code \in Int /\ tx[c].code <= MaxUses
  BY DEF CommitOrder, CodesWithin, Idle
<1>2. CASE HadPromo(tx[c])
  BY <1>1, <1>2, PromoAssumption DEF CodeAfter
<1>3. CASE ~HadPromo(tx[c]) /\ tx[c].promo
  <2>1. tx[c].code < MaxUses
    BY <1>3 DEF CommitOrder, Accepts, PromoApplies
  <2> QED BY <1>1, <1>3, <2>1, PromoAssumption DEF CodeAfter
<1>4. CASE ~HadPromo(tx[c]) /\ ~tx[c].promo
  BY <1>1, <1>4 DEF CodeAfter
<1> QED BY <1>2, <1>3, <1>4

(* A step of one request that leaves the counter alone.                     *)
LEMMA StepCodes ==
    ASSUME Shapes, CodesWithin, NEW c \in Clients, NEW t, Step(c, t) \/ Arrive(c, t),
           t # Idle => t.code \in Int /\ t.code <= MaxUses
    PROVE  CodesWithin'
<1>1. uses' = uses
  BY DEF Step, Arrive, tables
<1>2. \A d \in Clients : tx'[d] = IF d = c THEN t ELSE tx[d]
  BY DEF Shapes, Step, Arrive
<1> QED BY <1>1, <1>2 DEF CodesWithin

(* Every step keeps the counter and its copies within the limit.            *)
LEMMA CodesStep == Shapes /\ CodesWithin /\ [Next]_vars => CodesWithin'
<1> SUFFICES ASSUME Shapes, CodesWithin, [Next]_vars PROVE CodesWithin'
  OBVIOUS
<1>1. ASSUME NEW c \in Clients, CommitOrder(c) PROVE CodesWithin'
  <2>1. uses' \in Int /\ uses' <= MaxUses
    BY <1>1, CodeAfterWithin DEF CommitOrder, CodesWithin
  <2>2. ASSUME NEW d \in Clients, tx'[d] # Idle
        PROVE  tx'[d].code \in Int /\ tx'[d].code <= MaxUses
    <3>1. CASE tx'[d] = tx[d]
      BY <2>2, <3>1 DEF CodesWithin
    <3>2. CASE Doomed(c, d) /\ tx'[d] = [tx[d] EXCEPT !.at = "doomed"]
      <4>1. tx[d] # Idle /\ IsRequest(tx[d])
        BY <3>2 DEF Doomed, Shapes, Idle
      <4> QED BY <3>2, <4>1 DEF IsRequest, RequestFields, CodesWithin
    <3> QED BY <1>1, <2>2, <3>1, <3>2 DEF CommitOrder
  <2> QED BY <2>1, <2>2 DEF CodesWithin
<1>2. ASSUME NEW c \in Clients, LoadPromo(c) PROVE CodesWithin'
  <2> DEFINE code == IF NeedsPromo(tx[c]) THEN uses ELSE tx[c].code
             t == [tx[c] EXCEPT !.code = code, !.at = "commit"]
  <2>1. Step(c, t) /\ IsRequest(tx[c]) /\ code \in Int /\ code <= MaxUses
    BY <1>2 DEF LoadPromo, Shapes, CodesWithin
  <2>2. t.code \in Int /\ t.code <= MaxUses
    BY <2>1 DEF IsRequest, RequestFields
  <2> HIDE DEF t
  <2> QED BY <2>1, <2>2, StepCodes
<1>3. ASSUME NEW c \in Clients,
             CheckRateLimit(c) \/ CountActive(c) \/ FindOrder(c) \/ LoadProduct(c)
      PROVE  CodesWithin'
  <2>1. tx[c] # Idle
    <3>1. tx[c].op \in {"create", "update", "cancel"} \/ tx[c] # Idle
      BY <1>3 DEF CheckRateLimit, CountActive, FindOrder, LoadProduct
    <3> QED BY <3>1 DEF Idle
  <2> IsRequest(tx[c]) /\ tx[c].code \in Int /\ tx[c].code <= MaxUses
    BY <2>1 DEF Shapes, CodesWithin
  <2>2. CASE CheckRateLimit(c) \/ CountActive(c)
    <3>1. PICK at \in {"count", "load"} : Step(c, [tx[c] EXCEPT !.at = at])
      BY <2>2 DEF CheckRateLimit, CountActive
    <3> DEFINE t == [tx[c] EXCEPT !.at = at]
    <3>2. t.code = tx[c].code
      BY <2>1 DEF IsRequest, RequestFields
    <3>3. Step(c, t)
      BY <3>1
    <3> HIDE DEF t
    <3> QED BY <2>1, <3>2, <3>3, StepCodes
  <2>3. CASE FindOrder(c)
    <3> DEFINE t == [tx[c] EXCEPT !.old = orders[tx[c].order],
                       !.todo = @ \cup ProductsOf(orders[tx[c].order].items),
                       !.at = IF tx[c].op = "update" THEN "rate" ELSE "load"]
    <3>1. Step(c, t)
      BY <2>3 DEF FindOrder
    <3>2. t.code = tx[c].code
      BY <2>1 DEF IsRequest, RequestFields
    <3> HIDE DEF t
    <3> QED BY <2>1, <3>1, <3>2, StepCodes
  <2>4. CASE LoadProduct(c)
    <3>1. PICK todo, was : Step(c, [tx[c] EXCEPT !.todo = todo, !.was = was])
      BY <2>4 DEF LoadProduct
    <3> DEFINE t == [tx[c] EXCEPT !.todo = todo, !.was = was]
    <3>2. t.code = tx[c].code
      BY <2>1 DEF IsRequest, RequestFields
    <3>3. Step(c, t)
      BY <3>1
    <3> HIDE DEF t
    <3> QED BY <2>1, <3>2, <3>3, StepCodes
  <2> QED BY <1>3, <2>2, <2>3, <2>4
<1>4. ASSUME NEW c \in Clients,
             \/ CreateOrder(c) \/ UpdateOrder(c) \/ CancelOrder(c)
             \/ UpdateProduct(c) \/ DeleteProduct(c)
      PROVE  CodesWithin'
  <2>1. \A op, u, o, cart, promo, put, at, todo :
            Arrive(c, Request(op, u, o, cart, promo, put, at, todo)) => CodesWithin'
    <3>1. \A op, u, o, cart, promo, put, at, todo :
              Request(op, u, o, cart, promo, put, at, todo).code = 0
      BY DEF Request
    <3> QED BY <3>1, StepCodes, PromoAssumption
  <2> QED
    BY <1>4, <2>1 DEF CreateOrder, UpdateOrder, CancelOrder, UpdateProduct, DeleteProduct
<1>5. ASSUME NEW c \in Clients, Rollback(c) PROVE CodesWithin'
  BY <1>5, StepCodes DEF Rollback
<1>6. ASSUME NEW c \in Clients, CommitProduct(c) PROVE CodesWithin'
  BY <1>6 DEF CommitProduct, CodesWithin, Shapes
<1>7. ASSUME \/ CreateProduct
             \/ \E u \in Users, op \in {"create", "update", "cancel"} : Cool(u, op)
             \/ UNCHANGED vars
      PROVE  CodesWithin'
  BY <1>7 DEF CreateProduct, Cool, vars, tables, CodesWithin
<1> QED BY <1>1, <1>2, <1>3, <1>4, <1>5, <1>6, <1>7 DEF Next

(* The counter of the promo code never exceeds its limit, although requests *)
(* write it back from copies that may be old (applyPromoCode, cancelOrder). *)
THEOREM UsesStayWithinLimit == Spec => []UsesWithinLimit
<1>1. Init => CodesWithin
  BY PromoAssumption DEF Init, CodesWithin
<1>2. CodesWithin => UsesWithinLimit
  BY DEF CodesWithin, UsesWithinLimit
<1> QED BY <1>1, <1>2, CodesStep, ShapesHold, PTL DEF Spec
-----------------------------------------------------------------------------
(* What the sums over items, products and orders rest on.  A request works  *)
(* on rows of the tables, only on an order it found active, and the id of a *)
(* new order belongs to its request alone.                                  *)

OrderOps == {"create", "update", "cancel"}

Stored(r) == r.items \in Seq(Line) /\ r.promo \in BOOLEAN

SoundRequest(t) ==
    /\ t.op \in OrderOps \cup {"edit", "archive"}
    /\ t.cart \in Seq(Line) /\ t.promo \in BOOLEAN /\ t.code \in Int
    /\ t.op = "cancel" => ~t.promo
    /\ t.op \in {"cancel", "edit", "archive"} => t.cart = <<>>
    /\ t.op = "edit" => t.put \in Rows
    /\ t.todo \subseteq Products /\ DOMAIN t.was \subseteq Products
    /\ \A p \in DOMAIN t.was : t.was[p] \in Row
    /\ t.old # NoOrder => Stored(t.old) /\ t.old.status = "CREATED"

TablesSound ==
    /\ DOMAIN products = Products
    /\ \A p \in Products : products[p] = NoProduct \/ products[p] \in Row
    /\ \A o \in OrderIds : orders[o] = NoOrder \/ Stored(orders[o])
    /\ uses \in Int
    /\ IsFiniteSet(Active)

RequestsSound == \A c \in Clients : tx[c] # Idle => SoundRequest(tx[c])

FreshIds ==
    \A c \in Clients : tx[c].op = "create" =>
       /\ orders[tx[c].order] = NoOrder
       /\ \A d \in Clients : d # c /\ tx[d].op \in OrderOps
                                => tx[d].order # tx[c].order

Sound == TablesSound /\ RequestsSound /\ FreshIds

LEMMA TablesUnchanged ==
    ASSUME TablesSound, UNCHANGED <<products, orders, uses>> PROVE TablesSound'
<1>1. Active' = Active
  BY DEF Active, IsActive
<1> QED BY <1>1 DEF TablesSound, Stored

LEMMA ProductsOfItems ==
    ASSUME NEW items \in Seq(Line) PROVE ProductsOf(items) \subseteq Products
<1>1. \A i \in DOMAIN items : items[i] \in Line
  OBVIOUS
<1> QED BY <1>1 DEF ProductsOf, Line

(* The next step of a request, which is still about the same order.         *)
LEMMA StepSound ==
    ASSUME Shapes, Sound, NEW c \in Clients, NEW t, Step(c, t),
           t = Idle \/ (SoundRequest(t) /\ t.op = tx[c].op /\ t.order = tx[c].order)
    PROVE  Sound'
<1>1. /\ UNCHANGED <<products, orders, uses>>
      /\ \A d \in Clients : tx'[d] = IF d = c THEN t ELSE tx[d]
  BY DEF Shapes, Step, tables
<1>2. TablesSound'
  BY <1>1, TablesUnchanged DEF Sound
<1>3. RequestsSound'
  BY <1>1 DEF Sound, RequestsSound, SoundRequest, Stored
<1>4. \A d \in Clients : \/ tx'[d].op = tx[d].op /\ tx'[d].order = tx[d].order
                         \/ tx'[d].op \notin OrderOps
  BY <1>1 DEF Idle, OrderOps
<1>5. FreshIds'
  BY <1>1, <1>4 DEF Sound, FreshIds, OrderOps
<1> QED BY <1>2, <1>3, <1>5 DEF Sound

(* A request arrives: a new order under an id no one uses, or a request     *)
(* about an order that exists.                                              *)
LEMMA ArriveSound ==
    ASSUME Shapes, Sound, NEW c \in Clients, NEW t, Arrive(c, t), SoundRequest(t),
           t.op = "create" => Unused(t.order),
           t.op \in {"update", "cancel"} => orders[t.order] # NoOrder
    PROVE  Sound'
<1>1. /\ UNCHANGED <<products, orders, uses>> /\ tx[c] = Idle
      /\ \A d \in Clients : tx'[d] = IF d = c THEN t ELSE tx[d]
  BY DEF Shapes, Arrive, tables
<1>2. TablesSound'
  BY <1>1, TablesUnchanged DEF Sound
<1>3. RequestsSound'
  BY <1>1 DEF Sound, RequestsSound, SoundRequest, Stored
<1>4. ASSUME NEW e \in Clients, tx'[e].op = "create"
      PROVE  /\ orders'[tx'[e].order] = NoOrder
             /\ \A d \in Clients : d # e /\ tx'[d].op \in OrderOps
                                     => tx'[d].order # tx'[e].order
  <2>1. CASE e = c
    <3>1. \A d \in Clients : tx[d].op \in OrderOps => tx[d] # Idle
      BY DEF OrderOps, Idle
    <3> QED BY <1>1, <1>4, <2>1, <3>1 DEF Unused
  <2>2. CASE e # c
    <3>1. orders[tx[e].order] = NoOrder /\ tx[e].op = "create" /\ tx[e] # Idle
      BY <1>1, <1>4, <2>2 DEF Sound, FreshIds, Idle
    <3>2. t.op \in OrderOps => t.order # tx[e].order
      BY <3>1 DEF OrderOps, Unused
    <3> QED BY <1>1, <1>4, <2>2, <3>1, <3>2 DEF Sound, FreshIds
  <2> QED BY <2>1, <2>2
<1>5. FreshIds'
  BY <1>4 DEF FreshIds
<1> QED BY <1>2, <1>3, <1>5 DEF Sound

(* The order row a transaction writes is well-formed.                       *)
LEMMA OrderAfterSound ==
    ASSUME Shapes, Sound, NEW c \in Clients, tx[c] # Idle, tx[c].at = "commit",
           tx[c].op \in OrderOps
    PROVE  Stored(OrderAfter(tx[c]))
<1>1. /\ IsRequest(tx[c]) /\ SoundRequest(tx[c])
      /\ tx[c].cart \in Seq(Line) /\ tx[c].promo \in BOOLEAN
  BY DEF Shapes, Sound, RequestsSound, SoundRequest
<1>2. CASE tx[c].op = "create"
  BY <1>1, <1>2 DEF OrderAfter, CreatedRow, Stored
<1>3. ASSUME tx[c].op \in {"update", "cancel"}
      PROVE  /\ IsOrder(orders[tx[c].order]) /\ IsOrder(tx[c].old)
             /\ Stored(orders[tx[c].order]) /\ Stored(tx[c].old)
  <2>1. IsOrder(orders[tx[c].order]) /\ IsOrder(tx[c].old) /\ tx[c].order \in OrderIds
    BY <1>1, <1>3 DEF IsRequest
  <2>2. orders[tx[c].order] # NoOrder /\ tx[c].old # NoOrder
    BY <2>1 DEF IsOrder, NoOrder, OrderFields
  <2> QED BY <1>1, <2>1, <2>2 DEF Sound, TablesSound, SoundRequest
<1>4. CASE tx[c].op = "update"
  <2>1. UpdatedRow(tx[c]).items = tx[c].cart /\ UpdatedRow(tx[c]).promo \in BOOLEAN
    BY <1>1, <1>3, <1>4 DEF UpdatedRow, IsOrder, OrderFields
  <2>2. /\ [orders[tx[c].order] EXCEPT !.items = tx[c].cart].items = tx[c].cart
        /\ [orders[tx[c].order] EXCEPT !.items = tx[c].cart].promo \in BOOLEAN
    BY <1>3, <1>4 DEF IsOrder, OrderFields, Stored
  <2> QED BY <1>1, <1>4, <2>1, <2>2 DEF OrderAfter, Stored
<1>5. CASE tx[c].op = "cancel"
  BY <1>3, <1>5 DEF OrderAfter, IsOrder, OrderFields, Stored
<1> QED BY <1>2, <1>4, <1>5 DEF OrderOps

(* What the items of an order ask of a product.                             *)
LEMMA QtyNat ==
    ASSUME NEW items \in Seq(Line), NEW p
    PROVE  /\ Qty(items, p) \in Nat /\ IsFiniteSet(LinesOf(items, p))
           /\ \A i \in LinesOf(items, p) : items[i].qty \in Nat
           /\ Summable([i \in LinesOf(items, p) |-> items[i].qty])
<1> DEFINE f == [i \in LinesOf(items, p) |-> items[i].qty]
<1>1. DOMAIN items = 1 .. Len(items) /\ Len(items) \in Nat
  OBVIOUS
<1>2. IsFiniteSet(LinesOf(items, p))
  <2>1. IsFiniteSet(1 .. Len(items))
    BY <1>1, FS_Interval
  <2>2. LinesOf(items, p) \in SUBSET (1 .. Len(items))
    BY <1>1 DEF LinesOf
  <2> QED BY <2>1, <2>2, FS_Subset
<1>3. \A i \in DOMAIN items : items[i].qty \in Nat
  <2>1. \A i \in DOMAIN items : items[i] \in Line
    BY <1>1
  <2> QED BY <2>1 DEF Line
<1>4. \A i \in LinesOf(items, p) : items[i].qty \in Nat
  BY <1>3 DEF LinesOf
<1>5. Summable(f) /\ \A x \in DOMAIN f : f[x] >= 0
  BY <1>2, <1>4 DEF Summable
<1>6. Qty(items, p) = SumFunction(f)
  BY DEF Qty
<1> HIDE DEF f
<1>7. Qty(items, p) \in Nat
  BY <1>5, <1>6, SumFunctionNat
<1> QED BY <1>2, <1>4, <1>5, <1>7 DEF f

(* A product that is not named twice is asked for by one line at most.      *)
LEMMA QtyOfOneLine ==
    ASSUME NEW items \in Seq(Line), NEW p, ~Twice(items, p)
    PROVE  \/ Qty(items, p) = 0
           \/ \E i \in DOMAIN items : /\ items[i].product = p
                                      /\ Qty(items, p) = items[i].qty
<1> PICK S : S = LinesOf(items, p)
  OBVIOUS
<1> DEFINE f == [i \in S |-> items[i].qty]
<1>1. IsFiniteSet(S) /\ Cardinality(S) \in Nat /\ Cardinality(S) <= 1
  <2>1. IsFiniteSet(S)
    BY QtyNat
  <2>2. Cardinality(S) \in Nat
    BY <2>1, FS_CardinalityType
  <2> QED BY <2>1, <2>2 DEF Twice
<1>2. Qty(items, p) = SumFunction(f) /\ \A i \in S : items[i].qty \in Nat
  BY QtyNat DEF Qty
<1>3. CASE Cardinality(S) = 0
  <2>1. DOMAIN f = {}
    BY <1>1, <1>3, FS_EmptySet
  <2> HIDE DEF f
  <2> QED BY <1>2, <2>1, SumFunctionEmpty
<1>4. CASE Cardinality(S) = 1
  <2>1. PICK i : S = {i}
    BY <1>1, <1>4, FS_Singleton
  <2>2. i \in DOMAIN items /\ items[i].product = p
    BY <2>1 DEF LinesOf
  <2> DEFINE e == [j \in {} |-> 0]
  <2>3. Summable(e) /\ DOMAIN e = {}
    BY FS_EmptySet DEF Summable
  <2>4. DOMAIN f = DOMAIN e \cup {i} /\ f[i] = items[i].qty /\ f[i] \in Int
    BY <1>2, <2>1
  <2> HIDE DEF f, e
  <2>5. SumFunction(f) = SumFunction(e) + f[i]
    BY <2>3, <2>4, SumFunctionExtend
  <2>6. SumFunction(e) = 0
    BY <2>3, SumFunctionEmpty
  <2>7. Qty(items, p) = items[i].qty
    BY <1>2, <2>4, <2>5, <2>6
  <2> QED BY <2>2, <2>7
<1> QED BY <1>1, <1>3, <1>4

(* What a request gives back and takes, and the row it writes.              *)
LEMMA Amounts ==
    ASSUME NEW t, SoundRequest(t), t.op \in {"update", "cancel"} => t.old # NoOrder,
           NEW p
    PROVE  /\ Returned(t, p) \in Nat /\ Taken(t, p) \in Nat
           /\ p \in DOMAIN t.was =>
                /\ RowAfter(t, p) \in Row
                /\ RowAfter(t, p).stock = t.was[p].stock + Returned(t, p) - Taken(t, p)
<1>1. Returned(t, p) \in Nat /\ Taken(t, p) \in Nat
  BY QtyNat DEF SoundRequest, Stored, Returned, Taken
<1>2. ASSUME p \in DOMAIN t.was
      PROVE  /\ RowAfter(t, p) \in Row
             /\ RowAfter(t, p).stock = t.was[p].stock + Returned(t, p) - Taken(t, p)
  <2>1. t.was[p] \in Row
    BY <1>2 DEF SoundRequest
  <2> QED BY <1>1, <2>1 DEF RowAfter, Row
<1> QED BY <1>1, <1>2

(* Two stages of one request.                                               *)
SameRequest(s, t) ==
    /\ s.op = t.op /\ s.order = t.order /\ s.cart = t.cart /\ s.promo = t.promo
    /\ s.put = t.put /\ s.was = t.was /\ s.old = t.old /\ s.code = t.code
    /\ s.todo = t.todo

(* What a commit of an order writes.                                        *)
LEMMA CommitIs ==
    ASSUME Shapes, Sound, NEW c \in Clients, CommitOrder(c)
    PROVE  /\ tx[c] # Idle /\ IsRequest(tx[c]) /\ SoundRequest(tx[c])
           /\ tx[c].at = "commit" /\ tx[c].op \in OrderOps /\ tx[c].order \in OrderIds
           /\ tx[c].op \in {"update", "cancel"} => IsOrder(tx[c].old) /\ tx[c].old # NoOrder
           /\ \A o \in OrderIds :
                orders'[o] = IF o = tx[c].order THEN OrderAfter(tx[c]) ELSE orders[o]
           /\ \A p \in Products :
                products'[p] = IF p \in DOMAIN tx[c].was /\ RowAfter(tx[c], p) # tx[c].was[p]
                               THEN RowAfter(tx[c], p) ELSE products[p]
           /\ uses' = IF CodeAfter(tx[c]) # tx[c].code THEN CodeAfter(tx[c]) ELSE uses
           /\ \A d \in Clients : \/ tx'[d] = Idle
                                 \/ /\ d # c /\ tx[d] # Idle
                                    /\ SameRequest(tx'[d], tx[d])
<1>1. /\ tx[c] # Idle /\ IsRequest(tx[c]) /\ SoundRequest(tx[c])
      /\ tx[c].at = "commit" /\ tx[c].op \in OrderOps /\ tx[c].order \in OrderIds
  BY DEF CommitOrder, OrderOps, Shapes, IsRequest, Idle, Sound, RequestsSound
<1>2. tx[c].op \in {"update", "cancel"} => IsOrder(tx[c].old) /\ tx[c].old # NoOrder
  BY <1>1 DEF IsRequest, IsOrder, NoOrder, OrderFields
<1>3. \A d \in Clients : \/ tx'[d] = Idle
                         \/ d # c /\ tx[d] # Idle /\ SameRequest(tx'[d], tx[d])
  <2> SUFFICES ASSUME NEW d \in Clients, tx'[d] # Idle
               PROVE  d # c /\ tx[d] # Idle /\ SameRequest(tx'[d], tx[d])
    OBVIOUS
  <2>1. d # c /\ (tx'[d] = tx[d] \/ tx'[d] = [tx[d] EXCEPT !.at = "doomed"])
    BY DEF CommitOrder
  <2>2. CASE tx'[d] = tx[d]
    BY <2>1, <2>2 DEF SameRequest
  <2>3. CASE Doomed(c, d) /\ tx'[d] = [tx[d] EXCEPT !.at = "doomed"]
    <3>1. tx[d] # Idle /\ IsRequest(tx[d])
      BY <2>3 DEF Doomed, Idle, Shapes
    <3> QED BY <2>1, <2>3, <3>1 DEF IsRequest, RequestFields, SameRequest
  <2> QED BY <2>1, <2>2, <2>3 DEF CommitOrder
<1>4. \A o \in OrderIds :
         orders'[o] = IF o = tx[c].order THEN OrderAfter(tx[c]) ELSE orders[o]
  BY <1>1 DEF CommitOrder, Shapes
<1>5. \A p \in Products :
         products'[p] = IF p \in DOMAIN tx[c].was /\ RowAfter(tx[c], p) # tx[c].was[p]
                        THEN RowAfter(tx[c], p) ELSE products[p]
  BY DEF CommitOrder, WriteBack
<1>6. uses' = IF CodeAfter(tx[c]) # tx[c].code THEN CodeAfter(tx[c]) ELSE uses
  BY DEF CommitOrder
<1> QED BY <1>1, <1>2, <1>3, <1>4, <1>5, <1>6


LEMMA CommitSound ==
    ASSUME Shapes, Sound, NEW c \in Clients, CommitOrder(c)
    PROVE  Sound'
<1> PICK t, row, after : t = tx[c] /\ row = OrderAfter(t) /\ after = CodeAfter(t)
  OBVIOUS
<1>1. /\ SoundRequest(t) /\ t.op \in OrderOps /\ t.order \in OrderIds
      /\ t.op \in {"update", "cancel"} => t.old # NoOrder
      /\ \A o \in OrderIds : orders'[o] = IF o = t.order THEN row ELSE orders[o]
      /\ \A p \in Products :
           products'[p] = IF p \in DOMAIN t.was /\ RowAfter(t, p) # t.was[p]
                          THEN RowAfter(t, p) ELSE products[p]
      /\ uses' = IF after # t.code THEN after ELSE uses
      /\ \A d \in Clients :
           tx'[d] = Idle \/ (d # c /\ tx[d] # Idle /\ SameRequest(tx'[d], tx[d]))
  BY CommitIs
<1>2. Stored(row)
  BY OrderAfterSound, CommitIs
<1>3. TablesSound'
  <2>1. \A p \in Products : products'[p] = NoProduct \/ products'[p] \in Row
    BY <1>1, Amounts DEF Sound, TablesSound
  <2>2. \A o \in OrderIds : orders'[o] = NoOrder \/ Stored(orders'[o])
    BY <1>1, <1>2 DEF Sound, TablesSound
  <2>3. uses' \in Int
    BY <1>1 DEF CodeAfter, SoundRequest, Sound, TablesSound
  <2>4. IsFiniteSet(Active')
    <3>1. Active' \in SUBSET (Active \cup {t.order})
      BY <1>1 DEF Active, IsActive
    <3> QED BY <3>1, FS_AddElement, FS_Subset DEF Sound, TablesSound
  <2>5. DOMAIN products' = Products
    BY DEF CommitOrder, WriteBack
  <2> QED BY <2>1, <2>2, <2>3, <2>4, <2>5 DEF TablesSound, Stored
<1>4. RequestsSound'
  BY <1>1 DEF Sound, RequestsSound, SoundRequest, SameRequest, Stored
<1>5. FreshIds'
  <2> SUFFICES ASSUME NEW e \in Clients, tx'[e].op = "create"
               PROVE  /\ orders'[tx'[e].order] = NoOrder
                      /\ \A d \in Clients : d # e /\ tx'[d].op \in OrderOps
                                               => tx'[d].order # tx'[e].order
    BY DEF FreshIds
  <2>1. /\ e # c /\ tx[e].op = "create" /\ tx'[e].order = tx[e].order
        /\ tx[e].order \in OrderIds
    BY <1>1 DEF Idle, SameRequest, Shapes, IsRequest
  <2>2. orders'[tx[e].order] = NoOrder
    BY <1>1, <2>1 DEF Sound, FreshIds
  <2>3. \A d \in Clients : tx'[d].op \in OrderOps
           => tx[d].op = tx'[d].op /\ tx'[d].order = tx[d].order
    BY <1>1 DEF Idle, OrderOps, SameRequest
  <2> QED BY <2>1, <2>2, <2>3 DEF Sound, FreshIds
<1> QED BY <1>3, <1>4, <1>5 DEF Sound

(* Every step keeps it.                                                     *)
LEMMA SoundStep ==
    ASSUME Shapes, Sound, [Next]_vars PROVE Sound'
<1>r. \A r \in Rows : r \in Row /\ r.stock \in Nat
  BY RowsAssumption DEF Row
<1>0. ASSUME NEW c \in Clients, tx[c] # Idle
      PROVE  IsRequest(tx[c]) /\ SoundRequest(tx[c])
  BY <1>0 DEF Shapes, Sound, RequestsSound
<1>1. CASE CreateProduct
  <2>1. /\ UNCHANGED <<orders, uses, tx>> /\ DOMAIN products' = Products
        /\ \A p \in Products : products'[p] = products[p] \/ products'[p] \in Row
    BY <1>1, <1>r DEF CreateProduct, Sound, TablesSound
  <2>2. Active' = Active
    BY <2>1 DEF Active, IsActive
  <2> QED BY <2>1, <2>2 DEF Sound, TablesSound, RequestsSound, FreshIds,
                            SoundRequest, Stored
<1>2. ASSUME NEW c \in Clients, CreateOrder(c) PROVE Sound'
  <2>1. PICK u \in Users, o \in OrderIds, cart \in Carts, promo \in BOOLEAN :
            /\ Unused(o)
            /\ Arrive(c, Request("create", u, o, cart, promo, NoProduct, "rate",
                                 ProductsOf(cart)))
    BY <1>2 DEF CreateOrder
  <2>2. SoundRequest(Request("create", u, o, cart, promo, NoProduct, "rate",
                             ProductsOf(cart)))
    BY CartsAssumption, ProductsOfItems DEF SoundRequest, Request, NoRows, OrderOps
  <2>3. Request("create", u, o, cart, promo, NoProduct, "rate",
                ProductsOf(cart)).order = o
        /\ Request("create", u, o, cart, promo, NoProduct, "rate",
                ProductsOf(cart)).op = "create"
    BY DEF Request
  <2> QED BY <2>1, <2>2, <2>3, ArriveSound
<1>3. ASSUME NEW c \in Clients, UpdateOrder(c) PROVE Sound'
  <2>1. PICK u \in Users, o \in OrderIds, cart \in Carts, promo \in BOOLEAN :
            /\ orders[o] # NoOrder
            /\ Arrive(c, Request("update", u, o, cart, promo, NoProduct, "find",
                                 ProductsOf(cart)))
    BY <1>3 DEF UpdateOrder
  <2> DEFINE r == Request("update", u, o, cart, promo, NoProduct, "find",
                          ProductsOf(cart))
  <2>2. SoundRequest(r) /\ r.order = o /\ r.op = "update"
    BY CartsAssumption, ProductsOfItems DEF SoundRequest, Request, NoRows, OrderOps
  <2> HIDE DEF r
  <2> QED BY <2>1, <2>2, ArriveSound DEF r
<1>4. ASSUME NEW c \in Clients, CancelOrder(c) PROVE Sound'
  <2>1. PICK u \in Users, o \in OrderIds :
            /\ orders[o] # NoOrder
            /\ Arrive(c, Request("cancel", u, o, <<>>, FALSE, NoProduct, "find", {}))
    BY <1>4 DEF CancelOrder
  <2> DEFINE r == Request("cancel", u, o, <<>>, FALSE, NoProduct, "find", {})
  <2>2. SoundRequest(r) /\ r.order = o /\ r.op = "cancel"
    BY DEF SoundRequest, Request, NoRows, OrderOps
  <2> HIDE DEF r
  <2> QED BY <2>1, <2>2, ArriveSound DEF r
<1>5. ASSUME NEW c \in Clients, UpdateProduct(c) \/ DeleteProduct(c) PROVE Sound'
  <2>1. PICK r : /\ Arrive(c, r) /\ SoundRequest(r) /\ r.op \in {"edit", "archive"}
    <3>1. \A p \in Products, put \in Rows :
            LET r == Request("edit", "seller", "none", <<>>, FALSE, put, "load", {p})
            IN  SoundRequest(r) /\ r.op = "edit"
      BY DEF SoundRequest, Request, NoRows, OrderOps
    <3>2. \A p \in Products :
            LET r == Request("archive", "seller", "none", <<>>, FALSE, NoProduct,
                             "load", {p})
            IN  SoundRequest(r) /\ r.op = "archive"
      BY DEF SoundRequest, Request, NoRows, OrderOps
    <3> QED BY <1>5, <3>1, <3>2 DEF UpdateProduct, DeleteProduct
  <2> QED BY <2>1, ArriveSound
<1>6. ASSUME NEW c \in Clients, FindOrder(c) PROVE Sound'
  <2> PICK old, todo, place, r :
        /\ old = orders[tx[c].order]
        /\ r = [tx[c] EXCEPT !.old = old, !.todo = todo, !.at = place]
        /\ todo = tx[c].todo \cup ProductsOf(old.items)
        /\ Step(c, r)
    BY <1>6 DEF FindOrder
  <2>1. /\ tx[c] # Idle /\ tx[c].op \in {"update", "cancel"}
        /\ old.status = "CREATED"
    BY <1>6 DEF FindOrder, IsActive, Idle
  <2>2. IsRequest(tx[c]) /\ SoundRequest(tx[c]) /\ tx[c].order \in OrderIds
    BY <1>0, <2>1 DEF IsRequest
  <2>3. Stored(old)
    BY <2>1, <2>2 DEF Sound, TablesSound, NoOrder
  <2>p. todo \subseteq Products
    BY <2>2, <2>3, ProductsOfItems DEF Stored, SoundRequest
  <2>4. SoundRequest(r) /\ r.op = tx[c].op /\ r.order = tx[c].order
    BY <2>1, <2>2, <2>3, <2>p DEF IsRequest, RequestFields, SoundRequest
  <2> QED BY <2>4, StepSound
<1>7. ASSUME NEW c \in Clients, CheckRateLimit(c) \/ CountActive(c) PROVE Sound'
  <2> PICK place, r : r = [tx[c] EXCEPT !.at = place] /\ Step(c, r)
    BY <1>7 DEF CheckRateLimit, CountActive
  <2>1. IsRequest(tx[c]) /\ SoundRequest(tx[c])
    BY <1>0, <1>7 DEF CheckRateLimit, CountActive, Idle
  <2>2. SoundRequest(r) /\ r.op = tx[c].op /\ r.order = tx[c].order
    BY <2>1 DEF IsRequest, RequestFields, SoundRequest
  <2> QED BY <2>2, StepSound
<1>8. ASSUME NEW c \in Clients, LoadProduct(c) PROVE Sound'
  <2> PICK p, todo, was, r :
        /\ p \in tx[c].todo /\ products[p] # NoProduct
        /\ todo = tx[c].todo \ {p}
        /\ was = [q \in DOMAIN tx[c].was \cup {p} |->
                    IF q = p THEN products[p] ELSE tx[c].was[q]]
        /\ r = [tx[c] EXCEPT !.todo = todo, !.was = was]
        /\ Step(c, r)
    BY <1>8 DEF LoadProduct
  <2>1. IsRequest(tx[c]) /\ SoundRequest(tx[c])
    BY <1>0, <1>8 DEF LoadProduct
  <2>2. p \in Products /\ products[p] \in Row
    BY <2>1 DEF SoundRequest, Sound, TablesSound
  <2>3. /\ DOMAIN was \subseteq Products /\ todo \subseteq Products
        /\ \A q \in DOMAIN was : was[q] \in Row
    BY <2>1, <2>2 DEF SoundRequest
  <2>4. SoundRequest(r) /\ r.op = tx[c].op /\ r.order = tx[c].order
    BY <2>1, <2>3 DEF IsRequest, RequestFields, SoundRequest
  <2> QED BY <2>4, StepSound
<1>9. ASSUME NEW c \in Clients, LoadPromo(c) PROVE Sound'
  <2> PICK code, r : /\ r = [tx[c] EXCEPT !.code = code, !.at = "commit"]
                     /\ Step(c, r) /\ (code = uses \/ code = tx[c].code)
    BY <1>9 DEF LoadPromo
  <2>1. IsRequest(tx[c]) /\ SoundRequest(tx[c])
    BY <1>0, <1>9 DEF LoadPromo
  <2>2. SoundRequest(r) /\ r.op = tx[c].op /\ r.order = tx[c].order
    BY <2>1 DEF IsRequest, RequestFields, SoundRequest, Sound, TablesSound
  <2> QED BY <2>2, StepSound
<1>10. ASSUME NEW c \in Clients, Rollback(c) PROVE Sound'
  BY <1>10, StepSound DEF Rollback
<1>11. ASSUME NEW c \in Clients, CommitProduct(c) PROVE Sound'
  <2> PICK t : t = tx[c]
    OBVIOUS
  <2>1. SoundRequest(t) /\ t.op \in {"edit", "archive"}
    BY <1>0, <1>11 DEF CommitProduct, Idle
  <2>2. \A p \in DOMAIN t.was : /\ [t.was[p] EXCEPT !.status = "ARCHIVED"] \in Row
                                /\ t.op = "edit" => t.put \in Row
    BY <1>r, <2>1 DEF SoundRequest, Row
  <2>3. /\ UNCHANGED <<orders, uses>> /\ DOMAIN products' = Products
        /\ \A p \in Products : products'[p] = products[p] \/ products'[p] \in Row
    BY <1>11, <2>1, <2>2 DEF CommitProduct, WriteBack
  <2>4. TablesSound'
    <3>1. Active' = Active
      BY <2>3 DEF Active, IsActive
    <3> QED BY <2>3, <3>1 DEF Sound, TablesSound, Stored
  <2>5. \A d \in Clients : tx'[d] = IF d = c THEN Idle ELSE tx[d]
    BY <1>11 DEF CommitProduct, Shapes
  <2>6. RequestsSound' /\ FreshIds'
    BY <2>3, <2>5 DEF Sound, RequestsSound, SoundRequest, Stored, FreshIds, Idle,
                      OrderOps
  <2> QED BY <2>4, <2>6 DEF Sound
<1>12. ASSUME NEW u, NEW op, Cool(u, op) PROVE Sound'
  <2>1. UNCHANGED <<products, orders, uses, tx>>
    BY <1>12 DEF Cool
  <2> QED BY <2>1, TablesUnchanged DEF Sound, RequestsSound, SoundRequest, Stored,
                                       FreshIds
<1>13. CASE UNCHANGED vars
  <2>1. UNCHANGED <<products, orders, uses, tx>>
    BY <1>13 DEF vars, tables
  <2> QED BY <2>1, TablesUnchanged DEF Sound, RequestsSound, SoundRequest, Stored,
                                       FreshIds
<1> QED
  BY <1>1, <1>2, <1>3, <1>4, <1>5, <1>6, <1>7, <1>8, <1>9, <1>10, <1>11, <1>12,
     <1>13, CommitSound
  DEF Next

(* Requests and tables are sound in every reachable state.                  *)
THEOREM SoundHolds == Spec => []Sound
<1>1. Init => Sound
  <2> SUFFICES ASSUME Init PROVE Sound
    OBVIOUS
  <2>1. Active = {}
    BY DEF Init, Active, IsActive, NoOrder
  <2>2. \A p \in Products : products[p] = NoProduct \/ products[p] \in Row
    BY RowsAssumption DEF Init, Row
  <2> QED BY <2>1, <2>2, FS_EmptySet
          DEF Init, Sound, TablesSound, RequestsSound, FreshIds, Idle
<1> QED BY <1>1, ShapesHold, SoundStep, PTL DEF Spec
-----------------------------------------------------------------------------
(* A stock below zero comes from an order with two lines for the product,   *)
(* or from a stock that was below zero when it was read, however many       *)
(* requests race.                                                           *)
THEOREM OversoldByTwoLines == Spec => OversoldOnlyByTwoLines
<1>1. ASSUME Shapes, Sound, [Next]_vars, NEW p \in Products,
             products[p] # NoProduct, products'[p].stock < 0,
             products'[p] # products[p]
      PROVE  \E c \in Clients :
                /\ tx[c] # Idle /\ tx'[c] = Idle
                /\ p \in DOMAIN tx[c].was
                /\ Twice(tx[c].cart, p) \/ tx[c].was[p].stock < 0
  <2>1. \E c \in Clients : CommitOrder(c) \/ CommitProduct(c)
    BY <1>1 DEF Next, CreateProduct, CreateOrder, UpdateOrder, CancelOrder,
       UpdateProduct, DeleteProduct, FindOrder, CheckRateLimit, CountActive,
       LoadProduct, LoadPromo, Rollback, Cool, Step, Arrive, tables, vars,
       Sound, TablesSound
  <2>2. ASSUME NEW c \in Clients, CommitOrder(c)
        PROVE  /\ tx[c] # Idle /\ tx'[c] = Idle /\ p \in DOMAIN tx[c].was
               /\ Twice(tx[c].cart, p) \/ tx[c].was[p].stock < 0
    <3> PICK t, back, taken : /\ t = tx[c]
                              /\ back = Returned(t, p) /\ taken = Taken(t, p)
      OBVIOUS
    <3>1. /\ t # Idle /\ tx'[c] = Idle /\ SoundRequest(t) /\ t.op \in OrderOps
          /\ t.op \in {"update", "cancel"} => t.old # NoOrder
          /\ p \in DOMAIN t.was /\ products'[p] = RowAfter(t, p)
      BY <1>1, <2>2, CommitIs
    <3>2. /\ back \in Nat /\ taken \in Nat /\ t.was[p].stock \in Int
          /\ t.was[p].stock + back - taken < 0
      <4>1. back \in Nat /\ taken \in Nat
            /\ RowAfter(t, p).stock = t.was[p].stock + back - taken
        BY <3>1, Amounts
      <4> QED BY <1>1, <3>1, <4>1 DEF SoundRequest, Row
    <3>3. CASE taken = 0
      BY <3>1, <3>2, <3>3
    <3>4. CASE taken # 0 /\ ~Twice(t.cart, p)
      <4>1. t.cart \in Seq(Line) /\ taken = Qty(t.cart, p)
        BY <3>1, <3>4 DEF SoundRequest, Taken
      <4>2. PICK i \in DOMAIN t.cart : t.cart[i].product = p /\ taken = t.cart[i].qty
        BY <3>4, <4>1, QtyOfOneLine
      <4>3. t.was[p].stock + back >= taken
        BY <2>2, <4>2 DEF CommitOrder, Accepts, EnoughStock
      <4> QED BY <3>2, <4>3
    <3> QED BY <3>1, <3>3, <3>4
  <2>3. ASSUME NEW c \in Clients, CommitProduct(c)
        PROVE  /\ tx[c] # Idle /\ tx'[c] = Idle /\ p \in DOMAIN tx[c].was
               /\ tx[c].was[p].stock < 0
    <3>1. tx[c] # Idle /\ tx'[c] = Idle /\ tx[c].op \in {"edit", "archive"}
      BY <1>1, <2>3 DEF CommitProduct, Shapes, Idle
    <3>2. SoundRequest(tx[c])
      BY <1>1, <3>1 DEF Sound, RequestsSound
    <3>3. /\ p \in DOMAIN tx[c].was
          /\ products'[p] = IF tx[c].op = "edit" THEN tx[c].put
                            ELSE [tx[c].was[p] EXCEPT !.status = "ARCHIVED"]
      BY <1>1, <2>3 DEF CommitProduct, WriteBack
    <3>4. tx[c].op = "edit" => products'[p].stock \in Nat
      BY <3>2, <3>3, RowsAssumption DEF SoundRequest
    <3>5. [tx[c].was[p] EXCEPT !.status = "ARCHIVED"].stock = tx[c].was[p].stock
      BY <3>2, <3>3 DEF SoundRequest, Row
    <3> QED BY <1>1, <3>1, <3>3, <3>4, <3>5
  <2> QED BY <2>1, <2>2, <2>3
<1>2. Shapes /\ Sound /\ [Next]_vars =>
        [\A p \in Products :
            /\ products[p] # NoProduct /\ products'[p].stock < 0
            /\ products'[p] # products[p]
            => \E c \in Clients :
                  /\ tx[c] # Idle /\ tx'[c] = Idle
                  /\ p \in DOMAIN tx[c].was
                  /\ Twice(tx[c].cart, p) \/ tx[c].was[p].stock < 0]_vars
  BY <1>1
<1> QED BY <1>2, ShapesHold, SoundHolds, PTL DEF Spec, OversoldOnlyByTwoLines
-----------------------------------------------------------------------------
(* The order of a request that commits before anything it has read changes: *)
(* a new one, one whose items and promo code change, or one that ends.      *)
LEMMA FreshOrder ==
    ASSUME Shapes, Sound, NEW c \in Clients, CommitOrder(c), UpToDate(c),
           NEW t, t = tx[c]
    PROVE  /\ t.op = "create" =>
                /\ t.order \notin Active /\ Active' = Active \cup {t.order}
                /\ orders'[t.order].items = t.cart
                /\ orders'[t.order].promo = t.promo
           /\ t.op \in {"update", "cancel"} =>
                t.order \in Active /\ orders[t.order] = t.old
           /\ t.op = "update" =>
                /\ Active' = Active /\ orders'[t.order].items = t.cart
                /\ orders'[t.order].promo = IF t.old.promo THEN ~Drops(t) ELSE t.promo
           /\ t.op = "cancel" => Active' = Active \ {t.order}
           /\ \A o \in OrderIds \ {t.order} : orders'[o] = orders[o]
<1> PICK row : row = OrderAfter(t)
  OBVIOUS
<1>1. /\ IsRequest(t) /\ SoundRequest(t) /\ t.op \in OrderOps /\ t.order \in OrderIds
      /\ t.op \in {"update", "cancel"} => IsOrder(t.old) /\ t.old # NoOrder
      /\ \A o \in OrderIds : orders'[o] = IF o = t.order THEN row ELSE orders[o]
  BY CommitIs
<1>2. /\ Active = {o \in OrderIds : orders[o].status = "CREATED"}
      /\ Active' = {o \in OrderIds : orders'[o].status = "CREATED"}
  BY DEF Active, IsActive
<1>3. CASE t.op = "create"
  <2>1. orders[t.order] = NoOrder
    BY <1>3 DEF Sound, FreshIds
  <2>2. /\ row.status = "CREATED" /\ row.items = t.cart /\ row.promo = t.promo
    BY <1>3 DEF OrderAfter, CreatedRow
  <2> QED BY <1>1, <1>2, <1>3, <2>1, <2>2 DEF NoOrder
<1>4. ASSUME t.op \in {"update", "cancel"}
      PROVE  /\ t.order \in Active /\ orders[t.order] = t.old /\ IsOrder(t.old)
             /\ t.old.status = "CREATED"
  BY <1>1, <1>2, <1>4 DEF UpToDate, SoundRequest
<1>5. CASE t.op = "update"
  <2> PICK new : new = UpdatedRow(t)
    OBVIOUS
  <2>1. /\ new.status = "CREATED" /\ new.items = t.cart
        /\ new.promo = (IF t.old.promo THEN ~Drops(t) ELSE t.promo)
        /\ DOMAIN new = OrderFields
    BY <1>4, <1>5 DEF UpdatedRow, HadPromo, IsOrder, OrderFields
  <2>2. CASE [new EXCEPT !.items = t.old.items] = t.old
    <3>1. new.promo = t.old.promo
      BY <1>4, <2>1, <2>2 DEF IsOrder, OrderFields
    <3>2. row = [t.old EXCEPT !.items = t.cart]
      BY <1>4, <1>5, <2>2 DEF OrderAfter
    <3>3. row.items = t.cart /\ row.status = "CREATED" /\ row.promo = t.old.promo
      BY <1>4, <1>5, <3>2 DEF IsOrder, OrderFields
    <3> QED BY <1>1, <1>2, <1>4, <1>5, <2>1, <3>1, <3>3
  <2>3. CASE [new EXCEPT !.items = t.old.items] # t.old
    <3>1. row = new
      BY <1>5, <2>3 DEF OrderAfter
    <3> QED BY <1>1, <1>2, <1>4, <1>5, <2>1, <3>1
  <2> QED BY <2>2, <2>3
<1>6. CASE t.op = "cancel"
  <2>1. row.status = "CANCELED"
    BY <1>4, <1>6 DEF OrderAfter, IsOrder, OrderFields
  <2> QED BY <1>1, <1>2, <1>4, <1>6, <2>1
<1> QED BY <1>1, <1>3, <1>5, <1>6 DEF OrderOps

(* What active orders reserve moves by what the request takes and returns.  *)
LEMMA FreshReserve ==
    ASSUME Shapes, Sound, NEW c \in Clients, CommitOrder(c), UpToDate(c), NEW p
    PROVE  /\ Reserved(p) \in Int /\ Reserved(p)' \in Int
           /\ Reserved(p)' = Reserved(p) + Taken(tx[c], p) - Returned(tx[c], p)
<1>0. PICK t, A, B, from, to :
      /\ t = tx[c] /\ A = Active /\ B = Active'
      /\ from = [o \in Active |-> Qty(orders[o].items, p)]
      /\ to = [o \in Active' |-> Qty(orders'[o].items, p)]
  OBVIOUS
<1>1. Reserved(p) = SumFunction(from) /\ Reserved(p)' = SumFunction(to)
  BY <1>0 DEF Reserved, Qty, LinesOf
<1>2. /\ t.op \in OrderOps /\ t.order \in OrderIds /\ SoundRequest(t)
      /\ t.op \in {"update", "cancel"} => t.old # NoOrder
  BY <1>0, CommitIs
<1>3. Summable(from) /\ Summable(to)
  <2>1. Sound'
    BY CommitSound
  <2>2. IsFiniteSet(A) /\ IsFiniteSet(B)
    BY <1>0, <2>1 DEF Sound, TablesSound
  <2>3. \A o \in A : orders[o].items \in Seq(Line)
    BY <1>0 DEF Active, IsActive, NoOrder, Sound, TablesSound, Stored
  <2>4. \A o \in B : orders'[o].items \in Seq(Line)
    BY <1>0, <2>1 DEF Active, IsActive, NoOrder, Sound, TablesSound, Stored
  <2>5. /\ \A o \in A : Qty(orders[o].items, p) \in Int
        /\ \A o \in B : Qty(orders'[o].items, p) \in Int
    <3>1. ASSUME NEW items \in Seq(Line) PROVE Qty(items, p) \in Int
      <4>1. Qty(items, p) \in Nat
        BY QtyNat
      <4> QED BY <4>1
    <3> QED BY <2>3, <2>4, <3>1
  <2> QED BY <1>0, <2>2, <2>5 DEF Summable
<1>4. SumFunction(from) \in Int /\ SumFunction(to) \in Int
  BY <1>3, SumFunctionInt
<1>5. /\ DOMAIN from = A /\ DOMAIN to = B
      /\ A \subseteq OrderIds
      /\ \A o \in A \cap B : o # t.order => to[o] = from[o]
  BY <1>0, FreshOrder DEF Active
<1>6. Taken(t, p) \in Int /\ Returned(t, p) \in Int
  BY <1>2, Amounts
<1>7. CASE t.op = "create"
  <2>1. /\ t.order \notin A /\ B = A \cup {t.order} /\ to[t.order] = Taken(t, p)
        /\ Returned(t, p) = 0
    BY <1>0, <1>7, FreshOrder DEF Taken, Returned
  <2>2. SumFunction(to) = SumFunction(from) + to[t.order]
    BY <1>3, <1>5, <1>6, <2>1, SumFunctionExtend
  <2> QED BY <1>0, <1>1, <1>4, <1>6, <2>1, <2>2
<1>8. CASE t.op = "update"
  <2>1. /\ t.order \in A /\ B = A /\ to[t.order] = Taken(t, p)
        /\ from[t.order] = Returned(t, p)
    BY <1>0, <1>8, FreshOrder DEF Taken, Returned
  <2>2. SumFunction(to) = SumFunction(from) + (to[t.order] - from[t.order])
    BY <1>3, <1>5, <1>6, <2>1, SumFunctionUpdate
  <2> QED BY <1>0, <1>1, <1>4, <1>6, <2>1, <2>2
<1>9. CASE t.op = "cancel"
  <2>1. /\ t.order \in A /\ B = A \ {t.order} /\ from[t.order] = Returned(t, p)
        /\ Taken(t, p) = 0
    BY <1>0, <1>9, FreshOrder DEF Taken, Returned
  <2>2. SumFunction(from) = SumFunction(to) + from[t.order]
    <3>1. /\ t.order \notin DOMAIN to /\ DOMAIN from = DOMAIN to \cup {t.order}
          /\ from[t.order] \in Int /\ \A o \in DOMAIN to : from[o] = to[o]
      BY <1>5, <1>6, <2>1
    <3>2. Summable(to)
      BY <1>3
    <3> QED BY <3>1, <3>2, SumFunctionExtend
  <2> QED BY <1>0, <1>1, <1>4, <1>6, <2>1, <2>2
<1> QED BY <1>2, <1>7, <1>8, <1>9 DEF OrderOps

(* The active orders with the promo code move by the uses that are added.   *)
LEMMA FreshPromo ==
    ASSUME Shapes, Sound, NEW c \in Clients, CommitOrder(c), UpToDate(c)
    PROVE  uses' - uses = Cardinality(WithPromo') - Cardinality(WithPromo)
<1> PICK t, A, B, V, W, o, after :
      /\ t = tx[c] /\ A = Active /\ B = Active' /\ o = t.order
      /\ V = WithPromo /\ W = WithPromo' /\ after = CodeAfter(t)
  OBVIOUS
<1>1. /\ t.op \in OrderOps /\ o \in OrderIds /\ SoundRequest(t)
      /\ t.op \in {"update", "cancel"} => t.old # NoOrder
      /\ uses' = IF after # t.code THEN after ELSE uses
  BY CommitIs
<1>2. /\ V = {x \in A : orders[x].promo} /\ W = {x \in B : orders'[x].promo}
      /\ A \subseteq OrderIds
  BY DEF WithPromo, Active
<1>3. IsFiniteSet(V) /\ Cardinality(V) \in Nat
  <2>1. IsFiniteSet(A)
    BY DEF Sound, TablesSound
  <2>2. IsFiniteSet(V)
    BY <1>2, <2>1, FS_Subset
  <2> QED BY <2>2, FS_CardinalityType
<1>4. /\ uses \in Int /\ t.code \in Int /\ (NeedsPromo(t) => uses = t.code)
      /\ t.promo \in BOOLEAN /\ (t.old # NoOrder => t.old.promo \in BOOLEAN)
  BY <1>1 DEF Sound, TablesSound, SoundRequest, UpToDate, Stored
<1>5. \/ W = V /\ uses' = uses
      \/ o \notin V /\ W = V \cup {o} /\ uses' = uses + 1
      \/ o \in V /\ W = V \ {o} /\ uses' = uses - 1
  <2>1. CASE t.op = "create"
    <3>1. o \notin A /\ B = A \cup {o} /\ orders'[o].promo = t.promo
          /\ \A x \in A : orders'[x] = orders[x]
      BY <1>2, <2>1, FreshOrder
    <3>2. after = (IF t.promo THEN t.code + 1 ELSE t.code)
      BY <2>1 DEF CodeAfter, HadPromo
    <3>3. t.promo => uses = t.code
      BY <1>4, <2>1 DEF NeedsPromo
    <3>4. CASE t.promo
      <4>1. W = V \cup {o} /\ o \notin V
        BY <1>2, <3>1, <3>4
      <4> QED BY <1>1, <1>4, <3>2, <3>3, <3>4, <4>1
    <3>5. CASE ~t.promo
      <4>1. W = V
        BY <1>2, <1>4, <3>1, <3>5
      <4> QED BY <1>1, <3>2, <3>5, <4>1
    <3> QED BY <3>4, <3>5
  <2>2. CASE t.op = "update"
    <3>1. /\ o \in A /\ B = A /\ orders[o] = t.old
          /\ orders'[o].promo = (IF t.old.promo THEN ~Drops(t) ELSE t.promo)
          /\ \A x \in A : x # o => orders'[x] = orders[x]
      BY <1>2, <2>2, FreshOrder
    <3>2. after = (IF t.old.promo THEN IF Drops(t) THEN t.code - 1 ELSE t.code
                   ELSE IF t.promo THEN t.code + 1 ELSE t.code)
      BY <2>2 DEF CodeAfter, HadPromo
    <3>3. t.promo \/ t.old.promo => uses = t.code
      BY <1>4, <2>2 DEF NeedsPromo
    <3>4. CASE t.old.promo /\ Drops(t)
      <4>1. W = V \ {o} /\ o \in V
        BY <1>2, <3>1, <3>4, ZenonT(60)
      <4> QED BY <1>1, <1>4, <3>2, <3>3, <3>4, <4>1
    <3>5. CASE ~t.old.promo /\ t.promo
      <4>1. W = V \cup {o} /\ o \notin V
        BY <1>2, <3>1, <3>5, ZenonT(60)
      <4> QED BY <1>1, <1>4, <3>2, <3>3, <3>5, <4>1
    <3>6. CASE \/ t.old.promo /\ ~Drops(t)
               \/ ~t.old.promo /\ ~t.promo
      <4>1. W = V
        BY <1>2, <3>1, <3>6
      <4> QED BY <1>1, <3>2, <3>6, <4>1
    <3> QED BY <3>4, <3>5, <3>6
  <2>3. CASE t.op = "cancel"
    <3>1. /\ o \in A /\ B = A \ {o} /\ orders[o] = t.old
          /\ \A x \in B : orders'[x] = orders[x]
      BY <1>2, <2>3, FreshOrder
    <3>2. after = (IF t.old.promo THEN t.code - 1 ELSE t.code)
      <4>1. Drops(t) /\ ~t.promo /\ (HadPromo(t) <=> t.old.promo)
        BY <1>1, <1>4, <2>3 DEF HadPromo, Drops, SoundRequest
      <4> QED BY <1>4, <4>1 DEF CodeAfter
    <3>3. t.old.promo => uses = t.code
      BY <1>4, <2>3 DEF NeedsPromo
    <3>4. CASE t.old.promo
      <4>1. W = V \ {o} /\ o \in V
        BY <1>2, <3>1, <3>4
      <4> QED BY <1>1, <1>4, <3>2, <3>3, <3>4, <4>1
    <3>5. CASE ~t.old.promo
      <4>1. W = V
        BY <1>2, <3>1, <3>5
      <4> QED BY <1>1, <3>2, <3>5, <4>1
    <3> QED BY <3>4, <3>5
  <2> QED BY <1>1, <2>1, <2>2, <2>3 DEF OrderOps
<1>6. uses' - uses = Cardinality(W) - Cardinality(V)
  <2>1. CASE W = V /\ uses' = uses
    BY <1>3, <1>4, <2>1
  <2>2. CASE o \notin V /\ W = V \cup {o} /\ uses' = uses + 1
    <3>1. Cardinality(W) = Cardinality(V) + 1
      BY <1>3, <2>2, FS_AddElement
    <3> QED BY <1>3, <1>4, <2>2, <3>1
  <2>3. CASE o \in V /\ W = V \ {o} /\ uses' = uses - 1
    <3>1. Cardinality(W) = Cardinality(V) - 1
      <4>1. Cardinality(V \ {o}) = IF o \in V THEN Cardinality(V) - 1 ELSE Cardinality(V)
        BY <1>3, FS_RemoveElement
      <4> QED BY <2>3, <4>1
    <3> QED BY <1>3, <1>4, <2>3, <3>1
  <2> QED BY <1>5, <2>1, <2>2, <2>3
<1> QED BY <1>6

(* The request of a client ends by its own commit, or without effect.       *)
LEMMA CommitIsOwn ==
    ASSUME Shapes, Sound, [Next]_vars, NEW c \in Clients, tx[c] # Idle,
           tx'[c] = Idle, tx[c].op \in OrderOps, tx[c].at = "commit"
    PROVE  CommitOrder(c) \/ Rollback(c)
<1>1. DOMAIN tx = Clients /\ tx'[c] # tx[c]
  BY DEF Shapes
<1>2. ASSUME NEW d \in Clients, d # c PROVE ~(\E t : Step(d, t) \/ Arrive(d, t))
  BY <1>1, <1>2 DEF Step, Arrive
<1>3. ASSUME NEW d \in Clients, CommitOrder(d) PROVE d = c
  <2>1. tx'[c] = IF c = d THEN Idle
                 ELSE IF Doomed(d, c) THEN [tx[c] EXCEPT !.at = "doomed"] ELSE tx[c]
    BY <1>3 DEF CommitOrder
  <2>2. [tx[c] EXCEPT !.at = "doomed"] # Idle
    BY DEF Shapes, IsRequest, RequestFields, Idle
  <2> QED BY <1>1, <2>1, <2>2
<1>4. ASSUME NEW d \in Clients, CommitProduct(d) PROVE FALSE
  BY <1>1, <1>4 DEF CommitProduct, OrderOps
<1>5. ~(\E t : Arrive(c, t))
  BY DEF Arrive
<1>6. ~(FindOrder(c) \/ CheckRateLimit(c) \/ CountActive(c) \/ LoadProduct(c) \/ LoadPromo(c))
  BY DEF FindOrder, CheckRateLimit, CountActive, LoadProduct, LoadPromo
<1>7. ~CreateProduct /\ ~(UNCHANGED vars) /\ \A u, op : ~Cool(u, op)
  BY <1>1 DEF CreateProduct, vars, Cool
<1>8. PICK d \in Clients :
        \/ CreateOrder(d) \/ UpdateOrder(d) \/ CancelOrder(d)
        \/ UpdateProduct(d) \/ DeleteProduct(d)
        \/ FindOrder(d) \/ CheckRateLimit(d) \/ CountActive(d)
        \/ LoadProduct(d) \/ LoadPromo(d)
        \/ CommitOrder(d) \/ CommitProduct(d) \/ Rollback(d)
  BY <1>7 DEF Next
<1>9. CASE CreateOrder(d) \/ UpdateOrder(d) \/ CancelOrder(d) \/ UpdateProduct(d)
           \/ DeleteProduct(d)
  <2>1. \E t : Arrive(d, t)
    BY <1>9 DEF CreateOrder, UpdateOrder, CancelOrder, UpdateProduct, DeleteProduct
  <2> QED BY <1>2, <1>5, <2>1
<1>10. CASE FindOrder(d) \/ CheckRateLimit(d) \/ CountActive(d) \/ LoadProduct(d)
            \/ LoadPromo(d) \/ Rollback(d)
  <2>1. \E t : Step(d, t)
    BY <1>10 DEF FindOrder, CheckRateLimit, CountActive, LoadProduct, LoadPromo, Rollback
  <2>2. d = c
    BY <1>2, <2>1
  <2> QED BY <1>6, <1>10, <2>2
<1> QED BY <1>3, <1>4, <1>8, <1>9, <1>10

(* A request for an order that is not overtaken conserves goods and promo   *)
(* codes: over the three tables, what one loses another gains.              *)
THEOREM FreshCommitsKeep == Spec => FreshCommitsConserve
<1>1. ASSUME Shapes, Sound, [Next]_vars, NEW c \in Clients,
             tx[c] # Idle, tx'[c] = Idle,
             tx[c].op \in {"create", "update", "cancel"}, tx[c].at = "commit",
             UpToDate(c)
      PROVE  /\ \A p \in DOMAIN tx[c].was :
                   products[p] # NoProduct =>
                   products'[p].stock + Reserved(p)' = products[p].stock + Reserved(p)
             /\ uses' - uses = Cardinality(WithPromo') - Cardinality(WithPromo)
  <2>1. CommitOrder(c) \/ Rollback(c)
    BY <1>1, CommitIsOwn DEF OrderOps
  <2>2. CASE CommitOrder(c)
    <3>1. ASSUME NEW p \in DOMAIN tx[c].was
          PROVE  products'[p].stock + Reserved(p)' = products[p].stock + Reserved(p)
      <4> PICK t, back, taken, row, was :
            /\ t = tx[c] /\ back = Returned(t, p) /\ taken = Taken(t, p)
            /\ row = RowAfter(t, p) /\ was = products[p]
        OBVIOUS
      <4>1. /\ SoundRequest(t) /\ p \in DOMAIN t.was
            /\ t.op \in {"update", "cancel"} => t.old # NoOrder
        BY <2>2, <3>1, CommitIs, <1>1
      <4>2. t.was[p] = was /\ was \in Row /\ p \in Products
        BY <1>1, <4>1 DEF UpToDate, SoundRequest
      <4>3. back \in Nat /\ taken \in Nat /\ row.stock = was.stock + back - taken
        BY <4>1, <4>2, Amounts
      <4>4. products'[p] = row
        BY <1>1, <2>2, <4>1, <4>2, CommitIs
      <4>5. /\ Reserved(p) \in Int /\ Reserved(p)' \in Int
            /\ Reserved(p)' = Reserved(p) + taken - back
        BY <1>1, <2>2, FreshReserve
      <4>6. was.stock \in Int
        BY <4>2 DEF Row
      <4> HIDE DEF Reserved
      <4> QED BY <4>3, <4>4, <4>5, <4>6
    <3> QED BY <1>1, <2>2, <3>1, FreshPromo
  <2>3. CASE Rollback(c)
    <3>1. UNCHANGED <<products, orders, uses>>
      BY <2>3 DEF Rollback, Step, tables
    <3>2. ASSUME NEW p PROVE Reserved(p)' = Reserved(p)
      BY <3>1 DEF Reserved, Active, IsActive, Qty, LinesOf
    <3>3. WithPromo' = WithPromo
      BY <3>1 DEF WithPromo, Active, IsActive
    <3>4. /\ uses' - uses = 0 /\ Cardinality(WithPromo') - Cardinality(WithPromo) = 0
      <4>1. uses \in Int /\ IsFiniteSet(Active) /\ WithPromo \subseteq Active
        BY <1>1 DEF Sound, TablesSound, WithPromo
      <4>2. Cardinality(WithPromo) \in Nat
        BY <4>1, FS_Subset, FS_CardinalityType
      <4> QED BY <3>1, <3>3, <4>1, <4>2
    <3>5. ASSUME NEW p
          PROVE  products'[p].stock + Reserved(p)' = products[p].stock + Reserved(p)
      <4>1. products' = products /\ Reserved(p)' = Reserved(p)
        BY <3>1, <3>2
      <4> QED BY <4>1
    <3> QED BY <3>4, <3>5
  <2> QED BY <2>1, <2>2, <2>3
<1>2. Shapes /\ Sound /\ [Next]_vars =>
        [\A c \in Clients :
            /\ tx[c] # Idle /\ tx'[c] = Idle
            /\ tx[c].op \in {"create", "update", "cancel"} /\ tx[c].at = "commit"
            /\ UpToDate(c)
            => /\ \A p \in DOMAIN tx[c].was :
                    products[p] # NoProduct =>
                    products'[p].stock + Reserved(p)' = products[p].stock + Reserved(p)
               /\ uses' - uses = Cardinality(WithPromo') - Cardinality(WithPromo)]_vars
  BY <1>1
<1> QED BY <1>2, ShapesHold, SoundHolds, PTL DEF Spec, FreshCommitsConserve
=============================================================================
