-------------------------------- MODULE MCShop --------------------------------
EXTENDS Shop, TLC

CONSTANTS p1, p2

Cart(p, n) == <<[product |-> p, qty |-> n]>>

(* The second cart names the product in two lines.                          *)
MCCarts == {Cart(p1, 1), Cart(p1, 1) \o Cart(p1, 1)}

MCRows == {[price |-> 1, stock |-> 2, status |-> "ACTIVE"]}

(* Clients and order ids are interchangeable.                               *)
MCSymmetry == Permutations(Clients) \cup Permutations(OrderIds)
=============================================================================
