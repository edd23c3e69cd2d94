---------------------------- MODULE MCInventoryTx ----------------------------
(* Three orders compete for the 3 units of p1. One of them is repeated with   *)
(* another body, whose product is unknown, and released while it runs; the    *)
(* hash of its id collides with that of another order. The bodies of c3      *)
(* and c4 are at the edge: a quantity and a total that fit no column.        *)
EXTENDS InventoryTx, TLC

CONSTANTS o1, o2, o3, p1, px, c1, c2, c3, c4, c5, c6

MCOrders == {o1, o2, o3}
MCProductIds == {p1, px}
MCProducts == {p1}
MCPrice == p1 :> 2
MCStock == p1 :> 3
MCMaxInt == 5
MCCalls == {c1, c2, c3, c4, c5, c6}
MCKindOf == [c \in Calls |-> IF c = c6 THEN "release" ELSE "decrement"]
MCOrderOf == c1 :> o1 @@ c2 :> o1 @@ c3 :> o2 @@ c4 :> o3 @@ c5 :> o3 @@ c6 :> o1
MCProductOf == [c \in Calls |-> IF c = c2 THEN px ELSE p1]
MCQuantityOf == c1 :> 2 @@ c2 :> 1 @@ c3 :> 6 @@ c4 :> 3 @@ c5 :> 2 @@ c6 :> 1
MCHashOf == o1 :> 1 @@ o2 :> 1 @@ o3 :> 2
=============================================================================
