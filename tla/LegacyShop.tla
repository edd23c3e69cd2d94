----------------------------- MODULE LegacyShop -----------------------------
(***************************************************************************)
(* The monolith that the services replace: one database, in which an order   *)
(* and its stock decrement are one transaction. The migration "must preserve *)
(* the existing externally observable behavior", so this is what the saga    *)
(* has to look like from outside. The confirmation, which the monolith sends *)
(* after the transaction, is the subject of modules Confirmation and Outbox. *)
(***************************************************************************)
EXTENDS Integers

CONSTANTS Orders, Products, Quantities, Price, InitialStock, NoOrder

VARIABLES stock, orders

shopVars == <<stock, orders>>

Init ==
    /\ stock = InitialStock
    /\ orders = [o \in Orders |-> NoOrder]

(* createOrder under a fresh id o: FOR UPDATE, guarded decrement, insert.    *)
CreateOrder(o, p, q) ==
    /\ orders[o] = NoOrder
    /\ stock[p] >= q
    /\ stock' = [stock EXCEPT ![p] = @ - q]
    /\ orders' = [orders EXCEPT ![o] = [status |-> "CONFIRMED", total |-> Price[p] * q]]

(* shipOrder: the conditional UPDATE of markShipped decides.                 *)
ShipOrder(o) ==
    /\ orders[o] # NoOrder /\ orders[o].status = "CONFIRMED"
    /\ orders' = [orders EXCEPT ![o].status = "SHIPPED"]
    /\ UNCHANGED stock

Next ==
    \/ \E o \in Orders, p \in Products, q \in Quantities : CreateOrder(o, p, q)
    \/ \E o \in Orders : ShipOrder(o)

Spec == Init /\ [][Next]_shopVars
=============================================================================
