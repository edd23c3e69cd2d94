------------------------------ MODULE Inventory ------------------------------
(***************************************************************************)
(* What shopflow-inventory promises: its two stock mutations, each one     *)
(* committed transaction (StockService in application/stock-service.ts).   *)
(* InventoryTx takes the transactions apart and is shown to implement this *)
(* module; OrderSaga calls the service through the operators below.        *)
(*                                                                         *)
(* A call that commits nothing (a replay, a 404 or 409 answer, an INTEGER  *)
(* column overflow that rolls back) is a stuttering step here; what the    *)
(* caller is told is DecrementReply and ReleaseReply.                      *)
(***************************************************************************)
EXTENDS Integers, FiniteSets

CONSTANTS
    Orders,         \* order ids (UUIDs), the ledger's primary key
    ProductIds,     \* product ids a request can name
    Products,       \* the ids that are rows of the products table
    Quantities,     \* quantities a request can ask for
    Price,          \* products.price_cents
    InitialStock,   \* products.stock when the database was seeded
    MaxInt,         \* largest value of an INTEGER column, 2^31 - 1 in PostgreSQL
    NoRow           \* "no row for this order id"

Outcomes == {"DECREMENTED", "INSUFFICIENT_STOCK", "NOT_FOUND"}

(* A row of stock_decrements. The numeric columns are NULL for a rejected   *)
(* outcome; 0 stands for NULL there.                                        *)
LedgerRow ==
    [product : ProductIds, quantity : Quantities, outcome : Outcomes,
     state : {"RECORDED", "RELEASED"}, unitPrice : Nat, total : Nat, remaining : Nat]

ASSUME InventoryAssumption ==
    /\ Products \subseteq ProductIds
    /\ Quantities \subseteq Nat \ {0}
    /\ MaxInt \in Nat
    /\ Price \in [Products -> Nat]
    /\ InitialStock \in [Products -> 0..MaxInt]
    /\ NoRow \notin LedgerRow

VARIABLES
    stock,          \* products.stock, per product
    ledger          \* stock_decrements, per order id

vars == <<stock, ledger>>

Rejection(p, q, why) ==
    [product |-> p, quantity |-> q, outcome |-> why, state |-> "RECORDED",
     unitPrice |-> 0, total |-> 0, remaining |-> 0]

Decrement(p, q, left) ==
    [product |-> p, quantity |-> q, outcome |-> "DECREMENTED", state |-> "RECORDED",
     unitPrice |-> Price[p], total |-> Price[p] * q, remaining |-> left]

IsReleased(row) == row # NoRow /\ row.outcome = "DECREMENTED" /\ row.state = "RELEASED"

(* The row took stock and has not given it back.                           *)
IsHeld(row) == row # NoRow /\ row.outcome = "DECREMENTED" /\ row.state = "RECORDED"

Init ==
    /\ stock = InitialStock
    /\ ledger = [o \in Orders |-> NoRow]

(* Fault: the update has lost its guard AND stock >= quantity.             *)
RecordDecrementUnguarded(o, p, q) ==
    /\ ledger[o] = NoRow
    /\ p \in Products
    /\ Price[p] * q <= MaxInt
    /\ stock' = [stock EXCEPT ![p] = @ - q]
    /\ ledger' = [ledger EXCEPT ![o] = Decrement(p, q, stock[p] - q)]

(* Fault: a repeated order id is executed again instead of replayed.       *)
RecordDecrementAgain(o, p, q) ==
    /\ p \in Products
    /\ stock[p] >= q
    /\ Price[p] * q <= MaxInt
    /\ stock' = [stock EXCEPT ![p] = @ - q]
    /\ ledger' = [ledger EXCEPT ![o] = Decrement(p, q, stock[p] - q)]

(* The guarded update matched: stock and ledger row commit together.       *)
(* total_cents is an INTEGER column: a larger total makes the INSERT fail. *)
RecordDecrement(o, p, q) ==
    /\ ledger[o] = NoRow
    /\ p \in Products
    /\ stock[p] >= q
    /\ Price[p] * q <= MaxInt
    /\ stock' = [stock EXCEPT ![p] = @ - q]
    /\ ledger' = [ledger EXCEPT ![o] = Decrement(p, q, stock[p] - q)]

(* Some of the product was given back by a released decrement.             *)
Refilled(p) == \E o \in Orders : IsReleased(ledger[o]) /\ ledger[o].product = p

(* Fault: the update asks for stock > quantity.                            *)
RecordInsufficientOffByOne(o, p, q) ==
    /\ ledger[o] = NoRow
    /\ p \in Products
    /\ q <= MaxInt
    /\ stock[p] <= q \/ Refilled(p)
    /\ ledger' = [ledger EXCEPT ![o] = Rejection(p, q, "INSUFFICIENT_STOCK")]
    /\ UNCHANGED stock

(* The guarded update matched no row. It ran before the commit, so a        *)
(* release may have refilled the product in between: the stock was short    *)
(* then, but need not be now.                                               *)
RecordInsufficient(o, p, q) ==
    /\ ledger[o] = NoRow
    /\ p \in Products
    /\ q <= MaxInt
    /\ stock[p] < q \/ Refilled(p)
    /\ ledger' = [ledger EXCEPT ![o] = Rejection(p, q, "INSUFFICIENT_STOCK")]
    /\ UNCHANGED stock

RecordNotFound(o, p, q) ==
    /\ ledger[o] = NoRow
    /\ p \notin Products
    /\ q <= MaxInt
    /\ ledger' = [ledger EXCEPT ![o] = Rejection(p, q, "NOT_FOUND")]
    /\ UNCHANGED stock

(* POST /stock-decrements for an order id that has no row yet.             *)
DecrementStock(o, p, q) ==
    \/ RecordDecrement(o, p, q)
    \/ RecordInsufficient(o, p, q)
    \/ RecordNotFound(o, p, q)

(* Fault: the restock is lost, the row is marked all the same.             *)
ReleaseStockForgotten(o) ==
    /\ IsHeld(ledger[o])
    /\ ledger' = [ledger EXCEPT ![o].state = "RELEASED"]
    /\ UNCHANGED stock

(* POST /stock-decrements/:orderId/release of a held decrement.            *)
ReleaseStock(o) ==
    /\ IsHeld(ledger[o])
    /\ stock' = [stock EXCEPT ![ledger[o].product] = @ + ledger[o].quantity]
    /\ ledger' = [ledger EXCEPT ![o].state = "RELEASED"]

(* What the two endpoints answer once the row is row.                      *)
DecrementReply(row) == IF IsReleased(row) THEN "ALREADY_RELEASED" ELSE row.outcome

ReleaseReply(row) ==
    CASE row = NoRow -> "NOT_RECORDED"
      [] row # NoRow /\ row.outcome # "DECREMENTED" -> "NOT_RELEASABLE"
      [] OTHER -> "RELEASED"

Next ==
    \E o \in Orders :
        \/ \E p \in ProductIds, q \in Quantities : DecrementStock(o, p, q)
        \/ ReleaseStock(o)

Spec == Init /\ [][Next]_vars

-----------------------------------------------------------------------------
(* The columns hold values of their types; stock never goes below zero and  *)
(* giving units back never overflows its INTEGER column.                    *)
TypeOK ==
    /\ stock \in [Products -> 0..MaxInt]
    /\ ledger \in [Orders -> LedgerRow \cup {NoRow}]

(* The single units of product p that live decrements hold: unit k of the  *)
(* order o, for k up to the recorded quantity.                             *)
HeldUnits(p) ==
    UNION {{o} \X (1..ledger[o].quantity) :
             o \in {x \in Orders : IsHeld(ledger[x]) /\ ledger[x].product = p}}

(* No unit is lost or made up: what the shelf misses from the seed is what  *)
(* the recorded, unreleased decrements hold, whatever was replayed,         *)
(* rejected or released in between.                                         *)
StockConserved ==
    \A p \in Products :
        /\ IsFiniteSet(HeldUnits(p))
        /\ stock[p] + Cardinality(HeldUnits(p)) = InitialStock[p]

(* A recorded INSUFFICIENT_STOCK, which every retry of that order replays   *)
(* for ever, stays justified: unless somebody released units of the         *)
(* product, there still is not enough of it.                                *)
RejectionsJustified ==
    \A o \in Orders :
        (ledger[o] # NoRow /\ ledger[o].outcome = "INSUFFICIENT_STOCK")
            => \/ stock[ledger[o].product] < ledger[o].quantity
               \/ Refilled(ledger[o].product)

(* A row is written once: afterwards it is never deleted or re-evaluated,   *)
(* and the only column that ever changes is the state of a decrement,       *)
(* from RECORDED to RELEASED ("at most once ever", "exactly once ever").    *)
LedgerFinal ==
    [][\A o \in Orders :
          ledger[o] # NoRow =>
              \/ ledger'[o] = ledger[o]
              \/ /\ IsHeld(ledger[o])
                 /\ ledger'[o] = [ledger[o] EXCEPT !.state = "RELEASED"]]_vars

=============================================================================
