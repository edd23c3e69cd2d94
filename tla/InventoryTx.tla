----------------------------- MODULE InventoryTx -----------------------------
(***************************************************************************)
(* The two transactions of shopflow-inventory statement by statement, as    *)
(* PostgreSQL runs them concurrently under READ COMMITTED: the lock on the   *)
(* hash of the order id, the lock on the product row that the guarded        *)
(* updates wait for, the primary key of the ledger, and the commit. Every    *)
(* commit is shown to be a step of module Inventory.                         *)
(*                                                                         *)
(* SELECT ... FOR UPDATE of the ledger row never waits: whoever locks or      *)
(* writes the row of an order holds the lock on its hash first.             *)
(***************************************************************************)
EXTENDS Integers, FiniteSets

CONSTANTS
    Orders, ProductIds, Products, Price, InitialStock, MaxInt,   \* see Inventory
    Calls,        \* HTTP calls: decrements and releases, repeated ones included
    KindOf,       \* "decrement" or "release"
    OrderOf, ProductOf, QuantityOf,
    HashOf,       \* hashtext of an order id; different ids may collide
    MaxFaults,    \* bound of the model: transactions that fail or lose their answer
    NULL

Quantities == {QuantityOf[c] : c \in Calls}
Hashes == {HashOf[o] : o \in Orders}

VARIABLES
    stock, ledger,   \* the committed rows
    hashLock,        \* per hash: the transaction that holds the advisory lock
    rowLock,         \* per product: the transaction with an uncommitted update of it
    pc,              \* per call: its next statement
    newRow,          \* per call: the ledger row it has written, not yet committed
    newStock,        \* per call: the stock it has written, not yet committed
    reply,           \* per call: what it is going to answer, or has answered
    faultsLeft

rows == <<stock, ledger>>
vars == <<stock, ledger, hashLock, rowLock, pc, newRow, newStock, reply, faultsLeft>>

Inv == INSTANCE Inventory WITH NoRow <- NULL

ASSUME TxAssumption ==
    /\ Inv!InventoryAssumption
    /\ KindOf \in [Calls -> {"decrement", "release"}]
    /\ OrderOf \in [Calls -> Orders]
    /\ ProductOf \in [Calls -> ProductIds]
    /\ MaxFaults \in Nat
    /\ NULL \notin Calls \cup Nat

Init ==
    /\ Inv!Init
    /\ hashLock = [h \in Hashes |-> NULL]
    /\ rowLock = [p \in Products |-> NULL]
    /\ pc = [c \in Calls |-> "lock"]
    /\ newRow = [c \in Calls |-> NULL]
    /\ newStock = [c \in Calls |-> NULL]
    /\ reply = [c \in Calls |-> NULL]
    /\ faultsLeft = MaxFaults

GoTo(c, label) == pc' = [pc EXCEPT ![c] = label]

Held(c) == ledger[OrderOf[c]]

-----------------------------------------------------------------------------
(* BEGIN and pg_advisory_xact_lock(hashtext(order id)).                      *)
AcquireOrderLock(c) ==
    /\ pc[c] = "lock"
    /\ hashLock[HashOf[OrderOf[c]]] = NULL
    /\ hashLock' = [hashLock EXCEPT ![HashOf[OrderOf[c]]] = c]
    /\ GoTo(c, "find")
    /\ UNCHANGED <<rows, rowLock, newRow, newStock, reply, faultsLeft>>

(* Fault: a released decrement is replayed like any recorded one.            *)
FindReplaysReleased(c) ==
    /\ pc[c] = "find" /\ KindOf[c] = "decrement"
    /\ \/ /\ Held(c) # NULL
          /\ reply' = [reply EXCEPT ![c] = Held(c).outcome]
          /\ GoTo(c, "commit")
       \/ /\ Held(c) = NULL
          /\ GoTo(c, "product")
          /\ UNCHANGED reply
    /\ UNCHANGED <<rows, hashLock, rowLock, newRow, newStock, faultsLeft>>

(* findForUpdate of a decrement: a known order id is replayed.               *)
FindRecorded(c) ==
    /\ pc[c] = "find" /\ KindOf[c] = "decrement"
    /\ \/ /\ Held(c) # NULL
          /\ reply' = [reply EXCEPT ![c] =
                IF Inv!IsReleased(Held(c)) THEN "ALREADY_RELEASED" ELSE Held(c).outcome]
          /\ GoTo(c, IF Inv!IsReleased(Held(c)) THEN "rollback" ELSE "commit")
       \/ /\ Held(c) = NULL
          /\ GoTo(c, "product")
          /\ UNCHANGED reply
    /\ UNCHANGED <<rows, hashLock, rowLock, newRow, newStock, faultsLeft>>

(* findForUpdate of a release: only a held decrement is released.            *)
FindReleasable(c) ==
    /\ pc[c] = "find" /\ KindOf[c] = "release"
    /\ \/ /\ Held(c) = NULL
          /\ reply' = [reply EXCEPT ![c] = "NOT_RECORDED"]
          /\ GoTo(c, "rollback")
       \/ /\ Held(c) # NULL /\ Held(c).outcome # "DECREMENTED"
          /\ reply' = [reply EXCEPT ![c] = "NOT_RELEASABLE"]
          /\ GoTo(c, "rollback")
       \/ /\ Inv!IsReleased(Held(c))
          /\ reply' = [reply EXCEPT ![c] = "RELEASED"]
          /\ GoTo(c, "commit")
       \/ /\ Inv!IsHeld(Held(c))
          /\ GoTo(c, "release")
          /\ UNCHANGED reply
    /\ UNCHANGED <<rows, hashLock, rowLock, newRow, newStock, faultsLeft>>

FindProduct(c) ==
    /\ pc[c] = "product"
    /\ \/ /\ ProductOf[c] \in Products
          /\ GoTo(c, "update")
          /\ UNCHANGED newRow
       \/ /\ ProductOf[c] \notin Products
          /\ newRow' = [newRow EXCEPT ![c] =
                Inv!Rejection(ProductOf[c], QuantityOf[c], "NOT_FOUND")]
          /\ GoTo(c, "insert")
    /\ UNCHANGED <<rows, hashLock, rowLock, newStock, reply, faultsLeft>>

(* Fault: the new stock is computed from a plain SELECT, waiting for nobody.  *)
DecrementUnlocked(c) ==
    /\ pc[c] = "update" /\ QuantityOf[c] <= MaxInt
    /\ stock[ProductOf[c]] >= QuantityOf[c]
    /\ newStock' = [newStock EXCEPT ![c] = stock[ProductOf[c]] - QuantityOf[c]]
    /\ newRow' = [newRow EXCEPT ![c] =
          Inv!Decrement(ProductOf[c], QuantityOf[c], stock[ProductOf[c]] - QuantityOf[c])]
    /\ GoTo(c, "insert")
    /\ UNCHANGED <<rows, hashLock, rowLock, reply, faultsLeft>>

(* UPDATE products ... AND stock >= $2 matches: it waits for the transaction  *)
(* that holds the row and evaluates its guard against what that one left.    *)
DecrementMatches(c) ==
    /\ pc[c] = "update" /\ QuantityOf[c] <= MaxInt
    /\ rowLock[ProductOf[c]] = NULL
    /\ stock[ProductOf[c]] >= QuantityOf[c]
    /\ rowLock' = [rowLock EXCEPT ![ProductOf[c]] = c]
    /\ newStock' = [newStock EXCEPT ![c] = stock[ProductOf[c]] - QuantityOf[c]]
    /\ newRow' = [newRow EXCEPT ![c] =
          Inv!Decrement(ProductOf[c], QuantityOf[c], stock[ProductOf[c]] - QuantityOf[c])]
    /\ GoTo(c, "insert")
    /\ UNCHANGED <<rows, hashLock, reply, faultsLeft>>

(* It matches no row: nothing is locked, and a committed row that is short    *)
(* is not waited for.                                                       *)
DecrementMissesRow(c) ==
    /\ pc[c] = "update" /\ QuantityOf[c] <= MaxInt
    /\ stock[ProductOf[c]] < QuantityOf[c]
    /\ newRow' = [newRow EXCEPT ![c] =
          Inv!Rejection(ProductOf[c], QuantityOf[c], "INSUFFICIENT_STOCK")]
    /\ GoTo(c, "insert")
    /\ UNCHANGED <<rows, hashLock, rowLock, newStock, reply, faultsLeft>>

(* INSERT INTO stock_decrements: an uncommitted row of the same order id is   *)
(* waited for.                                                              *)
Insert(c) ==
    /\ pc[c] = "insert"
    /\ Held(c) = NULL
    /\ newRow[c].total <= MaxInt /\ QuantityOf[c] <= MaxInt
    /\ \A d \in Calls \ {c} : pc[d] = "commit" /\ OrderOf[d] = OrderOf[c] => newRow[d] = NULL
    /\ reply' = [reply EXCEPT ![c] = newRow[c].outcome]
    /\ GoTo(c, "commit")
    /\ UNCHANGED <<rows, hashLock, rowLock, newRow, newStock, faultsLeft>>

(* The guarded release, one statement: the ledger row and the product.        *)
Release(c) ==
    /\ pc[c] = "release"
    /\ LET p == Held(c).product IN
         /\ rowLock[p] = NULL
         /\ rowLock' = [rowLock EXCEPT ![p] = c]
         /\ newStock' = [newStock EXCEPT ![c] = stock[p] + Held(c).quantity]
    /\ newRow' = [newRow EXCEPT ![c] = [Held(c) EXCEPT !.state = "RELEASED"]]
    /\ reply' = [reply EXCEPT ![c] = "RELEASED"]
    /\ GoTo(c, "commit")
    /\ UNCHANGED <<rows, hashLock, faultsLeft>>

-----------------------------------------------------------------------------
(* The end of a transaction: its locks and uncommitted rows are gone.         *)
End(c) ==
    /\ GoTo(c, "done")
    /\ hashLock' = [h \in Hashes |-> IF hashLock[h] = c THEN NULL ELSE hashLock[h]]
    /\ rowLock' = [p \in Products |-> IF rowLock[p] = c THEN NULL ELSE rowLock[p]]
    /\ newRow' = [newRow EXCEPT ![c] = NULL]
    /\ newStock' = [newStock EXCEPT ![c] = NULL]

Publish(c) ==
    /\ ledger' = IF newRow[c] = NULL THEN ledger
                 ELSE [ledger EXCEPT ![OrderOf[c]] = newRow[c]]
    /\ stock' = IF newStock[c] = NULL THEN stock
                ELSE [stock EXCEPT ![newRow[c].product] = newStock[c]]

Commit(c) ==
    /\ pc[c] = "commit"
    /\ Publish(c)
    /\ End(c)
    /\ UNCHANGED <<reply, faultsLeft>>

(* The answer of StockService is an exception: nothing was written.           *)
Refuse(c) ==
    /\ pc[c] = "rollback"
    /\ End(c)
    /\ UNCHANGED <<rows, reply, faultsLeft>>

(* A value out of the range of its column, or a duplicate primary key.        *)
StatementFails(c) ==
    /\ \/ pc[c] = "update" /\ QuantityOf[c] > MaxInt
       \/ pc[c] = "insert" /\ \/ QuantityOf[c] > MaxInt \/ newRow[c].total > MaxInt
                              \/ Held(c) # NULL
    /\ End(c)
    /\ reply' = [reply EXCEPT ![c] = "ERROR"]
    /\ UNCHANGED <<rows, faultsLeft>>

(* The session or the service dies before the commit, or the commit takes     *)
(* effect and nobody hears of it.                                           *)
Fails(c) ==
    /\ pc[c] \notin {"lock", "done"}
    /\ faultsLeft > 0
    /\ faultsLeft' = faultsLeft - 1
    /\ \/ UNCHANGED rows
       \/ pc[c] = "commit" /\ Publish(c)
    /\ End(c)
    /\ reply' = [reply EXCEPT ![c] = "ERROR"]

AllAnswered ==
    /\ \A c \in Calls : pc[c] = "done"
    /\ UNCHANGED vars

Next ==
    \/ \E c \in Calls :
          \/ AcquireOrderLock(c) \/ FindRecorded(c) \/ FindReleasable(c) \/ FindProduct(c)
          \/ DecrementMatches(c) \/ DecrementMissesRow(c) \/ Insert(c) \/ Release(c)
          \/ Commit(c) \/ Refuse(c) \/ StatementFails(c) \/ Fails(c)
    \/ AllAnswered

Spec == Init /\ [][Next]_vars

-----------------------------------------------------------------------------
TypeOK ==
    /\ Inv!TypeOK
    /\ hashLock \in [Hashes -> Calls \cup {NULL}]
    /\ rowLock \in [Products -> Calls \cup {NULL}]
    /\ pc \in [Calls -> {"lock", "find", "product", "update", "insert", "release", "commit",
                        "rollback", "done"}]
    /\ newRow \in [Calls -> Inv!LedgerRow \cup {NULL}]
    /\ newStock \in [Calls -> 0..MaxInt \cup {NULL}]
    /\ reply \in [Calls -> Inv!Outcomes \cup {"ALREADY_RELEASED", "RELEASED", "NOT_RECORDED",
                                             "NOT_RELEASABLE", "ERROR", NULL}]
    /\ faultsLeft \in 0..MaxFaults

(* However the statements of concurrent transactions interleave, whatever     *)
(* hashes collide and wherever a transaction dies, what gets committed is a   *)
(* sequence of whole decrements and releases.                               *)
ImplementsInventory == Inv!Spec

(* What a call answers is what the ledger says at the moment its transaction  *)
(* ends: a caller may treat the call as one atomic step.                     *)
AnswersCurrent ==
    [][\A c \in Calls :
          (pc[c] # "done" /\ pc'[c] = "done" /\ reply'[c] # "ERROR") =>
              reply'[c] = IF KindOf[c] = "decrement"
                          THEN Inv!DecrementReply(ledger'[OrderOf[c]])
                          ELSE Inv!ReleaseReply(ledger'[OrderOf[c]])]_vars
=============================================================================
