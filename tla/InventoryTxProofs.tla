--------------------------- MODULE InventoryTxProofs ---------------------------
(***************************************************************************)
(* Theorems about InventoryTx, for any number of calls, orders and products   *)
(* and any collisions of the hashes. What a transaction has read or computed  *)
(* is still what is committed when it commits: the hash lock keeps the ledger *)
(* row of its order, the row lock keeps the stock it has updated, and a       *)
(* rejection, which locks no product, can only be overtaken by a release.     *)
(***************************************************************************)
EXTENDS InventoryTx, TLAPS

Ledger == INSTANCE InventoryProofs WITH NoRow <- NULL

(* A held decrement is of a product of the catalogue.                        *)
HeldProducts == \A o \in Orders : Inv!IsHeld(ledger[o]) => ledger[o].product \in Products

Locked(c) == hashLock[HashOf[OrderOf[c]]] = c

(* The three kinds of row a transaction writes before it commits. What each   *)
(* was derived from is still what is committed: the hash lock keeps the       *)
(* ledger row, the row lock the stock; a rejection holds neither the stock     *)
(* nor needs it, for only a release can refill the product.                  *)
Decrements(c) ==
    LET p == ProductOf[c] IN
    /\ KindOf[c] = "decrement" /\ Held(c) = NULL
    /\ p \in Products /\ rowLock[p] = c /\ stock[p] >= QuantityOf[c]
    /\ newStock[c] = stock[p] - QuantityOf[c]
    /\ newRow[c] = Inv!Decrement(p, QuantityOf[c], newStock[c])

Rejects(c) ==
    LET p == ProductOf[c] IN
    /\ KindOf[c] = "decrement" /\ Held(c) = NULL
    /\ newStock[c] = NULL
    /\ \/ /\ p \in Products
          /\ stock[p] < QuantityOf[c] \/ Inv!Refilled(p)
          /\ newRow[c] = Inv!Rejection(p, QuantityOf[c], "INSUFFICIENT_STOCK")
       \/ /\ p \notin Products
          /\ newRow[c] = Inv!Rejection(p, QuantityOf[c], "NOT_FOUND")

Releases(c) ==
    LET p == Held(c).product IN
    /\ KindOf[c] = "release" /\ Inv!IsHeld(Held(c))
    /\ rowLock[p] = c
    /\ newStock[c] = stock[p] + Held(c).quantity
    /\ newRow[c] = [Held(c) EXCEPT !.state = "RELEASED"]

Writes(c) == Decrements(c) \/ Rejects(c) \/ Releases(c)

(* What an answer says of the ledger row that the transaction leaves.         *)
Answer(c, row) ==
    IF KindOf[c] = "decrement" THEN Inv!DecrementReply(row) ELSE Inv!ReleaseReply(row)

CallTrue(c) ==
    /\ pc[c] \notin {"lock", "done"} => Locked(c)
    /\ pc[c] \notin {"insert", "commit"} => newRow[c] = NULL /\ newStock[c] = NULL
    /\ pc[c] \in {"product", "update"} => KindOf[c] = "decrement" /\ Held(c) = NULL
    /\ pc[c] = "update" => ProductOf[c] \in Products
    /\ pc[c] = "insert" => newRow[c] # NULL /\ KindOf[c] = "decrement"
    /\ pc[c] = "release" => KindOf[c] = "release" /\ Inv!IsHeld(Held(c))
    /\ IF newRow[c] = NULL THEN newStock[c] = NULL ELSE Writes(c)
    /\ pc[c] = "commit" /\ newRow[c] # NULL /\ KindOf[c] = "decrement" =>
          newRow[c].total <= MaxInt /\ QuantityOf[c] <= MaxInt
    /\ pc[c] \in {"commit", "rollback"} =>
          reply[c] = Answer(c, IF newRow[c] = NULL THEN Held(c) ELSE newRow[c])

CallsTrue == \A c \in Calls : CallTrue(c)

IInv ==
    /\ TypeOK /\ Inv!StockConserved /\ HeldProducts
    /\ CallsTrue

-----------------------------------------------------------------------------
(* Inventory.                                                                *)

LEMMA Constants ==
    /\ Ledger!InventoryAssumption
    /\ \A c \in Calls :
          /\ OrderOf[c] \in Orders /\ ProductOf[c] \in ProductIds /\ QuantityOf[c] \in Quantities
          /\ HashOf[OrderOf[c]] \in Hashes /\ QuantityOf[c] \in Nat /\ QuantityOf[c] > 0
          /\ KindOf[c] \in {"decrement", "release"} /\ c # NULL
    /\ \A row \in Inv!LedgerRow : row # NULL
    /\ \A n \in Nat : n # NULL
    /\ MaxInt \in Nat /\ Products \subseteq ProductIds
<1>1. Ledger!InventoryAssumption
  BY TxAssumption
     DEF Ledger!InventoryAssumption, Inv!InventoryAssumption, Ledger!LedgerRow, Inv!LedgerRow,
         Ledger!Outcomes, Inv!Outcomes
<1>2. ASSUME NEW c \in Calls
      PROVE  QuantityOf[c] \in Quantities /\ QuantityOf[c] \in Nat /\ QuantityOf[c] > 0
  <2>1. QuantityOf[c] \in Quantities
    BY DEF Quantities
  <2>2. Quantities \subseteq Nat \ {0}
    BY TxAssumption DEF Inv!InventoryAssumption
  <2>3. QuantityOf[c] \in Nat \ {0}
    BY <2>1, <2>2
  <2>4. \A n \in Nat \ {0} : n \in Nat /\ n > 0
    OBVIOUS
  <2> QED
    BY <2>1, <2>3, <2>4
<1> QED
  BY <1>1, <1>2, TxAssumption DEF Hashes, Inv!InventoryAssumption

(* The theorems of InventoryProofs speak of a ledger by another name.         *)
LEMMA SameInventory ==
    /\ Inv!Init <=> Ledger!Init
    /\ [Inv!Next]_(Inv!vars) => [Ledger!Next]_(Ledger!vars)
    /\ Inv!TypeOK /\ Inv!StockConserved <=> Ledger!IInv
    /\ Inv!TypeOK' /\ Inv!StockConserved' <=> Ledger!IInv'
<1>1. Inv!Next <=> Ledger!Next
  BY DEF Inv!Next, Ledger!Next, Inv!DecrementStock, Ledger!DecrementStock,
         Inv!RecordDecrement, Ledger!RecordDecrement,
         Inv!RecordInsufficient, Ledger!RecordInsufficient,
         Inv!RecordNotFound, Ledger!RecordNotFound, Inv!ReleaseStock, Ledger!ReleaseStock,
         Inv!Refilled, Ledger!Refilled, Inv!IsReleased, Ledger!IsReleased,
         Inv!IsHeld, Ledger!IsHeld, Inv!Rejection, Ledger!Rejection,
         Inv!Decrement, Ledger!Decrement
<1>2. Inv!vars = Ledger!vars /\ Inv!vars' = Ledger!vars'
  BY DEF Inv!vars, Ledger!vars
<1>3. /\ Inv!TypeOK <=> Ledger!TypeOK
      /\ Inv!TypeOK' <=> Ledger!TypeOK'
  BY DEF Inv!TypeOK, Ledger!TypeOK, Inv!LedgerRow, Ledger!LedgerRow, Inv!Outcomes, Ledger!Outcomes
<1>4. \A p : Inv!HeldUnits(p) = Ledger!HeldUnits(p) /\ Inv!HeldUnits(p)' = Ledger!HeldUnits(p)'
  BY Zenon DEF Inv!HeldUnits, Ledger!HeldUnits, Inv!IsHeld, Ledger!IsHeld
<1>8. \A S : Inv!IsFiniteSet(S) = Ledger!IsFiniteSet(S) /\ Inv!Cardinality(S) = Ledger!Cardinality(S)
  BY DEF Inv!IsFiniteSet, Ledger!IsFiniteSet, Inv!Cardinality, Ledger!Cardinality
<1>5. /\ Inv!StockConserved <=> Ledger!StockConserved
      /\ Inv!StockConserved' <=> Ledger!StockConserved'
  BY <1>4, <1>8 DEF Inv!StockConserved, Ledger!StockConserved
<1>6. Inv!Init <=> Ledger!Init
  BY DEF Inv!Init, Ledger!Init
<1>7. [Inv!Next]_(Inv!vars) => [Ledger!Next]_(Ledger!vars)
  BY <1>1, <1>2
<1> QED
  BY <1>3, <1>5, <1>6, <1>7 DEF Ledger!IInv

(* A step of inventory keeps its types and its units.                        *)
LEMMA InventoryKeeps ==
    Inv!TypeOK /\ Inv!StockConserved /\ [Inv!Next]_(Inv!vars)
        => Inv!TypeOK' /\ Inv!StockConserved'
<1> SUFFICES ASSUME Inv!TypeOK, Inv!StockConserved, [Inv!Next]_(Inv!vars)
             PROVE  Inv!TypeOK' /\ Inv!StockConserved'
  OBVIOUS
<1>1. Ledger!IInv /\ [Ledger!Next]_(Ledger!vars)
  BY SameInventory
<1>2. Ledger!IInv'
  BY <1>1, Constants, Ledger!StepIInv
<1> QED
  BY <1>2, SameInventory

(* The rows a call may write have the columns of the ledger.                 *)
LEMMA RowTypes ==
    ASSUME NEW c \in Calls
    PROVE  /\ Inv!Rejection(ProductOf[c], QuantityOf[c], "INSUFFICIENT_STOCK") \in Inv!LedgerRow
           /\ Inv!Rejection(ProductOf[c], QuantityOf[c], "NOT_FOUND") \in Inv!LedgerRow
           /\ ProductOf[c] \in Products =>
                 \A left \in Nat :
                    Inv!Decrement(ProductOf[c], QuantityOf[c], left) \in Inv!LedgerRow
<1>1. Inv!LedgerRow = Ledger!LedgerRow
  BY DEF Inv!LedgerRow, Ledger!LedgerRow, Inv!Outcomes, Ledger!Outcomes
<1> QED
  BY <1>1, Constants, Ledger!RowTypes
     DEF Inv!Rejection, Ledger!Rejection, Inv!Decrement, Ledger!Decrement

(* What a release would give back fits the column of stock.                  *)
LEMMA ReleaseFits ==
    ASSUME Inv!TypeOK, Inv!StockConserved, NEW o \in Orders, Inv!IsHeld(ledger[o]),
           ledger[o].product \in Products
    PROVE  stock[ledger[o].product] + ledger[o].quantity \in 0..MaxInt
<1>1. Ledger!IInv /\ Ledger!IsHeld(ledger[o])
  BY SameInventory DEF Inv!IsHeld, Ledger!IsHeld
<1> QED
  BY <1>1, Constants, Ledger!HeldUnitsFit

-----------------------------------------------------------------------------
(* Steps that publish nothing.                                               *)

(* c leaves the others alone, and no lock of theirs is taken from them.       *)
OthersWait(c) ==
    \A d \in Calls \ {c} :
        /\ pc'[d] = pc[d] /\ newRow'[d] = newRow[d] /\ newStock'[d] = newStock[d]
        /\ reply'[d] = reply[d]
        /\ \A h \in Hashes : hashLock[h] = d => hashLock'[h] = d
        /\ \A p \in Products : rowLock[p] = d => rowLock'[p] = d

LEMMA WaitingStaysTrue ==
    ASSUME IInv, NEW c \in Calls, NEW d \in Calls, d # c, OthersWait(c), UNCHANGED rows
    PROVE  CallTrue(d)'
<1>1. /\ CallTrue(d) /\ UNCHANGED <<stock, ledger>>
      /\ pc'[d] = pc[d] /\ newRow'[d] = newRow[d] /\ newStock'[d] = newStock[d]
      /\ reply'[d] = reply[d]
  BY DEF IInv, CallsTrue, OthersWait, rows
<1>2. Locked(d) => Locked(d)'
  BY Constants DEF OthersWait, Locked
<1>3. /\ Held(d)' = Held(d) /\ (Inv!IsHeld(Held(d)) <=> Inv!IsHeld(Held(d))')
      /\ \A p : Inv!Refilled(p) <=> Inv!Refilled(p)'
  BY <1>1 DEF Held, Inv!IsHeld, Inv!Refilled, Inv!IsReleased
<1>4. Writes(d) => Writes(d)'
  <2>1. Decrements(d) => Decrements(d)'
    BY <1>1, <1>3 DEF Decrements, OthersWait
  <2>2. Rejects(d) => Rejects(d)'
    BY <1>1, <1>3 DEF Rejects
  <2>3. Releases(d) => Releases(d)'
    <3>1. Inv!IsHeld(Held(d)) => Held(d).product \in Products
      BY Constants DEF IInv, HeldProducts, Held
    <3> QED
      BY <1>1, <1>3, <3>1 DEF Releases, OthersWait
  <2> QED
    BY <2>1, <2>2, <2>3 DEF Writes
<1>5. Answer(d, IF newRow[d] = NULL THEN Held(d) ELSE newRow[d])'
          = Answer(d, IF newRow[d] = NULL THEN Held(d) ELSE newRow[d])
  BY <1>1, <1>3 DEF Answer, Inv!DecrementReply, Inv!ReleaseReply, Inv!IsReleased
<1> QED
  BY <1>1, <1>2, <1>3, <1>4, <1>5 DEF CallTrue

LEMMA QuietStepKeeps ==
    ASSUME IInv, NEW c \in Calls, OthersWait(c), UNCHANGED rows, TypeOK', CallTrue(c)'
    PROVE  IInv'
<1>1. Inv!StockConserved'
  BY InventoryKeeps DEF IInv, TypeOK, rows, Inv!vars
<1>2. HeldProducts'
  BY DEF IInv, HeldProducts, rows, Inv!IsHeld
<1>3. CallsTrue'
  BY WaitingStaysTrue DEF CallsTrue
<1> QED
  BY <1>1, <1>2, <1>3 DEF IInv

-----------------------------------------------------------------------------
(* The statements of a transaction.                                          *)

LEMMA AcquireOrderLockKeeps ==
    ASSUME IInv, NEW c \in Calls, AcquireOrderLock(c) PROVE IInv'
<1>1. /\ hashLock' = [hashLock EXCEPT ![HashOf[OrderOf[c]]] = c]
      /\ hashLock[HashOf[OrderOf[c]]] = NULL
      /\ pc' = [pc EXCEPT ![c] = "find"] /\ pc[c] = "lock"
      /\ UNCHANGED <<stock, ledger, rowLock, newRow, newStock, reply, faultsLeft>>
  BY DEF AcquireOrderLock, GoTo, rows
<1>2. TypeOK'
  BY <1>1 DEF IInv, TypeOK, Inv!TypeOK
<1>3. OthersWait(c) /\ pc'[c] = "find"
  BY <1>1, Constants DEF IInv, TypeOK, OthersWait
<1>4. Locked(c)'
  BY <1>1, Constants DEF Locked, IInv, TypeOK
<1>5. newRow'[c] = NULL /\ newStock'[c] = NULL
  BY <1>1 DEF IInv, CallsTrue, CallTrue
<1>6. CallTrue(c)'
  BY <1>3, <1>4, <1>5 DEF CallTrue
<1> QED
  BY <1>1, <1>2, <1>3, <1>6, QuietStepKeeps DEF rows

(* A step of a running transaction that takes no lock.                        *)
LEMMA UnlockedStep ==
    ASSUME IInv, NEW c \in Calls, UNCHANGED <<rows, hashLock, rowLock>>,
           \A d \in Calls \ {c} : /\ pc'[d] = pc[d] /\ newRow'[d] = newRow[d]
                                  /\ newStock'[d] = newStock[d] /\ reply'[d] = reply[d]
    PROVE  OthersWait(c) /\ UNCHANGED <<stock, ledger>> /\ (Locked(c) => Locked(c)')
           /\ Held(c)' = Held(c)
BY DEF OthersWait, rows, Locked, Held

LEMMA FindRecordedKeeps ==
    ASSUME IInv, NEW c \in Calls, FindRecorded(c) PROVE IInv'
<1>1. CallTrue(c) /\ pc[c] = "find" /\ KindOf[c] = "decrement"
      /\ UNCHANGED <<rows, hashLock, rowLock, newRow, newStock, faultsLeft>>
  BY DEF FindRecorded, IInv, CallsTrue
<1>2. newRow'[c] = NULL /\ newStock'[c] = NULL
  BY <1>1 DEF CallTrue
<1>3. CASE Held(c) = NULL
  <2>1. pc' = [pc EXCEPT ![c] = "product"] /\ reply' = reply
    BY <1>3 DEF FindRecorded, GoTo
  <2>2. TypeOK' /\ pc'[c] = "product" /\ \A d \in Calls \ {c} : pc'[d] = pc[d]
    BY <1>1, <2>1 DEF rows, IInv, TypeOK, Inv!TypeOK
  <2>3. OthersWait(c) /\ Held(c)' = Held(c) /\ (Locked(c) => Locked(c)')
    BY <1>1, <2>1, <2>2, UnlockedStep
  <2>4. CallTrue(c)'
    BY <1>1, <1>2, <1>3, <2>2, <2>3 DEF CallTrue
  <2> QED
    BY <1>1, <2>2, <2>3, <2>4, QuietStepKeeps
<1>4. CASE Held(c) # NULL
  <2> DEFINE said == Inv!DecrementReply(Held(c))
             label == IF Inv!IsReleased(Held(c)) THEN "rollback" ELSE "commit"
  <2>1. pc' = [pc EXCEPT ![c] = label] /\ reply' = [reply EXCEPT ![c] = said]
    BY <1>4 DEF FindRecorded, GoTo, Inv!DecrementReply
  <2>2. said \in Inv!Outcomes \cup {"ALREADY_RELEASED"}
    <3>1. Held(c) \in Inv!LedgerRow
      BY <1>4, Constants DEF Held, IInv, TypeOK, Inv!TypeOK
    <3> QED
      BY <3>1 DEF Inv!DecrementReply, Inv!LedgerRow
  <2>3. label \in {"rollback", "commit"}
    OBVIOUS
  <2> HIDE DEF said, label
  <2>4. TypeOK' /\ pc'[c] = label /\ reply'[c] = said
        /\ \A d \in Calls \ {c} : pc'[d] = pc[d] /\ reply'[d] = reply[d]
    BY <1>1, <2>1, <2>2, <2>3 DEF rows, IInv, TypeOK, Inv!TypeOK
  <2>5. OthersWait(c) /\ Held(c)' = Held(c) /\ (Locked(c) => Locked(c)')
    BY <1>1, <2>4, UnlockedStep
  <2>6. reply'[c] = Answer(c, Held(c))'
    BY <1>1, <2>4, <2>5 DEF said, Answer, Inv!DecrementReply, Inv!IsReleased
  <2>7. CallTrue(c)'
    BY <1>1, <1>2, <2>3, <2>4, <2>5, <2>6 DEF CallTrue
  <2> QED
    BY <1>1, <2>4, <2>5, <2>7, QuietStepKeeps
<1> QED
  BY <1>3, <1>4

LEMMA FindReleasableKeeps ==
    ASSUME IInv, NEW c \in Calls, FindReleasable(c) PROVE IInv'
<1>1. CallTrue(c) /\ pc[c] = "find" /\ KindOf[c] = "release"
      /\ UNCHANGED <<rows, hashLock, rowLock, newRow, newStock, faultsLeft>>
  BY DEF FindReleasable, IInv, CallsTrue
<1>2. newRow'[c] = NULL /\ newStock'[c] = NULL
  BY <1>1 DEF CallTrue
<1>3. CASE pc' = [pc EXCEPT ![c] = "release"] /\ reply' = reply /\ Inv!IsHeld(Held(c))
  <2>1. TypeOK' /\ pc'[c] = "release" /\ \A d \in Calls \ {c} : pc'[d] = pc[d]
    BY <1>1, <1>3 DEF rows, IInv, TypeOK, Inv!TypeOK
  <2>2. OthersWait(c) /\ Held(c)' = Held(c) /\ (Locked(c) => Locked(c)')
    BY <1>1, <1>3, <2>1, UnlockedStep
  <2>3. CallTrue(c)'
    BY <1>1, <1>2, <1>3, <2>1, <2>2 DEF CallTrue, Inv!IsHeld
  <2> QED
    BY <1>1, <2>1, <2>2, <2>3, QuietStepKeeps
<1>4. ASSUME NEW said \in {"NOT_RECORDED", "NOT_RELEASABLE", "RELEASED"},
             NEW label \in {"rollback", "commit"}, said = Inv!ReleaseReply(Held(c)),
             pc' = [pc EXCEPT ![c] = label], reply' = [reply EXCEPT ![c] = said]
      PROVE  IInv'
  <2>1. TypeOK' /\ pc'[c] = label /\ reply'[c] = said
        /\ \A d \in Calls \ {c} : pc'[d] = pc[d] /\ reply'[d] = reply[d]
    BY <1>1, <1>4 DEF rows, IInv, TypeOK, Inv!TypeOK
  <2>2. OthersWait(c) /\ Held(c)' = Held(c) /\ (Locked(c) => Locked(c)')
    BY <1>1, <2>1, UnlockedStep
  <2>3. reply'[c] = Answer(c, Held(c))'
    BY <1>1, <1>4, <2>1, <2>2 DEF Answer, Inv!ReleaseReply
  <2>4. CallTrue(c)'
    BY <1>1, <1>2, <2>1, <2>2, <2>3 DEF CallTrue
  <2> QED
    BY <1>1, <2>1, <2>2, <2>4, QuietStepKeeps
<1>5. CASE Held(c) = NULL
  BY <1>4, <1>5 DEF FindReleasable, GoTo, Inv!ReleaseReply, Inv!IsReleased, Inv!IsHeld
<1>6. CASE Held(c) # NULL /\ Held(c).outcome # "DECREMENTED"
  BY <1>4, <1>6 DEF FindReleasable, GoTo, Inv!ReleaseReply, Inv!IsReleased, Inv!IsHeld
<1>7. CASE Held(c) # NULL /\ Held(c).outcome = "DECREMENTED"
  BY <1>3, <1>4, <1>7 DEF FindReleasable, GoTo, Inv!ReleaseReply, Inv!IsReleased
<1> QED
  BY <1>5, <1>6, <1>7

LEMMA FindProductKeeps ==
    ASSUME IInv, NEW c \in Calls, FindProduct(c) PROVE IInv'
<1>1. /\ CallTrue(c) /\ pc[c] = "product" /\ newRow[c] = NULL /\ newStock[c] = NULL
      /\ KindOf[c] = "decrement" /\ Held(c) = NULL
      /\ UNCHANGED <<rows, hashLock, rowLock, newStock, reply, faultsLeft>>
  BY DEF FindProduct, IInv, CallsTrue, CallTrue
<1>2. CASE ProductOf[c] \in Products
  <2>1. pc' = [pc EXCEPT ![c] = "update"] /\ newRow' = newRow
    BY <1>2 DEF FindProduct, GoTo
  <2>2. TypeOK' /\ pc'[c] = "update" /\ \A d \in Calls \ {c} : pc'[d] = pc[d]
    BY <1>1, <2>1 DEF rows, IInv, TypeOK, Inv!TypeOK
  <2>3. OthersWait(c) /\ Held(c)' = Held(c) /\ (Locked(c) => Locked(c)')
    BY <1>1, <2>1, <2>2, UnlockedStep
  <2>4. CallTrue(c)'
    BY <1>1, <1>2, <2>1, <2>2, <2>3 DEF CallTrue
  <2> QED
    BY <1>1, <2>2, <2>3, <2>4, QuietStepKeeps
<1>3. CASE ProductOf[c] \notin Products
  <2> DEFINE row == Inv!Rejection(ProductOf[c], QuantityOf[c], "NOT_FOUND")
  <2>1. pc' = [pc EXCEPT ![c] = "insert"] /\ newRow' = [newRow EXCEPT ![c] = row]
    BY <1>3 DEF FindProduct, GoTo
  <2>2. row \in Inv!LedgerRow /\ row # NULL
    BY RowTypes, Constants
  <2> HIDE DEF row
  <2>3. /\ TypeOK' /\ pc'[c] = "insert" /\ newRow'[c] = row
        /\ \A d \in Calls \ {c} : pc'[d] = pc[d] /\ newRow'[d] = newRow[d]
    BY <1>1, <2>1, <2>2 DEF rows, IInv, TypeOK, Inv!TypeOK
  <2>4. OthersWait(c) /\ Held(c)' = Held(c) /\ (Locked(c) => Locked(c)')
    BY <1>1, <2>3, UnlockedStep
  <2>5. Rejects(c)'
    BY <1>1, <1>3, <2>3, <2>4 DEF Rejects, row
  <2>6. CallTrue(c)'
    BY <1>1, <2>2, <2>3, <2>4, <2>5 DEF CallTrue, Writes
  <2> QED
    BY <1>1, <2>3, <2>4, <2>6, QuietStepKeeps
<1> QED
  BY <1>2, <1>3

LEMMA DecrementMatchesKeeps ==
    ASSUME IInv, NEW c \in Calls, DecrementMatches(c) PROVE IInv'
<1> DEFINE p == ProductOf[c]
           left == stock[p] - QuantityOf[c]
           row == Inv!Decrement(p, QuantityOf[c], left)
<1>1. /\ CallTrue(c) /\ pc[c] = "update" /\ newRow[c] = NULL /\ newStock[c] = NULL
      /\ KindOf[c] = "decrement" /\ Held(c) = NULL /\ p \in Products
      /\ rowLock[p] = NULL /\ stock[p] >= QuantityOf[c]
      /\ rowLock' = [rowLock EXCEPT ![p] = c] /\ newStock' = [newStock EXCEPT ![c] = left]
      /\ newRow' = [newRow EXCEPT ![c] = row] /\ pc' = [pc EXCEPT ![c] = "insert"]
      /\ UNCHANGED <<stock, ledger, hashLock, reply, faultsLeft>>
  BY DEF DecrementMatches, GoTo, rows, IInv, CallsTrue, CallTrue
<1>2. left \in 0..MaxInt
  <2>1. stock[p] \in 0..MaxInt
    BY <1>1 DEF IInv, TypeOK, Inv!TypeOK
  <2> QED
    BY <1>1, <2>1, Constants
<1>3. row \in Inv!LedgerRow /\ row # NULL
  BY <1>1, <1>2, RowTypes, Constants
<1> HIDE DEF row, left, p
<1>4. TypeOK'
  BY <1>1, <1>2, <1>3 DEF IInv, TypeOK, Inv!TypeOK
<1>5. /\ pc'[c] = "insert" /\ newRow'[c] = row /\ newStock'[c] = left /\ rowLock'[p] = c
      /\ OthersWait(c)
  BY <1>1, Constants DEF IInv, TypeOK, OthersWait
<1>6. Decrements(c)'
  BY <1>1, <1>5 DEF Decrements, row, left, p, Held
<1>7. CallTrue(c)'
  BY <1>1, <1>3, <1>5, <1>6 DEF CallTrue, Writes, Locked
<1> QED
  BY <1>1, <1>4, <1>5, <1>7, QuietStepKeeps DEF rows

LEMMA DecrementMissesRowKeeps ==
    ASSUME IInv, NEW c \in Calls, DecrementMissesRow(c) PROVE IInv'
<1> DEFINE row == Inv!Rejection(ProductOf[c], QuantityOf[c], "INSUFFICIENT_STOCK")
<1>1. /\ CallTrue(c) /\ pc[c] = "update" /\ newRow[c] = NULL /\ newStock[c] = NULL
      /\ KindOf[c] = "decrement" /\ Held(c) = NULL
      /\ ProductOf[c] \in Products /\ stock[ProductOf[c]] < QuantityOf[c]
      /\ newRow' = [newRow EXCEPT ![c] = row] /\ pc' = [pc EXCEPT ![c] = "insert"]
      /\ UNCHANGED <<rows, hashLock, rowLock, newStock, reply, faultsLeft>>
  BY DEF DecrementMissesRow, GoTo, IInv, CallsTrue, CallTrue
<1>2. row \in Inv!LedgerRow /\ row # NULL
  BY RowTypes, Constants
<1> HIDE DEF row
<1>3. /\ TypeOK' /\ pc'[c] = "insert" /\ newRow'[c] = row
      /\ \A d \in Calls \ {c} : pc'[d] = pc[d] /\ newRow'[d] = newRow[d]
  BY <1>1, <1>2 DEF rows, IInv, TypeOK, Inv!TypeOK
<1>4. /\ OthersWait(c) /\ Held(c)' = Held(c) /\ (Locked(c) => Locked(c)')
      /\ UNCHANGED <<stock, ledger>>
  BY <1>1, <1>3, UnlockedStep
<1>5. Rejects(c)'
  BY <1>1, <1>3, <1>4 DEF Rejects, row
<1>6. CallTrue(c)'
  BY <1>1, <1>2, <1>3, <1>4, <1>5 DEF CallTrue, Writes
<1> QED
  BY <1>1, <1>3, <1>4, <1>6, QuietStepKeeps

LEMMA InsertKeeps ==
    ASSUME IInv, NEW c \in Calls, Insert(c) PROVE IInv'
<1>1. /\ CallTrue(c) /\ pc[c] = "insert" /\ newRow[c] # NULL /\ KindOf[c] = "decrement"
      /\ newRow[c].total <= MaxInt /\ QuantityOf[c] <= MaxInt
      /\ reply' = [reply EXCEPT ![c] = newRow[c].outcome] /\ pc' = [pc EXCEPT ![c] = "commit"]
      /\ UNCHANGED <<rows, hashLock, rowLock, newRow, newStock, faultsLeft>>
  BY DEF Insert, GoTo, IInv, CallsTrue, CallTrue
<1>2. newRow[c].outcome \in Inv!Outcomes
  BY <1>1 DEF IInv, TypeOK, Inv!LedgerRow
<1>3. /\ TypeOK' /\ pc'[c] = "commit" /\ reply'[c] = newRow[c].outcome
      /\ \A d \in Calls \ {c} : pc'[d] = pc[d] /\ reply'[d] = reply[d]
  BY <1>1, <1>2 DEF rows, IInv, TypeOK, Inv!TypeOK
<1>4. /\ OthersWait(c) /\ Held(c)' = Held(c) /\ (Locked(c) => Locked(c)')
      /\ UNCHANGED <<stock, ledger>>
  BY <1>1, <1>3, UnlockedStep
<1>5. Decrements(c) \/ Rejects(c)
  BY <1>1 DEF CallTrue, Writes, Releases
<1>6. Inv!DecrementReply(newRow[c]) = newRow[c].outcome
  BY <1>5 DEF Decrements, Rejects, Inv!Decrement, Inv!Rejection, Inv!DecrementReply,
              Inv!IsReleased
<1>7. Writes(c)'
  BY <1>1, <1>4, <1>5 DEF Decrements, Rejects, Writes, Inv!Refilled, Inv!IsReleased
<1>8. reply'[c] = Answer(c, newRow[c])'
  BY <1>1, <1>3, <1>6 DEF Answer, Inv!DecrementReply, Inv!IsReleased
<1>9. CallTrue(c)'
  BY <1>1, <1>3, <1>4, <1>7, <1>8 DEF CallTrue
<1> QED
  BY <1>1, <1>3, <1>4, <1>9, QuietStepKeeps

LEMMA ReleaseKeeps ==
    ASSUME IInv, NEW c \in Calls, Release(c) PROVE IInv'
<1>1. /\ CallTrue(c) /\ pc[c] = "release" /\ KindOf[c] = "release" /\ Inv!IsHeld(Held(c))
      /\ newRow[c] = NULL
  BY DEF Release, IInv, CallsTrue, CallTrue
<1>2. PICK row \in Inv!LedgerRow : row = Held(c) /\ row.product \in Products
                                   /\ row.outcome = "DECREMENTED"
  BY <1>1, Constants DEF Held, Inv!IsHeld, IInv, HeldProducts, TypeOK, Inv!TypeOK
<1> DEFINE p == row.product
           refilled == stock[p] + row.quantity
           new == [row EXCEPT !.state = "RELEASED"]
<1>3. /\ rowLock[p] = NULL /\ rowLock' = [rowLock EXCEPT ![p] = c]
      /\ newStock' = [newStock EXCEPT ![c] = refilled]
      /\ newRow' = [newRow EXCEPT ![c] = new]
      /\ reply' = [reply EXCEPT ![c] = "RELEASED"] /\ pc' = [pc EXCEPT ![c] = "commit"]
      /\ UNCHANGED <<stock, ledger, hashLock, faultsLeft>>
  BY <1>2 DEF Release, GoTo, rows
<1>4. refilled \in 0..MaxInt
  BY <1>1, <1>2, ReleaseFits, Constants DEF Held, IInv, TypeOK
<1>5. new \in Inv!LedgerRow /\ new # NULL /\ new.outcome = "DECREMENTED"
  BY <1>2, Constants DEF Inv!LedgerRow
<1>6. p \in Products
  BY <1>2
<1> HIDE DEF refilled, new, p
<1>7. TypeOK'
  BY <1>3, <1>4, <1>5 DEF IInv, TypeOK, Inv!TypeOK
<1>8. /\ pc'[c] = "commit" /\ newRow'[c] = new /\ newStock'[c] = refilled /\ rowLock'[p] = c
      /\ reply'[c] = "RELEASED" /\ OthersWait(c)
  BY <1>3, <1>6, Constants DEF IInv, TypeOK, OthersWait
<1>9. Held(c)' = row /\ Inv!IsHeld(Held(c))'
  BY <1>1, <1>2, <1>3 DEF Held, Inv!IsHeld
<1>10. Releases(c)'
  BY <1>1, <1>3, <1>8, <1>9 DEF Releases, refilled, new, p
<1>11. reply'[c] = Answer(c, newRow[c])'
  BY <1>1, <1>5, <1>8 DEF Answer, Inv!ReleaseReply
<1>12. CallTrue(c)'
  BY <1>1, <1>3, <1>5, <1>8, <1>10, <1>11 DEF CallTrue, Writes, Locked
<1> QED
  BY <1>3, <1>7, <1>8, <1>12, QuietStepKeeps DEF rows

-----------------------------------------------------------------------------
(* The end of a transaction.                                                 *)

(* What End leaves, whatever is answered.                                    *)
LEMMA EndEffect ==
    ASSUME TypeOK, NEW c \in Calls, End(c), \A d \in Calls \ {c} : reply'[d] = reply[d]
    PROVE  /\ OthersWait(c)
           /\ pc'[c] = "done" /\ newRow'[c] = NULL /\ newStock'[c] = NULL
           /\ (Inv!TypeOK' /\ faultsLeft' \in 0..MaxFaults
               /\ (reply' = reply \/ reply' = [reply EXCEPT ![c] = "ERROR"])) => TypeOK'
           /\ CallTrue(c)'
<1>1. /\ pc' = [pc EXCEPT ![c] = "done"]
      /\ hashLock' = [h \in Hashes |-> IF hashLock[h] = c THEN NULL ELSE hashLock[h]]
      /\ rowLock' = [p \in Products |-> IF rowLock[p] = c THEN NULL ELSE rowLock[p]]
      /\ newRow' = [newRow EXCEPT ![c] = NULL] /\ newStock' = [newStock EXCEPT ![c] = NULL]
  BY DEF End, GoTo
<1>2. /\ pc'[c] = "done" /\ newRow'[c] = NULL /\ newStock'[c] = NULL
      /\ \A d \in Calls \ {c} :
            pc'[d] = pc[d] /\ newRow'[d] = newRow[d] /\ newStock'[d] = newStock[d]
  BY <1>1 DEF TypeOK
<1>3. OthersWait(c)
  <2>1. \A d \in Calls \ {c} :
           /\ \A h \in Hashes : hashLock[h] = d => hashLock'[h] = d
           /\ \A p \in Products : rowLock[p] = d => rowLock'[p] = d
    BY <1>1
  <2> QED
    BY <1>2, <2>1 DEF OthersWait
<1>4. ASSUME Inv!TypeOK', faultsLeft' \in 0..MaxFaults,
             reply' = reply \/ reply' = [reply EXCEPT ![c] = "ERROR"]
      PROVE  TypeOK'
  <2>1. hashLock' \in [Hashes -> Calls \cup {NULL}] /\ rowLock' \in [Products -> Calls \cup {NULL}]
    BY <1>1 DEF TypeOK
  <2>2. reply' \in [Calls -> Inv!Outcomes \cup {"ALREADY_RELEASED", "RELEASED", "NOT_RECORDED",
                                               "NOT_RELEASABLE", "ERROR", NULL}]
    BY <1>4 DEF TypeOK
  <2>3. newRow' \in [Calls -> Inv!LedgerRow \cup {NULL}] /\ newStock' \in [Calls -> 0..MaxInt \cup {NULL}]
        /\ pc' \in [Calls -> {"lock", "find", "product", "update", "insert", "release",
                              "commit", "rollback", "done"}]
    BY <1>1 DEF TypeOK
  <2> QED
    BY <1>4, <2>1, <2>2, <2>3 DEF TypeOK
<1>5. CallTrue(c)'
  BY <1>2 DEF CallTrue
<1> QED
  BY <1>2, <1>3, <1>4, <1>5

(* What a transaction has written is one whole operation of inventory, from   *)
(* what is committed when it commits.                                        *)
LEMMA PublishEffect ==
    ASSUME IInv, NEW c \in Calls, pc[c] = "commit", Publish(c)
    PROVE  /\ [Inv!Next]_(Inv!vars) /\ HeldProducts'
           /\ ledger'[OrderOf[c]] = IF newRow[c] = NULL THEN Held(c) ELSE newRow[c]
           /\ \A o \in Orders : o # OrderOf[c] => ledger'[o] = ledger[o]
           /\ \A p \in Products : rowLock[p] # c => stock'[p] = stock[p]
           /\ \A p \in Products : stock'[p] <= stock[p] \/ Inv!Refilled(p)'
           /\ \A p : Inv!Refilled(p) => Inv!Refilled(p)'
<1>1. PICK o \in Orders : o = OrderOf[c]
  BY Constants
<1>2. CallTrue(c) /\ Inv!TypeOK /\ HeldProducts
  BY DEF IInv, TypeOK, CallsTrue
<1>3. CASE newRow[c] = NULL
  <2>1. newStock[c] = NULL
    BY <1>2, <1>3 DEF CallTrue
  <2>2. UNCHANGED <<stock, ledger>>
    BY <1>3, <2>1 DEF Publish
  <2>3. \A p : Inv!Refilled(p) => Inv!Refilled(p)'
    BY <2>2 DEF Inv!Refilled, Inv!IsReleased
  <2>4. HeldProducts'
    BY <1>2, <2>2 DEF HeldProducts, Inv!IsHeld
  <2>5. \A p \in Products : stock'[p] <= stock[p]
    BY <1>2, <2>2 DEF Inv!TypeOK
  <2> QED
    BY <1>3, <2>2, <2>3, <2>4, <2>5 DEF Inv!vars, Held
<1>4. CASE newRow[c] # NULL
  <2>1. ledger' = [ledger EXCEPT ![o] = newRow[c]]
    BY <1>1, <1>4 DEF Publish
  <2>2. ledger'[o] = newRow[c] /\ \A x \in Orders : x # o => ledger'[x] = ledger[x]
    BY <1>2, <2>1 DEF Inv!TypeOK
  <2>3. ASSUME ~Inv!IsReleased(ledger[o])
        PROVE  \A p : Inv!Refilled(p) => Inv!Refilled(p)'
    BY <2>2, <2>3 DEF Inv!Refilled, Inv!IsReleased
  <2>4. CASE Decrements(c)
    <3> DEFINE p == ProductOf[c]
               q == QuantityOf[c]
    <3>1. /\ ledger[o] = NULL /\ p \in Products /\ stock[p] >= q /\ rowLock[p] = c
          /\ newStock[c] = stock[p] - q /\ newRow[c] = Inv!Decrement(p, q, stock[p] - q)
      BY <1>1, <2>4 DEF Decrements, Held
    <3>2. newRow[c].product = p /\ newRow[c].total = Price[p] * q /\ newRow[c].outcome = "DECREMENTED"
      BY <3>1 DEF Inv!Decrement
    <3>3. stock[p] \in Nat /\ q \in Nat
      BY <1>2, <3>1, Constants DEF Inv!TypeOK
    <3>4. newStock[c] # NULL
      BY <3>1, <3>3, Constants
    <3>5. stock' = [stock EXCEPT ![p] = stock[p] - q]
      BY <3>1, <3>2, <3>4 DEF Publish
    <3>6. Price[p] * q <= MaxInt
      BY <1>2, <1>4, <2>4, <3>2 DEF CallTrue, Decrements
    <3> p \in ProductIds /\ q \in Quantities
      BY Constants
    <3> HIDE DEF p, q
    <3>7. Inv!RecordDecrement(o, p, q)
      BY <2>1, <3>1, <3>5, <3>6 DEF Inv!RecordDecrement
    <3>8. [Inv!Next]_(Inv!vars)
      BY <3>7 DEF Inv!Next, Inv!DecrementStock
    <3>9. \A r \in Products : stock'[r] <= stock[r] /\ (rowLock[r] # c => stock'[r] = stock[r])
      BY <1>2, <3>1, <3>3, <3>5 DEF Inv!TypeOK
    <3>10. HeldProducts'
      BY <1>2, <2>2, <3>1, <3>2 DEF HeldProducts, Inv!IsHeld
    <3>11. ~Inv!IsReleased(ledger[o])
      BY <3>1 DEF Inv!IsReleased
    <3> QED
      BY <1>1, <1>4, <2>2, <2>3, <3>8, <3>9, <3>10, <3>11
  <2>5. CASE Rejects(c)
    <3> DEFINE p == ProductOf[c]
               q == QuantityOf[c]
    <3>1. stock' = stock /\ ledger[o] = NULL /\ q <= MaxInt
      BY <1>1, <1>2, <1>4, <2>5 DEF Rejects, Held, Publish, CallTrue
    <3>2. Inv!RecordInsufficient(o, p, q) \/ Inv!RecordNotFound(o, p, q)
      BY <2>1, <2>5, <3>1 DEF Rejects, Inv!RecordInsufficient, Inv!RecordNotFound
    <3> p \in ProductIds /\ q \in Quantities
      BY Constants
    <3> HIDE DEF p, q
    <3>3. [Inv!Next]_(Inv!vars)
      BY <3>2 DEF Inv!Next, Inv!DecrementStock
    <3>4. newRow[c].outcome # "DECREMENTED"
      BY <2>5 DEF Rejects, Inv!Rejection
    <3>5. HeldProducts'
      BY <1>2, <2>2, <3>4 DEF HeldProducts, Inv!IsHeld
    <3>6. ~Inv!IsReleased(ledger[o])
      BY <3>1 DEF Inv!IsReleased
    <3>7. \A r \in Products : stock'[r] <= stock[r]
      BY <1>2, <3>1 DEF Inv!TypeOK
    <3> QED
      BY <1>1, <1>4, <2>2, <2>3, <3>1, <3>3, <3>5, <3>6, <3>7
  <2>6. CASE Releases(c)
    <3>1. PICK row \in Inv!LedgerRow : row = ledger[o] /\ Inv!IsHeld(ledger[o])
                                       /\ row.product \in Products /\ row.state = "RECORDED"
      BY <1>1, <1>2, <2>6 DEF Releases, Held, Inv!TypeOK, Inv!IsHeld, HeldProducts
    <3> DEFINE p == row.product
    <3>2. /\ newStock[c] = stock[p] + row.quantity /\ rowLock[p] = c
          /\ newRow[c] = [row EXCEPT !.state = "RELEASED"]
      BY <1>1, <2>6, <3>1 DEF Releases, Held
    <3>3. /\ newRow[c].product = p /\ newRow[c].state = "RELEASED"
          /\ newRow[c].outcome = "DECREMENTED"
      BY <3>1, <3>2 DEF Inv!LedgerRow, Inv!IsHeld
    <3>4. stock[p] \in Nat /\ row.quantity \in Nat
      <4>1. Quantities \subseteq Nat
        BY TxAssumption DEF Inv!InventoryAssumption
      <4>2. row.quantity \in Quantities
        BY <3>1 DEF Inv!LedgerRow
      <4>3. stock[p] \in Nat
        BY <1>2, <3>1 DEF Inv!TypeOK
      <4> QED
        BY <4>1, <4>2, <4>3
    <3>5. newStock[c] # NULL
      BY <3>2, <3>4, Constants
    <3>6. stock' = [stock EXCEPT ![p] = stock[p] + row.quantity]
      BY <3>2, <3>3, <3>5 DEF Publish
    <3>7. Inv!ReleaseStock(o)
      <4>1. stock' = [stock EXCEPT ![ledger[o].product] = @ + ledger[o].quantity]
        BY <3>1, <3>6
      <4>2. ledger' = [ledger EXCEPT ![o].state = "RELEASED"]
        BY <2>1, <3>1, <3>2
      <4> QED
        BY <3>1, <4>1, <4>2 DEF Inv!ReleaseStock
    <3>8. [Inv!Next]_(Inv!vars)
      BY <3>7 DEF Inv!Next
    <3>9. Inv!IsReleased(ledger'[o]) /\ ledger'[o].product = p
      BY <1>4, <2>2, <3>3 DEF Inv!IsReleased
    <3>10. ASSUME NEW r, Inv!Refilled(r) PROVE Inv!Refilled(r)'
      BY <2>2, <3>1, <3>9, <3>10 DEF Inv!Refilled, Inv!IsReleased
    <3>11. Inv!Refilled(p)'
      BY <3>9 DEF Inv!Refilled, Inv!IsReleased
    <3>12. \A r \in Products : r # p => stock'[r] = stock[r]
      BY <1>2, <3>6 DEF Inv!TypeOK
    <3>13. \A r \in Products : (stock'[r] <= stock[r] \/ Inv!Refilled(r)')
                               /\ (rowLock[r] # c => stock'[r] = stock[r])
      BY <1>2, <3>2, <3>11, <3>12 DEF Inv!TypeOK
    <3>14. HeldProducts'
      BY <1>2, <2>2, <3>3 DEF HeldProducts, Inv!IsHeld
    <3> QED
      BY <1>1, <1>4, <2>2, <3>8, <3>10, <3>13, <3>14
  <2> QED
    BY <1>2, <1>4, <2>4, <2>5, <2>6 DEF CallTrue, Writes
<1> QED
  BY <1>3, <1>4

(* Two running transactions are never about the same order.                   *)
LEMMA OtherOrder ==
    ASSUME IInv, NEW c \in Calls, NEW d \in Calls, c # d,
           pc[c] \notin {"lock", "done"}, pc[d] \notin {"lock", "done"}
    PROVE  OrderOf[c] # OrderOf[d]
BY DEF IInv, CallsTrue, CallTrue, Locked

(* What is published under another's nose takes nothing from its premises.    *)
LEMMA PublishLeavesTrue ==
    ASSUME IInv, NEW c \in Calls, NEW d \in Calls, c # d, pc[c] = "commit", Publish(c),
           OthersWait(c)
    PROVE  CallTrue(d)'
<1>1. /\ CallTrue(d) /\ pc'[d] = pc[d] /\ newRow'[d] = newRow[d] /\ newStock'[d] = newStock[d]
      /\ reply'[d] = reply[d]
  BY DEF IInv, CallsTrue, OthersWait
<1>2. CASE pc[d] \in {"lock", "done"}
  BY <1>1, <1>2 DEF CallTrue
<1>3. CASE pc[d] \notin {"lock", "done"}
  <2>1. OrderOf[d] \in Orders /\ OrderOf[d] # OrderOf[c]
    BY <1>3, OtherOrder, Constants
  <2>2. Held(d)' = Held(d)
    BY <2>1, PublishEffect DEF Held
  <2>3. Inv!IsHeld(Held(d)) => Inv!IsHeld(Held(d))' /\ Held(d).product \in Products
    BY <2>1, <2>2 DEF Inv!IsHeld, IInv, HeldProducts, Held
  <2>4. Locked(d)'
    BY <1>1, <1>3, Constants DEF CallTrue, Locked, OthersWait
  <2>5. Writes(d) => Writes(d)'
    <3>1. Decrements(d) => Decrements(d)'
      BY <1>1, <2>2, PublishEffect DEF Decrements, OthersWait
    <3>2. Rejects(d) => Rejects(d)'
      <4>1. ASSUME NEW p \in Products, NEW q \in Nat, stock[p] < q \/ Inv!Refilled(p)
            PROVE  stock'[p] < q \/ Inv!Refilled(p)'
        <5>1. /\ stock'[p] <= stock[p] \/ Inv!Refilled(p)'
              /\ Inv!Refilled(p) => Inv!Refilled(p)'
              /\ [Inv!Next]_(Inv!vars)
          BY PublishEffect
        <5>2. stock[p] \in Nat /\ stock'[p] \in Nat
          <6>1. Inv!TypeOK'
            BY <5>1, InventoryKeeps DEF IInv, TypeOK
          <6> QED
            BY <6>1 DEF IInv, TypeOK, Inv!TypeOK
        <5> QED
          BY <4>1, <5>1, <5>2
      <4> QED
        BY <1>1, <2>2, <4>1, Constants DEF Rejects
    <3>3. Releases(d) => Releases(d)'
      BY <1>1, <2>2, <2>3, PublishEffect DEF Releases, OthersWait
    <3> QED
      BY <3>1, <3>2, <3>3 DEF Writes
  <2>6. Answer(d, IF newRow[d] = NULL THEN Held(d) ELSE newRow[d])'
            = Answer(d, IF newRow[d] = NULL THEN Held(d) ELSE newRow[d])
    BY <1>1, <2>2 DEF Answer, Inv!DecrementReply, Inv!ReleaseReply, Inv!IsReleased
  <2> QED
    BY <1>1, <1>3, <2>2, <2>3, <2>4, <2>5, <2>6 DEF CallTrue
<1> QED
  BY <1>2, <1>3

LEMMA EndKeeps ==
    ASSUME IInv, NEW c \in Calls, End(c), faultsLeft' \in 0..MaxFaults,
           reply' = reply \/ reply' = [reply EXCEPT ![c] = "ERROR"],
           UNCHANGED rows \/ (pc[c] = "commit" /\ Publish(c))
    PROVE  IInv' /\ [Inv!Next]_(Inv!vars)
<1>1. \A d \in Calls \ {c} : reply'[d] = reply[d]
  BY DEF IInv, TypeOK
<1>2. OthersWait(c) /\ CallTrue(c)'
      /\ ((Inv!TypeOK' /\ faultsLeft' \in 0..MaxFaults
           /\ (reply' = reply \/ reply' = [reply EXCEPT ![c] = "ERROR"])) => TypeOK')
  BY <1>1, EndEffect DEF IInv
<1>3. CASE UNCHANGED rows
  <2>1. [Inv!Next]_(Inv!vars)
    BY <1>3 DEF rows, Inv!vars
  <2>2. TypeOK'
    BY <1>2, <2>1, InventoryKeeps DEF IInv, TypeOK
  <2> QED
    BY <1>2, <1>3, <2>1, <2>2, QuietStepKeeps
<1>4. CASE pc[c] = "commit" /\ Publish(c)
  <2>1. [Inv!Next]_(Inv!vars) /\ HeldProducts'
    BY <1>4, PublishEffect
  <2>2. Inv!TypeOK' /\ Inv!StockConserved'
    BY <2>1, InventoryKeeps DEF IInv, TypeOK
  <2>3. CallsTrue'
    BY <1>2, <1>4, PublishLeavesTrue DEF CallsTrue
  <2> QED
    BY <1>2, <2>1, <2>2, <2>3 DEF IInv
<1> QED
  BY <1>3, <1>4

LEMMA CommitKeeps ==
    ASSUME IInv, NEW c \in Calls, Commit(c) PROVE IInv' /\ [Inv!Next]_(Inv!vars)
BY EndKeeps DEF Commit, IInv, TypeOK

LEMMA RefuseKeeps ==
    ASSUME IInv, NEW c \in Calls, Refuse(c) PROVE IInv'
BY EndKeeps DEF Refuse, IInv, TypeOK

LEMMA StatementFailsKeeps ==
    ASSUME IInv, NEW c \in Calls, StatementFails(c) PROVE IInv'
BY EndKeeps DEF StatementFails, IInv, TypeOK

LEMMA FailsKeeps ==
    ASSUME IInv, NEW c \in Calls, Fails(c) PROVE IInv' /\ [Inv!Next]_(Inv!vars)
<1>1. faultsLeft' \in 0..MaxFaults
  BY TxAssumption DEF Fails, IInv, TypeOK
<1> QED
  BY <1>1, EndKeeps DEF Fails

-----------------------------------------------------------------------------
(* The theorems.                                                             *)

LEMMA InitIInv == Init => IInv
<1> SUFFICES ASSUME Init PROVE IInv
  OBVIOUS
<1>1. Inv!TypeOK /\ Inv!StockConserved
  BY SameInventory, Constants, Ledger!InitIInv DEF Init
<1>2. TypeOK
  BY <1>1, TxAssumption DEF Init, TypeOK
<1>3. HeldProducts
  BY DEF Init, Inv!Init, HeldProducts, Inv!IsHeld
<1>4. CallsTrue
  BY DEF Init, CallsTrue, CallTrue
<1> QED
  BY <1>1, <1>2, <1>3, <1>4 DEF IInv

LEMMA StepIInv == IInv /\ [Next]_vars => IInv'
<1> SUFFICES ASSUME IInv, [Next]_vars PROVE IInv'
  OBVIOUS
<1>1. CASE \E c \in Calls :
              \/ AcquireOrderLock(c) \/ FindRecorded(c) \/ FindReleasable(c) \/ FindProduct(c)
              \/ DecrementMatches(c) \/ DecrementMissesRow(c) \/ Insert(c) \/ Release(c)
              \/ Commit(c) \/ Refuse(c) \/ StatementFails(c) \/ Fails(c)
  BY <1>1, AcquireOrderLockKeeps, FindRecordedKeeps, FindReleasableKeeps, FindProductKeeps,
     DecrementMatchesKeeps, DecrementMissesRowKeeps, InsertKeeps, ReleaseKeeps, CommitKeeps,
     RefuseKeeps, StatementFailsKeeps, FailsKeeps
<1>2. CASE UNCHANGED vars
  <2>1. UNCHANGED rows /\ \A c \in Calls : OthersWait(c)
    BY <1>2 DEF vars, rows, OthersWait
  <2>2. TypeOK' /\ Inv!StockConserved'
    <3>1. [Inv!Next]_(Inv!vars)
      BY <2>1 DEF rows, Inv!vars
    <3> QED
      BY <1>2, <3>1, InventoryKeeps DEF vars, IInv, TypeOK
  <2>3. HeldProducts'
    BY <2>1 DEF rows, IInv, HeldProducts, Inv!IsHeld
  <2>4. CallsTrue'
    BY <1>2 DEF vars, rows, IInv, CallsTrue, CallTrue, Locked, Held, Writes, Decrements, Rejects,
                Releases, Answer, Inv!IsHeld, Inv!Refilled, Inv!IsReleased,
                Inv!DecrementReply, Inv!ReleaseReply
  <2> QED
    BY <2>2, <2>3, <2>4 DEF IInv
<1> QED
  BY <1>1, <1>2 DEF Next, AllAnswered

LEMMA Invariant == Spec => []IInv
<1> QED
  BY InitIInv, StepIInv, PTL DEF Spec

(* Locks, uncommitted rows and answers always have the values of their types.  *)
THEOREM TypeCorrect == Spec => []TypeOK
<1>1. IInv => TypeOK
  BY DEF IInv
<1> QED
  BY <1>1, Invariant, PTL

(* However the statements of any number of concurrent transactions interleave, *)
(* whatever hashes collide and wherever a transaction dies, what gets          *)
(* committed is a sequence of whole decrements and releases.                   *)
THEOREM TransactionsAreAtomic == Spec => ImplementsInventory
<1>1. Init => Inv!Init
  BY DEF Init
<1>2. ASSUME IInv, Next PROVE [Inv!Next]_(Inv!vars)
  <2>1. CASE \E c \in Calls : Commit(c) \/ Fails(c)
    BY <1>2, <2>1, CommitKeeps, FailsKeeps
  <2>2. CASE UNCHANGED rows
    BY <2>2 DEF rows, Inv!vars
  <2> QED
    BY <1>2, <2>1, <2>2
       DEF Next, AllAnswered, vars, rows, AcquireOrderLock, FindRecorded, FindReleasable,
           FindProduct, DecrementMatches, DecrementMissesRow, Insert, Release, Refuse,
           StatementFails
<1>3. UNCHANGED vars => UNCHANGED Inv!vars
  BY DEF vars, Inv!vars
<1>4. IInv /\ [Next]_vars => [Inv!Next]_(Inv!vars)
  BY <1>2, <1>3
<1> QED
  BY <1>1, <1>4, Invariant, PTL DEF Spec, ImplementsInventory, Inv!Spec

(* What a call answers is what the ledger says at the moment its transaction   *)
(* ends, so that a caller may treat the call as one atomic step.               *)
THEOREM AnswersAreCurrent == Spec => AnswersCurrent
<1> DEFINE Current ==
      \A c \in Calls :
          (pc[c] # "done" /\ pc'[c] = "done" /\ reply'[c] # "ERROR") =>
              reply'[c] = IF KindOf[c] = "decrement"
                          THEN Inv!DecrementReply(ledger'[OrderOf[c]])
                          ELSE Inv!ReleaseReply(ledger'[OrderOf[c]])
<1>1. ASSUME IInv, Next PROVE Current
  <2> SUFFICES ASSUME NEW c \in Calls, pc[c] # "done", pc'[c] = "done", reply'[c] # "ERROR"
               PROVE  reply'[c] = Answer(c, ledger'[OrderOf[c]])
    BY DEF Answer
  <2>1. Commit(c) \/ Refuse(c)
    <3>1. \A d \in Calls : pc' # [pc EXCEPT ![d] = "find"] /\ pc' # [pc EXCEPT ![d] = "rollback"]
              /\ pc' # [pc EXCEPT ![d] = "commit"] /\ pc' # [pc EXCEPT ![d] = "product"]
              /\ pc' # [pc EXCEPT ![d] = "release"] /\ pc' # [pc EXCEPT ![d] = "update"]
              /\ pc' # [pc EXCEPT ![d] = "insert"] /\ pc' # pc
      BY <1>1 DEF IInv, TypeOK
    <3>2. PICK d \in Calls : Commit(d) \/ Refuse(d) \/ StatementFails(d) \/ Fails(d)
      BY <1>1, <3>1
         DEF Next, AllAnswered, vars, GoTo, AcquireOrderLock, FindRecorded, FindReleasable,
             FindProduct, DecrementMatches, DecrementMissesRow, Insert, Release
    <3>3. pc' = [pc EXCEPT ![d] = "done"]
      BY <3>2 DEF Commit, Refuse, StatementFails, Fails, End, GoTo
    <3>4. c = d
      BY <1>1, <3>3 DEF IInv, TypeOK
    <3>5. ~StatementFails(c) /\ ~Fails(c)
      BY <1>1 DEF StatementFails, Fails, IInv, TypeOK
    <3> QED
      BY <3>2, <3>4, <3>5
  <2>2. CallTrue(c)
    BY <1>1 DEF IInv, CallsTrue
  <2>3. CASE Commit(c)
    BY <1>1, <2>2, <2>3, PublishEffect DEF Commit, CallTrue, Answer
  <2>4. CASE Refuse(c)
    BY <2>2, <2>4 DEF Refuse, CallTrue, Answer, Held, rows
  <2> QED
    BY <2>1, <2>3, <2>4
<1>2. IInv /\ [Next]_vars => [Current]_vars
  BY <1>1
<1> QED
  BY <1>2, Invariant, PTL DEF Spec, AnswersCurrent
-----------------------------------------------------------------------------
(* The waits: for the lock on the hash of an order id, for the product row     *)
(* that the guarded updates lock, for an uncommitted row of the same order.   *)

WaitsForOrder(c, d) == pc[c] = "lock" /\ hashLock[HashOf[OrderOf[c]]] = d

WaitsForProduct(c, d) ==
    \/ /\ pc[c] = "update" /\ QuantityOf[c] <= MaxInt
       /\ stock[ProductOf[c]] >= QuantityOf[c]
       /\ rowLock[ProductOf[c]] = d
    \/ pc[c] = "release" /\ rowLock[Held(c).product] = d

WaitsForKey(c, d) ==
    pc[c] = "insert" /\ c # d /\ pc[d] = "commit" /\ OrderOf[d] = OrderOf[c] /\ newRow[d] # NULL

Waits(c, d) == WaitsForOrder(c, d) \/ WaitsForProduct(c, d) \/ WaitsForKey(c, d)

(* Whoever holds a lock runs, and whoever holds a product row has all the      *)
(* locks that it needs.                                                      *)
LockHolders ==
    /\ \A h \in Hashes : hashLock[h] # NULL => pc[hashLock[h]] \notin {"lock", "done"}
    /\ \A p \in Products : rowLock[p] # NULL => pc[rowLock[p]] \in {"insert", "commit"}

LEMMA LockHoldersStep == IInv /\ LockHolders /\ [Next]_vars => LockHolders'
<1> SUFFICES ASSUME IInv, LockHolders, [Next]_vars PROVE LockHolders'
  OBVIOUS
<1>1. /\ hashLock \in [Hashes -> Calls \cup {NULL}] /\ rowLock \in [Products -> Calls \cup {NULL}]
      /\ pc \in [Calls -> {"lock", "find", "product", "update", "insert", "release", "commit",
                          "rollback", "done"}]
  BY DEF IInv, TypeOK
(* A statement that takes no lock moves a running transaction on.            *)
<1>2. ASSUME NEW c \in Calls, pc[c] \in {"find", "product", "update", "insert", "release"},
             UNCHANGED <<hashLock, rowLock>>,
             NEW label \in {"commit", "rollback", "product", "release", "update", "insert"},
             GoTo(c, label), pc[c] = "insert" => label = "commit"
      PROVE  LockHolders'
  <2>1. pc'[c] = label /\ \A d \in Calls : d # c => pc'[d] = pc[d]
    BY <1>1, <1>2 DEF GoTo
  <2> QED
    BY <1>1, <1>2, <2>1 DEF LockHolders
<1>3. ASSUME NEW c \in Calls, End(c) PROVE LockHolders'
  <2>1. /\ pc'[c] = "done" /\ \A d \in Calls : d # c => pc'[d] = pc[d]
        /\ \A h \in Hashes : hashLock'[h] = NULL \/ (hashLock'[h] = hashLock[h] /\ hashLock[h] # c)
        /\ \A p \in Products : rowLock'[p] = NULL \/ (rowLock'[p] = rowLock[p] /\ rowLock[p] # c)
    BY <1>1, <1>3 DEF End, GoTo
  <2> QED
    BY <1>1, <2>1 DEF LockHolders
<1>4. ASSUME NEW c \in Calls, AcquireOrderLock(c) PROVE LockHolders'
  <2>1. /\ pc[c] = "lock" /\ pc'[c] = "find" /\ \A d \in Calls : d # c => pc'[d] = pc[d]
        /\ \A h \in Hashes : hashLock'[h] = c \/ hashLock'[h] = hashLock[h]
        /\ rowLock' = rowLock
    BY <1>1, <1>4 DEF AcquireOrderLock, GoTo
  <2> QED
    BY <1>1, <2>1 DEF LockHolders
<1>5. ASSUME NEW c \in Calls, DecrementMatches(c) \/ Release(c) PROVE LockHolders'
  <2>1. PICK label \in {"insert", "commit"} : GoTo(c, label)
    BY <1>5 DEF DecrementMatches, Release
  <2>2. /\ pc'[c] = label /\ \A d \in Calls : d # c => pc'[d] = pc[d]
        /\ hashLock' = hashLock
        /\ \A p \in Products : rowLock'[p] = c \/ rowLock'[p] = rowLock[p]
    BY <1>1, <1>5, <2>1 DEF DecrementMatches, Release, GoTo
  <2> QED
    BY <1>1, <2>1, <2>2 DEF LockHolders
<1>6. ASSUME NEW c \in Calls, FindRecorded(c) \/ FindReleasable(c) PROVE LockHolders'
  <2>1. PICK label \in {"commit", "rollback", "product", "release"} : GoTo(c, label)
    BY <1>6 DEF FindRecorded, FindReleasable
  <2> QED
    BY <1>2, <1>6, <2>1 DEF FindRecorded, FindReleasable
<1>7. ASSUME NEW c \in Calls, FindProduct(c) \/ DecrementMissesRow(c) PROVE LockHolders'
  <2>1. PICK label \in {"update", "insert"} : GoTo(c, label)
    BY <1>7 DEF FindProduct, DecrementMissesRow
  <2> QED
    BY <1>2, <1>7, <2>1 DEF FindProduct, DecrementMissesRow
<1>8. ASSUME NEW c \in Calls, Insert(c) PROVE LockHolders'
  BY <1>2, <1>8 DEF Insert
<1>9. ASSUME NEW c \in Calls, Commit(c) \/ Refuse(c) \/ StatementFails(c) \/ Fails(c)
      PROVE  LockHolders'
  BY <1>3, <1>9 DEF Commit, Refuse, StatementFails, Fails
<1>10. CASE UNCHANGED vars
  BY <1>10 DEF vars, LockHolders
<1> QED
  BY <1>4, <1>5, <1>6, <1>7, <1>8, <1>9, <1>10 DEF Next, AllAnswered

LEMMA LockHoldersAlways == Spec => []LockHolders
<1>1. Init => LockHolders
  BY DEF Init, LockHolders
<1> QED
  BY <1>1, LockHoldersStep, Invariant, PTL DEF Spec

(* The lock on the hash of its id comes before every statement about an order, *)
(* so that the primary key is neither waited for nor violated: no transaction  *)
(* answers 500 because another one inserted its row first.                   *)
KeyIsFree ==
    \A c \in Calls : pc[c] = "insert" => /\ Held(c) = NULL
                                         /\ \A d \in Calls : ~WaitsForKey(c, d)

LEMMA KeyIsFreeIn == IInv => KeyIsFree
<1> SUFFICES ASSUME IInv, NEW c \in Calls, pc[c] = "insert"
             PROVE  Held(c) = NULL /\ \A d \in Calls : ~WaitsForKey(c, d)
  BY DEF KeyIsFree
<1>1. Held(c) = NULL
  BY DEF IInv, CallsTrue, CallTrue, Writes, Decrements, Rejects, Releases
<1>2. ASSUME NEW d \in Calls, WaitsForKey(c, d) PROVE FALSE
  BY <1>2, OtherOrder DEF WaitsForKey
<1> QED
  BY <1>1, <1>2

(* So decrements and releases of one order meet at the advisory lock and never *)
(* at the INSERT into inventory_operations.                                  *)
THEOREM KeyIsNeverContended == Spec => []KeyIsFree
BY KeyIsFreeIn, Invariant, PTL

(* A wait leads up: from the order lock to a running transaction, from a       *)
(* product row to one that waits for nobody.                                 *)
Rank(c) == CASE pc[c] = "lock" -> 2
             [] pc[c] \in {"update", "release"} -> 1
             [] OTHER -> 0

LEMMA WaitsLeadUp ==
    ASSUME IInv, LockHolders, NEW c \in Calls, NEW d \in Calls, Waits(c, d)
    PROVE  Rank(d) < Rank(c)
<1>1. CASE WaitsForOrder(c, d)
  <2>1. HashOf[OrderOf[c]] \in Hashes /\ d # NULL
    BY Constants
  <2>2. pc[d] # "lock" /\ pc[c] = "lock"
    BY <1>1, <2>1 DEF WaitsForOrder, LockHolders
  <2> QED
    BY <2>2 DEF Rank
<1>2. CASE WaitsForProduct(c, d)
  <2>1. PICK p \in Products : rowLock[p] = d
    <3>1. CASE pc[c] = "update"
      BY <1>2, <3>1 DEF WaitsForProduct, IInv, CallsTrue, CallTrue
    <3>2. CASE pc[c] = "release"
      <4>1. Inv!IsHeld(Held(c)) /\ OrderOf[c] \in Orders
        BY <3>2, Constants DEF IInv, CallsTrue, CallTrue
      <4> QED
        BY <1>2, <3>2, <4>1 DEF WaitsForProduct, IInv, HeldProducts, Held
    <3> QED
      BY <1>2, <3>1, <3>2 DEF WaitsForProduct
  <2>2. pc[d] \in {"insert", "commit"} /\ pc[c] \in {"update", "release"}
    BY <1>2, <2>1, Constants DEF WaitsForProduct, LockHolders
  <2> QED
    BY <2>2 DEF Rank
<1>3. ~WaitsForKey(c, d)
  BY KeyIsFreeIn DEF KeyIsFree, WaitsForKey
<1> QED
  BY <1>1, <1>2, <1>3 DEF Waits

(* PostgreSQL never has a circle to break: among any transactions there is     *)
(* one that waits for none of the others, whatever orders and hashes they      *)
(* share. So a wait ends when the holders end, and no deadlock is answered.   *)
NoCircularWait ==
    \A S \in SUBSET Calls : S # {} => \E c \in S : \A d \in S : ~Waits(c, d)

(* The order of the statements rules it out: who waits for an advisory lock    *)
(* holds nothing, and who waits for a row of products has its advisory lock.  *)
THEOREM NobodyWaitsInACircle == Spec => []NoCircularWait
<1>1. ASSUME IInv, LockHolders, NEW S \in SUBSET Calls, S # {}
      PROVE  \E c \in S : \A d \in S : ~Waits(c, d)
  <2>1. \A c \in S, d \in S : Waits(c, d) => Rank(d) < Rank(c)
    BY <1>1, WaitsLeadUp
  <2>2. \A c \in S : Rank(c) \in {0, 1, 2}
    BY DEF Rank
  <2> HIDE DEF Rank
  <2>3. CASE \E c \in S : Rank(c) = 0
    BY <2>1, <2>2, <2>3
  <2>4. CASE (\A c \in S : Rank(c) # 0) /\ \E c \in S : Rank(c) = 1
    BY <2>1, <2>2, <2>4
  <2>5. CASE \A c \in S : Rank(c) = 2
    BY <1>1, <2>1, <2>5
  <2> QED
    BY <2>2, <2>3, <2>4, <2>5
<1>2. IInv /\ LockHolders => NoCircularWait
  BY <1>1 DEF NoCircularWait
<1> QED
  BY <1>2, Invariant, LockHoldersAlways, PTL
=============================================================================
