--------------------------- MODULE InventoryProofs ---------------------------
(***************************************************************************)
(* Theorems about Inventory, for any number of orders and products and any *)
(* stock. The inductive invariant is TypeOK /\ StockConserved: the column   *)
(* bound of stock in TypeOK only follows from the conservation of units.    *)
(***************************************************************************)
EXTENDS Inventory, FiniteSetTheorems, TLAPS

(* The units the decrement of order o holds.                               *)
UnitsOf(o, q) == {o} \X (1..q)

(* A decrement of q units holds exactly q of them.                         *)
LEMMA UnitsOfCardinality ==
    ASSUME NEW o, NEW q \in Nat
    PROVE  /\ IsFiniteSet(UnitsOf(o, q))
           /\ Cardinality(UnitsOf(o, q)) = q
<1> DEFINE S == {o}
           T == 1..q
<1>1. IsFiniteSet(S) /\ Cardinality(S) = 1
    BY FS_Singleton
<1>2. IsFiniteSet(T) /\ Cardinality(T) = q
    BY FS_Interval
<1> HIDE DEF S, T
<1>3. IsFiniteSet(S \X T) /\ Cardinality(S \X T) = Cardinality(S) * Cardinality(T)
    BY <1>1, <1>2, FS_Product, Zenon
<1>4. Cardinality(S) * Cardinality(T) = q
    BY <1>1, <1>2
<1>5. UnitsOf(o, q) = S \X T
    BY DEF UnitsOf, S, T
<1>6. QED
    BY <1>3, <1>4, <1>5

(* Membership in HeldUnits, as the provers can use it.                     *)
LEMMA HeldUnitsMember ==
    ASSUME NEW p, NEW u
    PROVE  u \in HeldUnits(p) <=>
             \E o \in Orders : /\ IsHeld(ledger[o])
                               /\ ledger[o].product = p
                               /\ u \in UnitsOf(o, ledger[o].quantity)
    BY DEF HeldUnits, UnitsOf

(* The same in the next state.                                             *)
LEMMA HeldUnitsMemberPrime ==
    ASSUME NEW p, NEW u
    PROVE  u \in HeldUnits(p)' <=>
             \E o \in Orders : /\ IsHeld(ledger[o])'
                               /\ ledger'[o].product = p
                               /\ u \in UnitsOf(o, ledger'[o].quantity)
    BY DEF HeldUnits, UnitsOf

(* The units of two orders are different units.                            *)
LEMMA UnitsOfDisjoint ==
    ASSUME NEW o1, NEW o2, NEW q1, NEW q2, NEW u,
           u \in UnitsOf(o1, q1), u \in UnitsOf(o2, q2)
    PROVE  o1 = o2
    BY DEF UnitsOf

(* What a released or freshly decremented row changes: order o alone starts *)
(* or stops holding q units of p, every other order holds what it held.     *)
OthersUnchanged(o) ==
    \A x \in Orders \ {o} : ledger'[x] = ledger[x]

(* Order o starts to hold q units of p.                                    *)
LEMMA GainUnits ==
    ASSUME NEW o \in Orders, NEW p, NEW q \in Nat, OthersUnchanged(o),
           ~IsHeld(ledger[o]), IsHeld(ledger[o])',
           ledger'[o].product = p, ledger'[o].quantity = q
    PROVE  /\ HeldUnits(p)' = HeldUnits(p) \cup UnitsOf(o, q)
           /\ HeldUnits(p) \cap UnitsOf(o, q) = {}
           /\ \A r : r # p => HeldUnits(r)' = HeldUnits(r)
<1>0. \A x \in Orders \ {o} : IsHeld(ledger[x])' <=> IsHeld(ledger[x])
    BY DEF OthersUnchanged, IsHeld
<1>1. ASSUME NEW u
      PROVE  u \in HeldUnits(p)' <=> u \in HeldUnits(p) \cup UnitsOf(o, q)
    BY <1>0, HeldUnitsMember, HeldUnitsMemberPrime DEF OthersUnchanged
<1>2. ASSUME NEW u, u \in HeldUnits(p), u \in UnitsOf(o, q)
      PROVE  FALSE
    BY <1>2, HeldUnitsMember, UnitsOfDisjoint
<1>3. ASSUME NEW r, r # p
      PROVE  HeldUnits(r)' = HeldUnits(r)
    <2>1. ASSUME NEW u
          PROVE  u \in HeldUnits(r)' <=> u \in HeldUnits(r)
        BY <1>0, <1>3, HeldUnitsMember, HeldUnitsMemberPrime DEF OthersUnchanged
    <2>2. QED
        BY <2>1
<1>4. HeldUnits(p)' = HeldUnits(p) \cup UnitsOf(o, q)
    BY <1>1
<1>5. HeldUnits(p) \cap UnitsOf(o, q) = {}
    BY <1>2
<1>6. \A r : r # p => HeldUnits(r)' = HeldUnits(r)
    BY <1>3
<1>7. QED
    BY <1>4, <1>5, <1>6

(* Order o gives back the q units of p it held.                            *)
LEMMA LoseUnits ==
    ASSUME NEW o \in Orders, NEW p, NEW q \in Nat, OthersUnchanged(o),
           IsHeld(ledger[o]), ~IsHeld(ledger[o])',
           ledger[o].product = p, ledger[o].quantity = q
    PROVE  /\ HeldUnits(p) = HeldUnits(p)' \cup UnitsOf(o, q)
           /\ HeldUnits(p)' \cap UnitsOf(o, q) = {}
           /\ \A r : r # p => HeldUnits(r)' = HeldUnits(r)
<1>0. \A x \in Orders \ {o} : IsHeld(ledger[x])' <=> IsHeld(ledger[x])
    BY DEF OthersUnchanged, IsHeld
<1>1. ASSUME NEW u
      PROVE  u \in HeldUnits(p) <=> u \in HeldUnits(p)' \cup UnitsOf(o, q)
    BY <1>0, HeldUnitsMember, HeldUnitsMemberPrime DEF OthersUnchanged
<1>2. ASSUME NEW u, u \in HeldUnits(p)', u \in UnitsOf(o, q)
      PROVE  FALSE
    BY <1>2, HeldUnitsMemberPrime, UnitsOfDisjoint
<1>3. ASSUME NEW r, r # p
      PROVE  HeldUnits(r)' = HeldUnits(r)
    <2>1. ASSUME NEW u
          PROVE  u \in HeldUnits(r)' <=> u \in HeldUnits(r)
        BY <1>0, <1>3, HeldUnitsMember, HeldUnitsMemberPrime DEF OthersUnchanged
    <2>2. QED
        BY <2>1
<1>4. HeldUnits(p) = HeldUnits(p)' \cup UnitsOf(o, q)
    BY <1>1
<1>5. HeldUnits(p)' \cap UnitsOf(o, q) = {}
    BY <1>2
<1>6. \A r : r # p => HeldUnits(r)' = HeldUnits(r)
    BY <1>3
<1>7. QED
    BY <1>4, <1>5, <1>6

(* Nobody starts or stops holding units.                                   *)
LEMMA SameUnits ==
    ASSUME NEW p,
           \A x \in Orders : \/ ledger'[x] = ledger[x]
                             \/ ~IsHeld(ledger[x]) /\ ~IsHeld(ledger[x])'
    PROVE  HeldUnits(p)' = HeldUnits(p)
<1>1. ASSUME NEW u
      PROVE  u \in HeldUnits(p)' <=> u \in HeldUnits(p)
    BY HeldUnitsMember, HeldUnitsMemberPrime DEF IsHeld
<1>2. QED
    BY <1>1

-----------------------------------------------------------------------------
IInv == TypeOK /\ StockConserved

LEMMA InitIInv == Init => IInv
<1> SUFFICES ASSUME Init PROVE IInv
    OBVIOUS
<1>1. TypeOK
    BY InventoryAssumption DEF Init, TypeOK
<1>2. ASSUME NEW p \in Products
      PROVE  /\ IsFiniteSet(HeldUnits(p))
             /\ stock[p] + Cardinality(HeldUnits(p)) = InitialStock[p]
    <2>1. HeldUnits(p) = {}
        BY HeldUnitsMember DEF Init, IsHeld
    <2>2. QED
        BY <2>1, FS_EmptySet, InventoryAssumption DEF Init
<1>3. QED
    BY <1>1, <1>2 DEF IInv, StockConserved

(* A row is either a rejection or a decrement of a known product.          *)
LEMMA RowTypes ==
    ASSUME NEW p \in ProductIds, NEW q \in Quantities
    PROVE  /\ q \in Nat /\ q > 0
           /\ Rejection(p, q, "INSUFFICIENT_STOCK") \in LedgerRow
           /\ Rejection(p, q, "NOT_FOUND") \in LedgerRow
           /\ p \in Products =>
                 \A left \in Nat : Decrement(p, q, left) \in LedgerRow
<1>1. q \in Nat /\ q > 0
    BY InventoryAssumption
<1>2. /\ Rejection(p, q, "INSUFFICIENT_STOCK") \in LedgerRow
      /\ Rejection(p, q, "NOT_FOUND") \in LedgerRow
    BY DEF Rejection, LedgerRow, Outcomes
<1>3. ASSUME p \in Products, NEW left \in Nat
      PROVE  Decrement(p, q, left) \in LedgerRow
    <2>1. Price[p] \in Nat
        BY <1>3, InventoryAssumption
    <2>2. Price[p] * q \in Nat
        BY <1>1, <2>1
    <2>3. QED
        BY <2>1, <2>2 DEF Decrement, LedgerRow, Outcomes
<1>4. QED
    BY <1>1, <1>2, <1>3

(* Adding the units of a decrement to a set that has none of them.          *)
LEMMA TakeUnits ==
    ASSUME NEW U, NEW V, NEW q \in Nat,
           IsFiniteSet(U), IsFiniteSet(V), U \cap V = {}, Cardinality(V) = q
    PROVE  /\ IsFiniteSet(U \cup V)
           /\ Cardinality(U \cup V) = Cardinality(U) + q
           /\ Cardinality(U) \in Nat
<1>1. Cardinality(U \cap V) = 0
    BY FS_EmptySet
<1>2. Cardinality(U) \in Nat
    BY FS_CardinalityType
<1>3. /\ IsFiniteSet(U \cup V)
      /\ Cardinality(U \cup V) = Cardinality(U) + Cardinality(V) - Cardinality(U \cap V)
    BY FS_Union
<1>4. QED
    BY <1>1, <1>2, <1>3

(* A decrement takes its units off the shelf and holds them.                *)
LEMMA RecordDecrementIInv ==
    ASSUME IInv, NEW o \in Orders, NEW p \in ProductIds, NEW q \in Quantities,
           RecordDecrement(o, p, q)
    PROVE  IInv'
<1> USE DEF IInv
<1>1. q \in Nat /\ q > 0 /\ p \in Products
    BY RowTypes DEF RecordDecrement
<1>2. stock[p] \in 0..MaxInt /\ stock[p] - q \in 0..MaxInt
    BY <1>1, InventoryAssumption DEF RecordDecrement, TypeOK
<1>3. /\ stock' = [stock EXCEPT ![p] = stock[p] - q]
      /\ ledger' = [ledger EXCEPT ![o] = Decrement(p, q, stock[p] - q)]
    BY DEF RecordDecrement
<1>4. Decrement(p, q, stock[p] - q) \in LedgerRow
    BY <1>1, <1>2, RowTypes, InventoryAssumption
<1>5. TypeOK'
    BY <1>1, <1>2, <1>3, <1>4 DEF TypeOK
<1>6. ledger'[o] = Decrement(p, q, stock[p] - q) /\ OthersUnchanged(o)
    BY <1>3 DEF TypeOK, OthersUnchanged
<1>7. ~IsHeld(ledger[o]) /\ IsHeld(ledger[o])'
    BY <1>4, <1>6, InventoryAssumption DEF RecordDecrement, IsHeld, Decrement
<1>8. ledger'[o].product = p /\ ledger'[o].quantity = q
    BY <1>6 DEF Decrement
<1>9. /\ HeldUnits(p)' = HeldUnits(p) \cup UnitsOf(o, q)
      /\ HeldUnits(p) \cap UnitsOf(o, q) = {}
      /\ \A r : r # p => HeldUnits(r)' = HeldUnits(r)
    BY <1>1, <1>6, <1>7, <1>8, GainUnits
<1>10. ASSUME NEW r \in Products
       PROVE  /\ IsFiniteSet(HeldUnits(r)')
              /\ stock'[r] + Cardinality(HeldUnits(r)') = InitialStock[r]
    <2>1. /\ IsFiniteSet(HeldUnits(r))
          /\ stock[r] + Cardinality(HeldUnits(r)) = InitialStock[r]
        BY DEF StockConserved
    <2>2. CASE r # p
        BY <1>3, <1>9, <2>1, <2>2 DEF TypeOK
    <2>3. CASE r = p
        <3>1. IsFiniteSet(UnitsOf(o, q)) /\ Cardinality(UnitsOf(o, q)) = q
            BY <1>1, UnitsOfCardinality
        <3>2. /\ IsFiniteSet(HeldUnits(p)')
              /\ Cardinality(HeldUnits(p)') = Cardinality(HeldUnits(p)) + q
              /\ Cardinality(HeldUnits(p)) \in Nat
            BY <1>1, <1>9, <2>1, <2>3, <3>1, TakeUnits
        <3>3. stock'[p] = stock[p] - q
            BY <1>1, <1>3 DEF TypeOK
        <3>4. QED
            BY <1>1, <1>2, <2>1, <2>3, <3>2, <3>3
    <2>4. QED
        BY <2>2, <2>3
<1>11. StockConserved'
    BY <1>10 DEF StockConserved
<1>12. QED
    BY <1>5, <1>11

(* Giving back what was held refills the shelf to at most the seed.         *)
LEMMA ReleaseStockIInv ==
    ASSUME IInv, NEW o \in Orders, ReleaseStock(o)
    PROVE  IInv'
<1> USE DEF IInv
<1>1. ledger[o] \in LedgerRow /\ IsHeld(ledger[o])
    BY DEF ReleaseStock, TypeOK, IsHeld
<1>0. PICK p \in ProductIds, q \in Quantities :
           p = ledger[o].product /\ q = ledger[o].quantity
    BY <1>1 DEF LedgerRow
<1>2. q \in Nat /\ q > 0
    BY InventoryAssumption
<1>3. /\ stock' = [stock EXCEPT ![p] = stock[p] + q]
      /\ ledger' = [ledger EXCEPT ![o] = [ledger[o] EXCEPT !.state = "RELEASED"]]
    BY <1>0 DEF ReleaseStock
<1>4. [ledger[o] EXCEPT !.state = "RELEASED"] \in LedgerRow
    BY <1>1 DEF LedgerRow
<1>5. ledger' \in [Orders -> LedgerRow \cup {NoRow}]
    BY <1>3, <1>4 DEF TypeOK
<1>6. ledger'[o] = [ledger[o] EXCEPT !.state = "RELEASED"] /\ OthersUnchanged(o)
    BY <1>3 DEF TypeOK, OthersUnchanged
<1>7. ~IsHeld(ledger[o])'
    BY <1>1, <1>6 DEF IsHeld, LedgerRow
<1>8. /\ HeldUnits(p) = HeldUnits(p)' \cup UnitsOf(o, q)
      /\ HeldUnits(p)' \cap UnitsOf(o, q) = {}
      /\ \A r : r # p => HeldUnits(r)' = HeldUnits(r)
    BY <1>0, <1>1, <1>2, <1>6, <1>7, LoseUnits
<1>9. ASSUME NEW r \in Products
      PROVE  /\ IsFiniteSet(HeldUnits(r)')
             /\ stock'[r] \in 0..MaxInt
             /\ stock'[r] + Cardinality(HeldUnits(r)') = InitialStock[r]
    <2>1. /\ IsFiniteSet(HeldUnits(r))
          /\ stock[r] + Cardinality(HeldUnits(r)) = InitialStock[r]
          /\ stock[r] \in 0..MaxInt
        BY DEF StockConserved, TypeOK
    <2>2. CASE r # p
        BY <1>3, <1>8, <2>1, <2>2 DEF TypeOK
    <2>3. CASE r = p
        <3>1. IsFiniteSet(UnitsOf(o, q)) /\ Cardinality(UnitsOf(o, q)) = q
            BY <1>2, UnitsOfCardinality
        <3>2. IsFiniteSet(HeldUnits(p)')
            BY <1>8, <2>1, <2>3, FS_Subset
        <3>3. /\ Cardinality(HeldUnits(p)) = Cardinality(HeldUnits(p)') + q
              /\ Cardinality(HeldUnits(p)') \in Nat
            BY <1>2, <1>8, <3>1, <3>2, TakeUnits
        <3>4. stock'[p] = stock[p] + q
            BY <1>3, <2>3 DEF TypeOK
        <3>5. InitialStock[p] \in 0..MaxInt
            BY <2>3, InventoryAssumption
        <3>6. stock'[p] + Cardinality(HeldUnits(p)') = InitialStock[p]
            BY <1>2, <2>1, <2>3, <3>3, <3>4
        <3>7. stock'[p] \in 0..MaxInt
            BY <1>2, <2>1, <2>3, <3>3, <3>4, <3>5, <3>6, InventoryAssumption
        <3>8. QED
            BY <2>3, <3>2, <3>6, <3>7
    <2>4. QED
        BY <2>2, <2>3
<1>10. stock' \in [Products -> 0..MaxInt]
    BY <1>3, <1>9 DEF TypeOK
<1>11. QED
    BY <1>5, <1>9, <1>10 DEF TypeOK, StockConserved

(* What a held decrement would give back always fits the column of stock.     *)
LEMMA HeldUnitsFit ==
    ASSUME IInv, NEW o \in Orders, IsHeld(ledger[o]), ledger[o].product \in Products
    PROVE  stock[ledger[o].product] + ledger[o].quantity \in 0..MaxInt
<1>1. PICK p \in Products, q \in Quantities : p = ledger[o].product /\ q = ledger[o].quantity
    BY DEF IInv, TypeOK, IsHeld, LedgerRow
<1>2. q \in Nat /\ InitialStock[p] \in 0..MaxInt /\ MaxInt \in Nat
    BY InventoryAssumption
<1>3. /\ IsFiniteSet(HeldUnits(p)) /\ stock[p] \in 0..MaxInt
      /\ stock[p] + Cardinality(HeldUnits(p)) = InitialStock[p]
    BY DEF IInv, TypeOK, StockConserved
<1>4. UnitsOf(o, q) \subseteq HeldUnits(p)
    BY <1>1, HeldUnitsMember
<1>5. Cardinality(UnitsOf(o, q)) = q
    BY <1>2, UnitsOfCardinality
<1>6. q <= Cardinality(HeldUnits(p)) /\ Cardinality(HeldUnits(p)) \in Nat
    BY <1>3, <1>4, <1>5, FS_Subset, FS_CardinalityType
<1>7. QED
    BY <1>1, <1>2, <1>3, <1>6

LEMMA RejectionIInv ==
    ASSUME IInv, NEW o \in Orders, NEW p \in ProductIds, NEW q \in Quantities,
           RecordInsufficient(o, p, q) \/ RecordNotFound(o, p, q)
    PROVE  IInv'
<1>1. PICK why \in {"INSUFFICIENT_STOCK", "NOT_FOUND"} :
         ledger' = [ledger EXCEPT ![o] = Rejection(p, q, why)]
    BY DEF RecordInsufficient, RecordNotFound
<1>2. stock' = stock /\ ledger[o] = NoRow
    BY DEF RecordInsufficient, RecordNotFound
<1>3. Rejection(p, q, why) \in LedgerRow
    BY RowTypes
<1>4. TypeOK'
    BY <1>1, <1>2, <1>3 DEF IInv, TypeOK
<1>5. ASSUME NEW x \in Orders
      PROVE  \/ ledger'[x] = ledger[x]
             \/ ~IsHeld(ledger[x]) /\ ~IsHeld(ledger[x])'
    BY <1>1, <1>2 DEF IInv, TypeOK, IsHeld, Rejection
<1>6. \A r : HeldUnits(r)' = HeldUnits(r)
    BY <1>5, SameUnits
<1>7. StockConserved'
    BY <1>2, <1>6 DEF IInv, StockConserved
<1>8. QED
    BY <1>4, <1>7 DEF IInv

LEMMA StepIInv == IInv /\ [Next]_vars => IInv'
<1> SUFFICES ASSUME IInv, [Next]_vars PROVE IInv'
    OBVIOUS
<1>1. ASSUME NEW o \in Orders, NEW p \in ProductIds, NEW q \in Quantities,
             DecrementStock(o, p, q)
      PROVE  IInv'
    BY <1>1, RecordDecrementIInv, RejectionIInv DEF DecrementStock
<1>2. ASSUME NEW o \in Orders, ReleaseStock(o)
      PROVE  IInv'
    BY <1>2, ReleaseStockIInv
<1>3. ASSUME UNCHANGED vars
      PROVE  IInv'
    <2>1. stock' = stock /\ ledger' = ledger
        BY <1>3 DEF vars
    <2>2. \A r : HeldUnits(r)' = HeldUnits(r)
        BY <2>1, SameUnits
    <2>3. QED
        BY <2>1, <2>2 DEF IInv, TypeOK, StockConserved
<1>4. QED
    BY <1>1, <1>2, <1>3 DEF Next

LEMMA Inductive == Spec => []IInv
<1>1. QED
    BY InitIInv, StepIInv, PTL DEF Spec

(* The columns keep their types; stock never goes negative and never        *)
(* overflows, whatever is decremented and released, in whatever order.      *)
THEOREM TypeCorrect == Spec => []TypeOK
<1>1. IInv => TypeOK
    BY DEF IInv
<1>2. QED
    BY <1>1, Inductive, PTL

(* Units are conserved: shelf plus live decrements is the seeded stock.      *)
THEOREM StockConservation == Spec => []StockConserved
<1>1. IInv => StockConserved
    BY DEF IInv
<1>2. QED
    BY <1>1, Inductive, PTL

(* The only way a ledger row ever changes.                                  *)
FinalRow(o) ==
    ledger[o] # NoRow =>
        \/ ledger'[o] = ledger[o]
        \/ /\ IsHeld(ledger[o])
           /\ ledger'[o] = [ledger[o] EXCEPT !.state = "RELEASED"]

LEMMA StepFinalRow ==
    ASSUME TypeOK, [Next]_vars, NEW o \in Orders
    PROVE  FinalRow(o)
<1>1. ASSUME NEW x \in Orders, NEW p \in ProductIds, NEW q \in Quantities,
             DecrementStock(x, p, q)
      PROVE  FinalRow(o)
    BY <1>1 DEF TypeOK, DecrementStock, RecordDecrement, RecordInsufficient,
                RecordNotFound, FinalRow
<1>2. ASSUME NEW x \in Orders, ReleaseStock(x)
      PROVE  FinalRow(o)
    BY <1>2 DEF TypeOK, ReleaseStock, FinalRow
<1>3. ASSUME UNCHANGED vars
      PROVE  FinalRow(o)
    BY <1>3 DEF vars, FinalRow
<1>4. QED
    BY <1>1, <1>2, <1>3 DEF Next

(* The ledger is append-only but for the one-way release of a decrement.     *)
THEOREM LedgerIsFinal == Spec => LedgerFinal
<1>1. TypeOK /\ [Next]_vars => [\A o \in Orders : FinalRow(o)]_vars
    BY StepFinalRow
<1>2. [][\A o \in Orders : FinalRow(o)]_vars => LedgerFinal
    BY PTL DEF FinalRow, LedgerFinal
<1>3. QED
    BY <1>1, <1>2, TypeCorrect, PTL DEF Spec

-----------------------------------------------------------------------------
(* A rejection can only lose its justification when stock grows, and stock  *)
(* only grows by a release, which leaves a RELEASED row of the product. The  *)
(* step needs to know that a product which ran short is in the catalogue.   *)
IsShortage(row) == row # NoRow /\ row.outcome = "INSUFFICIENT_STOCK"

Justified(o) ==
    IsShortage(ledger[o]) =>
        \E p \in Products, q \in Quantities :
            /\ ledger[o].product = p
            /\ ledger[o].quantity = q
            /\ stock[p] < q \/ Refilled(p)

JInv == \A o \in Orders : Justified(o)

(* Once a product was refilled its released row stays.                      *)
LEMMA RefilledStays ==
    ASSUME TypeOK, [Next]_vars, NEW p, Refilled(p)
    PROVE  Refilled(p)'
<1>1. PICK o \in Orders : IsReleased(ledger[o]) /\ ledger[o].product = p
    BY DEF Refilled
<1>2. ledger'[o] = ledger[o]
    BY <1>1, StepFinalRow DEF FinalRow, IsReleased, IsHeld
<1>3. QED
    BY <1>1, <1>2 DEF Refilled, IsReleased

(* The new row of a rejection: it ran short a moment ago.                   *)
LEMMA NewShortage ==
    ASSUME TypeOK, [Next]_vars, NEW x \in Orders, NEW p \in ProductIds,
           NEW q \in Quantities, RecordInsufficient(x, p, q)
    PROVE  Justified(x)'
<1>1. /\ ledger'[x] = Rejection(p, q, "INSUFFICIENT_STOCK")
      /\ stock' = stock /\ p \in Products
    BY DEF RecordInsufficient, TypeOK
<1>2. stock[p] < q \/ Refilled(p)
    BY DEF RecordInsufficient
<1>3. stock'[p] < q \/ Refilled(p)'
    BY <1>1, <1>2, RefilledStays
<1>4. QED
    BY <1>1, <1>3 DEF Justified, Rejection

(* An old rejection: either stock did not grow or its product was refilled. *)
LEMMA OldShortage ==
    ASSUME TypeOK, [Next]_vars, NEW x \in Orders, Justified(x),
           ledger'[x] = ledger[x], IsShortage(ledger[x])
    PROVE  Justified(x)'
<1>1. PICK p \in Products, q \in Quantities :
           /\ ledger[x].product = p
           /\ ledger[x].quantity = q
           /\ stock[p] < q \/ Refilled(p)
    BY DEF Justified
<1>2. q \in Nat /\ stock[p] \in Nat
    BY InventoryAssumption DEF TypeOK
<1>3. stock'[p] < q \/ Refilled(p)'
    <2>1. CASE Refilled(p)
        BY <2>1, RefilledStays
    <2>2. CASE stock[p] < q
        <3>1. ASSUME NEW o \in Orders, NEW r \in ProductIds, NEW n \in Quantities,
                     DecrementStock(o, r, n)
              PROVE  stock'[p] < q
            <4>1. n \in Nat
                BY InventoryAssumption
            <4>2. QED
                BY <1>2, <2>2, <3>1, <4>1
                DEF DecrementStock, RecordDecrement, RecordInsufficient,
                    RecordNotFound, TypeOK
        <3>2. ASSUME NEW o \in Orders, ReleaseStock(o), ledger[o].product = p
              PROVE  Refilled(p)'
            <4>1. ledger[o] \in LedgerRow
                BY <3>2 DEF ReleaseStock, IsHeld, TypeOK
            <4>2. ledger'[o] = [ledger[o] EXCEPT !.state = "RELEASED"]
                BY <3>2 DEF ReleaseStock, TypeOK
            <4>3. /\ ledger'[o] \in LedgerRow
                  /\ ledger'[o].outcome = "DECREMENTED"
                  /\ ledger'[o].state = "RELEASED"
                  /\ ledger'[o].product = p
                BY <3>2, <4>1, <4>2 DEF ReleaseStock, IsHeld, LedgerRow
            <4>4. QED
                BY <4>3, InventoryAssumption DEF Refilled, IsReleased
        <3>3. ASSUME NEW o \in Orders, ReleaseStock(o), ledger[o].product # p
              PROVE  stock'[p] < q
            BY <2>2, <3>3 DEF ReleaseStock, TypeOK
        <3>4. ASSUME UNCHANGED vars
              PROVE  stock'[p] < q
            BY <2>2, <3>4 DEF vars
        <3>5. QED
            BY <3>1, <3>2, <3>3, <3>4 DEF Next
    <2>3. QED
        BY <1>1, <2>1, <2>2
<1>4. QED
    BY <1>1, <1>3 DEF Justified

LEMMA StepJInv == TypeOK /\ JInv /\ [Next]_vars => JInv'
<1> SUFFICES ASSUME TypeOK, JInv, [Next]_vars, NEW x \in Orders
             PROVE  Justified(x)'
    BY DEF JInv
<1>1. CASE ledger[x] # NoRow
    <2>1. CASE ledger'[x] = ledger[x]
        BY <2>1, OldShortage DEF JInv, Justified, IsShortage
    <2>2. CASE ledger'[x] # ledger[x]
        <3>1. ~IsShortage(ledger[x])'
            BY <1>1, <2>2, StepFinalRow
            DEF FinalRow, IsHeld, IsShortage, TypeOK, LedgerRow
        <3>2. QED
            BY <3>1 DEF Justified
    <2>3. QED
        BY <2>1, <2>2
<1>2. CASE ledger[x] = NoRow
    <2>1. ASSUME NEW p \in ProductIds, NEW q \in Quantities, RecordInsufficient(x, p, q)
          PROVE  Justified(x)'
        BY <2>1, NewShortage
    <2>2. CASE \A p \in ProductIds, q \in Quantities : ~RecordInsufficient(x, p, q)
        <3>1. ~IsShortage(ledger[x])'
            BY <1>2, <2>2
            DEF Next, vars, DecrementStock, RecordDecrement, RecordInsufficient,
                RecordNotFound, ReleaseStock, Decrement, Rejection, IsShortage, TypeOK,
                IsHeld
        <3>2. QED
            BY <3>1 DEF Justified
    <2>3. QED
        BY <2>1, <2>2
<1>3. QED
    BY <1>1, <1>2

(* What every retry of a rejected order is told stays true: unless the       *)
(* product was refilled by a release, it is still short.                     *)
THEOREM RejectionsStayJustified == Spec => []RejectionsJustified
<1>1. Init => JInv
    BY DEF Init, JInv, Justified, IsShortage
<1>2. JInv => RejectionsJustified
    BY DEF JInv, Justified, IsShortage, RejectionsJustified
<1>3. QED
    BY <1>1, <1>2, StepJInv, TypeCorrect, PTL DEF Spec
=============================================================================
