------------------------- MODULE OrderContractProofs -------------------------
(* What POST /orders answers is backed by what the services have recorded,     *)
(* and is what the monolith would have answered, for every set of requests,   *)
(* products and orders.                                                      *)
EXTENDS OrderContract, InventoryProofs

Types ==
    /\ body \in [Orders -> Bodies \cup {NoRow}]
    /\ saga \in [Orders -> SagaRow \cup {NoRow}]
    /\ orders \in [Orders -> OrderRow \cup {NoRow}]
    /\ outbox \in [Orders -> OutboxRow \cup {NoRow}]
    /\ answer = [o \in Orders |-> answer[o]]

Aborted == {"ABORTED_INSUFFICIENT_STOCK", "ABORTED_NOT_FOUND"}

(* The decrement of the row was made, whether or not it was given back.       *)
TookStock(row) == row # NoRow /\ row.outcome = "DECREMENTED"

Refusing(a) == a.status \in {400, 404}

(* While its client waits, a saga is the first attempt at the very request.   *)
BodyTrue(o) ==
    body[o] # NoRow =>
        /\ answer[o] = Pending
        /\ saga[o] # NoRow =>
              /\ Refusal(body[o]) = "none" /\ saga[o].state \in {"STARTED", "DECREMENTED", "COMPLETED"}
              /\ saga[o].id = body[o].id /\ saga[o].quantity = body[o].quantity

(* Every row is one that all services understand.                           *)
Understood(row) ==
    /\ row.product = "exact" /\ row.email = "strict"
    /\ row.quantity \in Quantities /\ row.quantity <= MaxInt
    /\ row.lastStatus # 400

(* What inventory, orders, outbox and client know of a saga in each state. An  *)
(* order may be there whatever was written over its COMPLETED, and a decrement *)
(* may have been given back however little is known of its release.          *)
SagaTrue(o) ==
    LET state == saga[o].state IN
    /\ Understood(saga[o])
    /\ orders[o] # NoRow <=> outbox[o] # NoRow
    /\ outbox[o] # NoRow => outbox[o].lastStatus # 400
    /\ orders[o] # NoRow =>
          /\ state \in {"DECREMENTED", "COMPLETED", "RELEASED"}
          /\ TookStock(ledger[o]) /\ orders[o].total = ledger[o].total
    /\ answer[o] = Created => orders[o] # NoRow
    /\ Refusing(answer[o]) => state \in Aborted
    /\ state = "STARTED" => ledger[o] = NoRow
    /\ state = "UNCERTAIN" => ~IsReleased(ledger[o])
    /\ state \in Aborted \cup {"RELEASED"} => ~IsHeld(ledger[o])
    /\ state \in {"DECREMENTED", "COMPLETED"} => TookStock(ledger[o])
    /\ state = "COMPLETED" => orders[o] # NoRow
    /\ TookStock(ledger[o]) => ledger[o].total = ledger[o].unitPrice * saga[o].quantity

NothingYet(o) ==
    ledger[o] = NoRow /\ orders[o] = NoRow /\ outbox[o] = NoRow /\ answer[o] # Created

OrderTrue(o) == BodyTrue(o) /\ IF saga[o] = NoRow THEN NothingYet(o) ELSE SagaTrue(o)

CInv == Types /\ \A o \in Orders : OrderTrue(o)

-----------------------------------------------------------------------------
(* Inventory.                                                                *)

LEMMA RowIsUnderstood ==
    ASSUME NEW row, Understood(row)
    PROVE  ParseStockDecrementRequest(row) /\ ParseOrderConfirmationIntent(row)
<1>1. row.quantity \in Nat \ {0}
  BY InventoryAssumption DEF Understood
<1>2. row.quantity >= 1
  BY <1>1
<1> QED
  BY <1>2 DEF Understood, ParseStockDecrementRequest, ParseOrderConfirmationIntent

LEMMA SagaIsUnderstood ==
    ASSUME CInv, NEW o \in Orders, saga[o] # NoRow
    PROVE  /\ Understood(saga[o]) /\ ParseStockDecrementRequest(saga[o])
           /\ ParseOrderConfirmationIntent(saga[o])
           /\ saga[o] \in SagaRow /\ saga[o].quantity \in Quantities
<1>1. Understood(saga[o]) /\ saga[o] \in SagaRow
  BY DEF CInv, Types, OrderTrue, SagaTrue
<1> QED
  BY <1>1, RowIsUnderstood DEF Understood

(* Seen from inventory every step is one of Inventory, or none.               *)
LEMMA StepIsInventorys == CInv /\ [ContractNext]_contractVars => [Next]_vars
<1> SUFFICES ASSUME CInv, [ContractNext]_contractVars PROVE [Next]_vars
  OBVIOUS
<1>1. ASSUME NEW o \in Orders, CallDecrement(o) PROVE [Next]_vars
  <2>1. saga[o].id \in ProductIds /\ saga[o].quantity \in Quantities
    BY <1>1, SagaIsUnderstood DEF CallDecrement, SagaRow
  <2> QED
    BY <1>1, <2>1 DEF CallDecrement, Next, vars
<1>2. ASSUME NEW o \in Orders, CommitFails(o) PROVE [Next]_vars
  BY <1>2 DEF CommitFails, Release, Next
<1>3. CASE UNCHANGED vars
  BY <1>3
<1>4. ASSUME NEW o \in Orders,
             (\E b \in Bodies : Send(o, b)) \/ Refuse(o) \/ Accept(o) \/ Commit(o)
                               \/ Dispatch(o) \/ DispatchDue(o)
      PROVE  UNCHANGED vars
  BY <1>4 DEF Send, Refuse, Accept, Commit, Dispatch, DispatchDue, vars
<1> QED
  BY <1>1, <1>2, <1>3, <1>4 DEF ContractNext, contractVars, vars

-----------------------------------------------------------------------------
(* Answers.                                                                 *)

(* No refusal can be taken for another answer.                              *)
LEMMA Sayings ==
    /\ \A kind \in {"insufficient-stock", "product-not-found", "invalid"} :
          Refusing(Envelope(kind)) /\ Envelope(kind) # Pending
    /\ \A kind \in {"unavailable", "internal", "confirmation-failed", "created"} :
          ~Refusing(Envelope(kind)) /\ Envelope(kind) # Pending
    /\ ~Refusing(Pending) /\ ~Refusing(Created) /\ Created # Pending
    /\ \A kind \in {"insufficient-stock", "product-not-found", "invalid", "unavailable",
                     "internal", "confirmation-failed"} : Envelope(kind) # Created
    /\ Envelope("created") = Created
<1>1. \A n, c : Says(n, c).status = n
  BY DEF Says
<1>2. Created.status = 201 /\ Pending.status = 0
  BY <1>1 DEF Created, Pending
<1>3. /\ Envelope("insufficient-stock").status = 400
      /\ Envelope("invalid").status = 400
      /\ Envelope("product-not-found").status = 404
      /\ Envelope("unavailable").status = 503
  <2>1. /\ Envelope("insufficient-stock") = Says(400, "INSUFFICIENT_STOCK")
        /\ Envelope("invalid") = Says(400, "INVALID")
        /\ Envelope("product-not-found") = Says(404, "NOT_FOUND")
        /\ Envelope("unavailable") = Says(503, "UNAVAILABLE")
    BY DEF Envelope
  <2> QED
    BY <1>1, <2>1
<1>4. Envelope("internal").status = 500 /\ Envelope("confirmation-failed").status = 500
  <2>1. /\ Envelope("internal") = Says(500, "")
        /\ Envelope("confirmation-failed") = Says(500, "")
    BY DEF Envelope
  <2>2. Says(500, "").status = 500
    BY DEF Says
  <2> QED
    BY <2>1, <2>2
<1>5. Envelope("created") = Created
  BY DEF Envelope
<1>6. ASSUME NEW kind \in {"insufficient-stock", "product-not-found", "invalid"}
      PROVE  Envelope(kind).status \in {400, 404}
  BY <1>3
<1>7. ASSUME NEW kind \in {"unavailable", "internal", "confirmation-failed"}
      PROVE  Envelope(kind).status \in {500, 503}
  BY <1>3, <1>4
<1>8. ~Refusing(Pending) /\ ~Refusing(Created) /\ Created # Pending
  BY <1>2 DEF Refusing
<1>9. ASSUME NEW kind \in {"insufficient-stock", "product-not-found", "invalid"}
      PROVE  Refusing(Envelope(kind)) /\ Envelope(kind) # Pending /\ Envelope(kind) # Created
  BY <1>2, <1>6 DEF Refusing
<1>10. ASSUME NEW kind \in {"unavailable", "internal", "confirmation-failed"}
      PROVE  ~Refusing(Envelope(kind)) /\ Envelope(kind) # Pending /\ Envelope(kind) # Created
  BY <1>2, <1>7 DEF Refusing
<1> QED
  BY <1>5, <1>8, <1>9, <1>10

(* What the client makes of an answer, of one that breaks off and of none.    *)
LEMMA Readings ==
    /\ \A n \in {200, 201} :
          /\ \A c : c # "torn" => ReadDecrementAnswer(Says(n, c)) = "DECREMENTED"
          /\ ReadDecrementAnswer(Says(n, "torn")) = "UNAVAILABLE"
    /\ \A c : ReadDecrementAnswer(Says(404, c)) = "PRODUCT_NOT_FOUND"
    /\ ReadDecrementAnswer(Says(409, "INSUFFICIENT_STOCK")) = "INSUFFICIENT_STOCK"
    /\ ReadDecrementAnswer(Says(409, "torn")) = "UNAVAILABLE"
    /\ \A n \in {0, 500} : \A c : ReadDecrementAnswer(Says(n, c)) = "UNAVAILABLE"
<1>1. \A n, c : Says(n, c).status = n /\ Says(n, c).code = c
  BY DEF Says
<1>2. ASSUME NEW n, n # 409, NEW c
      PROVE  /\ Says(n, c) # Says(409, "INSUFFICIENT_STOCK")
             /\ Says(n, c) # Says(409, "STATE_CONFLICT")
  BY <1>2 DEF Says
<1>3. ASSUME NEW n \in {200, 201}
      PROVE  /\ \A c : c # "torn" => ReadDecrementAnswer(Says(n, c)) = "DECREMENTED"
             /\ ReadDecrementAnswer(Says(n, "torn")) = "UNAVAILABLE"
  BY <1>1, <1>2, <1>3 DEF ReadDecrementAnswer
<1>4. ASSUME NEW c PROVE ReadDecrementAnswer(Says(404, c)) = "PRODUCT_NOT_FOUND"
  BY <1>1 DEF ReadDecrementAnswer
<1>5. ReadDecrementAnswer(Says(409, "INSUFFICIENT_STOCK")) = "INSUFFICIENT_STOCK"
  BY <1>1 DEF ReadDecrementAnswer
<1>6. ReadDecrementAnswer(Says(409, "torn")) = "UNAVAILABLE"
  BY <1>1 DEF ReadDecrementAnswer
<1>7. ASSUME NEW n \in {0, 500}, NEW c PROVE ReadDecrementAnswer(Says(n, c)) = "UNAVAILABLE"
  BY <1>1, <1>2, <1>7 DEF ReadDecrementAnswer
<1> QED
  BY <1>3, <1>4, <1>5, <1>6, <1>7

(* The write that a decision makes. None of them is about a refusal.          *)
Settles(o, state) ==
    \E n \in Nat \ {400} : saga' = [saga EXCEPT ![o].state = state, ![o].lastStatus = n]

LEMMA Resolved ==
    ASSUME NEW o, NEW a, a.status \in Nat \ {400}, Resolve(o, a),
           ReadDecrementAnswer(a) # "ALREADY_RELEASED"
    PROVE  \/ /\ ReadDecrementAnswer(a) = "DECREMENTED"
              /\ Settles(o, "DECREMENTED") /\ UNCHANGED <<body, answer>>
           \/ /\ ReadDecrementAnswer(a) = "INSUFFICIENT_STOCK"
              /\ Settles(o, "ABORTED_INSUFFICIENT_STOCK") /\ Reply(o, "insufficient-stock")
           \/ /\ ReadDecrementAnswer(a) = "PRODUCT_NOT_FOUND"
              /\ Settles(o, "ABORTED_NOT_FOUND") /\ Reply(o, "product-not-found")
           \/ /\ ReadDecrementAnswer(a) = "UNAVAILABLE"
              /\ Settles(o, "UNCERTAIN") /\ Reply(o, "unavailable")
<1> DEFINE kind == ReadDecrementAnswer(a)
<1>1. kind \in {"DECREMENTED", "INSUFFICIENT_STOCK", "PRODUCT_NOT_FOUND", "UNAVAILABLE"}
  BY DEF ReadDecrementAnswer
<1>2. /\ Settles(o, StateAfter(kind))
      /\ IF kind = "DECREMENTED" THEN UNCHANGED <<body, answer>> ELSE Reply(o, Advance(kind))
  BY DEF Resolve, Settles
<1> HIDE DEF kind
<1>3. /\ kind = "DECREMENTED" => StateAfter(kind) = "DECREMENTED"
      /\ kind = "INSUFFICIENT_STOCK" =>
            /\ StateAfter(kind) = "ABORTED_INSUFFICIENT_STOCK"
            /\ Advance(kind) = "insufficient-stock"
      /\ kind = "PRODUCT_NOT_FOUND" =>
            StateAfter(kind) = "ABORTED_NOT_FOUND" /\ Advance(kind) = "product-not-found"
      /\ kind = "UNAVAILABLE" => StateAfter(kind) = "UNCERTAIN" /\ Advance(kind) = "unavailable"
  BY DEF StateAfter, Advance
<1> QED
  BY <1>1, <1>2, <1>3 DEF kind

Decides(o, row) ==
    \/ IsHeld(row) /\ Settles(o, "DECREMENTED") /\ UNCHANGED <<body, answer>>
    \/ /\ row # NoRow /\ row.outcome = "INSUFFICIENT_STOCK"
       /\ Settles(o, "ABORTED_INSUFFICIENT_STOCK") /\ Reply(o, "insufficient-stock")
    \/ /\ row # NoRow /\ row.outcome = "NOT_FOUND"
       /\ Settles(o, "ABORTED_NOT_FOUND") /\ Reply(o, "product-not-found")
    \/ Settles(o, "UNCERTAIN") /\ Reply(o, "unavailable")

LEMMA Unheard ==
    ASSUME NEW o, Resolve(o, Pending)
    PROVE Settles(o, "UNCERTAIN") /\ Reply(o, "unavailable")
<1>1. \E c : Pending = Says(0, c)
  BY DEF Pending
<1>2. Pending.status = 0
  BY DEF Pending, Says
<1>3. ReadDecrementAnswer(Pending) = "UNAVAILABLE"
  BY <1>1, Readings
<1> QED
  BY <1>2, <1>3, Resolved

(* However much of the answer arrives, what is decided is what it says.      *)
LEMMA HeardAnswer ==
    ASSUME NEW o, NEW row \in LedgerRow, ~IsReleased(row), NEW replayed,
           Hear(o, SendDecrement(row, replayed))
    PROVE  Decides(o, row)
<1> DEFINE a == SendDecrement(row, replayed)
<1>1. row # NoRow /\ row.outcome \in Outcomes /\ row.state \in {"RECORDED", "RELEASED"}
  BY InventoryAssumption DEF LedgerRow
<1>2. ASSUME NEW n, NEW c PROVE Says(n, c).status = n /\ Torn(Says(n, c)) = Says(n, "torn")
  BY DEF Says, Torn
<1>3. CASE Resolve(o, Pending)
  BY <1>3, Unheard DEF Decides
<1>4. CASE IsHeld(row)
  <2>1. a = Says(IF replayed THEN 200 ELSE 201, "") /\ "" # "torn"
    BY <1>4 DEF SendDecrement
  <2>2. PICK n, c : n \in {200, 201} /\ a = Says(n, c) /\ c # "torn"
    <3>1. CASE replayed
      <4>1. a = Says(200, "")
        BY <2>1, <3>1
      <4>2. \E c : a = Says(200, c) /\ c # "torn"
        BY <2>1, <4>1, Zenon
      <4> QED
        BY <4>2
    <3>2. CASE ~replayed
      <4>1. a = Says(201, "")
        BY <2>1, <3>2
      <4>2. \E c : a = Says(201, c) /\ c # "torn"
        BY <2>1, <4>1, Zenon
      <4> QED
        BY <4>2
    <3> QED
      BY <3>1, <3>2
  <2>3. ReadDecrementAnswer(a) = "DECREMENTED" /\ ReadDecrementAnswer(Torn(a)) = "UNAVAILABLE"
    BY <1>2, <2>2, Readings
  <2>4. a.status \in Nat \ {400} /\ Torn(a).status \in Nat \ {400}
    BY <1>2, <2>2
  <2> QED
    BY <1>3, <1>4, <2>3, <2>4, Resolved DEF Hear, Decides
<1>5. CASE row.outcome = "NOT_FOUND"
  <2>1. a = Says(404, "NOT_FOUND")
    BY <1>5 DEF SendDecrement, IsHeld, StockError
  <2>2. /\ ReadDecrementAnswer(a) = "PRODUCT_NOT_FOUND"
        /\ ReadDecrementAnswer(Torn(a)) = "PRODUCT_NOT_FOUND"
    BY <1>2, <2>1, Readings
  <2>3. a.status \in Nat \ {400} /\ Torn(a).status \in Nat \ {400}
    BY <1>2, <2>1
  <2> QED
    BY <1>1, <1>3, <1>5, <2>2, <2>3, Resolved DEF Hear, Decides
<1>6. CASE row.outcome = "INSUFFICIENT_STOCK"
  <2>1. a = Says(409, "INSUFFICIENT_STOCK")
    BY <1>6 DEF SendDecrement, IsHeld, StockError
  <2>2. /\ ReadDecrementAnswer(a) = "INSUFFICIENT_STOCK"
        /\ ReadDecrementAnswer(Torn(a)) = "UNAVAILABLE"
    BY <1>2, <2>1, Readings
  <2>3. a.status \in Nat \ {400} /\ Torn(a).status \in Nat \ {400}
    BY <1>2, <2>1
  <2> QED
    BY <1>1, <1>3, <1>6, <2>2, <2>3, Resolved DEF Hear, Decides
<1> QED
  BY <1>1, <1>4, <1>5, <1>6 DEF Outcomes, IsHeld, IsReleased

LEMMA HeardUnhandled ==
    ASSUME NEW o, Hear(o, Unhandled) PROVE Settles(o, "UNCERTAIN") /\ Reply(o, "unavailable")
<1>1. (\E c : Unhandled = Says(500, c)) /\ Torn(Unhandled) = Says(500, "torn")
  <2>1. \E c : Unhandled = Says(500, c)
    BY DEF Unhandled
  <2>2. Torn(Unhandled) = Says(500, "torn")
    BY DEF Unhandled, Torn, Says
  <2> QED
    BY <2>1, <2>2
<1>2. Unhandled.status = 500 /\ Torn(Unhandled).status = 500
  BY DEF Unhandled, Torn, Says
<1>3. /\ ReadDecrementAnswer(Unhandled) = "UNAVAILABLE"
      /\ ReadDecrementAnswer(Torn(Unhandled)) = "UNAVAILABLE"
  BY <1>1, Readings
<1> QED
  BY <1>2, <1>3, Resolved, Unheard DEF Hear

LEMMA Settled ==
    ASSUME Types, NEW o \in Orders, saga[o] # NoRow, NEW state \in SagaStates, Settles(o, state)
    PROVE  /\ saga' \in [Orders -> SagaRow \cup {NoRow}]
           /\ saga'[o] \in SagaRow /\ saga'[o] # NoRow
           /\ saga'[o].state = state /\ saga'[o].lastStatus # 400
           /\ saga'[o].product = saga[o].product /\ saga'[o].email = saga[o].email
           /\ saga'[o].id = saga[o].id /\ saga'[o].quantity = saga[o].quantity
           /\ \A x \in Orders : x # o => saga'[x] = saga[x]
<1>1. PICK n \in Nat \ {400} : saga' = [saga EXCEPT ![o].state = state, ![o].lastStatus = n]
  BY DEF Settles
<1>2. saga \in [Orders -> SagaRow \cup {NoRow}] /\ saga[o] \in SagaRow
  BY DEF Types
<1> DEFINE row == [saga[o] EXCEPT !.state = state, !.lastStatus = n]
<1>3. /\ row \in SagaRow
      /\ row.state = state /\ row.lastStatus = n
      /\ row.product = saga[o].product /\ row.email = saga[o].email
      /\ row.id = saga[o].id /\ row.quantity = saga[o].quantity
  <2> DEFINE half == [saga[o] EXCEPT !.state = state]
  <2>1. /\ half \in SagaRow /\ half.state = state
        /\ half.product = saga[o].product /\ half.email = saga[o].email
        /\ half.id = saga[o].id /\ half.quantity = saga[o].quantity
    BY <1>2 DEF SagaRow
  <2>2. row = [half EXCEPT !.lastStatus = n]
    OBVIOUS
  <2> QED
    BY <2>1, <2>2 DEF SagaRow
<1>4. saga'[o] = row /\ \A x \in Orders : x # o => saga'[x] = saga[x]
  BY <1>1, <1>2
<1>5. saga' \in [Orders -> SagaRow \cup {NoRow}]
  <2>1. saga' = [saga EXCEPT ![o] = row]
    BY <1>1, <1>2
  <2> QED
    BY <1>2, <1>3, <2>1
<1>6. row # NoRow
  BY <1>3, ContractAssumption
<1> QED
  BY <1>3, <1>4, <1>5, <1>6

LEMMA Replied ==
    ASSUME Types, NEW o \in Orders, NEW kind, Reply(o, kind)
    PROVE  /\ body' \in [Orders -> Bodies \cup {NoRow}] /\ body'[o] = NoRow
           /\ answer' = [x \in Orders |-> answer'[x]]
           /\ answer'[o] = IF body[o] = NoRow THEN answer[o] ELSE Envelope(kind)
           /\ \A x \in Orders : x # o => body'[x] = body[x] /\ answer'[x] = answer[x]
BY DEF Types, Reply

-----------------------------------------------------------------------------
(* The steps. Each is about one order; what is true of the others stays.     *)

Same(x) ==
    /\ body'[x] = body[x] /\ saga'[x] = saga[x] /\ ledger'[x] = ledger[x]
    /\ orders'[x] = orders[x] /\ outbox'[x] = outbox[x] /\ answer'[x] = answer[x]

LEMMA SameStays == ASSUME NEW x, Same(x), OrderTrue(x) PROVE OrderTrue(x)'
BY DEF Same, OrderTrue, BodyTrue, NothingYet, SagaTrue, Understood, TookStock, IsHeld, IsReleased, Refusal,
       EdgeRefuses, BodyTooLarge, ParseClientIdempotencyKey, ParseOrderRequest, ParsesProduct,
       ParsesQuantity, ParsesEmail

LEMMA OneStays ==
    ASSUME CInv, NEW o \in Orders, Types', OrderTrue(o)',
           \A x \in Orders : x # o => Same(x)
    PROVE  CInv'
BY SameStays DEF CInv

LEMMA SendKeeps == ASSUME CInv, NEW o \in Orders, NEW b \in Bodies, Send(o, b) PROVE CInv'
<1>1. Types' /\ body'[o] = b
  BY DEF CInv, Types, Send
<1>2. \A x \in Orders : x # o => Same(x)
  BY DEF CInv, Types, Send, Same
<1>3. NothingYet(o)'
  BY DEF CInv, OrderTrue, Send, NothingYet
<1>4. OrderTrue(o)'
  BY <1>3 DEF OrderTrue, BodyTrue, Send
<1> QED
  BY <1>1, <1>2, <1>4, OneStays

LEMMA RefuseKeeps == ASSUME CInv, NEW o \in Orders, Refuse(o) PROVE CInv'
<1>1. PICK kind \in {"invalid", "internal"} : Reply(o, kind)
  BY DEF Refuse, Refusal
<1>2. Types' /\ body'[o] = NoRow /\ answer'[o] # Created
  BY <1>1, Replied, Sayings DEF CInv, Types, Refuse
<1>3. \A x \in Orders : x # o => Same(x)
  BY <1>1, Replied DEF CInv, Refuse, Same
<1>4. OrderTrue(o)'
  BY <1>2 DEF CInv, OrderTrue, BodyTrue, NothingYet, Refuse
<1> QED
  BY <1>2, <1>3, <1>4, OneStays

(* What shopflow-orders accepts is a row that all others understand.         *)
LEMMA AcceptedIsUnderstood ==
    ASSUME NEW b \in Bodies, Refusal(b) = "none"
    PROVE  /\ NewOperation(b) \in SagaRow /\ NewOperation(b) # NoRow
           /\ Understood(NewOperation(b)) /\ NewOperation(b).state = "STARTED"
           /\ NewOperation(b).id = b.id /\ NewOperation(b).quantity = b.quantity
<1>1. /\ ParseOrderRequest(b) /\ b.quantity <= MaxInt
  BY ContractAssumption, InventoryAssumption DEF Refusal, Request
<1>2. b \in Request /\ b.quantity \in Int /\ b.quantity >= 1
  BY <1>1, ContractAssumption DEF ParseOrderRequest, ParsesQuantity, Request
<1>3. b.quantity \in Quantities
  BY <1>1, <1>2, ContractAssumption, InventoryAssumption
<1>4. NewOperation(b).product = "exact" /\ NewOperation(b).email = "strict"
  BY <1>1 DEF NewOperation, ParseOrderRequest, ParsesProduct, ParsesEmail
<1>5. NewOperation(b) \in SagaRow
  <2>1. NewOperation(b) = [product |-> "exact", id |-> b.id, quantity |-> b.quantity,
                           email |-> "strict", state |-> "STARTED", lastStatus |-> 0]
    BY <1>1 DEF NewOperation, ParseOrderRequest, ParsesProduct, ParsesEmail
  <2>2. b.id \in ProductIds /\ "STARTED" \in SagaStates
    BY <1>2 DEF Request, SagaStates
  <2> QED
    BY <1>2, <2>1, <2>2 DEF SagaRow
<1>6. /\ NewOperation(b).state = "STARTED" /\ NewOperation(b).lastStatus = 0
      /\ NewOperation(b).id = b.id /\ NewOperation(b).quantity = b.quantity
  BY DEF NewOperation
<1> QED
  BY <1>1, <1>3, <1>4, <1>5, <1>6, ContractAssumption DEF Understood

LEMMA AcceptKeeps == ASSUME CInv, NEW o \in Orders, Accept(o) PROVE CInv'
<1>1. body[o] \in Bodies /\ Refusal(body[o]) = "none" /\ answer[o] = Pending /\ NothingYet(o)
  BY DEF CInv, Types, OrderTrue, BodyTrue, Accept
<1> DEFINE row == NewOperation(body[o])
<1>2. /\ row \in SagaRow /\ row # NoRow /\ Understood(row) /\ row.state = "STARTED"
      /\ row.id = body[o].id /\ row.quantity = body[o].quantity
  BY <1>1, AcceptedIsUnderstood
<1>3. saga'[o] = row /\ \A x \in Orders : x # o => saga'[x] = saga[x]
  BY DEF CInv, Types, Accept
<1> HIDE DEF row
<1>4. Types'
  BY <1>2 DEF CInv, Types, Accept, row
<1>5. \A x \in Orders : x # o => Same(x)
  BY <1>3 DEF Accept, Same
<1>6. OrderTrue(o)'
  <2>1. BodyTrue(o)'
    BY <1>1, <1>2, <1>3 DEF Accept, BodyTrue, Refusal, EdgeRefuses, BodyTooLarge,
       ParseClientIdempotencyKey, ParseOrderRequest, ParsesProduct, ParsesQuantity, ParsesEmail
  <2>2. SagaTrue(o)'
    BY <1>1, <1>2, <1>3, Sayings
       DEF Accept, SagaTrue, NothingYet, TookStock, IsHeld, IsReleased, Understood, Aborted
  <2> QED
    BY <1>2, <1>3, <2>1, <2>2 DEF OrderTrue
<1> QED
  BY <1>4, <1>5, <1>6, OneStays

(* What a call leaves in the ledger, and that the saga follows it.           *)
LEMMA CallMeans ==
    ASSUME CInv, TypeOK, NEW o \in Orders, CallDecrement(o)
    PROVE  /\ \A x \in Orders : x # o => ledger'[x] = ledger[x]
           /\ ~IsReleased(ledger'[o])
           /\ TookStock(ledger'[o]) => ledger'[o].total = ledger'[o].unitPrice * saga[o].quantity
           /\ Decides(o, ledger'[o])
<1> DEFINE p == saga[o].id
           q == saga[o].quantity
<1>1. /\ saga[o] # NoRow /\ saga[o] \in SagaRow /\ ParseStockDecrementRequest(saga[o])
      /\ p \in ProductIds /\ q \in Quantities
  BY SagaIsUnderstood DEF CallDecrement, SagaRow
<1>2. /\ ~IsReleased(ledger[o])
      /\ TookStock(ledger[o]) => ledger[o].total = ledger[o].unitPrice * q
  BY <1>1 DEF TookStock, CInv, OrderTrue, SagaTrue, CallDecrement, IsReleased
<1> HIDE DEF p, q
<1>3. CASE DecrementStock(o, p, q) /\ Hear(o, SendDecrement(ledger'[o], FALSE))
  <2>1. PICK row \in LedgerRow :
            /\ ledger' = [ledger EXCEPT ![o] = row] /\ row.state = "RECORDED"
            /\ row.outcome = "DECREMENTED" => row.total = row.unitPrice * q
    <3>1. CASE RecordDecrement(o, p, q)
      <4>1. stock[p] \in 0..MaxInt /\ q \in Nat /\ stock[p] >= q /\ p \in Products
        BY <1>1, <3>1, RowTypes, InventoryAssumption DEF RecordDecrement, TypeOK
      <4>2. stock[p] - q \in Nat
        BY <4>1, InventoryAssumption
      <4>3. Decrement(p, q, stock[p] - q) \in LedgerRow
        BY <1>1, <4>1, <4>2, RowTypes
      <4> QED
        BY <3>1, <4>3 DEF RecordDecrement, Decrement
    <3>2. CASE RecordInsufficient(o, p, q) \/ RecordNotFound(o, p, q)
      BY <1>1, <3>2, RowTypes DEF RecordInsufficient, RecordNotFound, Rejection
    <3> QED
      BY <1>3, <3>1, <3>2 DEF DecrementStock
  <2>2. ledger'[o] = row /\ \A x \in Orders : x # o => ledger'[x] = ledger[x]
    BY <2>1 DEF TypeOK
  <2>3. ~IsReleased(row) /\ (TookStock(row) => row.total = row.unitPrice * q)
    BY <2>1 DEF IsReleased, TookStock
  <2>4. Decides(o, row)
    BY <1>3, <2>2, <2>3, HeardAnswer
  <2> QED
    BY <2>2, <2>3, <2>4 DEF q
<1>4. CASE ledger[o] # NoRow /\ Hear(o, SendDecrement(ledger[o], TRUE)) /\ UNCHANGED ledger
  <2>1. ledger[o] \in LedgerRow
    BY <1>4 DEF TypeOK
  <2> QED
    BY <1>2, <1>4, <2>1, HeardAnswer DEF q
<1>5. CASE Hear(o, Unhandled) /\ UNCHANGED ledger
  BY <1>2, <1>5, HeardUnhandled DEF q, Decides
<1> QED
  BY <1>1, <1>3, <1>4, <1>5 DEF CallDecrement, p, q

LEMMA CallKeeps == ASSUME CInv, TypeOK, NEW o \in Orders, CallDecrement(o) PROVE CInv'
<1>1. /\ \A x \in Orders : x # o => ledger'[x] = ledger[x]
      /\ ~IsReleased(ledger'[o])
      /\ TookStock(ledger'[o]) => ledger'[o].total = ledger'[o].unitPrice * saga[o].quantity
      /\ Decides(o, ledger'[o])
  BY CallMeans
<1>2. /\ saga[o] # NoRow /\ saga[o].state \in {"STARTED", "UNCERTAIN"} /\ Types
      /\ SagaTrue(o) /\ BodyTrue(o)
  BY DEF CallDecrement, CInv, OrderTrue
<1>3. /\ orders[o] = NoRow /\ outbox[o] = NoRow /\ answer[o] # Created /\ ~Refusing(answer[o])
      /\ Understood(saga[o]) /\ UNCHANGED <<orders, outbox>>
  BY <1>2 DEF SagaTrue, Aborted, CallDecrement
<1>4. PICK state \in {"DECREMENTED", "ABORTED_INSUFFICIENT_STOCK", "ABORTED_NOT_FOUND", "UNCERTAIN"} :
          /\ Settles(o, state)
          /\ IF state = "DECREMENTED"
             THEN IsHeld(ledger'[o]) /\ UNCHANGED <<body, answer>>
             ELSE \E kind \in {"insufficient-stock", "product-not-found", "unavailable"} :
                     Reply(o, kind) /\ (state = "UNCERTAIN" <=> kind = "unavailable")
          /\ state \in Aborted => ~IsHeld(ledger'[o])
  BY <1>1 DEF Decides, IsHeld, Aborted
<1>5. state \in SagaStates /\ (state \in Aborted <=> state \notin {"DECREMENTED", "UNCERTAIN"})
  BY DEF SagaStates, Aborted
<1>6. /\ saga' \in [Orders -> SagaRow \cup {NoRow}]
      /\ saga'[o] \in SagaRow /\ saga'[o] # NoRow
      /\ saga'[o].state = state /\ saga'[o].lastStatus # 400
      /\ saga'[o].product = saga[o].product /\ saga'[o].email = saga[o].email
      /\ saga'[o].id = saga[o].id /\ saga'[o].quantity = saga[o].quantity
      /\ \A x \in Orders : x # o => saga'[x] = saga[x]
  BY <1>2, <1>4, <1>5, Settled
<1>7. /\ body' \in [Orders -> Bodies \cup {NoRow}] /\ answer' = [x \in Orders |-> answer'[x]]
      /\ \A x \in Orders : x # o => body'[x] = body[x] /\ answer'[x] = answer[x]
      /\ state = "DECREMENTED" => body'[o] = body[o] /\ answer'[o] = answer[o]
      /\ state # "DECREMENTED" => body'[o] = NoRow
      /\ answer'[o] # Created
      /\ Refusing(answer'[o]) => state \in Aborted
  <2>1. CASE state = "DECREMENTED"
    BY <1>2, <1>3, <1>4, <2>1 DEF Types
  <2>2. CASE state # "DECREMENTED"
    <3>1. PICK kind \in {"insufficient-stock", "product-not-found", "unavailable"} :
              Reply(o, kind) /\ (state = "UNCERTAIN" <=> kind = "unavailable")
      BY <1>4, <2>2
    <3> QED
      BY <1>2, <1>3, <1>5, <2>2, <3>1, Replied, Sayings
  <2> QED
    BY <2>1, <2>2
<1>8. Types'
  BY <1>2, <1>3, <1>6, <1>7 DEF Types
<1>9. \A x \in Orders : x # o => Same(x)
  BY <1>1, <1>3, <1>6, <1>7 DEF Same
<1>10. BodyTrue(o)'
  BY <1>2, <1>6, <1>7 DEF BodyTrue, Refusal, EdgeRefuses, BodyTooLarge,
       ParseClientIdempotencyKey, ParseOrderRequest, ParsesProduct, ParsesQuantity, ParsesEmail
<1>11. SagaTrue(o)'
  <2>1. Understood(saga'[o])
    BY <1>3, <1>6 DEF Understood
  <2>2. orders'[o] = NoRow /\ outbox'[o] = NoRow
    BY <1>3
  <2> QED
    BY <1>1, <1>4, <1>5, <1>6, <1>7, <2>1, <2>2
       DEF SagaTrue, Understood, TookStock, IsHeld, IsReleased
<1> QED
  BY <1>6, <1>8, <1>9, <1>10, <1>11, OneStays DEF OrderTrue

(* The end of a saga changes nothing but its state.                          *)
LEMMA Ends ==
    ASSUME Types, NEW o \in Orders, saga[o] # NoRow, NEW state \in SagaStates,
           saga' = [saga EXCEPT ![o].state = state]
    PROVE  /\ saga' \in [Orders -> SagaRow \cup {NoRow}]
           /\ saga'[o] \in SagaRow /\ saga'[o] # NoRow /\ saga'[o].state = state
           /\ saga'[o].id = saga[o].id /\ saga'[o].quantity = saga[o].quantity
           /\ Understood(saga[o]) => Understood(saga'[o])
           /\ \A x \in Orders : x # o => saga'[x] = saga[x]
<1>1. saga \in [Orders -> SagaRow \cup {NoRow}] /\ saga[o] \in SagaRow
  BY DEF Types
<1> DEFINE row == [saga[o] EXCEPT !.state = state]
<1>2. /\ row \in SagaRow /\ row.state = state
      /\ row.id = saga[o].id /\ row.quantity = saga[o].quantity
      /\ row.product = saga[o].product /\ row.email = saga[o].email
      /\ row.lastStatus = saga[o].lastStatus
  BY <1>1 DEF SagaRow
<1>3. saga' = [saga EXCEPT ![o] = row] /\ row # NoRow
  BY <1>1, <1>2, ContractAssumption
<1> QED
  BY <1>1, <1>2, <1>3 DEF Understood

(* What the transaction inserts.                                             *)
LEMMA Inserted ==
    ASSUME CInv, TypeOK, NEW o \in Orders, Committing(o), InsertRows(o)
    PROVE  /\ orders' \in [Orders -> OrderRow \cup {NoRow}]
           /\ outbox' \in [Orders -> OutboxRow \cup {NoRow}]
           /\ orders'[o] # NoRow /\ orders'[o].total = ledger[o].total
           /\ outbox'[o] # NoRow /\ outbox'[o].lastStatus = 0
           /\ \A x \in Orders : x # o => orders'[x] = orders[x] /\ outbox'[x] = outbox[x]
<1>1. /\ saga[o] # NoRow /\ saga[o] \in SagaRow /\ Types /\ SagaTrue(o)
      /\ saga[o].state = "DECREMENTED"
  BY DEF Committing, CInv, OrderTrue, Types
<1>2. ledger[o] \in LedgerRow /\ ledger[o].total = ledger[o].unitPrice * saga[o].quantity
  BY <1>1 DEF SagaTrue, TypeOK, TookStock
<1> DEFINE order == [product |-> saga[o].id, total |-> ledger[o].unitPrice * saga[o].quantity]
           entry == [state |-> "PENDING", lastStatus |-> 0]
<1>3. order \in OrderRow /\ order # NoRow /\ order.total = ledger[o].total
  <2>1. saga[o].id \in ProductIds /\ ledger[o].total \in Int
    BY <1>1, <1>2 DEF SagaRow, LedgerRow
  <2>2. order \in OrderRow /\ order.total = ledger[o].total
    BY <1>2, <2>1 DEF OrderRow
  <2> QED
    BY <2>2, ContractAssumption
<1>4. entry \in OutboxRow /\ entry # NoRow /\ entry.lastStatus = 0
  <2>1. entry \in OutboxRow /\ entry.lastStatus = 0
    BY DEF OutboxRow
  <2> QED
    BY <2>1, ContractAssumption
<1>5. orders' = [orders EXCEPT ![o] = order] /\ outbox' = [outbox EXCEPT ![o] = entry]
  BY DEF InsertRows
<1> HIDE DEF order, entry
<1> QED
  BY <1>1, <1>3, <1>4, <1>5 DEF Types

LEMMA CommitKeeps == ASSUME CInv, TypeOK, NEW o \in Orders, Commit(o) PROVE CInv'
<1>1. /\ saga[o] # NoRow /\ saga[o].state = "DECREMENTED" /\ Types /\ SagaTrue(o) /\ BodyTrue(o)
      /\ Committing(o) /\ InsertRows(o) /\ UNCHANGED <<stock, ledger, body, answer>>
  BY DEF Commit, Committing, CInv, OrderTrue
<1>2. /\ TookStock(ledger[o]) /\ Understood(saga[o]) /\ ~Refusing(answer[o])
      /\ ledger[o].total = ledger[o].unitPrice * saga[o].quantity
  BY <1>1 DEF SagaTrue, Aborted
<1>3. /\ orders' \in [Orders -> OrderRow \cup {NoRow}]
      /\ outbox' \in [Orders -> OutboxRow \cup {NoRow}]
      /\ orders'[o] # NoRow /\ orders'[o].total = ledger[o].total
      /\ outbox'[o] # NoRow /\ outbox'[o].lastStatus = 0
      /\ \A x \in Orders : x # o => orders'[x] = orders[x] /\ outbox'[x] = outbox[x]
  BY <1>1, Inserted
<1>4. /\ saga' \in [Orders -> SagaRow \cup {NoRow}]
      /\ saga'[o] # NoRow /\ saga'[o].state = "COMPLETED" /\ Understood(saga'[o])
      /\ saga'[o].id = saga[o].id /\ saga'[o].quantity = saga[o].quantity
      /\ \A x \in Orders : x # o => saga'[x] = saga[x]
  BY <1>1, <1>2, Ends DEF Commit, SagaStates
<1>5. Types'
  BY <1>1, <1>3, <1>4 DEF Types
<1>6. \A x \in Orders : x # o => Same(x)
  BY <1>1, <1>3, <1>4 DEF Same
<1>7. SagaTrue(o)'
  BY <1>1, <1>2, <1>3, <1>4 DEF SagaTrue, Understood, TookStock, IsHeld, IsReleased, Aborted
<1>8. BodyTrue(o)'
  BY <1>1, <1>4 DEF BodyTrue, Refusal, EdgeRefuses, BodyTooLarge,
       ParseClientIdempotencyKey, ParseOrderRequest, ParsesProduct, ParsesQuantity, ParsesEmail
<1> QED
  BY <1>4, <1>5, <1>6, <1>7, <1>8, OneStays DEF OrderTrue

(* A release, executed or not, leaves the facts of the decrement.            *)
LEMMA ReleaseLeaves ==
    ASSUME TypeOK, NEW o \in Orders, TookStock(ledger[o]), Release(o) \/ UNCHANGED vars
    PROVE  /\ TookStock(ledger'[o])
           /\ ledger'[o].total = ledger[o].total /\ ledger'[o].unitPrice = ledger[o].unitPrice
           /\ Release(o) => ~IsHeld(ledger'[o])
           /\ \A x \in Orders : x # o => ledger'[x] = ledger[x]
<1>1. CASE ReleaseStock(o)
  <2>1. ledger[o] \in LedgerRow
    BY DEF TypeOK, TookStock
  <2> DEFINE row == [ledger[o] EXCEPT !.state = "RELEASED"]
  <2>2. /\ row \in LedgerRow /\ row.state = "RELEASED" /\ row.outcome = ledger[o].outcome
        /\ row.total = ledger[o].total /\ row.unitPrice = ledger[o].unitPrice
    BY <2>1 DEF LedgerRow
  <2>3. ledger'[o] = row /\ \A x \in Orders : x # o => ledger'[x] = ledger[x]
    BY <1>1 DEF ReleaseStock, TypeOK
  <2>4. row # NoRow
    BY <2>2, InventoryAssumption DEF LedgerRow
  <2> HIDE DEF row
  <2> QED
    BY <2>2, <2>3, <2>4 DEF TookStock, IsHeld
<1>2. CASE ~ReleaseStock(o) /\ UNCHANGED vars
  <2>1. ledger' = ledger
    BY <1>2 DEF vars
  <2>2. Release(o) => ~IsHeld(ledger[o])
    BY <1>2 DEF Release, IsReleased, IsHeld
  <2> QED
    BY <2>1, <2>2
<1> QED
  BY <1>1, <1>2 DEF Release

LEMMA CommitFailsKeeps == ASSUME CInv, TypeOK, NEW o \in Orders, CommitFails(o) PROVE CInv'
<1>1. /\ saga[o] # NoRow /\ saga[o].state = "DECREMENTED" /\ orders[o] = NoRow
      /\ Types /\ SagaTrue(o) /\ Committing(o) /\ Reply(o, "internal")
  BY DEF CommitFails, Committing, CInv, OrderTrue
<1>2. /\ TookStock(ledger[o]) /\ Understood(saga[o]) /\ outbox[o] = NoRow
      /\ answer[o] # Created /\ ~Refusing(answer[o])
      /\ ledger[o].total = ledger[o].unitPrice * saga[o].quantity
  BY <1>1 DEF SagaTrue, Aborted
<1>3. PICK state \in {"DECREMENTED", "RELEASED"} :
          /\ saga' = [saga EXCEPT ![o].state = state]
          /\ state = "RELEASED" => Release(o)
          /\ Release(o) \/ UNCHANGED vars
  <2>1. CASE Release(o) /\ saga' = [saga EXCEPT ![o].state = "RELEASED"]
    BY <2>1
  <2>2. CASE (ReleaseStock(o) \/ UNCHANGED vars) /\ UNCHANGED saga
    <3>1. saga[o] \in SagaRow
      BY <1>1 DEF Types
    <3>2. saga[o] = [saga[o] EXCEPT !.state = "DECREMENTED"]
      BY <1>1, <3>1 DEF SagaRow
    <3>3. saga' = [saga EXCEPT ![o].state = "DECREMENTED"]
      BY <1>1, <2>2, <3>2 DEF Types
    <3> QED
      BY <2>2, <3>3 DEF Release
  <2> QED
    BY <2>1, <2>2 DEF CommitFails
<1>4. /\ TookStock(ledger'[o])
      /\ ledger'[o].total = ledger[o].total /\ ledger'[o].unitPrice = ledger[o].unitPrice
      /\ state = "RELEASED" => ~IsHeld(ledger'[o])
      /\ \A x \in Orders : x # o => ledger'[x] = ledger[x]
  BY <1>2, <1>3, ReleaseLeaves
<1>5. /\ saga' \in [Orders -> SagaRow \cup {NoRow}]
      /\ saga'[o] # NoRow /\ saga'[o].state = state /\ Understood(saga'[o])
      /\ saga'[o].quantity = saga[o].quantity
      /\ \A x \in Orders : x # o => saga'[x] = saga[x]
  BY <1>1, <1>2, <1>3, Ends DEF SagaStates
<1>6. /\ body' \in [Orders -> Bodies \cup {NoRow}] /\ body'[o] = NoRow
      /\ answer' = [x \in Orders |-> answer'[x]]
      /\ answer'[o] # Created /\ ~Refusing(answer'[o])
      /\ \A x \in Orders : x # o => body'[x] = body[x] /\ answer'[x] = answer[x]
  BY <1>1, <1>2, Replied, Sayings
<1>7. /\ orders' \in [Orders -> OrderRow \cup {NoRow}]
      /\ outbox' \in [Orders -> OutboxRow \cup {NoRow}]
      /\ orders'[o] # NoRow <=> outbox'[o] # NoRow
      /\ orders'[o] # NoRow => orders'[o].total = ledger[o].total
      /\ outbox'[o] # NoRow => outbox'[o].lastStatus # 400
      /\ \A x \in Orders : x # o => orders'[x] = orders[x] /\ outbox'[x] = outbox[x]
  <2>1. CASE InsertRows(o)
    BY <1>1, <2>1, Inserted
  <2>2. CASE UNCHANGED <<orders, outbox>>
    BY <1>1, <1>2, <2>2 DEF Types
  <2> QED
    BY <2>1, <2>2 DEF CommitFails
<1>8. Types'
  BY <1>1, <1>5, <1>6, <1>7 DEF Types
<1>9. \A x \in Orders : x # o => Same(x)
  BY <1>4, <1>5, <1>6, <1>7 DEF Same
<1>10. SagaTrue(o)'
  BY <1>2, <1>3, <1>4, <1>5, <1>6, <1>7 DEF SagaTrue, Understood, TookStock, IsHeld, IsReleased, Aborted
<1> QED
  BY <1>5, <1>6, <1>8, <1>9, <1>10, OneStays DEF OrderTrue, BodyTrue

(* Notifications refuses no entry, and a handler that hears of a delivery has  *)
(* its order.                                                                *)
LEMMA DispatchKeeps ==
    ASSUME CInv, NEW o \in Orders, Dispatch(o) \/ DispatchDue(o) PROVE CInv'
<1>1. /\ outbox[o] # NoRow /\ Types /\ OrderTrue(o)
      /\ UNCHANGED <<stock, ledger, saga, orders>>
  BY DEF Dispatch, DispatchDue, CInv
<1>2. saga[o] # NoRow /\ SagaTrue(o) /\ BodyTrue(o)
  BY <1>1 DEF OrderTrue, NothingYet
<1>3. orders[o] # NoRow /\ ~Refusing(answer[o])
  BY <1>2, <1>1 DEF SagaTrue, Aborted
<1>4. ConfirmationStatus(saga[o]) = {201, 502}
  BY <1>2, SagaIsUnderstood DEF ConfirmationStatus
<1>5. /\ outbox' \in [Orders -> OutboxRow \cup {NoRow}]
      /\ outbox'[o] # NoRow /\ outbox'[o].lastStatus # 400
      /\ \A x \in Orders : x # o => outbox'[x] = outbox[x]
  <2>1. CASE UNCHANGED outbox
    BY <1>1, <1>2, <2>1 DEF SagaTrue, Types
  <2>2. ASSUME NEW status \in {201, 502}, RecordDispatch(o, status)
        PROVE  /\ outbox' \in [Orders -> OutboxRow \cup {NoRow}]
               /\ outbox'[o] # NoRow /\ outbox'[o].lastStatus # 400
               /\ \A x \in Orders : x # o => outbox'[x] = outbox[x]
    <3> DEFINE row == [state |-> IF status = 201 THEN "DELIVERED" ELSE "PENDING",
                       lastStatus |-> status]
    <3>1. row \in OutboxRow /\ row.lastStatus # 400
      BY <2>2 DEF OutboxRow
    <3>2. row # NoRow
      BY <3>1, ContractAssumption
    <3>3. outbox' = [outbox EXCEPT ![o] = row]
      BY <2>2 DEF RecordDispatch
    <3> HIDE DEF row
    <3> QED
      BY <1>1, <3>1, <3>2, <3>3 DEF Types
  <2> QED
    BY <1>4, <2>1, <2>2 DEF Dispatch, DispatchDue
<1>6. /\ body' \in [Orders -> Bodies \cup {NoRow}] /\ answer' = [x \in Orders |-> answer'[x]]
      /\ \A x \in Orders : x # o => body'[x] = body[x] /\ answer'[x] = answer[x]
      /\ body'[o] = NoRow \/ (body'[o] = body[o] /\ answer'[o] = answer[o])
      /\ ~Refusing(answer'[o])
  <2>1. CASE DispatchDue(o)
    BY <1>1, <1>3, <2>1 DEF DispatchDue, Types
  <2>2. CASE Dispatch(o)
    <3>1. PICK kind \in {"created", "confirmation-failed"} : Reply(o, kind)
      BY <2>2 DEF Dispatch
    <3> QED
      BY <1>1, <1>3, <3>1, Replied, Sayings
  <2> QED
    BY <2>1, <2>2
<1>7. Types'
  BY <1>1, <1>5, <1>6 DEF Types
<1>8. \A x \in Orders : x # o => Same(x)
  BY <1>1, <1>5, <1>6 DEF Same
<1>9. SagaTrue(o)'
  BY <1>1, <1>2, <1>3, <1>5, <1>6 DEF SagaTrue, Understood, TookStock, IsHeld, IsReleased, Aborted
<1>10. BodyTrue(o)'
  BY <1>1, <1>2, <1>6 DEF BodyTrue, Refusal, EdgeRefuses, BodyTooLarge,
       ParseClientIdempotencyKey, ParseOrderRequest, ParsesProduct, ParsesQuantity, ParsesEmail
<1> QED
  BY <1>1, <1>2, <1>7, <1>8, <1>9, <1>10, OneStays DEF OrderTrue

-----------------------------------------------------------------------------
(* The theorems.                                                             *)

ContractInv == IInv /\ CInv

LEMMA ContractInitially == ContractInit => ContractInv
<1> SUFFICES ASSUME ContractInit PROVE ContractInv
  OBVIOUS
<1>1. IInv
  BY InitIInv DEF ContractInit
<1>2. Types
  BY DEF ContractInit, Types
<1>3. ASSUME NEW o \in Orders PROVE OrderTrue(o)
  BY Sayings DEF ContractInit, Init, OrderTrue, BodyTrue, NothingYet
<1> QED
  BY <1>1, <1>2, <1>3 DEF CInv, ContractInv

LEMMA ContractStep == ContractInv /\ [ContractNext]_contractVars => ContractInv'
<1> SUFFICES ASSUME IInv, CInv, [ContractNext]_contractVars PROVE IInv' /\ CInv'
  BY DEF ContractInv
<1>1. IInv' /\ TypeOK
  BY StepIsInventorys, StepIInv DEF IInv
<1>2. ASSUME NEW o \in Orders, (\E b \in Bodies : Send(o, b)) \/ Refuse(o) \/ Accept(o)
      PROVE  CInv'
  BY <1>2, SendKeeps, RefuseKeeps, AcceptKeeps
<1>3. ASSUME NEW o \in Orders, CallDecrement(o) \/ Commit(o) \/ CommitFails(o)
      PROVE  CInv'
  BY <1>1, <1>3, CallKeeps, CommitKeeps, CommitFailsKeeps
<1>4. ASSUME UNCHANGED contractVars PROVE CInv'
  <2>1. /\ UNCHANGED <<body, saga, orders, outbox, answer>>
        /\ \A o \in Orders : Same(o)
    BY <1>4 DEF contractVars, Same
  <2> QED
    BY <2>1, SameStays DEF CInv, Types
<1>5. ASSUME NEW o \in Orders, Dispatch(o) \/ DispatchDue(o) PROVE CInv'
  BY <1>5, DispatchKeeps
<1>6. CInv'
  BY <1>2, <1>3, <1>4, <1>5 DEF ContractNext
<1> QED
  BY <1>1, <1>6

LEMMA AlwaysContractInv == ContractSpec => []ContractInv
BY ContractInitially, ContractStep, PTL DEF ContractSpec

(* Seen from inventory, the handlers behave as Inventory does: its theorems    *)
(* hold of them.                                                             *)
THEOREM ContractIsInventorys == ContractSpec => Spec
<1>1. ContractInit => Init
  BY DEF ContractInit
<1>2. ContractInv /\ [ContractNext]_contractVars => [Next]_vars
  BY StepIsInventorys DEF ContractInv
<1> QED
  BY <1>1, AlwaysContractInv, <1>2, PTL DEF ContractSpec, Spec

(* Whoever was refused has neither an order nor a unit of stock, an order that  *)
(* was announced has its price and the intent of its confirmation, and behind *)
(* no failure and no silence is stock held that nobody will look after.       *)
THEOREM AnswersStayBacked == ContractSpec => []AnswersBacked
<1>1. ContractInv => AnswersBacked
  <2> SUFFICES ASSUME ContractInv, NEW o \in Orders
               PROVE  /\ answer[o].status \in {400, 404} => orders[o] = NoRow /\ ~IsHeld(ledger[o])
                      /\ answer[o] = Created
                           => /\ orders[o] # NoRow /\ outbox[o] # NoRow
                              /\ ledger[o] # NoRow /\ ledger[o].outcome = "DECREMENTED"
                              /\ orders[o].total = ledger[o].total
                      /\ body[o] = NoRow /\ IsHeld(ledger[o])
                           => \/ orders[o] # NoRow /\ outbox[o] # NoRow
                              \/ saga[o].state \in {"UNCERTAIN", "DECREMENTED"}
    BY DEF AnswersBacked
  <2>1. CASE saga[o] = NoRow
    BY <2>1 DEF ContractInv, CInv, OrderTrue, NothingYet, IsHeld
  <2>2. CASE saga[o] # NoRow
    <3>1. SagaTrue(o) /\ saga[o].state \in SagaStates
      BY <2>2 DEF ContractInv, CInv, OrderTrue, Types, SagaRow
    <3> QED
      BY <3>1 DEF SagaTrue, SagaStates, Refusing, TookStock, IsHeld, Aborted
  <2> QED
    BY <2>1, <2>2
<1> QED
  BY <1>1, AlwaysContractInv, PTL

(* No service refuses what the service before it let through.                *)
THEOREM NothingIsRefusedLater == ContractSpec => []NeverRefusedLater
<1>1. ContractInv => NeverRefusedLater
  <2> SUFFICES ASSUME ContractInv, NEW o \in Orders
               PROVE  /\ saga[o] # NoRow => saga[o].lastStatus # 400
                      /\ outbox[o] # NoRow => outbox[o].lastStatus # 400
    BY DEF NeverRefusedLater
  <2> QED
    BY DEF ContractInv, CInv, OrderTrue, NothingYet, SagaTrue, Understood
<1> QED
  BY <1>1, AlwaysContractInv, PTL

-----------------------------------------------------------------------------
(* The outcomes, next to the monolith's.                                     *)

(* Whom the services refuse at once, the monolith refused as well, unless the  *)
(* body is one of those that are treated otherwise.                          *)
LEMMA RefusedAsBefore ==
    ASSUME NEW b \in Bodies, Refusal(b) # "none", ~Narrowed(b)
    PROVE  Envelope(Refusal(b)) = LegacyAnswer(b)
<1>1. b \in Request /\ b.quantity \in Int /\ MaxInt \in Int /\ MaxSafe \in Int /\ MaxInt <= MaxSafe
  BY ContractAssumption, InventoryAssumption DEF Request
<1>2. /\ b.form \in {"object", "array"} /\ b.product \in {"exact", "missing"}
      /\ b.numeral \in {"number", "fraction"} /\ ~(b.quantity > MaxInt)
      /\ b.email \in {"strict", "padded", "bad"} /\ b.key # "long"
  BY <1>1 DEF Narrowed, Request
<1>3. Refusal(b) = "invalid" /\ ~ParseOrderRequest(b)
  BY <1>2 DEF Refusal, EdgeRefuses, BodyTooLarge, ParseClientIdempotencyKey
<1>4. ~LegacyValid(b)
  BY <1>1, <1>2, <1>3
     DEF LegacyValid, ParseOrderRequest, ParsesProduct, ParsesQuantity, ParsesEmail
<1>5. b.form \notin {"malformed", "absent"}
  BY <1>2
<1>6. LegacyAnswer(b) = Says(400, "INVALID")
  BY <1>4, <1>5, Zenon DEF LegacyAnswer
<1>7. Envelope("invalid") = Says(400, "INVALID")
  BY DEF Envelope
<1> QED
  BY <1>3, <1>6, <1>7

(* What the monolith made of a body that the services accept.                *)
LEMMA LegacyAnswers ==
    ASSUME NEW b \in Bodies, Refusal(b) = "none"
    PROVE  /\ b.id \notin Products => LegacyAnswer(b) = Envelope("product-not-found")
           /\ b.product = "exact" /\ b.id \in Products =>
                 /\ stock[b.id] < b.quantity => LegacyAnswer(b) = Envelope("insufficient-stock")
                 /\ ~(stock[b.id] < b.quantity) /\ ~(Price[b.id] * b.quantity > MaxInt)
                       => LegacyAnswer(b) = Created
           /\ b.product # "exact" => b.product = "padded" /\ Narrowed(b)
<1>1. b \in Request /\ ParseOrderRequest(b)
  BY ContractAssumption DEF Refusal
<1>2. /\ b.form = "object" /\ b.product \in {"exact", "padded"} /\ b.numeral = "number"
      /\ b.quantity \in Int /\ b.quantity >= 1 /\ b.email \in {"strict", "padded"}
  BY <1>1, ContractAssumption DEF ParseOrderRequest, ParsesProduct, ParsesQuantity, ParsesEmail, Request
<1>3. LegacyValid(b) /\ b.form \notin {"malformed", "absent"}
  BY <1>2 DEF LegacyValid
<1>4. LegacyFinds(b) <=> b.product = "exact" /\ b.id \in Products
  BY <1>2 DEF LegacyFinds
<1>5. /\ Envelope("product-not-found") = Says(404, "NOT_FOUND")
      /\ Envelope("insufficient-stock") = Says(400, "INSUFFICIENT_STOCK")
  BY DEF Envelope
<1>6. b.id \notin Products => LegacyAnswer(b) = Envelope("product-not-found")
  BY <1>3, <1>4, <1>5, Zenon DEF LegacyAnswer
<1>7. ASSUME b.product = "exact", b.id \in Products
      PROVE  /\ stock[b.id] < b.quantity => LegacyAnswer(b) = Envelope("insufficient-stock")
             /\ ~(stock[b.id] < b.quantity) /\ ~(Price[b.id] * b.quantity > MaxInt)
                   => LegacyAnswer(b) = Created
  BY <1>3, <1>4, <1>5, <1>7, Zenon DEF LegacyAnswer
<1>8. b.product = "padded" => Narrowed(b)
  BY DEF Narrowed
<1> QED
  BY <1>2, <1>6, <1>7, <1>8

Decided(o) ==
    /\ body[o] # NoRow /\ Outcome(o) = Pending
    /\ Outcome(o)' \notin {Pending, Envelope("unavailable")}

AsBefore(o) ==
    \/ Outcome(o)' = LegacyAnswer(body[o])
    \/ /\ Narrowed(body[o])
       /\ Outcome(o)' = Created => body[o].product = "padded"
    \/ Outcome(o)'.code = "INSUFFICIENT_STOCK" /\ Refilled(body[o].id)

LEMMA RefuseAsBefore ==
    ASSUME CInv, NEW o \in Orders, Refuse(o) PROVE AsBefore(o)
<1> DEFINE b == body[o]
<1>1. b \in Bodies /\ b # NoRow /\ Refusal(b) \in {"invalid", "internal"} /\ Reply(o, Refusal(b))
  BY DEF Refuse, Refusal, CInv, Types
<1>2. Outcome(o)' = Envelope(Refusal(b))
  <2>1. answer'[o] = Envelope(Refusal(b))
    BY <1>1, Replied DEF CInv
  <2>2. saga'[o] = NoRow
    BY DEF Refuse
  <2> QED
    BY <2>1, <2>2 DEF Outcome
<1>3. Envelope(Refusal(b)) # Created
  BY <1>1, Sayings
<1>4. CASE ~Narrowed(b)
  BY <1>1, <1>2, <1>4, RefusedAsBefore DEF AsBefore
<1>5. CASE Narrowed(b)
  BY <1>2, <1>3, <1>5 DEF AsBefore
<1> QED
  BY <1>4, <1>5

(* The first answer of inventory decides what the client hears.              *)
LEMMA CallAsBefore ==
    ASSUME CInv, TypeOK, NEW o \in Orders, CallDecrement(o), Decided(o) PROVE AsBefore(o)
<1> DEFINE b == body[o]
<1>1. /\ b \in Bodies /\ b # NoRow /\ Types /\ saga[o] # NoRow
      /\ saga[o].state \in {"STARTED", "UNCERTAIN"} /\ BodyTrue(o) /\ SagaTrue(o)
  BY DEF CallDecrement, CInv, OrderTrue, Types, Decided
<1>2. /\ Refusal(b) = "none" /\ saga[o].state = "STARTED" /\ ledger[o] = NoRow
      /\ saga[o].id = b.id /\ saga[o].quantity = b.quantity
  BY <1>1 DEF BodyTrue, SagaTrue
<1>3. ParseStockDecrementRequest(saga[o]) /\ b.quantity \in Quantities /\ b.id \in ProductIds
  BY <1>1, <1>2, SagaIsUnderstood DEF SagaRow
<1>4. /\ b.id \notin Products => LegacyAnswer(b) = Envelope("product-not-found")
      /\ b.product = "exact" /\ b.id \in Products =>
            /\ stock[b.id] < b.quantity => LegacyAnswer(b) = Envelope("insufficient-stock")
            /\ ~(stock[b.id] < b.quantity) /\ ~(Price[b.id] * b.quantity > MaxInt)
                  => LegacyAnswer(b) = Created
      /\ b.product # "exact" => b.product = "padded" /\ Narrowed(b)
  BY <1>1, <1>2, LegacyAnswers
<1>5. Decides(o, ledger'[o])
  BY CallMeans
<1>6. ~(Settles(o, "UNCERTAIN") /\ Reply(o, "unavailable"))
  <2> SUFFICES ASSUME Settles(o, "UNCERTAIN"), Reply(o, "unavailable") PROVE FALSE
    OBVIOUS
  <2>1. answer'[o] = Envelope("unavailable") /\ saga'[o] # NoRow /\ saga'[o].state = "UNCERTAIN"
    BY <1>1, Replied, Settled DEF SagaStates
  <2> QED
    BY <2>1 DEF Outcome, Decided
<1>7. CASE IsHeld(ledger'[o]) /\ Settles(o, "DECREMENTED") /\ UNCHANGED <<body, answer>>
  <2>1. Outcome(o)' = Created
    <3>1. saga'[o] # NoRow /\ saga'[o].state = "DECREMENTED"
      BY <1>1, <1>7, Settled DEF SagaStates
    <3> QED
      BY <3>1 DEF Outcome
  <2>2. RecordDecrement(o, b.id, b.quantity)
    <3>1. ledger'[o] # NoRow
      BY <1>7 DEF IsHeld
    <3>2. DecrementStock(o, b.id, b.quantity)
      BY <1>2, <1>3, <3>1 DEF CallDecrement
    <3>3. ~RecordInsufficient(o, b.id, b.quantity) /\ ~RecordNotFound(o, b.id, b.quantity)
      BY <1>7 DEF RecordInsufficient, RecordNotFound, Rejection, IsHeld, TypeOK
    <3> QED
      BY <3>2, <3>3 DEF DecrementStock
  <2>3. /\ b.id \in Products /\ ~(stock[b.id] < b.quantity)
        /\ ~(Price[b.id] * b.quantity > MaxInt)
    <3>1. /\ b.id \in Products /\ stock[b.id] >= b.quantity
          /\ Price[b.id] * b.quantity <= MaxInt
      BY <2>2 DEF RecordDecrement
    <3>2. stock[b.id] \in Int /\ b.quantity \in Int /\ Price[b.id] \in Int /\ MaxInt \in Int
      BY <1>3, <3>1, RowTypes, InventoryAssumption DEF TypeOK
    <3>3. Price[b.id] * b.quantity \in Int
      BY <3>2
    <3> QED
      BY <3>1, <3>2, <3>3
  <2> QED
    BY <1>4, <2>1, <2>3 DEF AsBefore
<1>8. ASSUME NEW kind \in {"insufficient-stock", "product-not-found"},
             NEW state \in {"ABORTED_INSUFFICIENT_STOCK", "ABORTED_NOT_FOUND"},
             Reply(o, kind), Settles(o, state)
      PROVE  Outcome(o)' = Envelope(kind) /\ Outcome(o)' # Created
  <2>1. /\ answer'[o] = Envelope(kind) /\ saga'[o] # NoRow
        /\ saga'[o].state \notin {"DECREMENTED", "COMPLETED"}
    BY <1>1, <1>8, Replied, Settled DEF SagaStates
  <2> QED
    BY <2>1, Sayings DEF Outcome
<1>9. ASSUME ledger'[o] # NoRow, ledger'[o].outcome # "DECREMENTED"
      PROVE  \/ RecordInsufficient(o, b.id, b.quantity) /\ ledger'[o].outcome = "INSUFFICIENT_STOCK"
             \/ RecordNotFound(o, b.id, b.quantity) /\ ledger'[o].outcome = "NOT_FOUND"
  <2>1. DecrementStock(o, b.id, b.quantity)
    BY <1>2, <1>3, <1>9 DEF CallDecrement
  <2>2. ~RecordDecrement(o, b.id, b.quantity)
    BY <1>9 DEF RecordDecrement, Decrement, TypeOK
  <2> QED
    BY <2>1, <2>2 DEF DecrementStock, RecordInsufficient, RecordNotFound, Rejection, TypeOK
<1>10. CASE /\ ledger'[o] # NoRow /\ ledger'[o].outcome = "INSUFFICIENT_STOCK"
            /\ Settles(o, "ABORTED_INSUFFICIENT_STOCK") /\ Reply(o, "insufficient-stock")
  <2>1. Outcome(o)' = Envelope("insufficient-stock") /\ Outcome(o)' # Created
    BY <1>8, <1>10
  <2>2. b.id \in Products /\ (stock[b.id] < b.quantity \/ Refilled(b.id))
    BY <1>9, <1>10 DEF RecordInsufficient
  <2>3. Envelope("insufficient-stock").code = "INSUFFICIENT_STOCK"
    <3>1. Envelope("insufficient-stock") = Says(400, "INSUFFICIENT_STOCK")
      BY DEF Envelope
    <3> QED
      BY <3>1 DEF Says
  <2> QED
    BY <1>4, <2>1, <2>2, <2>3 DEF AsBefore
<1>11. CASE /\ ledger'[o] # NoRow /\ ledger'[o].outcome = "NOT_FOUND"
            /\ Settles(o, "ABORTED_NOT_FOUND") /\ Reply(o, "product-not-found")
  <2>1. Outcome(o)' = Envelope("product-not-found")
    BY <1>8, <1>11
  <2>2. b.id \notin Products
    BY <1>9, <1>11 DEF RecordNotFound
  <2> QED
    BY <1>4, <2>1, <2>2 DEF AsBefore
<1> QED
  BY <1>5, <1>6, <1>7, <1>10, <1>11 DEF Decides

(* The steps of another order leave an outcome as it is.                     *)
LEMMA Unrelated ==
    ASSUME CInv, TypeOK, NEW o \in Orders, NEW x \in Orders, x # o,
           \/ \E b \in Bodies : Send(o, b)
           \/ Refuse(o) \/ Accept(o) \/ CallDecrement(o)
           \/ Commit(o) \/ CommitFails(o) \/ Dispatch(o) \/ DispatchDue(o)
    PROVE  Outcome(x)' = Outcome(x)
<1>1. Types
  BY DEF CInv
<1>2. ASSUME NEW kind, Reply(o, kind) PROVE answer'[x] = answer[x]
  BY <1>1, <1>2, Replied
<1>3. answer'[x] = answer[x] /\ saga'[x] = saga[x]
  <2>1. CASE \E b \in Bodies : Send(o, b)
    BY <2>1 DEF Send
  <2>2. CASE Refuse(o)
    BY <1>2, <2>2 DEF Refuse
  <2>3. CASE Accept(o)
    BY <1>1, <2>3 DEF Accept, Types
  <2>4. CASE CallDecrement(o)
    <3>1. Decides(o, ledger'[o]) /\ saga[o] # NoRow
      BY <2>4, CallMeans DEF CallDecrement
    <3>2. \A state \in SagaStates : Settles(o, state) => saga'[x] = saga[x]
      BY <1>1, <3>1, Settled
    <3> QED
      BY <1>2, <3>1, <3>2 DEF Decides, SagaStates
  <2>5. CASE Commit(o)
    BY <1>1, <2>5 DEF Commit, Types
  <2>6. CASE CommitFails(o)
    BY <1>1, <1>2, <2>6 DEF CommitFails, Types
  <2>7. CASE Dispatch(o) \/ DispatchDue(o)
    BY <1>2, <2>7 DEF Dispatch, DispatchDue
  <2> QED
    BY <2>1, <2>2, <2>3, <2>4, <2>5, <2>6, <2>7
<1> QED
  BY <1>3 DEF Outcome

(* Whatever the body and whatever the stock, a request is decided as the       *)
(* monolith would have decided it at that moment, but for the bodies that     *)
(* the services treat otherwise and for rejections older than a release.     *)
THEOREM OutcomesAreAsBefore == ContractSpec => AnswersAsBefore
<1>1. ContractInv /\ [ContractNext]_contractVars
      => [\A o \in Orders : Decided(o) => AsBefore(o)]_contractVars
  <2> SUFFICES ASSUME CInv, TypeOK, ContractNext, NEW x \in Orders, Decided(x)
               PROVE  AsBefore(x)
    BY DEF ContractInv, IInv
  <2>2. PICK o \in Orders :
            \/ \E b \in Bodies : Send(o, b)
            \/ Refuse(o) \/ Accept(o) \/ CallDecrement(o)
            \/ Commit(o) \/ CommitFails(o) \/ Dispatch(o) \/ DispatchDue(o)
    BY DEF ContractNext
  <2>3. CASE x # o
    BY <2>2, <2>3, Unrelated DEF Decided
  <2>4. CASE x = o
    <3>1. CASE Refuse(o)
      BY <2>4, <3>1, RefuseAsBefore
    <3>2. CASE CallDecrement(o)
      BY <2>4, <3>2, CallAsBefore
    <3>3. CASE \E b \in Bodies : Send(o, b)
      BY <2>4, <3>3 DEF Send, Decided
    <3>4. CASE Accept(o)
      <4>1. answer' = answer /\ answer[o] = Pending /\ saga'[o] = NewOperation(body[o])
        BY <2>4, <3>4 DEF Accept, Decided, CInv, OrderTrue, BodyTrue, Types
      <4>2. saga'[o].state = "STARTED"
        BY <4>1 DEF NewOperation
      <4> QED
        BY <2>4, <4>1, <4>2 DEF Decided, Outcome
    <3>5. CASE Commit(o) \/ CommitFails(o)
      BY <2>4, <3>5, Sayings DEF Commit, CommitFails, Committing, Decided, Outcome
    <3>6. CASE DispatchDue(o)
      BY <2>4, <3>6 DEF DispatchDue, Decided, Outcome
    <3>7. CASE Dispatch(o)
      <4>1. body[o] # NoRow /\ outbox[o] # NoRow /\ OrderTrue(o)
        BY <3>7 DEF Dispatch, CInv
      <4>2. saga[o] # NoRow /\ saga[o].state \in {"DECREMENTED", "COMPLETED"}
        BY <4>1 DEF OrderTrue, NothingYet, SagaTrue, BodyTrue
      <4> QED
        BY <2>4, <4>2, Sayings DEF Decided, Outcome
    <3> QED
      BY <2>2, <3>1, <3>2, <3>3, <3>4, <3>5, <3>6, <3>7
  <2> QED
    BY <2>3, <2>4
<1> DEFINE A ==
      \A o \in Orders :
          (body[o] # NoRow /\ Outcome(o) = Pending
             /\ Outcome(o)' \notin {Pending, Envelope("unavailable")})
          => \/ Outcome(o)' = LegacyAnswer(body[o])
             \/ /\ Narrowed(body[o])
                /\ Outcome(o)' = Created => body[o].product = "padded"
             \/ Outcome(o)'.code = "INSUFFICIENT_STOCK" /\ Refilled(body[o].id)
<1>2. ContractInv /\ [ContractNext]_contractVars => [A]_contractVars
  BY <1>1 DEF Decided, AsBefore
<1> QED
  BY <1>2, AlwaysContractInv, PTL DEF ContractSpec, AnswersAsBefore
=============================================================================
