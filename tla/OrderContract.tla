---------------------------- MODULE OrderContract ----------------------------
(***************************************************************************)
(* One POST /orders through the validators, columns and status codes of     *)
(* every service it crosses: gateway, shopflow-orders, shopflow-inventory   *)
(* (module Inventory) and shopflow-notifications, next to what the monolith *)
(* answered to the same bytes. Each service validates on its own; what one  *)
(* lets through the next must not refuse, for such a saga or outbox row is  *)
(* retried for ever. Here a saga has one actor at a time, its request or    *)
(* later the recovery worker, whose calls, commits and dispatches may each  *)
(* fail or take effect unheard. Actors that overlap and processes that die  *)
(* are the subject of OrderSaga and Outbox.                                 *)
(***************************************************************************)
EXTENDS Inventory

CONSTANTS
    Bodies,     \* the requests clients send
    MaxSafe     \* Number.MAX_SAFE_INTEGER

(* A request, as far as some validator tells requests apart. id is the       *)
(* product the text of productId spells.                                    *)
Request ==
    [form : {"object", "array", "malformed", "absent", "large"},  \* large: 64 to 100 kB
     product : {"exact", "padded", "number", "blank", "missing", "long"},
     id : ProductIds,
     numeral : {"number", "text", "fraction"},    \* fraction: no whole number at all
     quantity : Int,
     email : {"strict", "padded", "loose", "long", "bad"},  \* loose: an @, but no dotted domain
     key : {"absent", "valid", "long"}]

(* Rows of order_operations and orders. lastStatus, which only a property      *)
(* reads, is the status that inventory answered with last.                   *)
SagaStates == {"STARTED", "UNCERTAIN", "DECREMENTED", "COMPLETED", "RELEASED",
               "ABORTED_INSUFFICIENT_STOCK", "ABORTED_NOT_FOUND"}

SagaRow ==
    [product : {"exact", "number", "blank", "missing", "long"}, id : ProductIds, quantity : Int,
     email : {"strict", "loose", "long", "bad"}, state : SagaStates, lastStatus : Nat]

OrderRow == [product : ProductIds, total : Int]

(* lastStatus is the one that shopflow-notifications answered with last.     *)
OutboxRow == [state : {"PENDING", "DELIVERED"}, lastStatus : Nat]

ASSUME ContractAssumption ==
    /\ Bodies \subseteq Request
    /\ \A b \in Bodies : b.quantity \in 1..MaxInt => b.quantity \in Quantities
    /\ MaxSafe \in Nat /\ MaxInt <= MaxSafe
    /\ NoRow \notin SagaRow \cup OrderRow \cup OutboxRow

VARIABLES
    body,       \* per order id: the request that is being served under it
    saga,       \* its order_operations row
    orders,     \* its row of the orders table
    outbox,     \* its notification_outbox row
    answer      \* what the client was told

contractVars == <<stock, ledger, body, saga, orders, outbox, answer>>

-----------------------------------------------------------------------------
(* Answers.                                                                 *)

Says(status, code) == [status |-> status, code |-> code]
Created == Says(201, "")
Pending == Says(0, "")

(* Fault: inventory's status is relayed instead of the monolith's.          *)
EnvelopeRelayed(kind) ==
    CASE kind = "insufficient-stock" -> Says(409, "INSUFFICIENT_STOCK")
      [] kind = "product-not-found"  -> Says(404, "NOT_FOUND")
      [] kind = "invalid"            -> Says(400, "INVALID")
      [] kind = "unavailable"        -> Says(503, "UNAVAILABLE")
      [] kind = "created"            -> Created
      [] OTHER                       -> Says(500, "")

(* sendCreateOrderOutcome and the error classes of shopflow-orders.         *)
Envelope(kind) ==
    CASE kind = "insufficient-stock" -> Says(400, "INSUFFICIENT_STOCK")
      [] kind = "product-not-found"  -> Says(404, "NOT_FOUND")
      [] kind = "invalid"            -> Says(400, "INVALID")
      [] kind = "unavailable"        -> Says(503, "UNAVAILABLE")
      [] kind = "created"            -> Created
      [] OTHER                       -> Says(500, "")

-----------------------------------------------------------------------------
(* The monolith: String(), Number(), createOrder, and the error handler of   *)
(* adapters/http/app.ts. Its handler reads req.body.productId, which throws  *)
(* when there is no body; a body it cannot parse is no DomainError either.   *)

LegacyValid(b) ==
    /\ b.form # "array"
    /\ b.product # "missing"
    /\ b.numeral # "fraction" /\ b.quantity >= 1
    /\ b.email # "bad"

LegacyFinds(b) == b.product \in {"exact", "number"} /\ b.id \in Products

(* The total goes into an INTEGER column of orders here as well.            *)
LegacyAnswer(b) ==
    IF b.form \in {"malformed", "absent"} THEN Says(500, "")
    ELSE IF ~LegacyValid(b) THEN Says(400, "INVALID")
    ELSE IF ~LegacyFinds(b) THEN Says(404, "NOT_FOUND")
    ELSE IF stock[b.id] < b.quantity THEN Says(400, "INSUFFICIENT_STOCK")
    ELSE IF Price[b.id] * b.quantity > MaxInt THEN Says(500, "")
    ELSE Created

-----------------------------------------------------------------------------
(* The validators of the services.                                          *)

(* The gateway parses every body only to refuse what is not JSON.           *)
EdgeRefuses(b) == b.form = "malformed"

(* express.json of shopflow-orders: an error that is not a parse failure    *)
(* (413 above 64 kB) is an internal error to errorHandler.                  *)
BodyTooLarge(b) == b.form = "large"

(* Fault: a productId of blanks is not seen to be empty.                    *)
ParsesProductUntrimmed(b) == b.product \in {"exact", "padded", "blank"}

ParsesProduct(b) == b.product \in {"exact", "padded"}

ParsesQuantity(b) == b.numeral = "number" /\ b.quantity \in 1..MaxSafe

ParsesEmail(b) == b.email \in {"strict", "padded"}

ParseOrderRequest(b) ==
    b.form = "object" /\ ParsesProduct(b) /\ ParsesQuantity(b) /\ ParsesEmail(b)

ParseClientIdempotencyKey(b) == b.key # "long"

(* The row that insertOrderOperation writes, with the trimmed texts.        *)
NewOperation(b) ==
    [product |-> IF b.product = "padded" THEN "exact" ELSE b.product,
     id |-> b.id, quantity |-> b.quantity,
     email |-> IF b.email = "padded" THEN "strict" ELSE b.email,
     state |-> "STARTED", lastStatus |-> 0]

(* parseStockDecrementRequest. Header and body carry the order id of the     *)
(* saga row, a UUID, so only the other two fields can be refused.           *)
ParseStockDecrementRequest(row) ==
    row.product \in {"exact", "padded", "long"} /\ row.quantity >= 1

(* parseOrderConfirmationIntent and the key check of the endpoint; the       *)
(* outbox payload and the key are both built from the order id.             *)
ParseOrderConfirmationIntent(row) == row.email # "bad"

-----------------------------------------------------------------------------
(* The answer of POST /stock-decrements, and what HttpInventoryClient makes  *)
(* of it.                                                                   *)

(* The error classes of shopflow-inventory.                                 *)
InvalidStockDecrementRequest == Says(400, "INVALID")
StockError(outcome) ==
    CASE outcome = "NOT_FOUND"          -> Says(404, "NOT_FOUND")
      [] outcome = "INSUFFICIENT_STOCK" -> Says(409, "INSUFFICIENT_STOCK")
      [] outcome = "DECREMENTED"        -> Says(409, "STATE_CONFLICT")   \* and released since

(* Everything else that is thrown.                                          *)
Unhandled == Says(500, "")

SendDecrement(row, replayed) ==
    IF IsHeld(row) THEN Says(IF replayed THEN 200 ELSE 201, "") ELSE StockError(row.outcome)

ReadDecrementAnswer(a) ==
    CASE a.status \in {200, 201} /\ a.code # "torn" -> "DECREMENTED"
      [] a.status = 404 -> "PRODUCT_NOT_FOUND"
      [] a = Says(409, "INSUFFICIENT_STOCK") -> "INSUFFICIENT_STOCK"
      [] a = Says(409, "STATE_CONFLICT") -> "ALREADY_RELEASED"
      [] OTHER -> "UNAVAILABLE"

(* An answer whose body breaks off keeps its status. Only a 404 is understood *)
(* without its body.                                                        *)
Torn(a) == Says(a.status, "torn")

-----------------------------------------------------------------------------
(* The handler.                                                             *)

ContractInit ==
    /\ Init
    /\ body = [o \in Orders |-> NoRow]
    /\ saga = [o \in Orders |-> NoRow]
    /\ orders = [o \in Orders |-> NoRow]
    /\ outbox = [o \in Orders |-> NoRow]
    /\ answer = [o \in Orders |-> Pending]

(* The client, if it still waits, gets the answer kind.                     *)
Reply(o, kind) ==
    /\ answer' = IF body[o] = NoRow THEN answer ELSE [answer EXCEPT ![o] = Envelope(kind)]
    /\ body' = [body EXCEPT ![o] = NoRow]

Send(o, b) ==
    /\ body[o] = NoRow /\ saga[o] = NoRow /\ answer[o] = Pending
    /\ body' = [body EXCEPT ![o] = b]
    /\ UNCHANGED <<stock, ledger, saga, orders, outbox, answer>>

(* Why a request ends before it has a saga row. quantity is an INTEGER       *)
(* column of order_operations: a larger safe integer fails the insert.      *)
Refusal(b) ==
    IF EdgeRefuses(b) THEN "invalid"
    ELSE IF BodyTooLarge(b) THEN "internal"
    ELSE IF ~ParseClientIdempotencyKey(b) \/ ~ParseOrderRequest(b) THEN "invalid"
    ELSE IF b.quantity > MaxInt THEN "internal"
    ELSE "none"

Refuse(o) ==
    /\ body[o] # NoRow /\ saga[o] = NoRow
    /\ Refusal(body[o]) # "none"
    /\ Reply(o, Refusal(body[o]))
    /\ UNCHANGED <<stock, ledger, saga, orders, outbox>>

Accept(o) ==
    /\ body[o] # NoRow /\ saga[o] = NoRow
    /\ Refusal(body[o]) = "none"
    /\ saga' = [saga EXCEPT ![o] = NewOperation(body[o])]
    /\ UNCHANGED <<stock, ledger, body, orders, outbox, answer>>

(* The state that resolveOrderOperation writes, and what it tells the client. *)
StateAfter(kind) ==
    CASE kind = "DECREMENTED"        -> "DECREMENTED"
      [] kind = "INSUFFICIENT_STOCK" -> "ABORTED_INSUFFICIENT_STOCK"
      [] kind = "PRODUCT_NOT_FOUND"  -> "ABORTED_NOT_FOUND"
      [] kind = "ALREADY_RELEASED"   -> "RELEASED"
      [] OTHER                       -> "UNCERTAIN"

Advance(kind) ==
    CASE kind = "INSUFFICIENT_STOCK" -> "insufficient-stock"
      [] kind = "PRODUCT_NOT_FOUND"  -> "product-not-found"
      [] kind = "ALREADY_RELEASED"   -> "internal"
      [] OTHER                       -> "unavailable"

(* The answer a of inventory; Pending stands for none. After a decrement the  *)
(* client waits for the local transaction.                                  *)
Resolve(o, a) ==
    LET kind == ReadDecrementAnswer(a)
    IN  /\ saga' = [saga EXCEPT ![o].state = StateAfter(kind), ![o].lastStatus = a.status]
        /\ IF kind = "DECREMENTED" THEN UNCHANGED <<body, answer>> ELSE Reply(o, Advance(kind))

(* The answer of a call, or a part of it, or its loss.                      *)
Hear(o, a) == Resolve(o, a) \/ Resolve(o, Torn(a)) \/ Resolve(o, Pending)

(* The decrement cannot be recorded: its total is too large for the column. *)
TotalOverflows(row) ==
    row.id \in Products /\ stock[row.id] >= row.quantity /\ Price[row.id] * row.quantity > MaxInt

(* POST /stock-decrements, by the request or later by the recovery worker.   *)
CallDecrement(o) ==
    /\ saga[o] # NoRow /\ saga[o].state \in {"STARTED", "UNCERTAIN"}
    /\ \/ /\ ~ParseStockDecrementRequest(saga[o])
          /\ Hear(o, InvalidStockDecrementRequest)
          /\ UNCHANGED <<stock, ledger>>
       \/ /\ ParseStockDecrementRequest(saga[o])
          /\ DecrementStock(o, saga[o].id, saga[o].quantity)
          /\ Hear(o, SendDecrement(ledger'[o], FALSE))
       \/ /\ ledger[o] # NoRow
          /\ Hear(o, SendDecrement(ledger[o], TRUE))
          /\ UNCHANGED <<stock, ledger>>
       \/ /\ ledger[o] = NoRow /\ TotalOverflows(saga[o])
          /\ Hear(o, Unhandled)
          /\ UNCHANGED <<stock, ledger>>
    /\ UNCHANGED <<orders, outbox>>

-----------------------------------------------------------------------------
(* completeLocalTransaction. State RELEASED stands for the compensated row.   *)

Committing(o) == saga[o] # NoRow /\ saga[o].state = "DECREMENTED" /\ orders[o] = NoRow

(* The order and the durable intent of its confirmation.                     *)
InsertRows(o) ==
    /\ orders' = [orders EXCEPT ![o] =
                     [product |-> saga[o].id, total |-> ledger[o].unitPrice * saga[o].quantity]]
    /\ outbox' = [outbox EXCEPT ![o] = [state |-> "PENDING", lastStatus |-> 0]]

Commit(o) ==
    /\ Committing(o)
    /\ InsertRows(o)
    /\ saga' = [saga EXCEPT ![o].state = "COMPLETED"]
    /\ UNCHANGED <<stock, ledger, body, answer>>

(* POST /stock-decrements/:orderId/release answers alike when it is repeated. *)
Release(o) == ReleaseStock(o) \/ (IsReleased(ledger[o]) /\ UNCHANGED vars)

(* Fault: a failed commit is answered without its compensation.             *)
CommitFailsUncompensated(o) ==
    /\ Committing(o)
    /\ saga' = [saga EXCEPT ![o].state = "RELEASED"]
    /\ Reply(o, "internal")
    /\ UNCHANGED <<stock, ledger, orders, outbox>>

(* The transaction raises: it was rolled back, or its acknowledgement was     *)
(* lost, and what is written to the saga goes over its COMPLETED. The release *)
(* is confirmed, or it is not, whether or not it was executed: then the row   *)
(* stays DECREMENTED and the worker takes it up again.                       *)
CommitFails(o) ==
    /\ Committing(o)
    /\ InsertRows(o) \/ UNCHANGED <<orders, outbox>>
    /\ \/ Release(o) /\ saga' = [saga EXCEPT ![o].state = "RELEASED"]
       \/ (ReleaseStock(o) \/ UNCHANGED vars) /\ UNCHANGED saga
    /\ Reply(o, "internal")

-----------------------------------------------------------------------------
(* dispatchOrderConfirmation. 502 stands for every other failure as well: a   *)
(* timeout or a broken connection, after the mail was sent or before.        *)

ConfirmationStatus(row) == IF ParseOrderConfirmationIntent(row) THEN {201, 502} ELSE {400}

RecordDispatch(o, status) ==
    /\ outbox[o].state = "PENDING"
    /\ outbox' = [outbox EXCEPT ![o] = [state |-> IF status = 201 THEN "DELIVERED" ELSE "PENDING",
                                       lastStatus |-> status]]

(* By the handler, after its commit: what the loop has delivered is left.     *)
Dispatch(o) ==
    /\ body[o] # NoRow /\ outbox[o] # NoRow
    /\ \/ outbox[o].state = "DELIVERED" /\ Reply(o, "created") /\ UNCHANGED outbox
       \/ \E status \in ConfirmationStatus(saga[o]) :
             /\ RecordDispatch(o, status)
             /\ Reply(o, IF status = 201 THEN "created" ELSE "confirmation-failed")
    /\ UNCHANGED <<stock, ledger, saga, orders>>

(* By the loop, or by the worker that finds the order of its saga committed.  *)
DispatchDue(o) ==
    /\ outbox[o] # NoRow
    /\ \E status \in ConfirmationStatus(saga[o]) : RecordDispatch(o, status)
    /\ UNCHANGED <<stock, ledger, body, saga, orders, answer>>

-----------------------------------------------------------------------------
ContractNext ==
    \E o \in Orders :
        \/ \E b \in Bodies : Send(o, b)
        \/ Refuse(o) \/ Accept(o) \/ CallDecrement(o)
        \/ Commit(o) \/ CommitFails(o) \/ Dispatch(o) \/ DispatchDue(o)

ContractSpec == ContractInit /\ [][ContractNext]_contractVars

-----------------------------------------------------------------------------
(* The requests that the services treat otherwise than the monolith: it       *)
(* coerced numbers and texts, took any @ for an address, knew no length      *)
(* limits, and answered 500 to what is no JSON.                             *)
Narrowed(b) ==
    \/ b.form \in {"malformed", "absent", "large"}
    \/ b.product \in {"padded", "number", "blank", "long"}
    \/ b.numeral = "text" \/ b.quantity > MaxInt
    \/ b.email \in {"loose", "long"}
    \/ b.key = "long"

(* The outcome of the request under o, from when it cannot change any more   *)
(* except by a commit that fails. (A confirmation that fails is left out: it  *)
(* was a 500 next to a committed order in the monolith as well.)             *)
Outcome(o) ==
    IF saga[o] # NoRow /\ saga[o].state \in {"DECREMENTED", "COMPLETED"} THEN Created
    ELSE answer[o]

(* "Exactly as the retired monolith did it": a request gets the outcome the  *)
(* monolith would have given it at the moment it is decided, its stock and    *)
(* all. The exceptions are the bodies above, which are at most refused: none  *)
(* is accepted that was not, but for blanks around a product id. A rejection  *)
(* may also be older than a release that refilled the shelf.                *)
AnswersAsBefore ==
    [][\A o \in Orders :
          (body[o] # NoRow /\ Outcome(o) = Pending
             /\ Outcome(o)' \notin {Pending, Envelope("unavailable")})
          => \/ Outcome(o)' = LegacyAnswer(body[o])
             \/ /\ Narrowed(body[o])
                /\ Outcome(o)' = Created => body[o].product = "padded"
             \/ Outcome(o)'.code = "INSUFFICIENT_STOCK" /\ Refilled(body[o].id)]_contractVars

(* A client that was refused (400, 404) is left with nothing, then or later,  *)
(* whatever the worker does with its saga: no order and no unit of stock. One *)
(* that was told of an order has one, at the price of its recorded decrement, *)
(* and the durable intent of its confirmation. A 500 or 503 may stand for     *)
(* anything: a rollback, a committed order that is not confirmed yet, stock   *)
(* that is still held. But stock is never held for nobody: there is an order  *)
(* for it, or a saga that the recovery worker will find.                     *)
AnswersBacked ==
    \A o \in Orders :
        /\ answer[o].status \in {400, 404} => orders[o] = NoRow /\ ~IsHeld(ledger[o])
        /\ answer[o] = Created
             => /\ orders[o] # NoRow /\ outbox[o] # NoRow
                /\ ledger[o] # NoRow /\ ledger[o].outcome = "DECREMENTED"
                /\ orders[o].total = ledger[o].total
        /\ body[o] = NoRow /\ IsHeld(ledger[o])
             => \/ orders[o] # NoRow /\ outbox[o] # NoRow
                \/ saga[o].state \in {"UNCERTAIN", "DECREMENTED"}

(* Whatever shopflow-orders accepts, inventory and notifications understand: *)
(* no saga and no outbox row is refused as INVALID, which no retry cures.    *)
NeverRefusedLater ==
    \A o \in Orders :
        /\ saga[o] # NoRow => saga[o].lastStatus # 400
        /\ outbox[o] # NoRow => outbox[o].lastStatus # 400

=============================================================================
