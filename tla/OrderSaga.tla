------------------------------ MODULE OrderSaga ------------------------------
(***************************************************************************)
(* The order-creation saga of shopflow-orders: requests to POST /orders and *)
(* the recovery worker, each working from a saga row it read earlier, next  *)
(* to the orders database and to shopflow-inventory (module Inventory).     *)
(* One action is one await: a statement, a transaction or an HTTP call.     *)
(*                                                                         *)
(* The order id of a saga is a fresh UUID of the request that inserts it,   *)
(* so a request stands for the id it would use. The confirmation dispatch   *)
(* ends a handler and only its outcome matters here. The columns attempts,  *)
(* last_error and updated_at are diagnostics and are left out.              *)
(***************************************************************************)
EXTENDS Integers, FiniteSets

CONSTANTS
    Requests,            \* POST /orders requests, and the order ids they would create
    Worker,              \* the saga recovery worker
    KeyOf,               \* client Idempotency-Key of a request, or NULL
    ProductOf,           \* the body of a request
    QuantityOf,
    ProductIds, Products, Price, InitialStock, MaxInt,    \* see Inventory
    InlineCallAttempts,  \* INLINE_CALL_ATTEMPTS
    CallsMayFail,        \* TRUE: inventory calls can time out, fail or be answered late
    CommitMayFail,       \* TRUE: the local transaction can be rolled back
    CommitAckMayBeLost,  \* TRUE: the COMMIT can take effect and still be reported as failed
    MayCrash,            \* actors that can stop at any point (crash, unexpected exception)
    NULL                 \* no row, no value

Actors == Requests \cup {Worker}
Quantities == {QuantityOf[r] : r \in Requests}

SagaStates == {"STARTED", "DECREMENTED", "COMPLETED", "ABORTED_NOT_FOUND",
               "ABORTED_INSUFFICIENT_STOCK", "UNCERTAIN"}

(* A row of order_operations, by order id. The body and the client key of    *)
(* the row are those of the request that inserted it.                        *)
SagaRow ==
    [order : Requests, state : SagaStates, price : Nat \cup {NULL},
     outcome : {"DECREMENTED", "INSUFFICIENT_STOCK", "NOT_FOUND", "RELEASED", NULL}]

OrderRow == [status : {"CONFIRMED", "SHIPPED"}, total : Nat]

ReplyKinds == {"DECREMENTED", "INSUFFICIENT_STOCK", "NOT_FOUND", "ALREADY_RELEASED",
               "RELEASED", "NOT_RECORDED", "NOT_RELEASABLE", "UNAVAILABLE"}
Reply == [kind : ReplyKinds, price : Nat \cup {NULL}]
Unavailable == [kind |-> "UNAVAILABLE", price |-> NULL]

(* CreateOrderOutcome.                                                       *)
AnswerKinds == {"created", "confirmation-failed", "replayed", "insufficient-stock",
                "product-not-found", "unavailable", "internal"}

VARIABLES
    stock, ledger,   \* inventory database
    operation,       \* order_operations
    orders,          \* the orders table
    outbox,          \* orders that have a notification_outbox entry
    late,            \* inventory calls given up by their caller that may still arrive
    pc, snap,        \* per actor: what it does next, the saga row it works from
    reply,           \* per actor: the answer of its inventory call
    callsLeft,       \* per actor: decrement calls it may still make
    todo,            \* the worker's candidates: the rows as it listed them
    answer           \* per request: what the client was told, and about which order

inventoryVars == <<stock, ledger>>
ordersVars == <<operation, orders, outbox>>
vars == <<stock, ledger, operation, orders, outbox, late, pc, snap, reply, callsLeft,
          todo, answer>>

Inv == INSTANCE Inventory WITH Orders <- Requests, NoRow <- NULL

ASSUME SagaAssumption ==
    /\ Inv!InventoryAssumption
    /\ Worker \notin Requests
    /\ InlineCallAttempts \in Nat \ {0}
    /\ ProductOf \in [Requests -> ProductIds]
    /\ MayCrash \subseteq Actors
    /\ NULL \notin SagaRow \cup OrderRow \cup Reply \cup Nat \cup Requests
              \cup ReplyKinds \cup AnswerKinds

Init ==
    /\ Inv!Init
    /\ operation = [o \in Requests |-> NULL]
    /\ orders = [o \in Requests |-> NULL]
    /\ outbox = {}
    /\ late = {}
    /\ pc = [a \in Actors |-> IF a = Worker THEN "idle" ELSE "start"]
    /\ snap = [a \in Actors |-> NULL]
    /\ reply = [a \in Actors |-> NULL]
    /\ callsLeft = [a \in Actors |-> 0]
    /\ todo = {}
    /\ answer = [r \in Requests |-> NULL]

-----------------------------------------------------------------------------
(* Control of one handler.                                                 *)

GoTo(a, label) == pc' = [pc EXCEPT ![a] = label]

(* The handler of actor a ends: a request answers its client (kind NULL:     *)
(* the connection just breaks), the worker goes on to its next candidate.   *)
Finish(a, kind) ==
    /\ GoTo(a, IF a = Worker THEN "next" ELSE "done")
    /\ snap' = [snap EXCEPT ![a] = NULL]
    /\ reply' = [reply EXCEPT ![a] = NULL]
    /\ callsLeft' = [callsLeft EXCEPT ![a] = 0]
    /\ answer' = IF a = Worker \/ kind = NULL THEN answer
                 ELSE [answer EXCEPT ![a] = [kind |-> kind, order |-> snap[a].order]]

(* toCreateOrderOutcome: a request that did not insert the saga row itself   *)
(* reports its order as a replay, delivered or not.                          *)
CompletedAnswer(a, delivered) ==
    IF snap[a].order # a THEN "replayed"
    ELSE IF delivered THEN "created" ELSE "confirmation-failed"

(* Fault: a compensated saga is reported as out of stock.                   *)
SettledAnswerConfused(row) ==
    CASE row.state = "ABORTED_NOT_FOUND" -> "product-not-found"
      [] OTHER -> "insufficient-stock"

(* The outcome of a saga row on which there is nothing left to do.          *)
SettledAnswer(row) ==
    CASE row.state = "ABORTED_NOT_FOUND" -> "product-not-found"
      [] row.state = "ABORTED_INSUFFICIENT_STOCK" -> "insufficient-stock"
      [] OTHER -> "internal"

(* resolveOrderOperation(row): actor a starts to work from the row it read.  *)
StartCall(a, row) ==
    /\ row.state \in {"STARTED", "UNCERTAIN"}
    /\ GoTo(a, "decrement")
    /\ callsLeft' = [callsLeft EXCEPT ![a] = IF a = Worker THEN 1 ELSE InlineCallAttempts]
    /\ snap' = [snap EXCEPT ![a] = row]
    /\ UNCHANGED <<reply, answer>>

StartCompletion(a, row) ==
    /\ row.state = "DECREMENTED" /\ row.outcome # "RELEASED"
    /\ GoTo(a, "find")
    /\ snap' = [snap EXCEPT ![a] = row]
    /\ UNCHANGED <<reply, callsLeft, answer>>

StartFetch(a, row) ==
    /\ row.state = "COMPLETED"
    /\ GoTo(a, "fetch")
    /\ snap' = [snap EXCEPT ![a] = row]
    /\ UNCHANGED <<reply, callsLeft, answer>>

AnswerSettled(a, row) ==
    /\ \/ row.state \in {"ABORTED_NOT_FOUND", "ABORTED_INSUFFICIENT_STOCK"}
       \/ row.state = "DECREMENTED" /\ row.outcome = "RELEASED"
    /\ GoTo(a, IF a = Worker THEN "next" ELSE "done")
    /\ answer' = IF a = Worker THEN answer
                 ELSE [answer EXCEPT ![a] = [kind |-> SettledAnswer(row), order |-> row.order]]
    /\ UNCHANGED <<snap, reply, callsLeft>>

Resolve(a, row) ==
    \/ StartCall(a, row)
    \/ StartCompletion(a, row)
    \/ StartFetch(a, row)
    \/ AnswerSettled(a, row)

-----------------------------------------------------------------------------
(* POST /orders: createOrder.                                               *)

RowsOfKey(r) == {o \in Requests : operation[o] # NULL /\ KeyOf[o] = KeyOf[r]}

(* Step 2: a known client key is a replay.                                  *)
LookUp(r) ==
    /\ pc[r] = "start"
    /\ \/ /\ KeyOf[r] # NULL
          /\ \E o \in RowsOfKey(r) : Resolve(r, operation[o])
       \/ /\ KeyOf[r] = NULL \/ RowsOfKey(r) = {}
          /\ GoTo(r, "insert")
          /\ UNCHANGED <<snap, reply, callsLeft, answer>>
    /\ UNCHANGED <<stock, ledger, operation, orders, outbox, late, todo>>

(* Fault: the insert does not mind a client key that is taken.              *)
InsertDuplicate(r) ==
    /\ pc[r] = "insert"
    /\ operation' = [operation EXCEPT ![r] =
              [order |-> r, state |-> "STARTED", outcome |-> NULL, price |-> NULL]]
    /\ GoTo(r, "readBack")
    /\ UNCHANGED <<stock, ledger, orders, outbox, late, snap, reply, callsLeft, todo, answer>>

(* Step 3: INSERT ... ON CONFLICT (client_idempotency_key) DO NOTHING.      *)
Insert(r) ==
    /\ pc[r] = "insert"
    /\ \/ /\ KeyOf[r] = NULL \/ RowsOfKey(r) = {}
          /\ operation' = [operation EXCEPT ![r] =
                    [order |-> r, state |-> "STARTED", outcome |-> NULL, price |-> NULL]]
          /\ GoTo(r, "readBack")
       \/ /\ KeyOf[r] # NULL /\ RowsOfKey(r) # {}
          /\ GoTo(r, "lookUpAgain")
          /\ UNCHANGED operation
    /\ UNCHANGED <<stock, ledger, orders, outbox, late, snap, reply, callsLeft, todo, answer>>

(* The key was taken between the lookup and the insert.                     *)
LookUpAgain(r) ==
    /\ pc[r] = "lookUpAgain"
    /\ \E o \in RowsOfKey(r) : Resolve(r, operation[o])
    /\ UNCHANGED <<stock, ledger, operation, orders, outbox, late, todo>>

(* The handler reads its own row back before it works from it.              *)
ReadBack(r) ==
    /\ pc[r] = "readBack"
    /\ Resolve(r, operation[r])
    /\ UNCHANGED <<stock, ledger, operation, orders, outbox, late, todo>>

-----------------------------------------------------------------------------
(* SagaRecoveryService.recoverOnce.                                         *)

(* Fault: a saga whose call went unanswered is left to the client.          *)
IsRecoverableNotUncertain(row) ==
    \/ row.state = "STARTED"
    \/ row.state = "DECREMENTED" /\ row.outcome # "RELEASED"

(* listRecoverableOrderOperations. Time is left open: a STARTED row counts   *)
(* as stale at any moment, for nothing bounds how long a statement of an     *)
(* in-flight request takes, and the batch holds every candidate.             *)
IsRecoverable(row) ==
    \/ row.state = "STARTED"
    \/ row.state \in {"DECREMENTED", "UNCERTAIN"} /\ row.outcome # "RELEASED"

ListCandidates ==
    /\ pc[Worker] = "idle"
    /\ todo' = {operation[o] : o \in {x \in Requests :
                                operation[x] # NULL /\ IsRecoverable(operation[x])}}
    /\ todo' # {}
    /\ GoTo(Worker, "next")
    /\ UNCHANGED <<stock, ledger, operation, orders, outbox, late, snap, reply, callsLeft,
                   answer>>

(* The next candidate, as it was when it was listed.                        *)
TakeCandidate ==
    /\ pc[Worker] = "next"
    /\ \E row \in todo :
          /\ Resolve(Worker, row)
          /\ todo' = todo \ {row}
    /\ UNCHANGED <<stock, ledger, operation, orders, outbox, late>>

EndPass ==
    /\ pc[Worker] = "next"
    /\ todo = {}
    /\ GoTo(Worker, "idle")
    /\ UNCHANGED <<stock, ledger, operation, orders, outbox, late, snap, reply, callsLeft,
                   todo, answer>>

-----------------------------------------------------------------------------
(* The calls to shopflow-inventory. A call that the service answers is one   *)
(* action; one that times out or fails may have been lost, or may still      *)
(* arrive at any later moment.                                               *)

ServeDecrement(o) ==
    \/ Inv!DecrementStock(o, ProductOf[o], QuantityOf[o])
    \/ ledger[o] # NULL /\ UNCHANGED inventoryVars

ServeRelease(o) ==
    \/ Inv!ReleaseStock(o)
    \/ ~Inv!IsHeld(ledger[o]) /\ UNCHANGED inventoryVars

GiveUp(kind, o) == late' \in {late, late \cup {<<kind, o>>}}

LateArrival ==
    \E o \in Requests :
        /\ \/ <<"decrement", o>> \in late /\ ServeDecrement(o)
              /\ late' = late \ {<<"decrement", o>>}
           \/ <<"release", o>> \in late /\ ServeRelease(o)
              /\ late' = late \ {<<"release", o>>}
        /\ UNCHANGED <<operation, orders, outbox, pc, snap, reply, callsLeft, todo, answer>>

DecrementAnswered(a) ==
    /\ pc[a] = "decrement"
    /\ ServeDecrement(snap[a].order)
    /\ LET row == ledger'[snap[a].order] IN
         reply' = [reply EXCEPT ![a] =
                     [kind |-> Inv!DecrementReply(row),
                      price |-> IF row.outcome = "DECREMENTED" THEN row.unitPrice ELSE NULL]]
    /\ callsLeft' = [callsLeft EXCEPT ![a] = 0]
    /\ GoTo(a, "record")
    /\ UNCHANGED <<operation, orders, outbox, late, snap, todo, answer>>

(* callDecrementWithRetries: the last call left decides.                    *)
DecrementUnanswered(a) ==
    /\ pc[a] = "decrement"
    /\ CallsMayFail
    /\ GiveUp("decrement", snap[a].order)
    /\ callsLeft' = [callsLeft EXCEPT ![a] = @ - 1]
    /\ \/ callsLeft[a] > 1 /\ UNCHANGED <<pc, reply>>
       \/ callsLeft[a] = 1 /\ GoTo(a, "record") /\ reply' = [reply EXCEPT ![a] = Unavailable]
    /\ UNCHANGED <<stock, ledger, operation, orders, outbox, snap, todo, answer>>

-----------------------------------------------------------------------------
(* resolveOrderOperation: the answer is written to the saga row, whatever   *)
(* that row has become since it was read.                                   *)

(* Fault: the price snapshot is not stored with the outcome.                *)
RecordDecrementedUnpriced(a) ==
    /\ pc[a] = "record" /\ reply[a].kind = "DECREMENTED"
    /\ LET o == snap[a].order IN
         /\ operation' = [operation EXCEPT ![o].state = "DECREMENTED",
                                           ![o].outcome = "DECREMENTED"]
         /\ snap' = [snap EXCEPT ![a] = [order |-> o, state |-> "DECREMENTED",
                         outcome |-> "DECREMENTED", price |-> reply[a].price]]
    /\ reply' = [reply EXCEPT ![a] = NULL]
    /\ GoTo(a, "find")
    /\ UNCHANGED <<stock, ledger, orders, outbox, late, callsLeft, todo, answer>>

RecordDecremented(a) ==
    /\ pc[a] = "record" /\ reply[a].kind = "DECREMENTED"
    /\ LET o == snap[a].order
           row == [order |-> o, state |-> "DECREMENTED", outcome |-> "DECREMENTED",
                   price |-> reply[a].price]
       IN  /\ operation' = [operation EXCEPT ![o] = row]
           /\ snap' = [snap EXCEPT ![a] = row]
    /\ reply' = [reply EXCEPT ![a] = NULL]
    /\ GoTo(a, "find")
    /\ UNCHANGED <<stock, ledger, orders, outbox, late, callsLeft, todo, answer>>

RecordRejected(a) ==
    /\ pc[a] = "record" /\ reply[a].kind \in {"INSUFFICIENT_STOCK", "NOT_FOUND"}
    /\ LET o == snap[a].order
           aborted == IF reply[a].kind = "NOT_FOUND" THEN "ABORTED_NOT_FOUND"
                                                    ELSE "ABORTED_INSUFFICIENT_STOCK"
       IN  /\ operation' = [operation EXCEPT ![o].state = aborted,
                                             ![o].outcome = reply[a].kind]
           /\ Finish(a, SettledAnswer([state |-> aborted]))
    /\ UNCHANGED <<stock, ledger, orders, outbox, late, todo>>

(* The stock of this order id was given back: no order may be created.       *)
RecordAlreadyReleased(a) ==
    /\ pc[a] = "record" /\ reply[a].kind = "ALREADY_RELEASED"
    /\ operation' = [operation EXCEPT ![snap[a].order].state = "DECREMENTED",
                                      ![snap[a].order].outcome = "RELEASED"]
    /\ Finish(a, "internal")
    /\ UNCHANGED <<stock, ledger, orders, outbox, late, todo>>

(* Fault: no answer is taken for a rejection.                               *)
RecordUncertainAsRejected(a) ==
    /\ pc[a] = "record" /\ reply[a].kind = "UNAVAILABLE"
    /\ operation' = [operation EXCEPT ![snap[a].order].state = "ABORTED_INSUFFICIENT_STOCK",
                                      ![snap[a].order].outcome = "INSUFFICIENT_STOCK"]
    /\ Finish(a, "unavailable")
    /\ UNCHANGED <<stock, ledger, orders, outbox, late, todo>>

(* Fault: no answer is taken for a decrement, at the catalogue's price.      *)
RecordUncertainOptimistic(a) ==
    /\ pc[a] = "record" /\ reply[a].kind = "UNAVAILABLE"
    /\ ProductOf[snap[a].order] \in Products
    /\ LET o == snap[a].order
           row == [order |-> o, state |-> "DECREMENTED", outcome |-> "DECREMENTED",
                   price |-> Price[ProductOf[o]]]
       IN  /\ operation' = [operation EXCEPT ![o] = row]
           /\ snap' = [snap EXCEPT ![a] = row]
    /\ reply' = [reply EXCEPT ![a] = NULL]
    /\ GoTo(a, "find")
    /\ UNCHANGED <<stock, ledger, orders, outbox, late, callsLeft, todo, answer>>

(* The outcome is unknown: the worker will replay the same key. The column  *)
(* decrement_outcome is not written.                                        *)
RecordUncertain(a) ==
    /\ pc[a] = "record" /\ reply[a].kind = "UNAVAILABLE"
    /\ operation' = [operation EXCEPT ![snap[a].order].state = "UNCERTAIN"]
    /\ Finish(a, "unavailable")
    /\ UNCHANGED <<stock, ledger, orders, outbox, late, todo>>

-----------------------------------------------------------------------------
(* completeLocalTransaction.                                                *)

(* An order that exists is only dispatched again; the saga row stays as it   *)
(* is. Without a price snapshot nothing can be committed.                   *)
FindOrder(a) ==
    /\ pc[a] = "find"
    /\ \/ /\ orders[snap[a].order] # NULL
          /\ GoTo(a, "dispatch")
          /\ UNCHANGED <<snap, reply, callsLeft, answer>>
       \/ /\ orders[snap[a].order] = NULL /\ snap[a].price # NULL
          /\ GoTo(a, "commit")
          /\ UNCHANGED <<snap, reply, callsLeft, answer>>
       \/ /\ orders[snap[a].order] = NULL /\ snap[a].price = NULL
          /\ Finish(a, "internal")
    /\ UNCHANGED <<stock, ledger, operation, orders, outbox, late, todo>>

(* The transaction: order and outbox row ON CONFLICT DO NOTHING, and the     *)
(* saga completion.                                                         *)
Committed(row) ==
    /\ orders' = IF orders[row.order] # NULL THEN orders
                 ELSE [orders EXCEPT ![row.order] =
                         [status |-> "CONFIRMED", total |-> row.price * QuantityOf[row.order]]]
    /\ outbox' = outbox \cup {row.order}
    /\ operation' = [operation EXCEPT ![row.order].state = "COMPLETED"]

(* Fault: the order insert overwrites the row that is there.                *)
CommitUpsert(a) ==
    /\ pc[a] = "commit"
    /\ orders' = [orders EXCEPT ![snap[a].order] =
                     [status |-> "CONFIRMED",
                      total |-> snap[a].price * QuantityOf[snap[a].order]]]
    /\ outbox' = outbox \cup {snap[a].order}
    /\ operation' = [operation EXCEPT ![snap[a].order].state = "COMPLETED"]
    /\ GoTo(a, "dispatch")
    /\ UNCHANGED <<stock, ledger, late, snap, reply, callsLeft, todo, answer>>

(* Fault: the order insert fails on the row that is there.                  *)
CommitConflicts(a) ==
    /\ pc[a] = "commit"
    /\ \/ /\ orders[snap[a].order] = NULL
          /\ Committed(snap[a])
          /\ GoTo(a, "dispatch")
       \/ /\ orders[snap[a].order] # NULL
          /\ GoTo(a, "release")
          /\ UNCHANGED ordersVars
    /\ UNCHANGED <<stock, ledger, late, snap, reply, callsLeft, todo, answer>>

Commit(a) ==
    /\ pc[a] = "commit"
    /\ Committed(snap[a])
    /\ GoTo(a, "dispatch")
    /\ UNCHANGED <<stock, ledger, late, snap, reply, callsLeft, todo, answer>>

(* runInTransaction throws: rolled back, or committed with the COMMIT's      *)
(* acknowledgement lost. The handler compensates in both cases.             *)
CommitThrows(a) ==
    /\ pc[a] = "commit"
    /\ \/ CommitMayFail /\ UNCHANGED ordersVars
       \/ CommitAckMayBeLost /\ Committed(snap[a])
    /\ GoTo(a, "release")
    /\ UNCHANGED <<stock, ledger, late, snap, reply, callsLeft, todo, answer>>

ReleaseAnswered(a) ==
    /\ pc[a] = "release"
    /\ ServeRelease(snap[a].order)
    /\ reply' = [reply EXCEPT ![a] =
                    [kind |-> Inv!ReleaseReply(ledger[snap[a].order]), price |-> NULL]]
    /\ GoTo(a, "recordRelease")
    /\ UNCHANGED <<operation, orders, outbox, late, snap, callsLeft, todo, answer>>

ReleaseUnanswered(a) ==
    /\ pc[a] = "release"
    /\ CallsMayFail
    /\ GiveUp("release", snap[a].order)
    /\ reply' = [reply EXCEPT ![a] = Unavailable]
    /\ GoTo(a, "recordRelease")
    /\ UNCHANGED <<stock, ledger, operation, orders, outbox, snap, callsLeft, todo, answer>>

(* Fault: a release that got no answer is taken for confirmed.              *)
RecordReleaseUnconfirmed(a) ==
    /\ pc[a] = "recordRelease"
    /\ operation' = [operation EXCEPT ![snap[a].order].state = "DECREMENTED",
                                      ![snap[a].order].outcome = "RELEASED"]
    /\ Finish(a, "internal")
    /\ UNCHANGED <<stock, ledger, orders, outbox, late, todo>>

(* Fault: a confirmed release becomes a saga state the schema does not know. *)
RecordReleaseAsState(a) ==
    /\ pc[a] = "recordRelease"
    /\ operation' = [operation EXCEPT ![snap[a].order].state =
              IF reply[a].kind = "UNAVAILABLE" THEN "DECREMENTED" ELSE "RELEASED"]
    /\ Finish(a, "internal")
    /\ UNCHANGED <<stock, ledger, orders, outbox, late, todo>>

(* Confirmed (or nothing to release): terminal. Not confirmed: the saga      *)
(* stays open as a decrement, which is all the row says about it.           *)
RecordRelease(a) ==
    /\ pc[a] = "recordRelease"
    /\ operation' = [operation EXCEPT
          ![snap[a].order].state = "DECREMENTED",
          ![snap[a].order].outcome =
              IF reply[a].kind = "UNAVAILABLE" THEN "DECREMENTED" ELSE "RELEASED"]
    /\ Finish(a, "internal")
    /\ UNCHANGED <<stock, ledger, orders, outbox, late, todo>>

(* dispatchOrderConfirmation: delivered or not, the order is confirmed.      *)
Dispatch(a) ==
    /\ pc[a] = "dispatch"
    /\ \E delivered \in BOOLEAN : Finish(a, CompletedAnswer(a, delivered))
    /\ UNCHANGED <<stock, ledger, operation, orders, outbox, late, todo>>

(* A saga that was read as COMPLETED: its order is answered as delivered.    *)
FetchCompleted(a) ==
    /\ pc[a] = "fetch"
    /\ \/ orders[snap[a].order] # NULL /\ Finish(a, CompletedAnswer(a, TRUE))
       \/ orders[snap[a].order] = NULL /\ Finish(a, "internal")
    /\ UNCHANGED <<stock, ledger, operation, orders, outbox, late, todo>>

-----------------------------------------------------------------------------
(* GET /orders/:id/operations: two queries without a transaction, here with  *)
(* a step of somebody else between them.                                    *)

FindOrderOperation(o) == operation[o]

FindOutboxEntry(o) == o \in outbox

(* Fault: the outbox is read before the saga row.                           *)
OrderOperationViewReversed(o) ==
    [row |-> FindOrderOperation(o)', entry |-> FindOutboxEntry(o)]

OrderOperationView(o) == [row |-> FindOrderOperation(o), entry |-> FindOutboxEntry(o)']

-----------------------------------------------------------------------------
(* POST /orders/:id/ship: one conditional UPDATE.                           *)
Ship(o) ==
    /\ orders[o] # NULL /\ orders[o].status = "CONFIRMED"
    /\ orders' = [orders EXCEPT ![o].status = "SHIPPED"]
    /\ UNCHANGED <<stock, ledger, operation, outbox, late, pc, snap, reply, callsLeft, todo,
                   answer>>

(* The process of actor a stops, or a statement of its handler throws. A     *)
(* call it waits for may still arrive. The worker goes on with its batch     *)
(* after an exception; a new process starts with an empty one.              *)
Crash(a) ==
    /\ a \in MayCrash
    /\ pc[a] \notin {"start", "done", "idle"}
    /\ CASE pc[a] = "decrement" -> GiveUp("decrement", snap[a].order)
         [] pc[a] = "release"   -> GiveUp("release", snap[a].order)
         [] OTHER               -> UNCHANGED late
    /\ IF a = Worker
       THEN \/ GoTo(a, "idle") /\ todo' = {}
            \/ pc[a] # "next" /\ GoTo(a, "next") /\ UNCHANGED todo
       ELSE GoTo(a, "done") /\ UNCHANGED todo
    /\ snap' = [snap EXCEPT ![a] = NULL]
    /\ reply' = [reply EXCEPT ![a] = NULL]
    /\ callsLeft' = [callsLeft EXCEPT ![a] = 0]
    /\ UNCHANGED <<stock, ledger, operation, orders, outbox, answer>>

(* Nothing is in progress: every request has ended and nothing is left for   *)
(* the worker.                                                              *)
Quiet ==
    /\ pc[Worker] = "idle"
    /\ \A r \in Requests :
          /\ pc[r] = "done"
          /\ operation[r] # NULL => ~IsRecoverable(operation[r])
    /\ UNCHANGED vars

ActorStep(a) ==
    \/ DecrementAnswered(a) \/ DecrementUnanswered(a)
    \/ RecordDecremented(a) \/ RecordRejected(a)
    \/ RecordAlreadyReleased(a) \/ RecordUncertain(a)
    \/ FindOrder(a) \/ Commit(a) \/ CommitThrows(a)
    \/ ReleaseAnswered(a) \/ ReleaseUnanswered(a) \/ RecordRelease(a)
    \/ Dispatch(a) \/ FetchCompleted(a)

RequestStep(r) == LookUp(r) \/ Insert(r) \/ LookUpAgain(r) \/ ReadBack(r)

WorkerStep == ListCandidates \/ TakeCandidate \/ EndPass

Next ==
    \/ \E a \in Actors : ActorStep(a) \/ Crash(a)
    \/ \E r \in Requests : RequestStep(r) \/ Ship(r)
    \/ WorkerStep
    \/ LateArrival
    \/ Quiet

Spec == Init /\ [][Next]_vars

(* The worker's loop never ends: a process that crashes is restarted, and it  *)
(* does not crash for ever. What the worker retries on every pass does not    *)
(* fail for ever either: calls are answered and transactions commit again     *)
(* and again. Nothing is assumed of requests.                                *)
Fairness ==
    /\ WF_vars(WorkerStep)
    /\ WF_vars(ActorStep(Worker))
    /\ SF_vars(DecrementAnswered(Worker))
    /\ SF_vars(Commit(Worker))
    /\ <>[][~Crash(Worker)]_vars

FairSpec == Spec /\ Fairness

-----------------------------------------------------------------------------
TypeOK ==
    /\ Inv!TypeOK
    /\ operation \in [Requests -> SagaRow \cup {NULL}]
    /\ orders \in [Requests -> OrderRow \cup {NULL}]
    /\ outbox \subseteq Requests
    /\ late \subseteq {"decrement", "release"} \X Requests
    /\ pc \in [Actors -> {"start", "insert", "lookUpAgain", "readBack", "idle", "next",
                         "decrement", "record", "find", "commit", "release",
                         "recordRelease", "dispatch", "fetch", "done"}]
    /\ snap \in [Actors -> SagaRow \cup {NULL}]
    /\ reply \in [Actors -> Reply \cup {NULL}]
    /\ callsLeft \in [Actors -> 0..InlineCallAttempts]
    /\ todo \subseteq SagaRow
    /\ answer \in [Requests -> [kind : AnswerKinds, order : Requests] \cup {NULL}]

(* An order exists only after inventory recorded a decrement for its id, at  *)
(* the recorded price, and never without its durable confirmation intent.   *)
OrderBacked ==
    \A o \in Requests :
        orders[o] # NULL =>
            /\ ledger[o] # NULL
            /\ ledger[o].outcome = "DECREMENTED"
            /\ orders[o].total = ledger[o].total
            /\ o \in outbox

(* A saga is only marked as released once inventory did give the stock back: *)
(* "a saga is never marked aborted without a successful release".            *)
CompensationConfirmed ==
    \A o \in Requests :
        (operation[o] # NULL /\ operation[o].outcome = "RELEASED")
            => Inv!IsReleased(ledger[o])

(* A saga is only aborted on inventory's recorded rejection of that order,   *)
(* and then there is no order, whoever else works on the same saga.          *)
AbortsJustified ==
    \A o \in Requests :
        (operation[o] # NULL
         /\ operation[o].state \in {"ABORTED_NOT_FOUND", "ABORTED_INSUFFICIENT_STOCK"})
            => /\ ledger[o] # NULL
               /\ operation[o].state = IF ledger[o].outcome = "NOT_FOUND"
                                        THEN "ABORTED_NOT_FOUND"
                                        ELSE "ABORTED_INSUFFICIENT_STOCK"
               /\ ledger[o].outcome # "DECREMENTED"
               /\ orders[o] = NULL

(* The branch "the recorded decrement has no price snapshot" of              *)
(* completeLocalTransaction is never needed: however actors overwrite one    *)
(* another's rows, an open DECREMENTED row has the price inventory recorded. *)
PriceRecorded ==
    \A o \in Requests :
        (operation[o] # NULL /\ operation[o].state = "DECREMENTED"
         /\ operation[o].outcome = "DECREMENTED")
            => /\ ledger[o] # NULL
               /\ operation[o].price = ledger[o].unitPrice

(* What a client was told stays true: a confirmed or replayed order exists,  *)
(* and of a rejected one there is neither an order nor a stock change.        *)
AnswersHold ==
    \A r \in Requests :
        answer[r] # NULL =>
            LET o == answer[r].order IN
            /\ answer[r].kind \in {"created", "confirmation-failed", "replayed"}
                  => orders[o] # NULL
            /\ answer[r].kind \in {"insufficient-stock", "product-not-found"}
                  => /\ ledger[o] # NULL /\ ledger[o].outcome # "DECREMENTED"
                     /\ orders[o] = NULL

(* A client that repeats its Idempotency-Key never takes stock twice.        *)
OneDecrementPerKey ==
    \A r, s \in Requests :
        (KeyOf[r] # NULL /\ KeyOf[r] = KeyOf[s] /\ ledger[r] # NULL /\ ledger[s] # NULL)
            => r = s

(* An order row is never replaced, by a second commit of the same saga for   *)
(* instance: once inserted it only ever goes from CONFIRMED to SHIPPED.      *)
OrdersFinal ==
    [][\A o \in Requests :
          orders[o] # NULL =>
              \/ orders'[o] = orders[o]
              \/ /\ orders[o].status = "CONFIRMED"
                 /\ orders'[o] = [orders[o] EXCEPT !.status = "SHIPPED"]]_vars

Completed(row) == row # NULL /\ row.state = "COMPLETED"
Aborted(row) == row # NULL /\ row.state \in {"ABORTED_NOT_FOUND", "ABORTED_INSUFFICIENT_STOCK"}

(* The diagnostic view never shows a completed saga without its confirmation *)
(* intent, nor an aborted one with it, whatever an actor commits or writes    *)
(* over the row between the two queries. (A row that says DECREMENTED, with   *)
(* or without RELEASED, can be seen beside an entry: see CommitThrows.)       *)
ViewCoherent ==
    [][\A o \in Requests :
          LET view == OrderOperationView(o) IN
          /\ Completed(view.row) => view.entry
          /\ Aborted(view.row) => ~view.entry]_vars

(* "A successful creation produces exactly one CONFIRMED order and exactly   *)
(* one stock decrement": the stock of an order that exists is not given back. *)
OrderKeepsStock ==
    \A o \in Requests : orders[o] # NULL => Inv!IsHeld(ledger[o])

(* "The migration must preserve the existing externally observable behavior": *)
(* seen through its orders, with the stock that they leave, the saga is the    *)
(* monolith. Rivals never oversell, and an order appears whole and once.      *)
SoldUnits(p) ==
    UNION {{o} \X (1..QuantityOf[o]) : o \in {x \in Requests : orders[x] # NULL
                                                              /\ ProductOf[x] = p}}

Shop ==
    INSTANCE LegacyShop WITH
        Orders <- Requests,
        NoOrder <- NULL,
        stock <- [p \in Products |-> InitialStock[p] - Cardinality(SoldUnits(p))]

PreservesShop == Shop!Spec

(* "No stock is ever decremented without an order or a compensating release": *)
(* every saga is decided, also when its request died at any point.           *)
Decided(o) ==
    \/ orders[o] # NULL
    \/ ledger[o] # NULL /\ ~Inv!IsHeld(ledger[o])

SagaDecided ==
    \A o \in Requests : operation[o] # NULL ~> Decided(o)
=============================================================================
