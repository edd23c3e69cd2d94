# ShopFlow: formal models

TLA+ models, model-checking runs and machine-checked proofs of ShopFlow, a small shop split into
services. The reference is the code under `src/`; paths below are relative to it. `PROJECT.json` lists
the components, the runs, the theorems, the hazards the properties are aimed at, and for every
definition the lines it models.

## 1. The system

### Components

| Component | State it keeps | Operations |
| --- | --- | --- |
| **shopflow-inventory** (`StockService`) | `products.stock`; `stock_decrements`, a ledger with one row per order id | `POST /stock-decrements`, `POST /stock-decrements/:orderId/release`, product reads |
| **shopflow-orders**: order creation (`OrderCreationService`) | `orders`, `order_operations` (one saga row per order id), `notification_outbox` | `POST /orders` |
| **shopflow-orders**: recovery (`SagaRecoveryService`) | none; reads stale and open saga rows | `recoverOnce`, once a second |
| **shopflow-orders**: shipping (`OrderService`) | `orders.status` | `POST /orders/:id/ship`, reads |
| **shopflow-orders**: outbox (`OutboxDispatcher`) | `notification_outbox` | inline dispatch at the end of a saga, `dispatchDue` once a second |
| **shopflow-orders**: process (`main.ts`, `worker/loops.ts`) | a pool, two interval loops | start, SIGTERM, stop of the loops, exit |
| **shopflow-notifications** (`NotificationDeliveryService`, `DeliveryWorker`) | `notifications`, `notification_attempts`, session locks, a pool of 10 connections | `POST /notifications/order-confirmations`, `processDueDeliveries` once a second |
| **provider** (external; an emulator in `shopflow-infra`) | the messages it accepted | `POST /notifications`, `GET /notifications` |
| **shopflow-gateway** | none | forwards to the services, with a timeout and one retry of reads |
| **shopflow-api** | the legacy monolith: products and orders in one database | what the services replace |
| **shopflow-web** | none | lists products, posts one order |

### How they interact

A client posts an order through the gateway. `createOrder` commits a saga row (`STARTED`) under a fresh
order id, calls inventory with that id as idempotency key, writes the answer to the saga row, and in one
local transaction inserts the order and the outbox entry and completes the saga. A transaction that fails
is compensated by a release. Then the confirmation is dispatched to shopflow-notifications, which
records it before it calls the provider. Every arrow is an HTTP call with a timeout and at-least-once
semantics; every database is private to its service; nothing but the databases survives a crash. Three
one-second loops (recovery, outbox, delivery) finish what requests have left open.

### What is hard

- *Interleavings.* A request, a repeated request and the worker can resolve the same saga at the same
  time; each works from a saga row it read earlier and writes by unconditional `UPDATE`. Handler and loop
  dispatch the same outbox entry. Dispatches and the worker attempt the same notification.
- *Unknown outcomes.* A call that times out may have been executed, may be executed later, or never. A
  `COMMIT` whose acknowledgement is lost looks like a rollback.
- *Crashes* between any two awaits; the next pass of a loop has to continue from the rows alone.
- *Concurrency control in SQL.* Guarded updates under READ COMMITTED, advisory locks on hashes, `ON
  CONFLICT DO NOTHING`.
- *Limits.* INTEGER columns, batches of 25, a pool of 10 connections, timeouts of several layers.
- *Rules in several places.* Gateway, orders, inventory and notifications each validate an order, and the
  monolith that they replace coerced what they check.

### What makes each component correct

- Inventory: units are conserved, a decrement takes effect at most once and a release exactly once, an
  outcome once recorded is never re-evaluated, and concurrent transactions amount to a sequence of whole
  operations.
- Saga: an order exists only for a recorded decrement and at its price, an abort only for a recorded
  rejection, a released saga only for a confirmed release; every saga is decided although its request
  died; what a client was told stays true; one client key takes stock once; an order keeps its stock.
- Outbox: an entry is closed only for a delivered confirmation; every confirmation is delivered.
- HTTP surface: a service never refuses for ever what the one before it accepted; an answer is backed by
  what the databases hold, and is the monolith's.
- Process of orders: work that fails for ever starves no other; a shutdown ends and cuts nobody off.
- Notifications: a delivered notification names a message the provider holds and stays so; the attempt
  history is complete; the provider is told once; one call is in flight at a time.

## 2. Modules

    Inventory  <-- implemented by --  InventoryTx          (statements, locks, commits)
        ^  ^
        |  +------------ extended by --  OrderContract  (POST /orders through all services)
        |
    OrderSaga  (INSTANCE Inventory: requests, worker, calls, orders database)
        |
        +-- implements, while no commit fails -->  LegacyShop  (the monolith)

    Confirmation  <-- implemented by --  NotificationDelivery   (locks, attempts, provider)
        ^
        |
      Outbox  (INSTANCE Confirmation: handlers, loop, calls)

    OrdersProcess           (requests, loops, batches and shutdown of one process)
    NotificationProcess     (connections, locks and shutdown of one process)
    Gateway                 (client, gateway, and what it sees of the saga)

| Module | Proved in |
| --- | --- |
| Inventory | InventoryProofs |
| InventoryTx | InventoryTxProofs (with an instance of InventoryProofs) |
| OrderSaga, LegacyShop | OrderSagaProofs (with an instance of InventoryProofs) |
| OrderContract | OrderContractProofs (extends InventoryProofs) |
| NotificationDelivery, Confirmation | NotificationDeliveryProofs |
| Outbox | OutboxProofs |
| NotificationProcess, OrdersProcess | ProcessProofs |
| Gateway | GatewayProofs |

**Inventory** - the promise of shopflow-inventory. `stock` is `products.stock`, `ledger` is
`stock_decrements`. `DecrementStock` and `ReleaseStock` are committed transactions; `DecrementReply` and
`ReleaseReply` are what callers are told. A call that commits nothing stutters.

**InventoryTx** - the same two operations as the statements of `stock-service.ts` and its repositories.
A call goes through `lock` (`pg_advisory_xact_lock`), `find` (`FOR UPDATE`), `product`, `update`,
`insert` or `release`, and `commit` or `rollback`; its writes stay in `newRow` and `newStock` until the
commit. `rowLock` is the lock of an uncommitted update of a product; a guarded update waits for it and
sees what its holder left, while one whose guard fails on the committed row does not wait. Values that do
not fit an INTEGER column make the statement and so the transaction fail.

**OrderSaga** - `order_operations` (`operation`), `orders` and `outbox` next to Inventory, and a set of
actors: each request, and the worker. An actor has a program counter (the next await), `snap` (the saga
row it works from, which may be stale), `reply` (the answer of its call) and `callsLeft`. Each action is
one await of `order-creation-service.ts`. `Resolve` is the dispatch on the state of the row that was read.
`late` holds calls whose caller gave up and that inventory may still execute. `todo` is the worker's
list. The order id is the request that created it, because an id is a fresh UUID of that request.
`OrderOperationView` is the diagnostic view of a saga, with its two queries in different states.

**Confirmation** - the promise of shopflow-notifications: recorded, accepted by the provider, delivered.

**NotificationDelivery** - dispatches and the worker as actors that take the delivery lock, persist,
inspect, post and record. `unlocking` is an unlock that was issued while the attempt still runs: the
code returns the promise of `attemptDelivery` without awaiting it, so its `finally` block runs at once.
`accepted` counts the provider's messages, `inFlight` the given-up POSTs it may still accept, `history`
the attempt rows.

**Outbox** - handlers (the inline dispatch) and the loop on `entry`, with the service behind them.
`seen` is the attempt counter as it was read; `late` calls arrive after their caller gave up.

**LegacyShop** - what the monolith shows: an order and its stock decrement are one step. `TASK.md` asks
that "the migration must preserve the existing externally observable behavior"; `PreservesShop` states
it of OrderSaga, with the stock that the orders leave as the monolith's stock. (The units of a saga that
is not decided yet are reserved in inventory; they are not sold in the monolith's sense.)

**OrderContract** - one POST /orders as data: what the gateway, `order-request.ts`, the columns of
`order_operations`, `stock-decrement-request.ts`, the INTEGER total and `parseOrderConfirmationIntent`
let through, and with which status and code each refusal reaches the client. It extends Inventory with
the saga row, the order, the outbox entry and the answer of each order id, and puts next to every request
what the monolith answered to the same bytes on the same stock (`LegacyAnswer`). A request (`Request`) is
a record of the features that some validator tells apart; no text is spelled out. The steps are `Refuse` or
`Accept`, `CallDecrement`, `Commit` or `CommitFails`, and `Dispatch`. Each may fail: an answer may be torn or
lost; a transaction that raises may have been rolled back or have taken effect, and its release may be
confirmed, or executed and unheard, or not executed at all, which leaves the row open and the client with a
500 (`CommitFails`); the confirmation of a committed order may fail, which is a 500 as well, and the loop
delivers it later (`DispatchDue`). A saga has one actor at a time, its request or later the worker: rivals,
stale snapshots and crashes are OrderSaga's and Outbox's.

**OrdersProcess** - one process of shopflow-orders: requests, both loops, and the shutdown of `main.ts`
(`phase`). `queue` is `order_operations` in the order of `updated_at`, `pending` the outbox in the order of
its ids, `fresh` the STARTED rows within the grace period; a pass takes `BatchSize` rows as it finds them
and works through them with the states that it has read. What a step does to stock and messages is
abstracted to its outcome.

**Gateway** - one intent of a client that repeats it (`Send`), the forwarding loop of `proxy.ts` with its
single retry of the two reads, its timeout, and a service that executes an attempt when it arrives, which
may be after the gateway has given it up (`afloat`). Of POST /orders the service keeps the state of one
saga per client key, or per received request.

**NotificationProcess** - the requests and the worker of one process as users of node-postgres' pool
(`queue`, `clients`), with the advisory locks that live in the sessions of the clients, and the shutdown
of `main.ts` and `service.ts` (`phase`). A step that needs a client waits in `queue`, then holds it while
its query runs. The calls to the provider and the contents of the records are left to
NotificationDelivery. `Throws` is what an exception does at each step. The unlock can throw too: the code
only logs that and releases the client, so the session goes back to the pool and may still hold the lock,
for nobody (`lock[o] = Stray`, in `Unlocked`). From then on an attempt waits for that lock, unless the pool
hands it that very session, to which PostgreSQL grants the lock again (`LockedAgain`), or until the session
ends (`SessionEnds`).

`*Proofs.tla` hold the theorems (section 4). `MC*.tla` give the constants small values. Definitions commented as *Fault* are variants of the
definition that follows them, as a plausible bug would make it; no specification uses them. They serve to
show that each property notices such a bug.

## 3. Runs

| Run | Question | Result |
| --- | --- | --- |
| `order_contract` | Two orders with every kind of body, through all validators, columns and status codes: do stock and ledger stay conserved, final and justified, is nothing refused that was accepted before, are answers backed and outcomes those of the monolith, also when calls, commits, releases and dispatches fail or take effect unheard? | holds |
| `tx_races` | Six concurrent transactions (a repeated order with another body, its release, a rival, colliding hashes, values beyond their columns): is every commit a step of Inventory, and every answer the ledger's at that moment? | holds |
| `saga_duplicates` | Two requests with one key and the worker, late and lost calls, failed and doubtful commits, crashes of all three: what survives every interleaving, is the diagnostic view coherent although somebody steps in between its queries, and is every saga decided in the end? | holds, the last under fairness |
| `saga_exactly_once` | Two rivals for the last units: if the local transaction never fails, does every order keep its stock, and is the saga the monolith as seen through its orders? | holds |
| `saga_release_lost` | Does every order keep its stock when the local transaction can fail? | **violated** |
| `delivery_overlap` | With overlapping attempts and every failure: attempt history, answers, the promise of Confirmation, and delivery in the end | holds, delivery under fairness |
| `delivery_single` | Attempts that do not overlap and a prompt provider: is it told once, over every failure? | holds |
| `delivery_in_flight` | Is at most one provider call of a notification in flight? | **violated** |
| `outbox_races` | Is an entry closed, and a client told so, only for a delivered confirmation, and does that happen for good? | holds, the latter under fairness |
| `gateway` | Does a client that repeats itself over timeouts and broken connections get an answer, a true one, and no order more than it asked for? | holds, the answer under fairness |
| `notification_process` | Requests and worker share fewer connections than they need, and every query may throw: is every request answered, unless a failed unlock blocks its order, is no connection kept, nor a lock but by a failed unlock, and does a shutdown wait for the pass and end? | holds, the first and last under fairness |
| `orders_process` | A request, both loops with full batches and the leftovers of an earlier process: does each saga and each confirmation get its turn although others fail for ever, and does a shutdown wait for everybody and end? | holds, the turns and the end under fairness |

Deadlock is checked in every run but `order_contract`, where every order id gets its answer and nothing
happens any more. `Quiet` and `AllAnswered` are the states in which nothing is left to
do; any other state without a successor is an error. `InventoryTx` has no cycles, so the absence of
deadlock there means that every call is answered.

### The violated properties

- *A release whose answer is lost* (`saga_release_lost`). `completeLocalTransaction` writes a plain
  DECREMENTED row, which the next pass takes for an open decrement and commits, while inventory has
  given the units back: a CONFIRMED order without stock. No concurrency is needed. The same invariant
  fails in three more ways, each reached by other values of the constants of that configuration:
  - `CallsMayFail = FALSE` and no `NoOverlap`: the grace period protects STARTED rows only, so the worker
    takes over the DECREMENTED row of a request that is compensating it;
  - two requests with one key: the one whose commit fails releases, the other commits;
  - `CommitAckMayBeLost = TRUE` alone: a `COMMIT` that took effect and raised is compensated.
- *The delivery lock is released early* (`delivery_in_flight`). `return this.attemptDelivery(...)`
  without `await` inside `try ... finally`.

More observations, which no run states as a property:

- A second actor that read a saga row earlier overwrites COMPLETED by DECREMENTED. The order exists, so
  `completeLocalTransaction` only dispatches its confirmation and never sets COMPLETED again: the row
  stays at the front of the recovery batch, because nothing updates it. Nothing is lost by one such row
  (`SagaDecided`, `OrderKeepsStock`), but 25 of them fill every batch: no other saga is taken up any more.
  `SagasTakenUp` names this exception; without it, OrdersProcess violates it.
- `listDueOutboxEntries` takes the due rows with the lowest ids. 25 confirmations that are refused for
  ever and fall due on every pass keep all newer ones from the loop (their inline dispatch is not affected).
  `ConfirmationsDelivered` assumes fewer (`OrdersProcessAssumption`).
- An order whose total exceeds INTEGER while there is stock for it is answered 503, and its saga is
  retried for ever: inventory answers 500 each time (`TotalOverflows`). The monolith answered 500.
- `staleStartedGraceMs` is the timeout times the attempts and does not cover the pause between the
  attempts (100 ms) nor the statements around them, so the worker can take over a request in flight.
  `Ages` and OrderSaga's `ListCandidates` therefore let that happen at any time.
- A dispatch that fails late writes PENDING over the DELIVERED of another one. `Settles` and
  `ClosedIsConfirmed` hold nevertheless.
- The missing `await` has a second consequence: an attempt that throws while the unlock is still on its
  way rejects a promise that nobody handles yet, and Node ends the process (`Throws` in
  NotificationProcess). That is why `DispatchAnswered` says "or the process has exited".
- An unlock that fails without ending its session leaves the delivery lock in a session of the pool.
  Attempts for that order, of requests and of the worker, then wait for it without a timeout, and the pass of
  the worker stands still, for as long as the pool keeps the session in use. `DispatchAnswered` and
  `NothingKept` name this exception; without it NotificationProcess violates both. `client.release(error)`
  would end the session.
- The diagnostic view can show RELEASED or DECREMENTED next to an outbox entry: the order was committed by
  another actor, or by a transaction whose acknowledgement was lost, and the row written over its
  COMPLETED. `ViewCoherent` claims nothing of such rows, only of completed and aborted ones.

### Where the answers differ from the monolith's

`order-request.ts` says that it validates "exactly as the retired monolith did it" and that "everything a
legacy client could send keeps working". `AnswersAsBefore` states it as far as it is true; the exceptions
are named in `Narrowed`, and for all of them but one the services refuse what the monolith took:

- quantities sent as text, product ids sent as numbers, product ids over 200 and addresses over 320
  characters, client keys over 255 characters, bodies over 64 kB, quantities beyond INTEGER;
- addresses without a dotted domain: the monolith asked for an `@` only;
- a product id of blanks is INVALID, not NOT_FOUND; one with blanks around it is trimmed and accepted,
  where the monolith did not find it (the only request that is accepted and was not);
- a body that is no JSON, or none at all, is 400 INVALID, where the monolith answered 500
  (`adapters/http/app.ts` of orders calls it "the same rejection the legacy service answered");
- a body between 64 and 100 kB is answered 500 rather than refused as too large: the 413 of
  `express.json` is no documented failure of `errorHandler`.

### What the runs need

`delivery_single` needs its prompt provider: with `SlowProvider = TRUE` a POST given up after its timeout
may be accepted after the inspection of the retry has found nothing, and `SingleMessage` fails.

### Bounds

- OrderContract: two orders, two products, one unknown id. Every property relates at most two orders and
  one product, and those of Inventory are proved for any number. The bodies are plain ones with up to two
  fields that some validator minds, so that the order of checks matters; `MaxInt` (8) and `MaxSafe` (20)
  separate what a column, a number and a total can hold.
- OrdersProcess: batches of two, and three orders: one whose confirmation is never accepted, one left
  behind in any of the states that differ for a loop, and one whose request races with the loops. With three
  rows a batch of two is full with one left over, which is what starvation needs.
- InventoryTx: six calls on three orders and one product. A conflict involves at most a lock holder, a
  waiter and a third transaction that changes the row in between; all of them, repeated and released,
  are there. `MaxFaults` bounds the transactions that die (2).
- OrderSaga: two requests and the worker. Every disagreement over one saga is between two actors, and the
  third covers chains of them. Sagas of different orders share only inventory's stock, whose competition
  the first two modules check. `InlineCallAttempts` is 2, the default of `config.ts`.
  `saga_release_lost` explores only the executions in which worker and request do not overlap, to show
  that the violation needs no race.
- NotificationDelivery: two dispatches of one order and the worker; up to 3 faults, a fault being a call, a
  statement or a process that fails. Orders share nothing but the worker's batch. `delivery_single`
  explores only executions without overlap, with `DELIVERY_MAX_ATTEMPTS` at 3 (0, unlimited, elsewhere).
- Outbox: two handlers of one order and the loop; up to 3 faults.
- `saga_exactly_once`: two requests without a key that together want more than there is; one of them may
  die. The commit does not fail, by the constants: what happens when it does is `saga_release_lost`.
- Gateway: one intent, sent up to three times (`MaxSends`): late arrivals of a call can meet both an
  unanswered and an answered successor.
- NotificationProcess: two requests for the same or different orders and the worker, with two connections:
  enough for a pool that is exhausted by lock holders, or by a holder and its waiter. The worker's passes
  are not bounded, nor is the number of unlocks that fail.
- The diagnostic view of `saga_duplicates` has one step of somebody else between its queries, which is where
  the wrong order of the two shows; `ViewsAreCoherentAtAnyDelay` proves it for any number of steps.
- Batches hold every candidate, except in OrdersProcess, which is about them.

### Fairness

- OrderSaga: weak fairness of the worker's steps - a `setInterval` loop that a restarted process starts
  again - and strong fairness of an answered call and of a commit of the worker: what is retried on each
  pass does not fail for ever. The worker's process may crash any number of times, but not for ever. Nothing
  is assumed of requests: a client may go away and its process die.
- OrdersProcess: timers fire, every query and call ends (by a timeout at the latest) in an answer, a failure
  or an exception, and requests outgrow the grace period. Strong fairness of `Delivers`: a confirmation
  that shopflow-notifications accepts at all is accepted in the end, which is `Settles` of Outbox. That a
  saga succeeds is not assumed, only that it is worked on; that a signal arrives is not assumed either.
- NotificationDelivery: handlers and the worker go on (every await ends, by a timeout at the latest),
  time passes, and PostgreSQL grants a lock in the end to a waiter (its lock queue is fair), which is strong
  fairness of the worker's acquisition. Faults are finitely many by `MaxFaults`.
- Outbox: the loop goes on, time passes, and the service works on what it registered, which is
  what `EventuallyDelivered` says of NotificationDelivery.
- Gateway: the timer of an attempt fires. Nothing is assumed of the services or of the network.
- NotificationProcess: queries, provider calls and timers end, and PostgreSQL serves the waiters of a lock in
  their order (strong fairness of `Locked`). That a waiter for a connection gets one is not assumed: what
  ends the waiting is the pool's timeout. A session that kept a lock is only assumed to end once the process
  stops: `pool.end()` and the idle timeout close sessions that nobody borrows, and PostgreSQL breaks
  circles of waiting sessions. While the process serves, the pool prefers the session that was used last,
  so it need never be idle for long.

## 4. Proofs

Every invariant and every action property that a passing run checks is also a theorem, for every value
of the constants that the named assumptions of the modules allow (`InventoryAssumption`, `TxAssumption`,
`SagaAssumption`, `DeliveryAssumption`, `ContractAssumption`, ...: types, an order id or a NULL that is
nothing else, columns that hold the seed). Where a theorem needs more, its statement says so. Only the
liveness properties are left to TLC (end of this section), but the safety they rest on is proved: what is
reached is not lost again, waits have no circle, retries are used up. Of almost every invariant the proof needs a
stronger one, because what makes it true is in the hands of an actor that has read it and not written
it yet. The strengthenings below were checked by TLC before they were proved.

**Inventory** (`InventoryProofs`). `TypeOK` is not inductive: that a release does not push stock beyond its
column follows only from conservation, since stock plus the units held equals a seed that fits. So the
inductive invariant is `IInv == TypeOK /\ StockConserved`. Conservation is stated with a cardinality instead
of a sum, because a sum over a set is a recursive definition, and induction over data is out of the
prover's reach: each unit of a held decrement is a pair (order, number), and the lemmas `GainUnits`,
`LoseUnits` and `SameUnits` say how the set of units changes when one row changes. `RejectionsJustified`
is proved from `JInv`, which adds it to `IInv`; `LedgerFinal` follows step by step.

**InventoryTx implements Inventory** (`InventoryTxProofs`). `TransactionsAreAtomic`: for any number of
concurrent transactions and any collisions of the hashes, a commit is a whole step of Inventory and
every other statement none. `AnswersAreCurrent`: so is the answer. What a transaction has computed must
still be right at its commit; `CallsTrue` says why. The ledger row it has read is protected by the lock on
the hash of its order, the stock it has updated by the row lock of the product. A rejection holds no row
lock: it may be overtaken by a release, which is exactly the disjunct `Refilled` of Inventory's
`RecordInsufficient`. The invariant is `TypeOK`, conservation, `HeldProducts` and `CallsTrue`; that types
and units are kept is not proved again but taken from InventoryProofs, of which this module has an
instance (`SameInventory`).

The same invariant, with what each transaction holds at each of its statements (`LockHolders`), shows why the
code needs neither a handler for `unique_violation` nor one for a deadlock. `KeyIsNeverContended`: nobody
waits for the primary key of the ledger, because everyone who inserts a row of an order has the lock on its
hash. `NobodyWaitsInACircle`: in every set of transactions one waits for no other of the set. The
argument is a rank (`WaitsLeadUp`): a wait for a hash is for a transaction that is past its first statement,
a wait for a product is for one that has updated it and waits for nothing.

**OrderSaga** (`OrderSagaProofs`). Requests, worker and late calls write from rows that they read long ago,
without a condition, and may interleave in any way. The argument is that whatever they rely on only
grows (`Grow`): recorded outcomes and prices of the ledger, the existence and the price of a saga row,
orders. `RowTrue(row)` is what a row of `order_operations`, however old, says of inventory; it holds of
the table, of every snapshot and of the worker's list, so it does not matter which of them is written
back. `IInv` is `TypeOK`, `ActorsTrue` (snapshots and answers in hand), `RowsTrue`, `LedgerKnown` (stock is
only taken for a saga row that exists), `RowsInserted` (once, and one per client key), `OrderBacked`,
`AnswersHold` and conservation. From it follow:

- `OrdersBacked`, `CompensationsConfirmed`, `AbortsAreJustified`, `PricesRecorded`, `AnswersAlwaysHold`,
  `NeverTakenTwice`, `OrdersAreFinal`, whatever fails;
- `ImplementsInventory`: seen from inventory all of that is a behaviour of Inventory;
- `OrdersKeepTheirStock`, if no local transaction is rolled back or loses its acknowledgement
  (`~CommitMayFail`, `~CommitAckMayBeLost`: without that it is false, see `saga_release_lost`). Then
  nobody compensates, now or ever (`NothingReleased`);
- `IsTheMonolith`, under the same condition: the saga implements LegacyShop (`PreservesShop`). The
  transaction that inserts the order is the monolith's whole `createOrder`: its price is the catalogue's
  and its quantity the request's (`RecordedAsAsked`), and the shelf has the units because those of
  all orders, and of this one, are among the units that inventory holds (`SoldUnitsFit`). The shelf is
  again counted in units (`SoldUnits`);
- what `SagaDecided` needs besides fairness. `NoSagaIsStranded`: a saga is decided or the recovery lists
  it. This is not obvious, because states are overwritten by older ones: it takes that no stale writer
  can put COMPLETED over a saga without an order (`CompletedHasOrder`). `DecisionsAreFinal`: an order, a
  rejection and a release are not taken back by anyone;
- `ViewsAreCoherent`, and `ViewsAreCoherentAtAnyDelay`: what the first query of the diagnostic view was based on
  cannot be undone before the second one. A COMPLETED row has an order and so an entry, and entries stay
  (`EntriesStay`); an aborted one rests on a rejection, which stays (`RejectedStays`), and an entry
  needs an order (`EntriesHaveOrders`), which needs a decrement.

**OrderContract** (`OrderContractProofs`, which extends InventoryProofs). `CInv` says for each state of a saga
row what ledger, order, outbox and client know (`SagaTrue`), and that every row is one that all services
understand (`Understood`): that is what the validators of shopflow-orders have to achieve for those of
inventory and notifications never to refuse (`NothingIsRefusedLater`). `ContractIsInventorys` shows that
POST /orders does to stock and ledger what Inventory promises; `TypeOK`, `StockConserved`,
`RejectionsJustified` and `LedgerFinal` of the run are therefore those of InventoryProofs.
`AnswersStayBacked` and `OutcomesAreAsBefore` follow. For the first, `SagaTrue` has to allow an order
beside every state but the undecided and the aborted ones, since a doubtful commit is written over; what it
may not allow is stock that is held beside a RELEASED or aborted row, of which no worker would know. The last
goes through every kind of answer: for a request outside of `Narrowed` each validator agrees with the
monolith's, and so do the outcomes. It is proved for every set of bodies, not only those of the run.

**NotificationDelivery** (`NotificationDeliveryProofs`). Because the lock is released early, attempts of one
notification overlap, and nothing may be concluded from holding it. `ActorTrue` collects what an actor may
nevertheless rely on, which is what no other actor can take away: records are not deleted, messages not
unsent. `IInv` adds `IntentFirst` (the provider hears of an order after its record) and the types of the
history. Theorems: `HistoriesCount`, `AnswersAlwaysTrue`, and `PromiseIsKept`: locks, attempts, provider calls
and crashes implement Confirmation.

The rest is about the message being single, where the code does not keep it so (`delivery_in_flight`):

- `OneCallMakesMessagesSingle`: with a provider that accepts no given-up POST (`SlowProvider = FALSE`), one
  call at a time (`[]OneCallInFlight`) is enough, over lost answers, failed transactions and crashes.
  `MessagesAreSingle`, where whole attempts do not overlap (`[]NoOverlap`), is a corollary; the run
  `delivery_single` explores those executions.
- `LocksAreKept`: the lock of a notification is held exactly by whom it protects (`Protected`), and
  `OverlapsAreEarlyUnlocks`: two attempts overlap only if one of them is a dispatch whose unlock took effect
  while it was running.
- `AwaitingMakesCallsSingle`, `AwaitingMakesMessagesSingle`: on the executions in which no unlock takes
  effect before its attempt has ended (`[]UnlockAwaited`), which are those that the code would have with
  `return await`, what its comment says is true. The hypothesis is about executions, not a changed model;
  it is the negation of the one cause that `OverlapsAreEarlyUnlocks` names.

**Outbox** (`OutboxProofs`). `ClosedOnlyWhenConfirmed`, for every number of orders and faults and of handlers
that share an order. `IInv` adds to the types that the answer an actor is about to record is still true
(`AnswersEarned`), and that whoever dispatches finds an entry (`EntriesFound`):
`dispatchOrderConfirmation` reports an entry it does not find as delivered, so the property would be
false if a dispatch could come before its order's transaction or a row could vanish. `UsesConfirmation`:
of shopflow-notifications it sees only what Confirmation promises. `DispatchesFindTheirEntry` states the
second of these of every execution. An entry that is closed does not stay so: a dispatch that has read it as
PENDING long ago may write a failure over it. `ReopeningsAreUsedUp` is why `Settles` holds all the same: while
an entry is closed no dispatch joins those underway (`Underway`), and each reopening takes one of them away.

**Gateway** (`GatewayProofs`). `AnswersStayTrue`, for every number of calls: an answer repeats a reply, and a
reply names the state of a saga at the moment it was given; so the inductive invariant adds `RepliesTrue`,
that a call which is still to come has left no trace (`NotSent`), and that an answered call was forwarded
(`Answered`). The lemma `SagasStayFinal` (a placed or rejected saga stays so) keeps both replies and
answers true while other attempts arrive. `NoOrderIsSurplus`: an attempt of POST /orders that travels or has
a saga is the first of a call that the client made (`AskedFor`), so there are no more orders than calls.
`CallsAreAnsweredOnce`: of late replies, timers and second attempts none touches a call that is answered;
with the two attempts that `TypeCorrect` allows a call, this leaves to `EveryCallAnswered` only that the
timer fires.

**The two processes** (`ProcessProofs`). Of shopflow-notifications: `PassesFinish` needs besides
`PassFinished` only the types of `pc` and `unlocking`; `ThrowsTyped` shows that an exception never moves a
process that rests, nor any other than its own. `NothingIsKept` says what an answered request no longer
has, and that a lock is in the hands of somebody at work for it or of a session whose unlock failed (`Stray`);
its invariant `KInv` says what each process has at each of its steps (`Consistent`): which
connections, which lock, and whether it still waits. On it rest four statements about the pool, for any
number of processes and clients:

- `TypeCorrect`: never more than `MaxClients` are lent, and nobody is queued twice.
- `WaitsEndAtThePool`: who is busy goes on, waits in the queue of the pool, or waits for a lock whose
  holder does one of these, or which a pooled session has kept. So locks and clients make no circle but the
  one through the full pool: requests that hold the client of their lock and wait for a second one. Only a
  timeout of the pool ends it.
- `EnoughClientsNeedNoTimeout`: as long as fewer requests and passes are at work than there are clients,
  that circle cannot close: each of them has at most two clients, and if nobody goes on none has its
  second one. The bound is tight: with as many at work as clients, TLC finds all of them waiting.
- `ClientsAreServedInOrder`: the queue is served first come first served, also past those that give up.

Of shopflow-orders (the instance `Shop`):
`PoolEndsLast`. `Exit` looks at the loops alone, so the invariant `Drained` carries over what
`ServerClosed` has seen: no request runs from then on. The assumption of OrdersProcess is a hypothesis
there, because the module is instantiated and not extended.

*Only model-checked.* Liveness: `SagaDecided`, `EventuallyDelivered`, `NeverLost`, `Settles`,
`EveryCallAnswered`, `DispatchAnswered`, `ShutdownEnds`, `SagasTakenUp`, `ConfirmationsDelivered`; the prover
has neither ENABLED nor rules for fairness here. The absence of deadlock, which is a statement about
ENABLED too; `NobodyWaitsInACircle` and `WaitsEndAtThePool` are its parts that concern locks. Of OrdersProcess
only `PoolOutlivesUse` is proved: its lists are made with `SelectSeq` and `Remove`, which the library defines
by recursion on the sequence, so what a list contains cannot be derived; nor can its `TypeOK`, which says that
the queue holds exactly the unfinished sagas.

## 5. What is not modelled

Reads of products, orders and notifications (each is a single SELECT), but for the diagnostic view of an
order; health checks, correlation ids, logging, configuration; the HTTP mapping of the other routes than
POST /orders; the web page; the monolith's notification; diagnostics columns (`attempts` and `last_error`
of the saga). Time is abstracted: a STARTED row may count as stale at any moment (nothing bounds how long an
in-flight request pauses), a backoff may elapse at any moment. The batch of shopflow-notifications is not
bounded in a model: each failure moves a record up to 30 s away, so starving one takes more failing records
than the passes of 30 s attempt. The provider keeps what it accepted,
which the emulator does only until it is restarted. In NotificationDelivery an unlock that is issued takes
effect, or its process dies and the session with it; the unlock that fails and leaves the lock in a pooled
session is in NotificationProcess only. `EventuallyDelivered` and `LocksAreKept` are to be read with that:
what is blocked by such a session is delivered after it ends.

## 6. Plan

1. Models done: Inventory, InventoryTx, OrderSaga, Confirmation, NotificationDelivery, Outbox, LegacyShop,
   Gateway, NotificationProcess, OrderContract, OrdersProcess.
2. Proofs done: every safety property of the passing runs, and the safety that the liveness properties of
   saga, outbox, gateway and notification process rest on (section 4).
3. Proofs that could follow: that a pass of the recovery which is answered decides the saga it took up, as
   a step lemma behind `SagaDecided`; and the order of the lists of OrdersProcess, once they are stated
   without recursion.
4. Models that could follow: the provider's restart, and the backoff functions against one reference
   definition.
