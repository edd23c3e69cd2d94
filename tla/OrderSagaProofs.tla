--------------------------- MODULE OrderSagaProofs ---------------------------
(***************************************************************************)
(* Theorems about OrderSaga, for any number of requests and products, any    *)
(* client keys and any faults. Each actor works from rows that it read long  *)
(* ago and writes without a condition; what keeps the databases consistent   *)
(* is that the ledger, the orders and the prices only ever grow, so what was *)
(* true of a row when it was read is still true when it is written back.     *)
(***************************************************************************)
EXTENDS OrderSaga, FiniteSetTheorems, TLAPS

Ledger == INSTANCE InventoryProofs WITH Orders <- Requests, NoRow <- NULL

Working == {"decrement", "record", "find", "commit", "release", "recordRelease", "dispatch",
            "fetch"}

(* A row of order_operations, however old, says nothing that inventory does   *)
(* not confirm. Its price is the only trace of a decrement that outlives the  *)
(* writes of other actors.                                                  *)
RowTrue(row) ==
    LET recorded == ledger[row.order] IN
    /\ row.outcome = "RELEASED" => Inv!IsReleased(recorded)
    /\ row.outcome = "DECREMENTED" => row.price # NULL
    /\ row.price # NULL =>
          recorded # NULL /\ recorded.outcome = "DECREMENTED" /\ row.price = recorded.unitPrice
    /\ row.state = "ABORTED_NOT_FOUND" => recorded # NULL /\ recorded.outcome = "NOT_FOUND"
    /\ row.state = "ABORTED_INSUFFICIENT_STOCK" =>
          recorded # NULL /\ recorded.outcome = "INSUFFICIENT_STOCK"

(* The saga of a row that was read is still there, and keeps its price.      *)
Known(row) ==
    /\ operation[row.order] # NULL
    /\ row.price # NULL => operation[row.order].price # NULL

Trusted(row) == Known(row) /\ RowTrue(row)

(* The answer that a is about to write is still inventory's.                 *)
ReplyTrue(a) ==
    LET recorded == ledger[snap[a].order] IN
    /\ reply[a] # NULL
    /\ reply[a].kind = "DECREMENTED" =>
          recorded # NULL /\ recorded.outcome = "DECREMENTED" /\ reply[a].price = recorded.unitPrice
    /\ reply[a].kind \in {"INSUFFICIENT_STOCK", "NOT_FOUND"} =>
          recorded # NULL /\ recorded.outcome = reply[a].kind
    /\ reply[a].kind = "ALREADY_RELEASED" => Inv!IsReleased(recorded)

ReleaseTrue(a) ==
    /\ reply[a] # NULL
    /\ reply[a].kind # "UNAVAILABLE" => Inv!IsReleased(ledger[snap[a].order])

ActorTrue(a) ==
    /\ pc[a] \in Working => snap[a] # NULL
    /\ snap[a] # NULL => Trusted(snap[a])
    /\ pc[a] = "record" => ReplyTrue(a)
    /\ pc[a] \in {"commit", "release", "recordRelease"} => snap[a].price # NULL
    /\ pc[a] = "recordRelease" => ReleaseTrue(a)
    /\ pc[a] = "dispatch" => orders[snap[a].order] # NULL

ActorsTrue == \A a \in Actors : ActorTrue(a)

RowsTrue ==
    /\ \A o \in Requests : operation[o] # NULL => operation[o].order = o /\ RowTrue(operation[o])
    /\ \A row \in todo : Trusted(row)

(* Stock is only taken for a saga row that exists, also by a late call.      *)
LedgerKnown ==
    /\ \A o \in Requests :
          ledger[o] # NULL =>
              /\ operation[o] # NULL
              /\ ledger[o].outcome = "DECREMENTED" =>
                    ledger[o].total = ledger[o].unitPrice * QuantityOf[o]
    /\ \A call \in late : operation[call[2]] # NULL

(* A row is inserted once, by its request, for a key that has none.          *)
RowsInserted ==
    /\ \A r \in Requests : pc[r] \in {"start", "insert"} => operation[r] = NULL
    /\ \A r \in Requests : pc[r] = "readBack" => operation[r] # NULL
    /\ \A r, s \in Requests :
          (operation[r] # NULL /\ operation[s] # NULL /\ KeyOf[r] # NULL /\ KeyOf[r] = KeyOf[s])
              => r = s

IInv ==
    /\ TypeOK /\ ActorsTrue /\ RowsTrue /\ LedgerKnown /\ RowsInserted
    /\ OrderBacked /\ AnswersHold /\ Inv!StockConserved

-----------------------------------------------------------------------------
(* Inventory.                                                                *)

LEMMA Constants ==
    /\ Ledger!InventoryAssumption
    /\ Worker \in Actors /\ \A r \in Requests : r \in Actors /\ r # Worker
    /\ \A o \in Requests : ProductOf[o] \in ProductIds /\ QuantityOf[o] \in Quantities
                           /\ QuantityOf[o] \in Nat
    /\ \A row \in SagaRow : row # NULL
    /\ \A row \in OrderRow : row # NULL
    /\ \A row \in Inv!LedgerRow : row # NULL
    /\ \A r \in Reply : r # NULL
    /\ \A n \in Nat : n # NULL
    /\ NULL \notin ReplyKinds \cup AnswerKinds
<1>1. Ledger!InventoryAssumption
  BY SagaAssumption
     DEF Ledger!InventoryAssumption, Inv!InventoryAssumption, Ledger!LedgerRow, Inv!LedgerRow,
         Ledger!Outcomes, Inv!Outcomes
<1>2. \A o \in Requests : QuantityOf[o] \in Quantities /\ QuantityOf[o] \in Nat
  BY SagaAssumption DEF Quantities, Inv!InventoryAssumption
<1> QED
  BY <1>1, <1>2, SagaAssumption DEF Actors, Inv!InventoryAssumption

(* The theorems of InventoryProofs speak of a ledger by another name.         *)
LEMMA SameInventory ==
    /\ Inv!Init <=> Ledger!Init
    /\ [Inv!Next]_(Inv!vars) => [Ledger!Next]_(Ledger!vars)
    /\ Inv!TypeOK /\ Inv!StockConserved <=> Ledger!IInv
    /\ Inv!TypeOK' /\ Inv!StockConserved' <=> Ledger!IInv'
<1>1. Inv!Next <=> Ledger!Next
  BY DEF Inv!Next, Ledger!Next, Inv!DecrementStock, Ledger!DecrementStock,
         Inv!RecordDecrement, Ledger!RecordDecrement,
         Inv!RecordInsufficient, Ledger!RecordInsufficient,
         Inv!RecordNotFound, Ledger!RecordNotFound, Inv!ReleaseStock, Ledger!ReleaseStock,
         Inv!Refilled, Ledger!Refilled, Inv!IsReleased, Ledger!IsReleased,
         Inv!IsHeld, Ledger!IsHeld, Inv!Rejection, Ledger!Rejection,
         Inv!Decrement, Ledger!Decrement
<1>2. Inv!vars = Ledger!vars /\ Inv!vars' = Ledger!vars'
  BY DEF Inv!vars, Ledger!vars
<1>3. /\ Inv!TypeOK <=> Ledger!TypeOK
      /\ Inv!TypeOK' <=> Ledger!TypeOK'
  BY DEF Inv!TypeOK, Ledger!TypeOK, Inv!LedgerRow, Ledger!LedgerRow, Inv!Outcomes, Ledger!Outcomes
<1>4. \A p : Inv!HeldUnits(p) = Ledger!HeldUnits(p) /\ Inv!HeldUnits(p)' = Ledger!HeldUnits(p)'
  BY Zenon DEF Inv!HeldUnits, Ledger!HeldUnits, Inv!IsHeld, Ledger!IsHeld
<1>8. \A S : Inv!IsFiniteSet(S) = Ledger!IsFiniteSet(S) /\ Inv!Cardinality(S) = Ledger!Cardinality(S)
  BY DEF Inv!IsFiniteSet, Ledger!IsFiniteSet, Inv!Cardinality, Ledger!Cardinality
<1>5. /\ Inv!StockConserved <=> Ledger!StockConserved
      /\ Inv!StockConserved' <=> Ledger!StockConserved'
  BY <1>4, <1>8 DEF Inv!StockConserved, Ledger!StockConserved
<1>6. Inv!Init <=> Ledger!Init
  BY DEF Inv!Init, Ledger!Init
<1>7. [Inv!Next]_(Inv!vars) => [Ledger!Next]_(Ledger!vars)
  BY <1>1, <1>2
<1> QED
  BY <1>3, <1>5, <1>6, <1>7 DEF Ledger!IInv

(* A step of inventory keeps its types and its units.                        *)
LEMMA InventoryKeeps ==
    Inv!TypeOK /\ Inv!StockConserved /\ [Inv!Next]_(Inv!vars)
        => Inv!TypeOK' /\ Inv!StockConserved'
<1> SUFFICES ASSUME Inv!TypeOK, Inv!StockConserved, [Inv!Next]_(Inv!vars)
             PROVE  Inv!TypeOK' /\ Inv!StockConserved'
  OBVIOUS
<1>1. Ledger!IInv /\ [Ledger!Next]_(Ledger!vars)
  BY SameInventory
<1>2. Ledger!IInv'
  BY <1>1, Constants, Ledger!StepIInv
<1> QED
  BY <1>2, SameInventory

-----------------------------------------------------------------------------
(* What only grows: recorded outcomes, saga rows with their prices, orders.   *)

LedgerGrows ==
    \A o \in Requests :
        ledger[o] # NULL =>
            /\ ledger'[o] # NULL
            /\ ledger'[o].outcome = ledger[o].outcome
            /\ ledger'[o].unitPrice = ledger[o].unitPrice
            /\ ledger'[o].total = ledger[o].total
            /\ Inv!IsReleased(ledger[o]) => Inv!IsReleased(ledger'[o])

OperationsGrow ==
    \A o \in Requests :
        operation[o] # NULL =>
            /\ operation'[o] # NULL
            /\ operation[o].price # NULL => operation'[o].price # NULL

OrdersGrow ==
    /\ \A o \in Requests :
          orders[o] # NULL => orders'[o] # NULL /\ orders'[o].total = orders[o].total
    /\ outbox \subseteq outbox'

Grow == LedgerGrows /\ OperationsGrow /\ OrdersGrow

(* A step of a leaves what the other actors have in hand alone.              *)
OthersWait(a) ==
    \A b \in Actors : b # a => pc'[b] = pc[b] /\ snap'[b] = snap[b] /\ reply'[b] = reply[b]

LEMMA TrustStays ==
    ASSUME NEW row \in SagaRow, Grow PROVE  /\ RowTrue(row) => RowTrue(row)'
                                            /\ Trusted(row) => Trusted(row)'
<1>1. row.order \in Requests
  BY DEF SagaRow
<1>2. RowTrue(row) => RowTrue(row)'
  BY <1>1, Constants DEF Grow, LedgerGrows, RowTrue, Inv!IsReleased
<1>3. Known(row) => Known(row)'
  BY <1>1 DEF Grow, OperationsGrow, Known
<1> QED
  BY <1>2, <1>3 DEF Trusted

(* Whoever waits while the databases grow is still right afterwards.         *)
LEMMA WaitingStaysTrue ==
    ASSUME TypeOK, NEW b \in Actors, ActorTrue(b), Grow,
           pc'[b] = pc[b], snap'[b] = snap[b], reply'[b] = reply[b]
    PROVE  ActorTrue(b)'
<1>1. snap[b] # NULL => snap[b] \in SagaRow /\ snap[b].order \in Requests
  BY DEF TypeOK, SagaRow
<1>2. (snap[b] # NULL => Trusted(snap[b]))'
  BY <1>1, TrustStays DEF ActorTrue
<1>3. pc[b] = "record" => ReplyTrue(b)'
  BY <1>1 DEF ActorTrue, Working, ReplyTrue, Grow, LedgerGrows, Inv!IsReleased
<1>4. pc[b] = "recordRelease" => ReleaseTrue(b)'
  BY <1>1 DEF ActorTrue, Working, ReleaseTrue, Grow, LedgerGrows, Inv!IsReleased
<1>5. pc[b] = "dispatch" => orders'[snap[b].order] # NULL
  BY <1>1 DEF ActorTrue, Working, Grow, OrdersGrow
<1> QED
  BY <1>2, <1>3, <1>4, <1>5 DEF ActorTrue, Working

LEMMA OthersStayTrue ==
    ASSUME TypeOK, ActorsTrue, NEW a \in Actors, OthersWait(a), Grow, ActorTrue(a)'
    PROVE  ActorsTrue'
BY WaitingStaysTrue DEF ActorsTrue, OthersWait

(* The rows that are read: those of the table, and the worker's list.        *)
LEMMA RowsStayTrue ==
    ASSUME TypeOK, RowsTrue, Grow,
           \A o \in Requests : \/ operation'[o] = operation[o]
                               \/ (operation[o].order = o /\ RowTrue(operation[o]))',
           \A row \in todo' : row \in todo \/ Trusted(row)'
    PROVE  RowsTrue'
<1>1. ASSUME NEW o \in Requests, operation'[o] # NULL
      PROVE  (operation[o].order = o /\ RowTrue(operation[o]))'
  <2>1. CASE operation'[o] = operation[o]
    <3>1. PICK row \in SagaRow : row = operation[o] /\ row.order = o /\ RowTrue(row)
      BY <1>1, <2>1 DEF TypeOK, RowsTrue
    <3>2. RowTrue(row)' /\ operation'[o] = row
      BY <2>1, <3>1, TrustStays
    <3> QED
      BY <3>1, <3>2 DEF RowTrue
  <2> QED
    BY <2>1
<1>2. \A row \in todo' : Trusted(row)'
  BY TrustStays DEF TypeOK, RowsTrue
<1> QED
  BY <1>1, <1>2 DEF RowsTrue

(* No stock is taken and no row inserted: what is known of the ledger stays.  *)
LEMMA LedgerStaysKnown ==
    ASSUME TypeOK, LedgerKnown, Grow, UNCHANGED ledger,
           \A call \in late' : call \in late \/ (operation[call[2]] # NULL /\ call[2] \in Requests)
    PROVE  LedgerKnown'
<1>1. \A call \in late : call[2] \in Requests
  BY DEF TypeOK
<1> QED
  BY <1>1 DEF LedgerKnown, Grow, OperationsGrow

LEMMA InsertedStays ==
    ASSUME RowsInserted, Grow,
           \A o \in Requests : operation[o] = NULL => operation'[o] = NULL,
           \A r \in Requests :
               /\ pc'[r] \in {"start", "insert"} => pc[r] \in {"start", "insert"}
               /\ pc'[r] = "readBack" => pc[r] = "readBack"
    PROVE  RowsInserted'
BY DEF RowsInserted, Grow, OperationsGrow

LEMMA BackedStays ==
    ASSUME OrderBacked, Grow,
           \A o \in Requests : orders[o] = NULL => orders'[o] = NULL
    PROVE  OrderBacked'
BY DEF OrderBacked, Grow, LedgerGrows, OrdersGrow

(* What AnswersHold says of one answer, but that a rejection leaves no order,  *)
(* which follows from OrderBacked.                                           *)
AnswerTrue(kind, o) ==
    /\ kind \in {"created", "confirmation-failed", "replayed"} => orders[o] # NULL
    /\ kind \in {"insufficient-stock", "product-not-found"} =>
          ledger[o] # NULL /\ ledger[o].outcome # "DECREMENTED"

LEMMA AnswersStayTrue ==
    ASSUME TypeOK, AnswersHold, Grow, OrderBacked',
           \A r \in Requests :
               \/ answer'[r] = answer[r]
               \/ \E kind \in AnswerKinds, o \in Requests :
                     answer'[r] = [kind |-> kind, order |-> o] /\ AnswerTrue(kind, o)'
    PROVE  AnswersHold'
<1> SUFFICES ASSUME NEW r \in Requests, answer'[r] # NULL
             PROVE  AnswerTrue(answer[r].kind, answer[r].order)' /\ answer'[r].order \in Requests
  BY DEF AnswersHold, AnswerTrue, OrderBacked
<1>1. CASE answer'[r] = answer[r]
  BY <1>1 DEF TypeOK, AnswersHold, AnswerTrue, Grow, LedgerGrows, OrdersGrow
<1>2. CASE \E kind \in AnswerKinds, o \in Requests :
              answer'[r] = [kind |-> kind, order |-> o] /\ AnswerTrue(kind, o)'
  <2>1. PICK kind \in AnswerKinds, o \in Requests :
              answer'[r] = [kind |-> kind, order |-> o] /\ AnswerTrue(kind, o)'
    BY <1>2
  <2>2. answer'[r].kind = kind /\ answer'[r].order = o
    BY <2>1
  <2> QED
    BY <2>1, <2>2 DEF AnswerTrue
<1> QED
  BY <1>1, <1>2

-----------------------------------------------------------------------------
(* The control of one handler.                                               *)

ActorsTyped ==
    /\ pc \in [Actors -> {"start", "insert", "lookUpAgain", "readBack", "idle", "next",
                         "decrement", "record", "find", "commit", "release",
                         "recordRelease", "dispatch", "fetch", "done"}]
    /\ snap \in [Actors -> SagaRow \cup {NULL}]
    /\ reply \in [Actors -> Reply \cup {NULL}]
    /\ callsLeft \in [Actors -> 0..InlineCallAttempts]
    /\ answer \in [Requests -> [kind : AnswerKinds, order : Requests] \cup {NULL}]

(* Who is at work holds a row of a request.                                  *)
LEMMA InHand ==
    ASSUME TypeOK, ActorsTrue, NEW a \in Actors, pc[a] \in Working
    PROVE  /\ snap[a] # NULL /\ snap[a] \in SagaRow /\ snap[a].order \in Requests
           /\ Trusted(snap[a]) /\ ActorTrue(a)
<1>1. ActorTrue(a) /\ snap[a] # NULL /\ Trusted(snap[a])
  BY DEF ActorsTrue, ActorTrue
<1> QED
  BY <1>1 DEF TypeOK, SagaRow

(* Finish leaves nothing in hand, and tells at most one client.               *)
LEMMA FinishEffect ==
    ASSUME TypeOK, NEW a \in Actors, snap[a] \in SagaRow, NEW kind \in AnswerKinds,
           Finish(a, kind)
    PROVE  /\ ActorsTyped' /\ OthersWait(a) /\ ActorTrue(a)'
           /\ pc'[a] \in {"next", "done"}
           /\ \A r \in Requests :
                 \/ answer'[r] = answer[r]
                 \/ r = a /\ answer'[r] = [kind |-> kind, order |-> snap[a].order]
<1>1. snap[a].order \in Requests
  BY DEF SagaRow
<1>2. pc'[a] \in {"next", "done"} /\ snap'[a] = NULL /\ OthersWait(a)
  BY DEF TypeOK, Finish, GoTo, OthersWait
<1>3. ActorTrue(a)'
  BY <1>2 DEF ActorTrue, Working
<1>4. ActorsTyped'
  <2>1. kind # NULL
    BY Constants DEF AnswerKinds
  <2>2. answer' \in [Requests -> [kind : AnswerKinds, order : Requests] \cup {NULL}]
    BY <1>1, <2>1, Constants DEF TypeOK, Finish, AnswerKinds, Actors
  <2> QED
    BY <2>2, SagaAssumption DEF TypeOK, Finish, GoTo, ActorsTyped
<1> QED
  BY <1>2, <1>3, <1>4, Constants DEF TypeOK, Finish

LEMMA TakenRowTrue ==
    ASSUME NEW a \in Actors, NEW row \in SagaRow, Trusted(row),
           UNCHANGED <<ledger, operation, orders>>,
           snap'[a] = row, pc'[a] \in {"decrement", "find", "fetch"}
    PROVE  ActorTrue(a)'
<1>1. Trusted(snap[a])' /\ row # NULL
  BY Constants DEF Trusted, Known, RowTrue
<1> QED
  BY <1>1 DEF ActorTrue

(* Resolve takes a row in hand that may be old, or answers from it.           *)
LEMMA ResolveEffect ==
    ASSUME TypeOK, ActorsTrue, NEW a \in Actors, NEW row \in SagaRow, Trusted(row),
           Resolve(a, row), UNCHANGED <<ledger, operation, orders>>
    PROVE  /\ ActorsTyped' /\ OthersWait(a) /\ ActorTrue(a)'
           /\ pc'[a] \in {"decrement", "find", "fetch", "next", "done"}
           /\ \A r \in Requests :
                 \/ answer'[r] = answer[r]
                 \/ \E kind \in AnswerKinds :
                       answer'[r] = [kind |-> kind, order |-> row.order]
                       /\ AnswerTrue(kind, row.order)'
<1>1. row.order \in Requests /\ row # NULL /\ ActorTrue(a)
  BY Constants DEF SagaRow, ActorsTrue
<1>2. Trusted(row)'
  BY DEF Trusted, Known, RowTrue
<1>3. CASE StartCall(a, row)
  <2>1. pc'[a] = "decrement" /\ snap'[a] = row /\ OthersWait(a) /\ answer' = answer
    BY <1>3 DEF StartCall, TypeOK, GoTo, OthersWait
  <2>2. ActorsTyped'
    BY <1>3, SagaAssumption DEF StartCall, TypeOK, GoTo, ActorsTyped
  <2> QED
    BY <2>1, <2>2, TakenRowTrue
<1>4. CASE StartCompletion(a, row)
  <2>1. pc'[a] = "find" /\ snap'[a] = row /\ OthersWait(a) /\ answer' = answer
    BY <1>4 DEF StartCompletion, TypeOK, GoTo, OthersWait
  <2>2. ActorsTyped'
    BY <1>4 DEF StartCompletion, TypeOK, GoTo, ActorsTyped
  <2> QED
    BY <2>1, <2>2, TakenRowTrue
<1>5. CASE StartFetch(a, row)
  <2>1. pc'[a] = "fetch" /\ snap'[a] = row /\ OthersWait(a) /\ answer' = answer
    BY <1>5 DEF StartFetch, TypeOK, GoTo, OthersWait
  <2>2. ActorsTyped'
    BY <1>5 DEF StartFetch, TypeOK, GoTo, ActorsTyped
  <2> QED
    BY <2>1, <2>2, TakenRowTrue
<1>6. CASE AnswerSettled(a, row)
  <2>1. pc'[a] \in {"next", "done"} /\ snap' = snap /\ reply' = reply /\ OthersWait(a)
    BY <1>6 DEF AnswerSettled, TypeOK, GoTo, OthersWait
  <2>2. SettledAnswer(row) \in AnswerKinds /\ AnswerTrue(SettledAnswer(row), row.order)'
    BY <1>2, <1>6 DEF SettledAnswer, AnswerKinds, AnswerTrue, Trusted, RowTrue, AnswerSettled
  <2>3. answer' = answer \/ answer' = [answer EXCEPT ![a] =
                                          [kind |-> SettledAnswer(row), order |-> row.order]]
    BY <1>6 DEF AnswerSettled
  <2>4. ActorsTyped'
    <3>1. answer' \in [Requests -> [kind : AnswerKinds, order : Requests] \cup {NULL}]
      BY <1>1, <2>2, <2>3 DEF TypeOK
    <3> QED
      BY <1>6, <3>1 DEF AnswerSettled, TypeOK, GoTo, ActorsTyped
  <2>5. ActorTrue(a)'
    BY <1>1, <2>1 DEF ActorTrue, Working, Trusted, Known, RowTrue
  <2>6. \A r \in Requests : answer'[r] = answer[r]
            \/ answer'[r] = [kind |-> SettledAnswer(row), order |-> row.order]
    BY <2>3 DEF TypeOK
  <2> HIDE DEF AnswerTrue
  <2> QED
    BY <2>1, <2>2, <2>4, <2>5, <2>6
<1> QED
  BY <1>3, <1>4, <1>5, <1>6 DEF Resolve

-----------------------------------------------------------------------------
(* How one step of a handler keeps everything.                               *)

OperationsStep ==
    /\ operation' \in [Requests -> SagaRow \cup {NULL}]
    /\ \A o \in Requests : \/ operation'[o] = operation[o]
                           \/ (operation[o].order = o /\ RowTrue(operation[o]))'

AnswersStep ==
    \A r \in Requests :
        \/ answer'[r] = answer[r]
        \/ \E kind \in AnswerKinds, o \in Requests :
              answer'[r] = [kind |-> kind, order |-> o] /\ AnswerTrue(kind, o)'

DatabasesTyped ==
    /\ orders \in [Requests -> OrderRow \cup {NULL}]
    /\ outbox \subseteq Requests
    /\ late \subseteq {"decrement", "release"} \X Requests

LEMMA StepKeeps ==
    ASSUME IInv, NEW a \in Actors, OthersWait(a), ActorsTyped', ActorTrue(a)', Grow,
           Inv!TypeOK', Inv!StockConserved', DatabasesTyped', OperationsStep, AnswersStep,
           \A row \in todo' : row \in todo \/ (row \in SagaRow /\ Trusted(row)'),
           LedgerKnown', RowsInserted', OrderBacked'
    PROVE  IInv'
<1>1. TypeOK'
  BY DEF IInv, TypeOK, ActorsTyped, DatabasesTyped, OperationsStep
<1>2. ActorsTrue'
  BY OthersStayTrue DEF IInv
<1>3. RowsTrue'
  BY RowsStayTrue DEF IInv, OperationsStep
<1>4. AnswersHold'
  BY AnswersStayTrue DEF IInv, AnswersStep
<1> QED
  BY <1>1, <1>2, <1>3, <1>4 DEF IInv

(* A step of a handler that neither calls inventory nor inserts a saga row.   *)
LEMMA HandlerStepKeeps ==
    ASSUME IInv, NEW a \in Actors, OthersWait(a), ActorsTyped', ActorTrue(a)', Grow,
           UNCHANGED <<stock, ledger>>, DatabasesTyped', OperationsStep, AnswersStep,
           \A o \in Requests : operation[o] = NULL => operation'[o] = NULL,
           \A row \in todo' : row \in todo \/ (row \in SagaRow /\ Trusted(row)'),
           \A call \in late' : call \in late \/ (operation[call[2]] # NULL /\ call[2] \in Requests),
           pc'[a] \in {"start", "insert", "readBack"} =>
               pc[a] \in {"start", "insert"} /\ pc'[a] # "readBack",
           OrderBacked'
    PROVE  IInv'
<1>1. Inv!TypeOK' /\ Inv!StockConserved'
  <2>1. [Inv!Next]_(Inv!vars)
    BY DEF Inv!vars
  <2> QED
    BY <2>1, InventoryKeeps DEF IInv, TypeOK
<1>2. LedgerKnown'
  BY LedgerStaysKnown DEF IInv
<1>3. RowsInserted'
  <2>1. \A r \in Requests :
           /\ pc'[r] \in {"start", "insert"} => pc[r] \in {"start", "insert"}
           /\ pc'[r] = "readBack" => pc[r] = "readBack"
    BY Constants DEF OthersWait
  <2> QED
    BY <2>1, InsertedStays DEF IInv
<1> QED
  BY <1>1, <1>2, <1>3, StepKeeps

(* A step that writes to no database.                                        *)
LEMMA ControlStepKeeps ==
    ASSUME IInv, NEW a \in Actors, OthersWait(a), ActorsTyped', ActorTrue(a)',
           UNCHANGED <<stock, ledger, operation, orders, outbox>>, AnswersStep,
           \A row \in todo' : row \in todo \/ (row \in SagaRow /\ Trusted(row)'),
           \A call \in late' :
               \/ call \in late
               \/ \E kind \in {"decrement", "release"}, o \in Requests :
                     call = <<kind, o>> /\ operation[o] # NULL,
           pc'[a] \in {"start", "insert", "readBack"} =>
               pc[a] \in {"start", "insert"} /\ pc'[a] # "readBack"
    PROVE  IInv'
<1>1. Grow
  BY DEF Grow, LedgerGrows, OperationsGrow, OrdersGrow
<1>2. OperationsStep
  BY DEF OperationsStep, IInv, TypeOK
<1>3. DatabasesTyped'
  BY DEF IInv, TypeOK, DatabasesTyped
<1>4. OrderBacked'
  BY DEF IInv, OrderBacked
<1>5. ASSUME NEW call \in late'
      PROVE  call \in late \/ (operation[call[2]] # NULL /\ call[2] \in Requests)
  <2>1. CASE call \notin late
    <3>1. PICK kind \in {"decrement", "release"}, o \in Requests :
                call = <<kind, o>> /\ operation[o] # NULL
      BY <2>1
    <3> QED
      BY <3>1
  <2> QED
    BY <2>1
<1> QED
  BY <1>1, <1>2, <1>3, <1>4, <1>5, HandlerStepKeeps

(* The handler ends and has told its client the truth.                       *)
LEMMA FinishKeeps ==
    ASSUME IInv, NEW a \in Actors, snap[a] \in SagaRow, NEW kind \in AnswerKinds,
           Finish(a, kind), AnswerTrue(kind, snap[a].order)
    PROVE  UNCHANGED <<stock, ledger, operation, orders, outbox, late, todo>> => IInv'
<1> SUFFICES ASSUME UNCHANGED <<stock, ledger, operation, orders, outbox, late, todo>>
             PROVE  IInv'
  OBVIOUS
<1>1. /\ ActorsTyped' /\ OthersWait(a) /\ ActorTrue(a)' /\ pc'[a] \in {"next", "done"}
      /\ \A r \in Requests : \/ answer'[r] = answer[r]
                             \/ answer'[r] = [kind |-> kind, order |-> snap[a].order]
  BY FinishEffect DEF IInv
<1>2. AnswersStep
  <2>1. PICK o \in Requests : o = snap[a].order
    BY DEF SagaRow
  <2>2. AnswerTrue(kind, o)'
    BY <2>1 DEF AnswerTrue
  <2> QED
    BY <1>1, <2>1, <2>2 DEF AnswersStep
<1> QED
  BY <1>1, <1>2, ControlStepKeeps

LEMMA FindOrderKeeps ==
    ASSUME IInv, NEW a \in Actors, FindOrder(a) PROVE IInv'
<1>1. /\ snap[a] # NULL /\ snap[a] \in SagaRow /\ snap[a].order \in Requests
      /\ Trusted(snap[a]) /\ ActorTrue(a)
  BY InHand DEF IInv, FindOrder, Working
<1>2. CASE orders[snap[a].order] = NULL /\ snap[a].price = NULL
  <2>1. Finish(a, "internal") /\ "internal" \in AnswerKinds /\ AnswerTrue("internal", snap[a].order)
    BY <1>2 DEF FindOrder, AnswerKinds, AnswerTrue
  <2> QED
    BY <1>1, <2>1, FinishKeeps DEF FindOrder
<1>3. CASE ~(orders[snap[a].order] = NULL /\ snap[a].price = NULL)
  <2>1. /\ \/ orders[snap[a].order] # NULL /\ pc' = [pc EXCEPT ![a] = "dispatch"]
           \/ snap[a].price # NULL /\ pc' = [pc EXCEPT ![a] = "commit"]
        /\ UNCHANGED <<stock, ledger, operation, orders, outbox, late, todo, snap, reply,
                       callsLeft, answer>>
    BY <1>3 DEF FindOrder, GoTo
  <2>2. /\ \/ orders[snap[a].order] # NULL /\ pc'[a] = "dispatch"
           \/ snap[a].price # NULL /\ pc'[a] = "commit"
        /\ OthersWait(a)
    BY <2>1 DEF IInv, TypeOK, OthersWait
  <2>3. ActorsTyped'
    BY <2>1 DEF IInv, TypeOK, ActorsTyped
  <2>4. Trusted(snap[a])'
    BY <1>1, <2>1 DEF Trusted, Known, RowTrue
  <2>5. ActorTrue(a)'
    BY <1>1, <2>1, <2>2, <2>4 DEF ActorTrue
  <2>6. AnswersStep
    BY <2>1 DEF AnswersStep
  <2> QED
    BY <2>1, <2>2, <2>3, <2>5, <2>6, ControlStepKeeps
<1> QED
  BY <1>2, <1>3

LEMMA DispatchKeeps ==
    ASSUME IInv, NEW a \in Actors, Dispatch(a) PROVE IInv'
<1>1. /\ snap[a] # NULL /\ snap[a] \in SagaRow /\ ActorTrue(a)
  BY InHand DEF IInv, Dispatch, Working
<1>2. PICK delivered \in BOOLEAN : Finish(a, CompletedAnswer(a, delivered))
  BY DEF Dispatch
<1>3. /\ CompletedAnswer(a, delivered) \in AnswerKinds
      /\ AnswerTrue(CompletedAnswer(a, delivered), snap[a].order)
  BY <1>1 DEF Dispatch, ActorTrue, CompletedAnswer, AnswerKinds, AnswerTrue
<1> QED
  BY <1>1, <1>2, <1>3, FinishKeeps DEF Dispatch

LEMMA FetchCompletedKeeps ==
    ASSUME IInv, NEW a \in Actors, FetchCompleted(a) PROVE IInv'
<1>1. /\ snap[a] # NULL /\ snap[a] \in SagaRow
  BY InHand DEF IInv, FetchCompleted, Working
<1>2. PICK kind \in AnswerKinds : Finish(a, kind) /\ AnswerTrue(kind, snap[a].order)
  BY <1>1 DEF FetchCompleted, CompletedAnswer, AnswerKinds, AnswerTrue
<1> QED
  BY <1>1, <1>2, FinishKeeps DEF FetchCompleted

(* An unanswered call may be on its way for a saga that exists.               *)
LEMMA GivenUp ==
    ASSUME IInv, NEW a \in Actors, pc[a] \in Working, NEW kind \in {"decrement", "release"},
           GiveUp(kind, snap[a].order)
    PROVE  \A call \in late' :
              \/ call \in late
              \/ \E k \in {"decrement", "release"}, o \in Requests :
                    call = <<k, o>> /\ operation[o] # NULL
<1>1. snap[a].order \in Requests /\ operation[snap[a].order] # NULL
  BY InHand DEF IInv, Trusted, Known
<1> QED
  BY <1>1 DEF GiveUp

LEMMA DecrementUnansweredKeeps ==
    ASSUME IInv, NEW a \in Actors, DecrementUnanswered(a) PROVE IInv'
<1>1. /\ pc[a] = "decrement" /\ pc[a] \in Working /\ snap[a] # NULL /\ snap[a] \in SagaRow
      /\ Trusted(snap[a])
  BY InHand DEF IInv, DecrementUnanswered, Working
<1>2. /\ UNCHANGED <<stock, ledger, operation, orders, outbox, snap, todo, answer>>
      /\ \/ UNCHANGED <<pc, reply>>
         \/ pc' = [pc EXCEPT ![a] = "record"] /\ reply' = [reply EXCEPT ![a] = Unavailable]
      /\ callsLeft[a] \in 1..InlineCallAttempts
      /\ callsLeft' = [callsLeft EXCEPT ![a] = @ - 1]
  BY SagaAssumption DEF DecrementUnanswered, GoTo, IInv, TypeOK
<1>3. OthersWait(a) /\ snap'[a] = snap[a]
      /\ (pc'[a] = "decrement" \/ (pc'[a] = "record" /\ reply'[a] = Unavailable))
  BY <1>1, <1>2 DEF IInv, TypeOK, OthersWait
<1>4. Unavailable \in Reply
  BY DEF Unavailable, Reply, ReplyKinds
<1>5. ActorsTyped'
  <2>1. callsLeft' \in [Actors -> 0..InlineCallAttempts]
    <3>1. callsLeft[a] - 1 \in 0..InlineCallAttempts
      BY <1>2, SagaAssumption
    <3> QED
      BY <1>2, <3>1 DEF IInv, TypeOK
  <2> QED
    BY <1>2, <1>4, <2>1 DEF IInv, TypeOK, ActorsTyped
<1>6. Trusted(snap[a])'
  BY <1>1, <1>2 DEF Trusted, Known, RowTrue
<1>7. pc'[a] = "record" => ReplyTrue(a)'
  BY <1>3, <1>4, Constants DEF ReplyTrue, Unavailable
<1>8. ActorTrue(a)'
  BY <1>1, <1>3, <1>6, <1>7 DEF ActorTrue
<1>9. AnswersStep
  BY <1>2 DEF AnswersStep
<1>10. \A call \in late' :
              \/ call \in late
              \/ \E k \in {"decrement", "release"}, o \in Requests :
                    call = <<k, o>> /\ operation[o] # NULL
  BY <1>1, GivenUp DEF DecrementUnanswered
<1> QED
  BY <1>2, <1>3, <1>5, <1>8, <1>9, <1>10, ControlStepKeeps

LEMMA ReleaseUnansweredKeeps ==
    ASSUME IInv, NEW a \in Actors, ReleaseUnanswered(a) PROVE IInv'
<1>1. /\ pc[a] = "release" /\ pc[a] \in Working /\ snap[a] # NULL /\ snap[a] \in SagaRow
      /\ Trusted(snap[a]) /\ ActorTrue(a)
  BY InHand DEF IInv, ReleaseUnanswered, Working
<1>2. /\ UNCHANGED <<stock, ledger, operation, orders, outbox, snap, callsLeft, todo, answer>>
      /\ pc' = [pc EXCEPT ![a] = "recordRelease"] /\ reply' = [reply EXCEPT ![a] = Unavailable]
  BY DEF ReleaseUnanswered, GoTo
<1>3. OthersWait(a) /\ snap'[a] = snap[a] /\ pc'[a] = "recordRelease" /\ reply'[a] = Unavailable
  BY <1>1, <1>2 DEF IInv, TypeOK, OthersWait
<1>4. Unavailable \in Reply
  BY DEF Unavailable, Reply, ReplyKinds
<1>5. ActorsTyped'
  BY <1>2, <1>4 DEF IInv, TypeOK, ActorsTyped
<1>6. Trusted(snap[a])'
  BY <1>1, <1>2 DEF Trusted, Known, RowTrue
<1>7. ReleaseTrue(a)'
  BY <1>3, <1>4, Constants DEF ReleaseTrue, Unavailable
<1>8. ActorTrue(a)'
  BY <1>1, <1>3, <1>6, <1>7 DEF ActorTrue
<1>9. AnswersStep
  BY <1>2 DEF AnswersStep
<1>10. \A call \in late' :
              \/ call \in late
              \/ \E k \in {"decrement", "release"}, o \in Requests :
                    call = <<k, o>> /\ operation[o] # NULL
  BY <1>1, GivenUp DEF ReleaseUnanswered
<1> QED
  BY <1>2, <1>3, <1>5, <1>8, <1>9, <1>10, ControlStepKeeps

LEMMA CrashKeeps ==
    ASSUME IInv, NEW a \in Actors, Crash(a) PROVE IInv'
<1>1. /\ UNCHANGED <<stock, ledger, operation, orders, outbox, answer>>
      /\ snap' = [snap EXCEPT ![a] = NULL] /\ reply' = [reply EXCEPT ![a] = NULL]
      /\ callsLeft' = [callsLeft EXCEPT ![a] = 0]
      /\ todo' \subseteq todo
  BY DEF Crash
<1>2. PICK label \in {"idle", "next", "done"} : pc' = [pc EXCEPT ![a] = label]
  BY DEF Crash, GoTo
<1>3. OthersWait(a) /\ snap'[a] = NULL /\ pc'[a] = label
  BY <1>1, <1>2 DEF IInv, TypeOK, OthersWait
<1>4. ActorsTyped'
  BY <1>1, <1>2, SagaAssumption DEF IInv, TypeOK, ActorsTyped
<1>5. ActorTrue(a)'
  BY <1>3 DEF ActorTrue, Working
<1>6. \A call \in late' :
              \/ call \in late
              \/ \E k \in {"decrement", "release"}, o \in Requests :
                    call = <<k, o>> /\ operation[o] # NULL
  <2>1. CASE pc[a] = "decrement"
    BY <2>1, GivenUp DEF Crash, Working
  <2>2. CASE pc[a] = "release"
    BY <2>2, GivenUp DEF Crash, Working
  <2>3. CASE pc[a] \notin {"decrement", "release"}
    BY <2>3 DEF Crash
  <2> QED
    BY <2>1, <2>2, <2>3
<1>7. AnswersStep
  BY <1>1 DEF AnswersStep
<1> QED
  BY <1>1, <1>3, <1>4, <1>5, <1>6, <1>7, ControlStepKeeps

-----------------------------------------------------------------------------
(* Writing to a saga row, whatever it has become since it was read.           *)

(* The row of o becomes row, and a goes on or ends.                          *)
LEMMA WriteKeeps ==
    ASSUME IInv, NEW a \in Actors, OthersWait(a), ActorsTyped', ActorTrue(a)',
           UNCHANGED <<stock, ledger, orders, outbox, late, todo>>, AnswersStep,
           NEW o \in Requests, operation[o] # NULL,
           NEW row \in SagaRow, row.order = o, RowTrue(row),
           operation[o].price # NULL => row.price # NULL,
           operation' = [operation EXCEPT ![o] = row],
           pc'[a] \notin {"start", "insert", "readBack"}
    PROVE  IInv'
<1>1. Grow
  BY Constants DEF IInv, TypeOK, Grow, LedgerGrows, OperationsGrow, OrdersGrow
<1>2. OperationsStep
  <2>1. RowTrue(row)'
    BY DEF RowTrue
  <2>2. (operation[o].order = o /\ RowTrue(operation[o]))'
    BY <2>1 DEF IInv, TypeOK, RowTrue
  <2> QED
    BY <2>2 DEF IInv, TypeOK, OperationsStep
<1>3. DatabasesTyped'
  BY DEF IInv, TypeOK, DatabasesTyped
<1>4. OrderBacked'
  BY DEF IInv, OrderBacked
<1>5. \A p \in Requests : operation[p] = NULL => operation'[p] = NULL
  BY DEF IInv, TypeOK
<1> QED
  BY <1>1, <1>2, <1>3, <1>4, <1>5, HandlerStepKeeps

LEMMA WriteAndFinishKeeps ==
    ASSUME IInv, NEW a \in Actors, pc[a] \in Working, NEW kind \in AnswerKinds, Finish(a, kind),
           AnswerTrue(kind, snap[a].order),
           UNCHANGED <<stock, ledger, orders, outbox, late, todo>>,
           NEW row \in SagaRow, row.order = snap[a].order, RowTrue(row),
           operation[snap[a].order].price # NULL => row.price # NULL,
           operation' = [operation EXCEPT ![snap[a].order] = row]
    PROVE  IInv'
<1>1. snap[a] \in SagaRow /\ Trusted(snap[a])
  BY InHand DEF IInv
<1>2. /\ ActorsTyped' /\ OthersWait(a) /\ ActorTrue(a)' /\ pc'[a] \in {"next", "done"}
      /\ \A r \in Requests : \/ answer'[r] = answer[r]
                             \/ answer'[r] = [kind |-> kind, order |-> snap[a].order]
  BY <1>1, FinishEffect DEF IInv
<1>3. PICK o \in Requests : o = snap[a].order /\ operation[o] # NULL
  BY <1>1 DEF SagaRow, Trusted, Known
<1>4. AnswersStep
  <2>1. AnswerTrue(kind, o)'
    BY <1>3 DEF AnswerTrue
  <2> QED
    BY <1>2, <1>3, <2>1 DEF AnswersStep
<1> QED
  BY <1>2, <1>3, <1>4, WriteKeeps

LEMMA RecordDecrementedKeeps ==
    ASSUME IInv, NEW a \in Actors, RecordDecremented(a) PROVE IInv'
<1>1. /\ pc[a] = "record" /\ snap[a] \in SagaRow /\ Trusted(snap[a]) /\ ReplyTrue(a)
      /\ reply[a].kind = "DECREMENTED"
  BY InHand DEF IInv, RecordDecremented, Working, ActorTrue
<1>2. PICK o \in Requests : o = snap[a].order /\ operation[o] # NULL
  BY <1>1 DEF SagaRow, Trusted, Known
<1>3. PICK price \in Nat : price = reply[a].price /\ ledger[o] # NULL
                           /\ ledger[o].outcome = "DECREMENTED" /\ price = ledger[o].unitPrice
  BY <1>1, <1>2 DEF ReplyTrue, IInv, TypeOK, Inv!TypeOK, Inv!LedgerRow
<1> DEFINE row == [order |-> o, state |-> "DECREMENTED", outcome |-> "DECREMENTED", price |-> price]
<1>4. row \in SagaRow /\ row.order = o /\ row.price # NULL /\ RowTrue(row)
  BY <1>3, Constants DEF SagaRow, SagaStates, RowTrue
<1>5. /\ operation' = [operation EXCEPT ![o] = row] /\ snap' = [snap EXCEPT ![a] = row]
      /\ reply' = [reply EXCEPT ![a] = NULL] /\ pc' = [pc EXCEPT ![a] = "find"]
      /\ UNCHANGED <<stock, ledger, orders, outbox, late, callsLeft, todo, answer>>
  BY <1>2, <1>3 DEF RecordDecremented, GoTo
<1> HIDE DEF row
<1>6. OthersWait(a) /\ snap'[a] = row /\ pc'[a] = "find" /\ operation'[o] = row
  BY <1>5 DEF IInv, TypeOK, OthersWait
<1>7. ActorsTyped'
  BY <1>4, <1>5 DEF IInv, TypeOK, ActorsTyped
<1>8. ActorTrue(a)'
  <2>1. Trusted(snap[a])' /\ snap'[a] # NULL
    BY <1>4, <1>5, <1>6, Constants DEF Trusted, Known, RowTrue
  <2> QED
    BY <1>6, <2>1 DEF ActorTrue
<1>9. AnswersStep
  BY <1>5 DEF AnswersStep
<1> QED
  BY <1>2, <1>4, <1>5, <1>6, <1>7, <1>8, <1>9, WriteKeeps

LEMMA RecordRejectedKeeps ==
    ASSUME IInv, NEW a \in Actors, RecordRejected(a) PROVE IInv'
<1>1. /\ pc[a] \in Working /\ snap[a] \in SagaRow /\ Trusted(snap[a]) /\ ReplyTrue(a)
  BY InHand DEF IInv, RecordRejected, Working, ActorTrue
<1>2. PICK o \in Requests : o = snap[a].order /\ operation[o] \in SagaRow
                            /\ operation[o].order = o /\ RowTrue(operation[o])
  BY <1>1 DEF SagaRow, Trusted, Known, IInv, RowsTrue, TypeOK
<1>3. PICK kind \in {"INSUFFICIENT_STOCK", "NOT_FOUND"} :
            kind = reply[a].kind /\ ledger[o] # NULL /\ ledger[o].outcome = kind
  BY <1>1, <1>2 DEF RecordRejected, ReplyTrue
<1> DEFINE aborted == IF kind = "NOT_FOUND" THEN "ABORTED_NOT_FOUND"
                                            ELSE "ABORTED_INSUFFICIENT_STOCK"
           row == [operation[o] EXCEPT !.state = aborted, !.outcome = kind]
<1>4. row \in SagaRow /\ row.order = snap[a].order /\ row.price = operation[o].price
  BY <1>2 DEF SagaRow, SagaStates
<1>5. RowTrue(row)
  BY <1>2, <1>3 DEF RowTrue, SagaRow
<1>6. SettledAnswer([state |-> aborted]) \in AnswerKinds
      /\ AnswerTrue(SettledAnswer([state |-> aborted]), snap[a].order)
  BY <1>2, <1>3 DEF SettledAnswer, AnswerKinds, AnswerTrue
<1>7. /\ operation' = [operation EXCEPT ![snap[a].order] = row]
      /\ Finish(a, SettledAnswer([state |-> aborted]))
      /\ UNCHANGED <<stock, ledger, orders, outbox, late, todo>>
  BY <1>2, <1>3 DEF RecordRejected, IInv, TypeOK
<1> HIDE DEF row, aborted
<1> QED
  BY <1>1, <1>2, <1>4, <1>5, <1>6, <1>7, WriteAndFinishKeeps

LEMMA RecordAlreadyReleasedKeeps ==
    ASSUME IInv, NEW a \in Actors, RecordAlreadyReleased(a) PROVE IInv'
<1>1. /\ pc[a] \in Working /\ snap[a] \in SagaRow /\ Trusted(snap[a]) /\ ReplyTrue(a)
  BY InHand DEF IInv, RecordAlreadyReleased, Working, ActorTrue
<1>2. PICK o \in Requests : o = snap[a].order /\ operation[o] \in SagaRow
                            /\ operation[o].order = o /\ RowTrue(operation[o])
  BY <1>1 DEF SagaRow, Trusted, Known, IInv, RowsTrue, TypeOK
<1>3. Inv!IsReleased(ledger[o])
  BY <1>1, <1>2 DEF RecordAlreadyReleased, ReplyTrue
<1> DEFINE row == [operation[o] EXCEPT !.state = "DECREMENTED", !.outcome = "RELEASED"]
<1>4. row \in SagaRow /\ row.order = snap[a].order /\ row.price = operation[o].price
  BY <1>2 DEF SagaRow, SagaStates
<1>5. RowTrue(row)
  BY <1>2, <1>3 DEF RowTrue, SagaRow
<1>6. "internal" \in AnswerKinds /\ AnswerTrue("internal", snap[a].order)
  BY DEF AnswerKinds, AnswerTrue
<1>7. /\ operation' = [operation EXCEPT ![snap[a].order] = row]
      /\ Finish(a, "internal")
      /\ UNCHANGED <<stock, ledger, orders, outbox, late, todo>>
  BY <1>2 DEF RecordAlreadyReleased, IInv, TypeOK
<1> HIDE DEF row
<1> QED
  BY <1>1, <1>2, <1>4, <1>5, <1>6, <1>7, WriteAndFinishKeeps

LEMMA RecordUncertainKeeps ==
    ASSUME IInv, NEW a \in Actors, RecordUncertain(a) PROVE IInv'
<1>1. /\ pc[a] \in Working /\ snap[a] \in SagaRow /\ Trusted(snap[a])
  BY InHand DEF IInv, RecordUncertain, Working
<1>2. PICK o \in Requests : o = snap[a].order /\ operation[o] \in SagaRow
                            /\ operation[o].order = o /\ RowTrue(operation[o])
  BY <1>1 DEF SagaRow, Trusted, Known, IInv, RowsTrue, TypeOK
<1> DEFINE row == [operation[o] EXCEPT !.state = "UNCERTAIN"]
<1>4. row \in SagaRow /\ row.order = snap[a].order /\ row.price = operation[o].price
  BY <1>2 DEF SagaRow, SagaStates
<1>5. RowTrue(row)
  BY <1>2 DEF RowTrue, SagaRow
<1>6. "unavailable" \in AnswerKinds /\ AnswerTrue("unavailable", snap[a].order)
  BY DEF AnswerKinds, AnswerTrue
<1>7. /\ operation' = [operation EXCEPT ![snap[a].order] = row]
      /\ Finish(a, "unavailable")
      /\ UNCHANGED <<stock, ledger, orders, outbox, late, todo>>
  BY <1>2 DEF RecordUncertain, IInv, TypeOK
<1> HIDE DEF row
<1> QED
  BY <1>1, <1>2, <1>4, <1>5, <1>6, <1>7, WriteAndFinishKeeps

LEMMA RecordReleaseKeeps ==
    ASSUME IInv, NEW a \in Actors, RecordRelease(a) PROVE IInv'
<1>1. /\ pc[a] \in Working /\ snap[a] \in SagaRow /\ Trusted(snap[a]) /\ ReleaseTrue(a)
      /\ snap[a].price # NULL
  BY InHand DEF IInv, RecordRelease, Working, ActorTrue
<1>2. PICK o \in Requests : o = snap[a].order /\ operation[o] \in SagaRow
                            /\ operation[o].order = o /\ RowTrue(operation[o])
                            /\ operation[o].price # NULL
  BY <1>1 DEF SagaRow, Trusted, Known, IInv, RowsTrue, TypeOK
<1> DEFINE outcome == IF reply[a].kind = "UNAVAILABLE" THEN "DECREMENTED" ELSE "RELEASED"
           row == [operation[o] EXCEPT !.state = "DECREMENTED", !.outcome = outcome]
<1>3. outcome = "RELEASED" => Inv!IsReleased(ledger[o])
  BY <1>1, <1>2 DEF ReleaseTrue
<1>4. row \in SagaRow /\ row.order = snap[a].order /\ row.price = operation[o].price
  BY <1>2 DEF SagaRow, SagaStates
<1>5. RowTrue(row)
  BY <1>2, <1>3 DEF RowTrue, SagaRow
<1>6. "internal" \in AnswerKinds /\ AnswerTrue("internal", snap[a].order)
  BY DEF AnswerKinds, AnswerTrue
<1>7. /\ operation' = [operation EXCEPT ![snap[a].order] = row]
      /\ Finish(a, "internal")
      /\ UNCHANGED <<stock, ledger, orders, outbox, late, todo>>
  BY <1>2 DEF RecordRelease, IInv, TypeOK
<1> HIDE DEF row, outcome
<1> QED
  BY <1>1, <1>2, <1>4, <1>5, <1>6, <1>7, WriteAndFinishKeeps

-----------------------------------------------------------------------------
(* completeLocalTransaction.                                                 *)

(* The transaction writes the order at the price that inventory recorded,     *)
(* and never over an order that is there.                                    *)
LEMMA CommitEffect ==
    ASSUME IInv, NEW a \in Actors, pc[a] = "commit", Committed(snap[a])
    PROVE  /\ snap[a] \in SagaRow /\ Trusted(snap[a]) /\ snap[a].order \in Requests
           /\ orders'[snap[a].order] # NULL
           /\ OrdersGrow
           /\ orders' \in [Requests -> OrderRow \cup {NULL}] /\ outbox' \subseteq Requests
           /\ UNCHANGED ledger => OrderBacked'
           /\ \A o \in Requests : orders[o] # NULL => orders'[o] = orders[o]
<1>1. /\ snap[a] \in SagaRow /\ Trusted(snap[a]) /\ snap[a].price # NULL
  BY InHand DEF IInv, Working, ActorTrue
<1>2. PICK o \in Requests : o = snap[a].order
  BY <1>1 DEF SagaRow
<1>3. /\ ledger[o] # NULL /\ ledger[o].outcome = "DECREMENTED"
      /\ snap[a].price = ledger[o].unitPrice /\ ledger[o].total \in Nat
      /\ snap[a].price * QuantityOf[o] = ledger[o].total
  BY <1>1, <1>2 DEF Trusted, RowTrue, IInv, LedgerKnown, TypeOK, Inv!TypeOK, Inv!LedgerRow
<1> DEFINE new == [status |-> "CONFIRMED", total |-> ledger[o].total]
<1>4. new \in OrderRow /\ new # NULL /\ new.total = ledger[o].total
  BY <1>3, Constants DEF OrderRow
<1>5. /\ orders' = IF orders[o] # NULL THEN orders ELSE [orders EXCEPT ![o] = new]
      /\ outbox' = outbox \cup {o}
  BY <1>2, <1>3 DEF Committed
<1> HIDE DEF new
<1>6. orders' \in [Requests -> OrderRow \cup {NULL}] /\ outbox' \subseteq Requests
  BY <1>4, <1>5 DEF IInv, TypeOK
<1>7. /\ orders'[o] # NULL
      /\ \A p \in Requests : orders[p] # NULL => orders'[p] = orders[p]
      /\ OrdersGrow
  BY <1>4, <1>5 DEF IInv, TypeOK, OrdersGrow
<1>8. ASSUME UNCHANGED ledger PROVE OrderBacked'
  BY <1>3, <1>4, <1>5, <1>8 DEF IInv, TypeOK, OrderBacked
<1> QED
  BY <1>1, <1>2, <1>6, <1>7, <1>8

LEMMA CommittedKeeps ==
    ASSUME IInv, NEW a \in Actors, pc[a] = "commit", Committed(snap[a]),
           NEW label \in {"dispatch", "release"}, GoTo(a, label),
           UNCHANGED <<stock, ledger, late, snap, reply, callsLeft, todo, answer>>
    PROVE  IInv'
<1>1. /\ snap[a] \in SagaRow /\ snap[a] # NULL /\ Trusted(snap[a]) /\ snap[a].price # NULL
  BY InHand DEF IInv, Working, ActorTrue
<1>2. PICK o \in Requests : o = snap[a].order /\ operation[o] \in SagaRow /\ operation[o] # NULL
                            /\ operation[o].order = o /\ RowTrue(operation[o])
  BY <1>1 DEF SagaRow, Trusted, Known, IInv, RowsTrue, TypeOK
<1>3. /\ OrdersGrow /\ orders'[o] # NULL /\ OrderBacked'
      /\ orders' \in [Requests -> OrderRow \cup {NULL}] /\ outbox' \subseteq Requests
  BY <1>2, CommitEffect
<1> DEFINE row == [operation[o] EXCEPT !.state = "COMPLETED"]
<1>4. row \in SagaRow /\ row # NULL /\ row.order = o /\ row.price = operation[o].price
  BY <1>2, Constants DEF SagaRow, SagaStates
<1>5. RowTrue(row)
  BY <1>2 DEF RowTrue, SagaRow
<1>6. operation' = [operation EXCEPT ![o] = row]
  BY <1>2 DEF Committed, IInv, TypeOK
<1> HIDE DEF row
<1>7. Grow
  BY <1>3, <1>4, <1>6 DEF IInv, TypeOK, Grow, LedgerGrows, OperationsGrow
<1>8. OperationsStep
  <2>1. (operation[o].order = o /\ RowTrue(operation[o]))'
    BY <1>4, <1>5, <1>6 DEF IInv, TypeOK, RowTrue
  <2> QED
    BY <1>4, <1>6, <2>1 DEF IInv, TypeOK, OperationsStep
<1>9. DatabasesTyped'
  BY <1>3 DEF IInv, TypeOK, DatabasesTyped
<1>10. OthersWait(a) /\ pc'[a] = label
  BY DEF GoTo, IInv, TypeOK, OthersWait
<1>11. ActorsTyped'
  BY DEF GoTo, IInv, TypeOK, ActorsTyped
<1>12. ActorTrue(a)'
  <2>1. Trusted(snap[a])'
    BY <1>1, <1>2, <1>4, <1>6 DEF Trusted, Known, RowTrue, IInv, TypeOK
  <2> QED
    BY <1>1, <1>2, <1>3, <1>10, <2>1 DEF ActorTrue
<1>13. AnswersStep
  BY DEF AnswersStep
<1>14. \A p \in Requests : operation[p] = NULL => operation'[p] = NULL
  BY <1>2, <1>6 DEF IInv, TypeOK
<1> QED
  BY <1>3, <1>7, <1>8, <1>9, <1>10, <1>11, <1>12, <1>13, <1>14, HandlerStepKeeps

LEMMA CommitKeeps ==
    ASSUME IInv, NEW a \in Actors, Commit(a) PROVE IInv'
BY CommittedKeeps DEF Commit

LEMMA CommitThrowsKeeps ==
    ASSUME IInv, NEW a \in Actors, CommitThrows(a) PROVE IInv'
<1>1. CASE Committed(snap[a])
  BY <1>1, CommittedKeeps DEF CommitThrows
<1>2. CASE UNCHANGED ordersVars
  <2>1. /\ snap[a] \in SagaRow /\ snap[a] # NULL /\ Trusted(snap[a]) /\ snap[a].price # NULL
    BY InHand DEF IInv, CommitThrows, Working, ActorTrue
  <2>2. /\ pc' = [pc EXCEPT ![a] = "release"]
        /\ UNCHANGED <<stock, ledger, operation, orders, outbox, late, snap, reply, callsLeft,
                       todo, answer>>
    BY <1>2 DEF CommitThrows, GoTo, ordersVars
  <2>3. OthersWait(a) /\ ActorsTyped' /\ pc'[a] = "release"
    BY <2>2 DEF IInv, TypeOK, OthersWait, ActorsTyped
  <2>4. Trusted(snap[a])'
    BY <2>1, <2>2 DEF Trusted, Known, RowTrue
  <2>5. ActorTrue(a)'
    BY <2>1, <2>2, <2>3, <2>4 DEF ActorTrue
  <2>6. AnswersStep
    BY <2>2 DEF AnswersStep
  <2> QED
    BY <2>2, <2>3, <2>5, <2>6, ControlStepKeeps
<1> QED
  BY <1>1, <1>2 DEF CommitThrows

-----------------------------------------------------------------------------
(* The calls that inventory serves.                                          *)

(* A decrement is only recorded once, with its own quantity.                  *)
LEMMA ServeDecrementEffect ==
    ASSUME IInv, NEW o \in Requests, ServeDecrement(o)
    PROVE  /\ [Inv!Next]_(Inv!vars) /\ LedgerGrows
           /\ ledger'[o] # NULL /\ ledger' \in [Requests -> Inv!LedgerRow \cup {NULL}]
           /\ \A p \in Requests : p # o => ledger'[p] = ledger[p]
           /\ ledger'[o].outcome = "DECREMENTED" =>
                 ledger'[o].total = ledger'[o].unitPrice * QuantityOf[o]
<1>1. ProductOf[o] \in ProductIds /\ QuantityOf[o] \in Quantities
  BY Constants
<1>2. Inv!TypeOK /\ LedgerKnown
  BY DEF IInv, TypeOK
<1>3. [Inv!Next]_(Inv!vars)
  BY <1>1 DEF ServeDecrement, Inv!Next, Inv!vars, inventoryVars
<1>4. Inv!TypeOK'
  BY <1>3, InventoryKeeps DEF IInv, TypeOK
<1>5. CASE Inv!DecrementStock(o, ProductOf[o], QuantityOf[o])
  <2>1. ledger[o] = NULL
    BY <1>5 DEF Inv!DecrementStock, Inv!RecordDecrement, Inv!RecordInsufficient, Inv!RecordNotFound
  <2>2. PICK row : /\ ledger' = [ledger EXCEPT ![o] = row]
                   /\ \/ row = Inv!Decrement(ProductOf[o], QuantityOf[o],
                                             stock[ProductOf[o]] - QuantityOf[o])
                      \/ row = Inv!Rejection(ProductOf[o], QuantityOf[o], "INSUFFICIENT_STOCK")
                      \/ row = Inv!Rejection(ProductOf[o], QuantityOf[o], "NOT_FOUND")
    BY <1>5 DEF Inv!DecrementStock, Inv!RecordDecrement, Inv!RecordInsufficient, Inv!RecordNotFound
  <2>3. ledger'[o] = row /\ \A p \in Requests : p # o => ledger'[p] = ledger[p]
    BY <1>2, <2>2 DEF Inv!TypeOK
  <2>4. row \in Inv!LedgerRow
    <3>1. row \in Inv!LedgerRow \cup {NULL}
      BY <1>4, <2>3 DEF Inv!TypeOK
    <3>2. row.quantity = QuantityOf[o] /\ QuantityOf[o] \in Nat
      BY <2>2, Constants DEF Inv!Decrement, Inv!Rejection
    <3>3. row # NULL
      <4>1. CASE row = Inv!Rejection(ProductOf[o], QuantityOf[o], "INSUFFICIENT_STOCK")
        BY <1>1, <3>2, <4>1, Constants DEF Inv!Rejection, Inv!LedgerRow, Inv!Outcomes
      <4>2. CASE row = Inv!Rejection(ProductOf[o], QuantityOf[o], "NOT_FOUND")
        BY <1>1, <3>2, <4>2, Constants DEF Inv!Rejection, Inv!LedgerRow, Inv!Outcomes
      <4>3. CASE row = Inv!Decrement(ProductOf[o], QuantityOf[o],
                                     stock[ProductOf[o]] - QuantityOf[o])
        <5>1. Inv!RecordDecrement(o, ProductOf[o], QuantityOf[o])
          <6>1. row.outcome = "DECREMENTED" /\ ledger'[o].outcome = "DECREMENTED"
            BY <2>3, <4>3 DEF Inv!Decrement
          <6> QED
            BY <1>2, <1>5, <6>1 DEF Inv!DecrementStock, Inv!RecordInsufficient,
                                     Inv!RecordNotFound, Inv!Rejection, Inv!TypeOK
        <5>2. /\ Price[ProductOf[o]] \in Nat
              /\ Price[ProductOf[o]] * QuantityOf[o] \in Nat
              /\ stock[ProductOf[o]] - QuantityOf[o] \in Nat
          <6>1. /\ ProductOf[o] \in Products /\ Price \in [Products -> Nat] /\ MaxInt \in Nat
                /\ stock \in [Products -> 0..MaxInt] /\ stock[ProductOf[o]] >= QuantityOf[o]
            BY <1>2, <5>1, SagaAssumption
               DEF Inv!RecordDecrement, Inv!TypeOK, Inv!InventoryAssumption
          <6>2. \A m, n \in Nat : m * n \in Nat
            OBVIOUS
          <6>3. Price[ProductOf[o]] \in Nat /\ QuantityOf[o] \in Nat
            BY <6>1, Constants
          <6>4. stock[ProductOf[o]] - QuantityOf[o] \in Nat
            BY <6>1, <6>3
          <6> QED
            BY <6>2, <6>3, <6>4
        <5> QED
          BY <1>1, <3>2, <4>3, <5>2, Constants DEF Inv!Decrement, Inv!LedgerRow, Inv!Outcomes
      <4> QED
        BY <2>2, <4>1, <4>2, <4>3
    <3> QED
      BY <3>1, <3>3
  <2>5. row # NULL
    BY <2>4, Constants
  <2>6. LedgerGrows
    BY <2>1, <2>3 DEF LedgerGrows
  <2>7. row.outcome = "DECREMENTED" => row.total = row.unitPrice * QuantityOf[o]
    BY <2>2 DEF Inv!Decrement, Inv!Rejection
  <2> QED
    BY <1>3, <1>4, <2>3, <2>5, <2>6, <2>7 DEF Inv!TypeOK
<1>6. CASE ledger[o] # NULL /\ UNCHANGED inventoryVars
  BY <1>2, <1>3, <1>4, <1>6 DEF LedgerKnown, LedgerGrows, inventoryVars, Inv!TypeOK
<1> QED
  BY <1>5, <1>6 DEF ServeDecrement

LEMMA ServeReleaseEffect ==
    ASSUME IInv, NEW o \in Requests, ServeRelease(o)
    PROVE  /\ [Inv!Next]_(Inv!vars) /\ LedgerGrows
           /\ ledger' \in [Requests -> Inv!LedgerRow \cup {NULL}]
           /\ \A p \in Requests : ledger[p] = NULL => ledger'[p] = NULL
           /\ (Inv!IsHeld(ledger[o]) => Inv!IsReleased(ledger'[o]))
           /\ (~Inv!IsHeld(ledger[o]) => ledger'[o] = ledger[o])
<1>1. Inv!TypeOK
  BY DEF IInv, TypeOK
<1>2. [Inv!Next]_(Inv!vars)
  BY DEF ServeRelease, Inv!Next, Inv!vars, inventoryVars
<1>3. Inv!TypeOK'
  BY <1>2, InventoryKeeps DEF IInv, TypeOK
<1>4. CASE Inv!IsHeld(ledger[o])
  <2>1. ledger' = [ledger EXCEPT ![o].state = "RELEASED"]
    BY <1>4 DEF ServeRelease, Inv!ReleaseStock
  <2>2. PICK row \in Inv!LedgerRow : row = ledger[o]
    BY <1>1, <1>4 DEF Inv!TypeOK, Inv!IsHeld
  <2> DEFINE new == [row EXCEPT !.state = "RELEASED"]
  <2>3. /\ new \in Inv!LedgerRow /\ new.outcome = row.outcome /\ new.state = "RELEASED"
        /\ new.unitPrice = row.unitPrice /\ new.total = row.total
    BY DEF Inv!LedgerRow
  <2>4. ledger' = [ledger EXCEPT ![o] = new]
    BY <2>1, <2>2
  <2> HIDE DEF new
  <2>5. ledger'[o] = new /\ \A p \in Requests : p # o => ledger'[p] = ledger[p]
    BY <1>1, <2>4 DEF Inv!TypeOK
  <2>6. new # NULL
    BY <2>3, Constants
  <2>7. Inv!IsReleased(ledger'[o])
    BY <1>4, <2>2, <2>3, <2>5, <2>6 DEF Inv!IsReleased, Inv!IsHeld
  <2>8. LedgerGrows
    BY <2>2, <2>3, <2>5, <2>6, <2>7 DEF LedgerGrows
  <2> QED
    BY <1>2, <1>3, <1>4, <2>2, <2>5, <2>7, <2>8 DEF Inv!TypeOK, Inv!IsHeld
<1>5. CASE ~Inv!IsHeld(ledger[o])
  BY <1>2, <1>3, <1>5 DEF ServeRelease, Inv!ReleaseStock, inventoryVars, LedgerGrows, Inv!TypeOK
<1> QED
  BY <1>4, <1>5

(* A step that inventory takes, for a or for a call that a gave up.           *)
LEMMA ServedStepKeeps ==
    ASSUME IInv, NEW a \in Actors, OthersWait(a), ActorsTyped', ActorTrue(a)',
           [Inv!Next]_(Inv!vars), LedgerGrows,
           UNCHANGED <<operation, orders, outbox, todo, answer>>, late' \subseteq late,
           NEW o \in Requests, operation[o] # NULL,
           \A p \in Requests :
               \/ ledger[p] # NULL
               \/ ledger'[p] = NULL
               \/ /\ p = o
                  /\ ledger'[o].outcome = "DECREMENTED" =>
                        ledger'[o].total = ledger'[o].unitPrice * QuantityOf[o],
           pc'[a] = pc[a] \/ pc'[a] \notin {"start", "insert", "readBack"}
    PROVE  IInv'
<1>1. Grow
  BY DEF Grow, OperationsGrow, OrdersGrow
<1>2. Inv!TypeOK' /\ Inv!StockConserved'
  BY InventoryKeeps DEF IInv, TypeOK
<1>3. DatabasesTyped'
  BY DEF IInv, TypeOK, DatabasesTyped
<1>4. OperationsStep
  BY DEF IInv, TypeOK, OperationsStep
<1>5. AnswersStep
  BY DEF AnswersStep
<1>6. LedgerKnown'
  BY DEF IInv, LedgerKnown, LedgerGrows
<1>7. RowsInserted'
  BY <1>1, InsertedStays, Constants DEF IInv, OthersWait
<1>8. OrderBacked'
  BY <1>1, BackedStays DEF IInv
<1> QED
  BY <1>1, <1>2, <1>3, <1>4, <1>5, <1>6, <1>7, <1>8, StepKeeps

LEMMA DecrementAnsweredKeeps ==
    ASSUME IInv, NEW a \in Actors, DecrementAnswered(a) PROVE IInv'
<1>1. /\ pc[a] = "decrement" /\ snap[a] \in SagaRow /\ snap[a] # NULL /\ Trusted(snap[a])
  BY InHand DEF IInv, DecrementAnswered, Working
<1>2. PICK o \in Requests : o = snap[a].order /\ operation[o] # NULL
  BY <1>1 DEF SagaRow, Trusted, Known
<1>3. /\ [Inv!Next]_(Inv!vars) /\ LedgerGrows
      /\ ledger'[o] # NULL /\ ledger' \in [Requests -> Inv!LedgerRow \cup {NULL}]
      /\ \A p \in Requests : p # o => ledger'[p] = ledger[p]
      /\ ledger'[o].outcome = "DECREMENTED" =>
            ledger'[o].total = ledger'[o].unitPrice * QuantityOf[o]
  BY <1>2, ServeDecrementEffect DEF DecrementAnswered
<1>4. PICK row \in Inv!LedgerRow : row = ledger'[o]
  BY <1>3
<1> DEFINE new == [kind |-> Inv!DecrementReply(row),
                   price |-> IF row.outcome = "DECREMENTED" THEN row.unitPrice ELSE NULL]
<1>5. /\ pc' = [pc EXCEPT ![a] = "record"] /\ reply' = [reply EXCEPT ![a] = new]
      /\ callsLeft' = [callsLeft EXCEPT ![a] = 0]
      /\ UNCHANGED <<operation, orders, outbox, late, snap, todo, answer>>
  BY <1>2, <1>4 DEF DecrementAnswered, GoTo
<1>6. /\ new \in Reply
      /\ new.kind = "DECREMENTED" => row.outcome = "DECREMENTED" /\ new.price = row.unitPrice
      /\ new.kind \in {"INSUFFICIENT_STOCK", "NOT_FOUND"} => row.outcome = new.kind
      /\ new.kind = "ALREADY_RELEASED" => Inv!IsReleased(row)
  BY DEF Inv!DecrementReply, Inv!IsReleased, Inv!LedgerRow, Inv!Outcomes, Reply, ReplyKinds
<1> HIDE DEF new
<1>7. OthersWait(a) /\ pc'[a] = "record" /\ reply'[a] = new /\ snap'[a] = snap[a]
  BY <1>5 DEF IInv, TypeOK, OthersWait
<1>8. ActorsTyped'
  BY <1>5, <1>6, SagaAssumption DEF IInv, TypeOK, ActorsTyped
<1>9. Trusted(snap[a])'
  <2>1. Grow
    BY <1>3, <1>5 DEF Grow, OperationsGrow, OrdersGrow
  <2>2. PICK mine \in SagaRow : mine = snap[a] /\ Trusted(mine)
    BY <1>1
  <2>3. Trusted(mine)'
    BY <2>1, <2>2, TrustStays
  <2> QED
    BY <1>5, <2>2, <2>3
<1>10. ReplyTrue(a)'
  BY <1>2, <1>3, <1>4, <1>6, <1>7, Constants DEF ReplyTrue
<1>11. ActorTrue(a)'
  BY <1>1, <1>7, <1>9, <1>10 DEF ActorTrue
<1>12. \A p \in Requests :
           \/ ledger[p] # NULL
           \/ ledger'[p] = NULL
           \/ /\ p = o
              /\ ledger'[o].outcome = "DECREMENTED" =>
                    ledger'[o].total = ledger'[o].unitPrice * QuantityOf[o]
  BY <1>3
<1> QED
  BY <1>2, <1>3, <1>5, <1>7, <1>8, <1>11, <1>12, ServedStepKeeps

LEMMA ReleaseAnsweredKeeps ==
    ASSUME IInv, NEW a \in Actors, ReleaseAnswered(a) PROVE IInv'
<1>1. /\ pc[a] = "release" /\ snap[a] \in SagaRow /\ snap[a] # NULL /\ Trusted(snap[a])
      /\ snap[a].price # NULL
  BY InHand DEF IInv, ReleaseAnswered, Working, ActorTrue
<1>2. PICK o \in Requests : o = snap[a].order /\ operation[o] # NULL
  BY <1>1 DEF SagaRow, Trusted, Known
<1>3. /\ [Inv!Next]_(Inv!vars) /\ LedgerGrows
      /\ \A p \in Requests : ledger[p] = NULL => ledger'[p] = NULL
      /\ (Inv!IsHeld(ledger[o]) => Inv!IsReleased(ledger'[o]))
      /\ (~Inv!IsHeld(ledger[o]) => ledger'[o] = ledger[o])
  BY <1>2, ServeReleaseEffect DEF ReleaseAnswered
<1>4. PICK row \in Inv!LedgerRow : row = ledger[o] /\ row # NULL /\ row.outcome = "DECREMENTED"
  BY <1>1, <1>2 DEF Trusted, RowTrue, IInv, TypeOK, Inv!TypeOK
<1>5. Inv!IsReleased(ledger'[o])
  BY <1>3, <1>4 DEF Inv!IsHeld, Inv!IsReleased, Inv!LedgerRow
<1>6. Inv!ReleaseReply(row) = "RELEASED"
  BY <1>4 DEF Inv!ReleaseReply
<1> DEFINE new == [kind |-> "RELEASED", price |-> NULL]
<1>7. /\ pc' = [pc EXCEPT ![a] = "recordRelease"] /\ reply' = [reply EXCEPT ![a] = new]
      /\ UNCHANGED <<operation, orders, outbox, late, snap, callsLeft, todo, answer>>
  BY <1>2, <1>4, <1>6 DEF ReleaseAnswered, GoTo
<1>8. new \in Reply /\ new # NULL
  BY Constants DEF Reply, ReplyKinds
<1> HIDE DEF new
<1>9. OthersWait(a) /\ pc'[a] = "recordRelease" /\ reply'[a] = new /\ snap'[a] = snap[a]
  BY <1>7 DEF IInv, TypeOK, OthersWait
<1>10. ActorsTyped'
  BY <1>7, <1>8 DEF IInv, TypeOK, ActorsTyped
<1>11. Trusted(snap[a])'
  <2>1. Grow
    BY <1>3, <1>7 DEF Grow, OperationsGrow, OrdersGrow
  <2>2. PICK mine \in SagaRow : mine = snap[a] /\ Trusted(mine)
    BY <1>1
  <2>3. Trusted(mine)'
    BY <2>1, <2>2, TrustStays
  <2> QED
    BY <1>7, <2>2, <2>3
<1>12. ReleaseTrue(a)'
  BY <1>2, <1>5, <1>8, <1>9 DEF ReleaseTrue
<1>13. ActorTrue(a)'
  BY <1>1, <1>9, <1>11, <1>12 DEF ActorTrue
<1> QED
  BY <1>2, <1>3, <1>7, <1>9, <1>10, <1>13, ServedStepKeeps

LEMMA LateArrivalKeeps ==
    ASSUME IInv, LateArrival PROVE IInv'
<1>1. PICK o \in Requests :
         /\ \/ <<"decrement", o>> \in late /\ ServeDecrement(o)
            \/ <<"release", o>> \in late /\ ServeRelease(o)
         /\ late' \subseteq late
         /\ UNCHANGED <<operation, orders, outbox, pc, snap, reply, callsLeft, todo, answer>>
  BY DEF LateArrival
<1>2. operation[o] # NULL
  BY <1>1 DEF IInv, LedgerKnown
<1>3. /\ [Inv!Next]_(Inv!vars) /\ LedgerGrows
      /\ \A p \in Requests :
            \/ ledger[p] # NULL
            \/ ledger'[p] = NULL
            \/ /\ p = o
               /\ ledger'[o].outcome = "DECREMENTED" =>
                     ledger'[o].total = ledger'[o].unitPrice * QuantityOf[o]
  <2>1. CASE ServeDecrement(o)
    BY <2>1, ServeDecrementEffect
  <2>2. CASE ServeRelease(o)
    BY <2>2, ServeReleaseEffect
  <2> QED
    BY <1>1, <2>1, <2>2
<1>4. Worker \in Actors /\ OthersWait(Worker) /\ ActorsTyped'
  BY <1>1, Constants DEF OthersWait, IInv, TypeOK, ActorsTyped
<1>5. ActorTrue(Worker)'
  <2>1. Grow
    BY <1>1, <1>3 DEF Grow, OperationsGrow, OrdersGrow
  <2> QED
    BY <1>1, <1>4, <2>1, WaitingStaysTrue DEF IInv, ActorsTrue
<1> QED
  BY <1>1, <1>2, <1>3, <1>4, <1>5, ServedStepKeeps

-----------------------------------------------------------------------------
(* Requests and the worker.                                                  *)

(* Going to work from a row of the database, or from one listed earlier.      *)
LEMMA ResolveKeeps ==
    ASSUME IInv, NEW a \in Actors, NEW row \in SagaRow, Trusted(row), Resolve(a, row),
           UNCHANGED <<stock, ledger, operation, orders, outbox, late>>, todo' \subseteq todo
    PROVE  IInv'
<1>1. /\ ActorsTyped' /\ OthersWait(a) /\ ActorTrue(a)'
      /\ pc'[a] \in {"decrement", "find", "fetch", "next", "done"}
      /\ \A r \in Requests :
            \/ answer'[r] = answer[r]
            \/ \E kind \in AnswerKinds :
                  answer'[r] = [kind |-> kind, order |-> row.order] /\ AnswerTrue(kind, row.order)'
  BY ResolveEffect DEF IInv
<1>2. AnswersStep
  <2>1. row.order \in Requests
    BY DEF SagaRow
  <2> QED
    BY <1>1, <2>1 DEF AnswersStep
<1> QED
  BY <1>1, <1>2, ControlStepKeeps

(* A row of the table is trusted by whoever reads it.                        *)
LEMMA ReadTrusted ==
    ASSUME IInv, NEW o \in Requests, operation[o] # NULL
    PROVE  operation[o] \in SagaRow /\ Trusted(operation[o])
<1>1. operation[o] \in SagaRow /\ operation[o].order = o /\ RowTrue(operation[o])
  BY DEF IInv, TypeOK, RowsTrue
<1> QED
  BY <1>1 DEF Trusted, Known

LEMMA ReadKeeps ==
    ASSUME IInv, NEW r \in Requests, NEW o \in Requests, operation[o] # NULL,
           Resolve(r, operation[o]),
           UNCHANGED <<stock, ledger, operation, orders, outbox, late, todo>>
    PROVE  IInv'
BY ReadTrusted, ResolveKeeps, Constants

LEMMA LookUpKeeps ==
    ASSUME IInv, NEW r \in Requests, LookUp(r) PROVE IInv'
<1>1. CASE \E o \in RowsOfKey(r) : Resolve(r, operation[o])
  BY <1>1, ReadKeeps DEF LookUp, RowsOfKey
<1>2. CASE pc' = [pc EXCEPT ![r] = "insert"] /\ UNCHANGED <<snap, reply, callsLeft, answer>>
  <2>1. r \in Actors /\ ActorTrue(r) /\ pc[r] = "start"
        /\ UNCHANGED <<stock, ledger, operation, orders, outbox, late, todo>>
    BY Constants DEF IInv, ActorsTrue, LookUp
  <2>2. pc'[r] = "insert" /\ snap'[r] = snap[r] /\ OthersWait(r) /\ ActorsTyped'
    BY <1>2, <2>1 DEF IInv, TypeOK, OthersWait, ActorsTyped
  <2>3. (snap[r] # NULL => Trusted(snap[r]))'
    BY <1>2, <2>1 DEF ActorTrue, Trusted, Known, RowTrue
  <2>4. ActorTrue(r)'
    BY <2>2, <2>3 DEF ActorTrue, Working
  <2>5. AnswersStep
    BY <1>2 DEF AnswersStep
  <2> QED
    BY <2>1, <2>2, <2>4, <2>5, ControlStepKeeps
<1> QED
  BY <1>1, <1>2 DEF LookUp, GoTo

LEMMA LookUpAgainKeeps ==
    ASSUME IInv, NEW r \in Requests, LookUpAgain(r) PROVE IInv'
BY ReadKeeps DEF LookUpAgain, RowsOfKey

LEMMA ReadBackKeeps ==
    ASSUME IInv, NEW r \in Requests, ReadBack(r) PROVE IInv'
<1>1. operation[r] # NULL
  BY DEF IInv, RowsInserted, ReadBack
<1> QED
  BY <1>1, ReadKeeps DEF ReadBack

LEMMA InsertKeeps ==
    ASSUME IInv, NEW r \in Requests, Insert(r) PROVE IInv'
<1>1. /\ r \in Actors /\ ActorTrue(r) /\ operation[r] = NULL /\ pc[r] = "insert"
      /\ UNCHANGED <<stock, ledger, orders, outbox, late, snap, reply, callsLeft, todo, answer>>
  BY Constants DEF IInv, ActorsTrue, RowsInserted, Insert
<1>2. CASE pc' = [pc EXCEPT ![r] = "lookUpAgain"] /\ UNCHANGED operation
  <2>1. pc'[r] = "lookUpAgain" /\ snap'[r] = snap[r] /\ OthersWait(r) /\ ActorsTyped'
    BY <1>1, <1>2 DEF IInv, TypeOK, OthersWait, ActorsTyped
  <2>2. (snap[r] # NULL => Trusted(snap[r]))'
    BY <1>1, <1>2 DEF ActorTrue, Trusted, Known, RowTrue
  <2>3. ActorTrue(r)'
    BY <2>1, <2>2 DEF ActorTrue, Working
  <2>4. AnswersStep
    BY <1>1 DEF AnswersStep
  <2> QED
    BY <1>1, <1>2, <2>1, <2>3, <2>4, ControlStepKeeps
<1> DEFINE new == [order |-> r, state |-> "STARTED", outcome |-> NULL, price |-> NULL]
<1>3. CASE /\ KeyOf[r] = NULL \/ RowsOfKey(r) = {}
           /\ operation' = [operation EXCEPT ![r] = new]
           /\ pc' = [pc EXCEPT ![r] = "readBack"]
  <2>1. new \in SagaRow /\ new # NULL /\ new.order = r /\ RowTrue(new)'
    <3>1. new \in SagaRow /\ new.order = r
      BY DEF SagaRow, SagaStates
    <3>2. NULL \notin {"RELEASED", "DECREMENTED"}
      BY Constants DEF ReplyKinds
    <3>3. RowTrue(new)'
      BY <3>2 DEF RowTrue
    <3> QED
      BY <3>1, <3>3, Constants
  <2> HIDE DEF new
  <2>2. pc'[r] = "readBack" /\ snap'[r] = snap[r] /\ OthersWait(r) /\ ActorsTyped'
    BY <1>1, <1>3 DEF IInv, TypeOK, OthersWait, ActorsTyped
  <2>3. operation'[r] = new /\ \A o \in Requests : o # r => operation'[o] = operation[o]
    BY <1>3 DEF IInv, TypeOK
  <2>4. Grow
    BY <1>1, <2>3 DEF Grow, LedgerGrows, OperationsGrow, OrdersGrow
  <2>5. ActorTrue(r)'
    <3>1. CASE snap[r] # NULL
      <4>1. PICK row \in SagaRow : row = snap[r] /\ Trusted(row)
        BY <1>1, <3>1 DEF ActorTrue, IInv, TypeOK
      <4>2. Trusted(row)'
        BY <2>4, <4>1, TrustStays
      <4>3. Trusted(snap[r])'
        BY <1>1, <4>1, <4>2
      <4> QED
        BY <2>2, <4>3 DEF ActorTrue, Working
    <3>2. CASE snap[r] = NULL
      BY <2>2, <3>2 DEF ActorTrue, Working
    <3> QED
      BY <3>1, <3>2
  <2>6. DatabasesTyped' /\ AnswersStep
    BY <1>1 DEF IInv, TypeOK, DatabasesTyped, AnswersStep
  <2>7. OperationsStep
    <3>1. (operation[r].order = r /\ RowTrue(operation[r]))'
      BY <2>1, <2>3 DEF RowTrue
    <3>2. operation' \in [Requests -> SagaRow \cup {NULL}]
      BY <1>3, <2>1 DEF IInv, TypeOK
    <3> QED
      BY <2>3, <3>1, <3>2 DEF OperationsStep
  <2>8. Inv!TypeOK' /\ Inv!StockConserved'
    <3>1. [Inv!Next]_(Inv!vars)
      BY <1>1 DEF Inv!vars
    <3> QED
      BY <3>1, InventoryKeeps DEF IInv, TypeOK
  <2>9. LedgerKnown'
    BY <1>1, <2>4, LedgerStaysKnown DEF IInv
  <2>10. RowsInserted'
    <3>1. \A o \in Requests :
              (operation[o] # NULL /\ KeyOf[r] # NULL /\ KeyOf[o] = KeyOf[r]) => o = r
      BY <1>3 DEF RowsOfKey
    <3>2. \A o \in Requests : o # r => pc'[o] = pc[o]
      BY <2>2, Constants DEF OthersWait
    <3> QED
      BY <2>1, <2>2, <2>3, <3>1, <3>2 DEF IInv, RowsInserted
  <2>11. OrderBacked'
    BY <1>1 DEF IInv, OrderBacked
  <2> QED
    BY <1>1, <2>2, <2>4, <2>5, <2>6, <2>7, <2>8, <2>9, <2>10, <2>11, StepKeeps
<1> QED
  BY <1>2, <1>3 DEF Insert, GoTo

LEMMA ListCandidatesKeeps ==
    ASSUME IInv, ListCandidates PROVE IInv'
<1>1. /\ pc' = [pc EXCEPT ![Worker] = "next"] /\ pc[Worker] = "idle"
      /\ UNCHANGED <<stock, ledger, operation, orders, outbox, late, snap, reply, callsLeft,
                     answer>>
      /\ \A row \in todo' : \E o \in Requests : row = operation[o] /\ operation[o] # NULL
  BY DEF ListCandidates, GoTo
<1>2. Worker \in Actors /\ ActorTrue(Worker)
  BY Constants DEF IInv, ActorsTrue
<1>3. /\ pc'[Worker] = "next" /\ snap'[Worker] = snap[Worker]
      /\ OthersWait(Worker) /\ ActorsTyped'
  BY <1>1, <1>2 DEF IInv, TypeOK, OthersWait, ActorsTyped
<1>4. (snap[Worker] # NULL => Trusted(snap[Worker]))'
  BY <1>1, <1>2 DEF ActorTrue, Trusted, Known, RowTrue
<1>5. ActorTrue(Worker)'
  BY <1>3, <1>4 DEF ActorTrue, Working
<1>6. AnswersStep
  BY <1>1 DEF AnswersStep
<1>7. ASSUME NEW row \in todo' PROVE row \in SagaRow /\ Trusted(row)'
  <2>1. PICK o \in Requests : row = operation[o] /\ operation[o] # NULL
    BY <1>1
  <2>2. row \in SagaRow /\ Trusted(row)
    BY <2>1, ReadTrusted
  <2> QED
    BY <1>1, <2>2 DEF Trusted, Known, RowTrue
<1> QED
  BY <1>1, <1>2, <1>3, <1>5, <1>6, <1>7, ControlStepKeeps

LEMMA TakeCandidateKeeps ==
    ASSUME IInv, TakeCandidate PROVE IInv'
<1>1. PICK row \in todo : Resolve(Worker, row) /\ todo' = todo \ {row}
  BY DEF TakeCandidate
<1>2. row \in SagaRow /\ Trusted(row) /\ Worker \in Actors
  BY Constants DEF IInv, TypeOK, RowsTrue
<1> QED
  BY <1>1, <1>2, ResolveKeeps DEF TakeCandidate

LEMMA EndPassKeeps ==
    ASSUME IInv, EndPass PROVE IInv'
<1>1. /\ pc' = [pc EXCEPT ![Worker] = "idle"] /\ pc[Worker] = "next"
      /\ UNCHANGED <<stock, ledger, operation, orders, outbox, late, snap, reply, callsLeft,
                     todo, answer>>
  BY DEF EndPass, GoTo
<1>2. Worker \in Actors /\ ActorTrue(Worker)
  BY Constants DEF IInv, ActorsTrue
<1>3. /\ pc'[Worker] = "idle" /\ snap'[Worker] = snap[Worker]
      /\ OthersWait(Worker) /\ ActorsTyped'
  BY <1>1, <1>2 DEF IInv, TypeOK, OthersWait, ActorsTyped
<1>4. (snap[Worker] # NULL => Trusted(snap[Worker]))'
  BY <1>1, <1>2 DEF ActorTrue, Trusted, Known, RowTrue
<1>5. ActorTrue(Worker)'
  BY <1>3, <1>4 DEF ActorTrue, Working
<1>6. AnswersStep
  BY <1>1 DEF AnswersStep
<1> QED
  BY <1>1, <1>2, <1>3, <1>5, <1>6, ControlStepKeeps

LEMMA ShipKeeps ==
    ASSUME IInv, NEW o \in Requests, Ship(o) PROVE IInv'
<1>1. /\ orders' = [orders EXCEPT ![o].status = "SHIPPED"] /\ orders[o] \in OrderRow
      /\ UNCHANGED <<stock, ledger, operation, outbox, late, pc, snap, reply, callsLeft, todo,
                     answer>>
  BY DEF Ship, IInv, TypeOK
<1> DEFINE new == [orders[o] EXCEPT !.status = "SHIPPED"]
<1>2. new \in OrderRow /\ new # NULL /\ new.total = orders[o].total
  BY <1>1, Constants DEF OrderRow
<1>3. orders' = [orders EXCEPT ![o] = new]
  BY <1>1
<1> HIDE DEF new
<1>4. /\ orders' \in [Requests -> OrderRow \cup {NULL}] /\ orders'[o] = new
      /\ \A p \in Requests : p # o => orders'[p] = orders[p]
  BY <1>2, <1>3 DEF IInv, TypeOK
<1>5. orders[o] # NULL
  BY DEF Ship
<1>6. Grow
  BY <1>1, <1>2, <1>4 DEF Grow, LedgerGrows, OperationsGrow, OrdersGrow
<1>7. Worker \in Actors /\ OthersWait(Worker) /\ ActorsTyped'
  BY <1>1, Constants DEF OthersWait, IInv, TypeOK, ActorsTyped
<1>8. ActorTrue(Worker)'
  BY <1>1, <1>6, <1>7, WaitingStaysTrue DEF IInv, ActorsTrue
<1>9. DatabasesTyped' /\ OperationsStep /\ AnswersStep
  BY <1>1, <1>4 DEF IInv, TypeOK, DatabasesTyped, OperationsStep, AnswersStep
<1>10. OrderBacked'
  BY <1>4, <1>5, <1>6, BackedStays DEF IInv
<1>12. Inv!TypeOK' /\ Inv!StockConserved'
  <2>1. [Inv!Next]_(Inv!vars)
    BY <1>1 DEF Inv!vars
  <2> QED
    BY <2>1, InventoryKeeps DEF IInv, TypeOK
<1>13. LedgerKnown'
  BY <1>1, <1>6, LedgerStaysKnown DEF IInv
<1>14. RowsInserted'
  BY <1>1, <1>6, InsertedStays DEF IInv
<1> QED
  BY <1>1, <1>6, <1>7, <1>8, <1>9, <1>10, <1>12, <1>13, <1>14, StepKeeps

-----------------------------------------------------------------------------
(* The invariant.                                                            *)

LEMMA ActorStepKeeps ==
    ASSUME IInv, NEW a \in Actors, ActorStep(a) PROVE IInv'
BY DecrementAnsweredKeeps, DecrementUnansweredKeeps, RecordDecrementedKeeps, RecordRejectedKeeps,
   RecordAlreadyReleasedKeeps, RecordUncertainKeeps, FindOrderKeeps, CommitKeeps,
   CommitThrowsKeeps, ReleaseAnsweredKeeps, ReleaseUnansweredKeeps, RecordReleaseKeeps,
   DispatchKeeps, FetchCompletedKeeps
   DEF ActorStep

LEMMA InitIInv == Init => IInv
<1> SUFFICES ASSUME Init PROVE IInv
  OBVIOUS
<1>1. Inv!TypeOK /\ Inv!StockConserved
  BY SameInventory, Constants, Ledger!InitIInv DEF Init
<1>2. TypeOK
  BY <1>1, SagaAssumption DEF Init, TypeOK
<1>3. ActorsTrue
  BY DEF Init, ActorsTrue, ActorTrue, Working
<1>4. RowsTrue
  BY DEF Init, RowsTrue
<1>5. LedgerKnown
  BY DEF Init, Inv!Init, LedgerKnown
<1>6. RowsInserted
  BY Constants DEF Init, RowsInserted
<1>7. OrderBacked /\ AnswersHold
  BY DEF Init, OrderBacked, AnswersHold
<1> QED
  BY <1>1, <1>2, <1>3, <1>4, <1>5, <1>6, <1>7 DEF IInv

LEMMA UnchangedKeeps ==
    ASSUME IInv, UNCHANGED vars PROVE IInv'
<1>1. Worker \in Actors /\ OthersWait(Worker) /\ ActorsTyped' /\ AnswersStep
      /\ UNCHANGED <<stock, ledger, operation, orders, outbox, late, pc, todo>>
  BY Constants DEF vars, OthersWait, IInv, TypeOK, ActorsTyped, AnswersStep
<1>2. ActorTrue(Worker)'
  <2>1. Grow
    BY <1>1 DEF Grow, LedgerGrows, OperationsGrow, OrdersGrow
  <2> QED
    BY <1>1, <2>1, WaitingStaysTrue DEF vars, IInv, ActorsTrue
<1>4. RowsInserted' /\ LedgerKnown' /\ OrderBacked' /\ DatabasesTyped' /\ OperationsStep
  BY <1>1 DEF IInv, TypeOK, RowsInserted, LedgerKnown, OrderBacked, DatabasesTyped, OperationsStep
<1>5. Grow
  BY <1>1 DEF Grow, LedgerGrows, OperationsGrow, OrdersGrow
<1>6. Inv!TypeOK' /\ Inv!StockConserved'
  <2>1. [Inv!Next]_(Inv!vars)
    BY <1>1 DEF Inv!vars
  <2> QED
    BY <2>1, InventoryKeeps DEF IInv, TypeOK
<1> QED
  BY <1>1, <1>2, <1>4, <1>5, <1>6, StepKeeps

LEMMA StepIInv == IInv /\ [Next]_vars => IInv'
<1> SUFFICES ASSUME IInv, [Next]_vars PROVE IInv'
  OBVIOUS
<1>1. CASE \E a \in Actors : ActorStep(a) \/ Crash(a)
  BY <1>1, ActorStepKeeps, CrashKeeps
<1>2. CASE \E r \in Requests : RequestStep(r) \/ Ship(r)
  BY <1>2, LookUpKeeps, InsertKeeps, LookUpAgainKeeps, ReadBackKeeps, ShipKeeps DEF RequestStep
<1>3. CASE WorkerStep
  BY <1>3, ListCandidatesKeeps, TakeCandidateKeeps, EndPassKeeps DEF WorkerStep
<1>4. CASE LateArrival
  BY <1>4, LateArrivalKeeps
<1>5. CASE Quiet \/ UNCHANGED vars
  BY <1>5, UnchangedKeeps DEF Quiet
<1> QED
  BY <1>1, <1>2, <1>3, <1>4, <1>5 DEF Next

LEMMA Invariant == Spec => []IInv
<1> QED
  BY InitIInv, StepIInv, PTL DEF Spec

-----------------------------------------------------------------------------
(* The theorems.                                                             *)

(* Rows, answers and pending calls always have the values that the tables and *)
(* the interfaces of the services allow.                                     *)
THEOREM TypeCorrect == Spec => []TypeOK
<1>1. IInv => TypeOK
  BY DEF IInv
<1> QED
  BY <1>1, Invariant, PTL

(* An order exists only after inventory recorded a decrement for its id, at   *)
(* the recorded price, and never without its confirmation in the outbox,      *)
(* whatever requests and worker do to the same saga, and whatever calls and   *)
(* commits fail.                                                             *)
THEOREM OrdersBacked == Spec => []OrderBacked
<1>1. IInv => OrderBacked
  BY DEF IInv
<1> QED
  BY <1>1, Invariant, PTL

(* A saga row is only marked as released after inventory gave the stock back.  *)
THEOREM CompensationsConfirmed == Spec => []CompensationConfirmed
<1>1. IInv => CompensationConfirmed
  BY DEF IInv, RowsTrue, RowTrue, CompensationConfirmed
<1> QED
  BY <1>1, Invariant, PTL

(* A saga is only aborted on inventory's recorded rejection, and then there   *)
(* is no order.                                                              *)
THEOREM AbortsAreJustified == Spec => []AbortsJustified
<1>1. IInv => AbortsJustified
  <2> SUFFICES ASSUME IInv, NEW o \in Requests, operation[o] # NULL,
                      operation[o].state \in {"ABORTED_NOT_FOUND", "ABORTED_INSUFFICIENT_STOCK"}
               PROVE  /\ ledger[o] # NULL
                      /\ operation[o].state = IF ledger[o].outcome = "NOT_FOUND"
                                               THEN "ABORTED_NOT_FOUND"
                                               ELSE "ABORTED_INSUFFICIENT_STOCK"
                      /\ ledger[o].outcome # "DECREMENTED"
                      /\ orders[o] = NULL
    BY DEF AbortsJustified
  <2>1. operation[o].order = o /\ RowTrue(operation[o])
    BY DEF IInv, RowsTrue
  <2>2. /\ ledger[o] # NULL /\ ledger[o].outcome # "DECREMENTED"
        /\ operation[o].state = IF ledger[o].outcome = "NOT_FOUND"
                                 THEN "ABORTED_NOT_FOUND" ELSE "ABORTED_INSUFFICIENT_STOCK"
    BY <2>1 DEF RowTrue
  <2>3. orders[o] = NULL
    BY <2>2 DEF IInv, OrderBacked
  <2> QED
    BY <2>2, <2>3
<1> QED
  BY <1>1, Invariant, PTL

(* An open DECREMENTED row carries the price that inventory recorded, however  *)
(* actors overwrite one another's rows.                                      *)
THEOREM PricesRecorded == Spec => []PriceRecorded
<1>1. IInv => PriceRecorded
  BY DEF IInv, RowsTrue, RowTrue, PriceRecorded
<1> QED
  BY <1>1, Invariant, PTL

(* What a client was told stays true.                                        *)
THEOREM AnswersAlwaysHold == Spec => []AnswersHold
<1>1. IInv => AnswersHold
  BY DEF IInv
<1> QED
  BY <1>1, Invariant, PTL

(* A client that repeats its Idempotency-Key never takes stock twice.         *)
THEOREM NeverTakenTwice == Spec => []OneDecrementPerKey
<1>1. IInv => OneDecrementPerKey
  BY DEF IInv, LedgerKnown, RowsInserted, OneDecrementPerKey
<1> QED
  BY <1>1, Invariant, PTL

(* What OrdersFinal says of a step.                                          *)
OrdersStay ==
    \A o \in Requests :
        orders[o] # NULL =>
            \/ orders'[o] = orders[o]
            \/ /\ orders[o].status = "CONFIRMED"
               /\ orders'[o] = [orders[o] EXCEPT !.status = "SHIPPED"]

LEMMA OrdersStayFinal == IInv /\ [Next]_vars => [OrdersStay]_vars
<1>1. ASSUME IInv, Next PROVE OrdersStay
  <2>1. ASSUME NEW a \in Actors, Commit(a) \/ CommitThrows(a) PROVE OrdersStay
    BY <1>1, <2>1, CommitEffect DEF Commit, CommitThrows, ordersVars, OrdersStay
  <2>2. ASSUME NEW o \in Requests, Ship(o) PROVE OrdersStay
    BY <2>2 DEF Ship, IInv, TypeOK, OrdersStay
  <2>3. CASE UNCHANGED orders
    BY <2>3 DEF OrdersStay
  <2> QED
    BY <1>1, <2>1, <2>2, <2>3
       DEF Next, ActorStep, RequestStep, WorkerStep, Quiet, vars, Crash,
           DecrementAnswered, DecrementUnanswered, RecordDecremented, RecordRejected,
           RecordAlreadyReleased, RecordUncertain, FindOrder, ReleaseAnswered,
           ReleaseUnanswered, RecordRelease, Dispatch, FetchCompleted, LookUp, Insert,
           LookUpAgain, ReadBack, ListCandidates, TakeCandidate, EndPass, LateArrival
<1> QED
  BY <1>1

LEMMA OrdersStayThere ==
    ASSUME IInv, [Next]_vars, NEW o \in Requests, orders[o] # NULL PROVE orders'[o] # NULL
<1>1. CASE UNCHANGED vars
  BY <1>1 DEF vars
<1>2. CASE OrdersStay
  <2> DEFINE shipped == [orders[o] EXCEPT !.status = "SHIPPED"]
  <2>1. orders[o] \in OrderRow /\ shipped \in OrderRow
    BY DEF IInv, TypeOK, OrderRow
  <2>2. orders'[o] = orders[o] \/ orders'[o] = shipped
    BY <1>2 DEF OrdersStay
  <2> HIDE DEF shipped
  <2> QED
    BY <2>1, <2>2, Constants
<1> QED
  BY <1>1, <1>2, OrdersStayFinal

(* No step, a second commit of the same saga for instance, replaces an order:  *)
(* all that ever changes is its status, from CONFIRMED to SHIPPED.            *)
THEOREM OrdersAreFinal == Spec => OrdersFinal
<1>1. [][OrdersStay]_vars => OrdersFinal
  BY PTL DEF OrdersStay, OrdersFinal
<1> QED
  BY <1>1, OrdersStayFinal, Invariant, PTL DEF Spec

-----------------------------------------------------------------------------
(* The saga as a client of inventory.                                        *)

(* The steps of the saga, seen from inventory.                               *)
LEMMA StepIsInventorys == IInv /\ [Next]_vars => [Inv!Next]_(Inv!vars)
<1>1. ASSUME IInv, Next PROVE [Inv!Next]_(Inv!vars)
  <2>1. ASSUME NEW a \in Actors, DecrementAnswered(a) PROVE [Inv!Next]_(Inv!vars)
    <3>1. snap[a].order \in Requests
      BY <1>1, <2>1, InHand DEF IInv, DecrementAnswered, Working
    <3> QED
      BY <1>1, <2>1, <3>1, ServeDecrementEffect DEF DecrementAnswered
  <2>2. ASSUME NEW a \in Actors, ReleaseAnswered(a) PROVE [Inv!Next]_(Inv!vars)
    <3>1. snap[a].order \in Requests
      BY <1>1, <2>2, InHand DEF IInv, ReleaseAnswered, Working
    <3> QED
      BY <1>1, <2>2, <3>1, ServeReleaseEffect DEF ReleaseAnswered
  <2>3. CASE LateArrival
    BY <1>1, <2>3, ServeDecrementEffect, ServeReleaseEffect DEF LateArrival
  <2>4. CASE UNCHANGED <<stock, ledger>>
    BY <2>4 DEF Inv!vars
  <2> QED
    BY <1>1, <2>1, <2>2, <2>3, <2>4
       DEF Next, ActorStep, RequestStep, WorkerStep, Quiet, vars, Crash,
           DecrementUnanswered, RecordDecremented, RecordRejected, RecordAlreadyReleased,
           RecordUncertain, FindOrder, Commit, CommitThrows, ReleaseUnanswered, RecordRelease,
           Dispatch, FetchCompleted, LookUp, Insert, LookUpAgain, ReadBack, ListCandidates,
           TakeCandidate, EndPass, Ship
<1>2. UNCHANGED vars => UNCHANGED Inv!vars
  BY DEF vars, Inv!vars
<1> QED
  BY <1>1, <1>2

(* Whatever requests and worker do, and whichever of their calls are lost,    *)
(* repeated or late, inventory only ever sees what its own specification      *)
(* allows; its theorems, that no unit of stock is lost or made up and that a   *)
(* ledger row is final, hold of the whole system.                            *)
THEOREM ImplementsInventory == Spec => Inv!Spec
<1>1. Init => Inv!Init
  BY DEF Init
<1> QED
  BY <1>1, StepIsInventorys, Invariant, PTL DEF Spec, Inv!Spec

-----------------------------------------------------------------------------
(* What a saga has to come to, and when it has come to it.                    *)

(* A row says COMPLETED only of an order that exists.                        *)
CompletedHasOrder ==
    \A o \in Requests :
        operation[o] # NULL /\ operation[o].state = "COMPLETED" => orders[o] # NULL

LEMMA CompletedStays == IInv /\ CompletedHasOrder /\ [Next]_vars => CompletedHasOrder'
<1> SUFFICES ASSUME IInv, CompletedHasOrder, [Next]_vars,
                    NEW o \in Requests, operation'[o] # NULL, operation'[o].state = "COMPLETED"
             PROVE  orders'[o] # NULL
  BY DEF CompletedHasOrder
<1>1. orders[o] # NULL => orders'[o] # NULL
  BY OrdersStayThere
<1>2. CASE operation'[o] = operation[o]
  BY <1>1, <1>2 DEF CompletedHasOrder
<1>3. /\ operation \in [Requests -> SagaRow \cup {NULL}]
      /\ \A p \in Requests : operation[p] # NULL => operation[p] \in SagaRow
  BY DEF IInv, TypeOK
(* Whatever is written over a row but by Commit is another state.             *)
<1>4. ASSUME NEW p \in Requests, operation[p] # NULL, NEW state, state # "COMPLETED",
             \/ operation' = [operation EXCEPT ![p].state = state]
             \/ \E outcome : operation' = [operation EXCEPT ![p].state = state,
                                                            ![p].outcome = outcome]
      PROVE  operation'[o] = operation[o]
  <2>1. operation'[p].state = state
    BY <1>3, <1>4 DEF SagaRow
  <2>2. o # p
    BY <1>4, <2>1
  <2> QED
    BY <1>3, <1>4, <2>2
<1>5. ASSUME NEW a \in Actors, Commit(a) \/ CommitThrows(a) PROVE orders'[o] # NULL
  <2>1. CASE UNCHANGED ordersVars
    BY <1>1, <2>1 DEF CompletedHasOrder, ordersVars
  <2>2. CASE Committed(snap[a]) /\ pc[a] = "commit"
    <3>1. snap[a].order \in Requests /\ orders'[snap[a].order] # NULL
      BY <1>5, <2>2, CommitEffect
    <3>2. o # snap[a].order => operation'[o] = operation[o]
      BY <1>3, <2>2, <3>1 DEF Committed
    <3> QED
      BY <1>2, <3>1, <3>2
  <2> QED
    BY <1>5, <2>1, <2>2 DEF Commit, CommitThrows
<1>6. ASSUME NEW a \in Actors, pc[a] \in {"record", "recordRelease"}
      PROVE  snap[a].order \in Requests /\ operation[snap[a].order] # NULL
  BY <1>6, InHand DEF IInv, Working, Trusted, Known
<1>7. ASSUME NEW a \in Actors, RecordDecremented(a) PROVE orders'[o] # NULL
  <2>1. PICK row : row.state = "DECREMENTED" /\ operation' = [operation EXCEPT ![snap[a].order] = row]
    BY <1>7 DEF RecordDecremented
  <2>2. o # snap[a].order
    BY <1>3, <1>6, <1>7, <2>1 DEF RecordDecremented
  <2> QED
    BY <1>2, <1>3, <2>1, <2>2
<1>8. ASSUME NEW a \in Actors, \/ RecordRejected(a) \/ RecordAlreadyReleased(a)
                               \/ RecordUncertain(a) \/ RecordRelease(a)
      PROVE  orders'[o] # NULL
  <2>1. snap[a].order \in Requests /\ operation[snap[a].order] # NULL
    BY <1>6, <1>8 DEF RecordRejected, RecordAlreadyReleased, RecordUncertain, RecordRelease
  <2>2. PICK state \in {"ABORTED_NOT_FOUND", "ABORTED_INSUFFICIENT_STOCK", "DECREMENTED", "UNCERTAIN"} :
          \/ operation' = [operation EXCEPT ![snap[a].order].state = state]
          \/ \E outcome : operation' = [operation EXCEPT ![snap[a].order].state = state,
                                                         ![snap[a].order].outcome = outcome]
    BY <1>8 DEF RecordRejected, RecordAlreadyReleased, RecordUncertain, RecordRelease
  <2> QED
    BY <1>2, <1>4, <2>1, <2>2
<1>9. ASSUME NEW r \in Requests, Insert(r) PROVE orders'[o] # NULL
  <2>1. CASE UNCHANGED operation
    BY <1>2, <2>1
  <2>2. CASE operation' = [operation EXCEPT ![r] =
                    [order |-> r, state |-> "STARTED", outcome |-> NULL, price |-> NULL]]
    <3>1. o # r
      BY <1>3, <2>2
    <3> QED
      BY <1>2, <1>3, <2>2, <3>1
  <2> QED
    BY <1>9, <2>1, <2>2 DEF Insert
<1>10. CASE UNCHANGED operation
  BY <1>2, <1>10
<1> QED
  BY <1>5, <1>7, <1>8, <1>9, <1>10
     DEF Next, ActorStep, RequestStep, WorkerStep, Quiet, vars, Crash, DecrementAnswered,
         DecrementUnanswered, FindOrder, ReleaseAnswered, ReleaseUnanswered, Dispatch,
         FetchCompleted, LookUp, LookUpAgain, ReadBack, ListCandidates, TakeCandidate, EndPass,
         LateArrival, Ship

(* The recovery finds every saga that is not decided, whatever states have     *)
(* been written over newer ones: of a saga that is out of its sight (COMPLETED, *)
(* aborted, released) there is an order, or inventory holds no stock for it.  *)
NothingStranded ==
    \A o \in Requests : operation[o] # NULL => IsRecoverable(operation[o]) \/ Decided(o)

(* No saga is left behind undecided and unlisted, by any interleaving, lost    *)
(* call, crash or failed commit: the safety half of SagaDecided.             *)
THEOREM NoSagaIsStranded == Spec => []NothingStranded
<1>1. Init => CompletedHasOrder
  BY DEF Init, CompletedHasOrder
<1>2. IInv /\ CompletedHasOrder => NothingStranded
  <2> SUFFICES ASSUME IInv, CompletedHasOrder, NEW o \in Requests, operation[o] # NULL,
                      ~IsRecoverable(operation[o])
               PROVE  Decided(o)
    BY DEF NothingStranded
  <2>1. operation[o] \in SagaRow /\ operation[o].order = o /\ RowTrue(operation[o])
    BY DEF IInv, TypeOK, RowsTrue
  <2>2. CASE operation[o].state = "COMPLETED"
    BY <2>2 DEF CompletedHasOrder, Decided
  <2>3. CASE operation[o].state \in {"ABORTED_NOT_FOUND", "ABORTED_INSUFFICIENT_STOCK"}
    BY <2>1, <2>3 DEF RowTrue, Decided, Inv!IsHeld
  <2>4. CASE operation[o].outcome = "RELEASED"
    BY <2>1, <2>4 DEF RowTrue, Decided, Inv!IsHeld, Inv!IsReleased
  <2> QED
    BY <2>1, <2>2, <2>3, <2>4 DEF IsRecoverable, SagaRow, SagaStates
<1> QED
  BY <1>1, <1>2, CompletedStays, Invariant, PTL DEF Spec

(* A saga that is decided stays decided.                                     *)
DecisionsStand == [][\A o \in Requests : Decided(o) => Decided(o)']_vars

(* An order is not deleted, and neither a rejection nor a release is taken     *)
(* back by a repeated or late call: what SagaDecided reaches is reached for     *)
(* good.                                                                     *)
THEOREM DecisionsAreFinal == Spec => DecisionsStand
<1>1. ASSUME IInv, [Next]_vars, NEW o \in Requests, Decided(o) PROVE Decided(o)'
  <2>1. orders[o] # NULL => orders'[o] # NULL
    BY <1>1, OrdersStayThere
  <2>2. Ledger!FinalRow(o)
    <3>1. Ledger!TypeOK /\ [Ledger!Next]_(Ledger!vars)
      BY <1>1, StepIsInventorys, SameInventory DEF IInv, TypeOK, Ledger!IInv
    <3> QED
      BY <3>1, Constants, Ledger!StepFinalRow
  <2>3. ledger[o] # NULL /\ ~Inv!IsHeld(ledger[o]) => ledger'[o] = ledger[o]
    BY <2>2 DEF Ledger!FinalRow, Ledger!IsHeld, Inv!IsHeld
  <2> QED
    BY <1>1, <2>1, <2>3 DEF Decided, Inv!IsHeld
<1>2. IInv /\ [Next]_vars => [\A o \in Requests : Decided(o) => Decided(o)']_vars
  BY <1>1
<1> QED
  BY <1>2, Invariant, PTL DEF Spec, DecisionsStand

-----------------------------------------------------------------------------
(* The diagnostic view.                                                      *)

(* Inventory has rejected the order for good.                                *)
Rejected(o) == ledger[o] # NULL /\ ledger[o].outcome # "DECREMENTED"

(* Only a commit writes an outbox entry, and it writes the order with it.     *)
EntriesHaveOrders == \A o \in outbox : orders[o] # NULL

(* What either query of the view may have been based on does not change.      *)
LEMMA EntriesStay ==
    ASSUME IInv, EntriesHaveOrders, [Next]_vars
    PROVE  EntriesHaveOrders' /\ outbox \subseteq outbox'
<1>1. outbox \subseteq Requests
  BY DEF IInv, TypeOK
<1>2. \A o \in outbox : orders'[o] # NULL
  BY <1>1, OrdersStayThere DEF EntriesHaveOrders
<1>3. ASSUME NEW a \in Actors, Commit(a) \/ CommitThrows(a)
      PROVE  EntriesHaveOrders' /\ outbox \subseteq outbox'
  <2>1. CASE UNCHANGED ordersVars
    BY <1>2, <2>1 DEF EntriesHaveOrders, ordersVars
  <2>2. CASE Committed(snap[a]) /\ pc[a] = "commit"
    <3>1. orders'[snap[a].order] # NULL
      BY <1>3, <2>2, CommitEffect
    <3>2. outbox' = outbox \cup {snap[a].order}
      BY <2>2 DEF Committed
    <3> QED
      BY <1>2, <3>1, <3>2 DEF EntriesHaveOrders
  <2> QED
    BY <1>3, <2>1, <2>2 DEF Commit, CommitThrows
<1>4. CASE UNCHANGED outbox
  BY <1>2, <1>4 DEF EntriesHaveOrders
<1> QED
  BY <1>3, <1>4
     DEF Next, ActorStep, RequestStep, WorkerStep, Quiet, vars, Crash, DecrementAnswered,
         DecrementUnanswered, RecordDecremented, RecordRejected, RecordAlreadyReleased,
         RecordUncertain, FindOrder, ReleaseAnswered, ReleaseUnanswered, RecordRelease, Dispatch,
         FetchCompleted, LookUp, Insert, LookUpAgain, ReadBack, ListCandidates, TakeCandidate,
         EndPass, LateArrival, Ship

LEMMA RejectedStays == ASSUME IInv, [Next]_vars, NEW o \in Requests, Rejected(o) PROVE Rejected(o)'
<1>1. Ledger!TypeOK /\ [Ledger!Next]_(Ledger!vars)
  BY StepIsInventorys, SameInventory DEF IInv, TypeOK, Ledger!IInv
<1>2. Ledger!FinalRow(o)
  BY <1>1, Constants, Ledger!StepFinalRow
<1>3. ledger'[o] = ledger[o]
  BY <1>2 DEF Rejected, Ledger!FinalRow, Ledger!IsHeld
<1> QED
  BY <1>3 DEF Rejected

(* What one query of the view says of the databases.                          *)
LEMMA RowShows ==
    ASSUME IInv, CompletedHasOrder, EntriesHaveOrders, NEW o \in Requests
    PROVE  /\ Completed(operation[o]) => o \in outbox
           /\ Aborted(operation[o]) => Rejected(o)
           /\ Rejected(o) => o \notin outbox
<1>1. Completed(operation[o]) => o \in outbox
  BY DEF Completed, CompletedHasOrder, IInv, OrderBacked
<1>2. Aborted(operation[o]) => Rejected(o)
  BY DEF Aborted, Rejected, IInv, RowsTrue, RowTrue
<1>3. Rejected(o) => o \notin outbox
  BY DEF Rejected, EntriesHaveOrders, IInv, OrderBacked
<1> QED
  BY <1>1, <1>2, <1>3

ViewInv == IInv /\ CompletedHasOrder /\ EntriesHaveOrders

LEMMA ViewInvariant == Spec => []ViewInv
<1>1. Init => CompletedHasOrder /\ EntriesHaveOrders
  BY DEF Init, CompletedHasOrder, EntriesHaveOrders
<1>2. IInv /\ CompletedHasOrder /\ EntriesHaveOrders /\ [Next]_vars
        => CompletedHasOrder' /\ EntriesHaveOrders'
  BY CompletedStays, EntriesStay
<1> QED
  BY <1>1, <1>2, Invariant, PTL DEF Spec, ViewInv

(* The diagnostic view, whatever is done between its two queries, shows no     *)
(* completed saga without a confirmation intent and no aborted one with it.   *)
THEOREM ViewsAreCoherent == Spec => ViewCoherent
<1>1. ASSUME ViewInv, ViewInv', [Next]_vars, NEW o \in Requests
      PROVE  LET view == OrderOperationView(o) IN
               /\ Completed(view.row) => view.entry
               /\ Aborted(view.row) => ~view.entry
  <2>1. Completed(operation[o]) => o \in outbox'
    BY <1>1, RowShows, EntriesStay DEF ViewInv
  <2>2. Aborted(operation[o]) => o \notin outbox'
    <3>1. Rejected(o)' => o \notin outbox'
      BY <1>1 DEF ViewInv, Rejected, EntriesHaveOrders, IInv, OrderBacked
    <3> QED
      BY <1>1, <3>1, RowShows, RejectedStays DEF ViewInv
  <2> QED
    BY <2>1, <2>2 DEF OrderOperationView, FindOrderOperation, FindOutboxEntry
<1>2. ViewInv /\ ViewInv' /\ [Next]_vars
        => [\A o \in Requests :
              LET view == OrderOperationView(o) IN
              /\ Completed(view.row) => view.entry
              /\ Aborted(view.row) => ~view.entry]_vars
  BY <1>1
<1> QED
  BY <1>2, ViewInvariant, PTL DEF Spec, ViewCoherent

(* The same with any number of steps, or none, between the two queries.       *)
THEOREM ViewsAreCoherentAtAnyDelay ==
    ASSUME NEW o \in Requests
    PROVE  Spec => /\ [](Completed(FindOrderOperation(o)) => []FindOutboxEntry(o))
                   /\ [](Aborted(FindOrderOperation(o)) => []~FindOutboxEntry(o))
<1>1. ViewInv => /\ Completed(FindOrderOperation(o)) => FindOutboxEntry(o)
                 /\ Aborted(FindOrderOperation(o)) => Rejected(o)
                 /\ Rejected(o) => ~FindOutboxEntry(o)
  BY RowShows DEF ViewInv, FindOrderOperation, FindOutboxEntry
<1>2. ViewInv /\ [Next]_vars /\ FindOutboxEntry(o) => FindOutboxEntry(o)'
  BY EntriesStay DEF ViewInv, FindOutboxEntry
<1>3. ViewInv /\ [Next]_vars /\ Rejected(o) => Rejected(o)'
  BY RejectedStays DEF ViewInv
<1> QED
  BY <1>1, <1>2, <1>3, ViewInvariant, PTL DEF Spec

-----------------------------------------------------------------------------
(* Without a failing commit.                                                 *)

(* Nobody compensates, now or ever: no stock was given back, and no call to    *)
(* give it back is made, awaited or under way.                               *)
NothingReleased ==
    /\ \A a \in Actors : pc[a] \notin {"release", "recordRelease"}
    /\ \A o \in Requests : <<"release", o>> \notin late
    /\ \A o \in Requests : ~Inv!IsReleased(ledger[o])

LEMMA NothingReleasedStays ==
    ASSUME ~CommitMayFail, ~CommitAckMayBeLost, IInv, NothingReleased, [Next]_vars
    PROVE  NothingReleased'
<1> USE DEF NothingReleased
<1>1. ASSUME NEW a \in Actors, NEW label, label \notin {"release", "recordRelease"},
             GoTo(a, label)
      PROVE  \A b \in Actors : pc'[b] \notin {"release", "recordRelease"}
  BY <1>1 DEF GoTo, IInv, TypeOK
<1>2. ASSUME NEW o \in Requests, ServeDecrement(o)
      PROVE  \A p \in Requests : ~Inv!IsReleased(ledger'[p])
  <2>1. CASE ledger' = ledger
    BY <2>1
  <2>2. ASSUME NEW row, row.state = "RECORDED", ledger' = [ledger EXCEPT ![o] = row]
        PROVE  \A p \in Requests : ~Inv!IsReleased(ledger'[p])
    BY <2>2 DEF Inv!IsReleased, IInv, TypeOK, Inv!TypeOK
  <2> QED
    BY <1>2, <2>1, <2>2
       DEF ServeDecrement, inventoryVars, Inv!DecrementStock, Inv!RecordDecrement,
           Inv!RecordInsufficient, Inv!RecordNotFound, Inv!Decrement, Inv!Rejection
<1>3. ASSUME NEW a \in Actors, ActorStep(a) PROVE NothingReleased'
  <2>1. CASE DecrementAnswered(a)
    <3>1. snap[a].order \in Requests
      BY <2>1, InHand DEF IInv, DecrementAnswered, Working
    <3> QED
      BY <1>1, <1>2, <2>1, <3>1 DEF DecrementAnswered
  <2>2. CASE DecrementUnanswered(a)
    BY <1>1, <2>2 DEF DecrementUnanswered, GiveUp
  <2>3. ASSUME NEW kind, Finish(a, kind), UNCHANGED <<ledger, late>> PROVE NothingReleased'
    BY <1>1, <2>3 DEF Finish
  <2>4. CASE \/ RecordRejected(a) \/ RecordAlreadyReleased(a) \/ RecordUncertain(a)
             \/ Dispatch(a) \/ FetchCompleted(a)
    BY <2>3, <2>4 DEF RecordRejected, RecordAlreadyReleased, RecordUncertain, Dispatch,
                      FetchCompleted
  <2>5. CASE RecordDecremented(a) \/ FindOrder(a) \/ Commit(a)
    BY <1>1, <2>3, <2>5 DEF RecordDecremented, FindOrder, Commit
  <2>6. ~CommitThrows(a) /\ ~ReleaseAnswered(a) /\ ~ReleaseUnanswered(a) /\ ~RecordRelease(a)
    BY DEF CommitThrows, ReleaseAnswered, ReleaseUnanswered, RecordRelease
  <2> QED
    BY <1>3, <2>1, <2>2, <2>4, <2>5, <2>6 DEF ActorStep
<1>4. ASSUME NEW a \in Actors, Crash(a) PROVE NothingReleased'
  <2>1. PICK label \in {"idle", "next", "done"} : GoTo(a, label)
    BY <1>4 DEF Crash
  <2>2. late' = late \/ GiveUp("decrement", snap[a].order)
    BY <1>4 DEF Crash
  <2> QED
    BY <1>1, <1>4, <2>1, <2>2 DEF Crash, GiveUp
<1>5. ASSUME NEW a \in Actors, NEW row, Resolve(a, row), UNCHANGED <<ledger, late>>
      PROVE  NothingReleased'
  BY <1>1, <1>5 DEF Resolve, StartCall, StartCompletion, StartFetch, AnswerSettled
<1>6. ASSUME NEW r \in Requests, RequestStep(r) PROVE NothingReleased'
  BY <1>1, <1>5, <1>6, Constants DEF RequestStep, LookUp, Insert, LookUpAgain, ReadBack
<1>7. CASE WorkerStep
  BY <1>1, <1>5, <1>7, Constants DEF WorkerStep, ListCandidates, TakeCandidate, EndPass
<1>8. CASE LateArrival
  BY <1>2, <1>8 DEF LateArrival
<1>9. CASE UNCHANGED <<pc, late, ledger>>
  BY <1>9
<1> QED
  BY <1>3, <1>4, <1>6, <1>7, <1>8, <1>9 DEF Next, Ship, Quiet, vars

(* "Exactly one CONFIRMED order and exactly one stock decrement": as long as   *)
(* every local transaction that is tried commits and says so, the stock of an  *)
(* order is never given back, however many actors complete the saga, and       *)
(* whatever calls are lost or late. The code compensates on any exception of   *)
(* the transaction, and then it may be another actor's order that loses its    *)
(* stock.                                                                    *)
THEOREM OrdersKeepTheirStock ==
    ASSUME ~CommitMayFail, ~CommitAckMayBeLost
    PROVE  Spec => []OrderKeepsStock
<1>1. Init => NothingReleased
  BY DEF Init, NothingReleased, Inv!Init, Inv!IsReleased
<1>2. IInv /\ NothingReleased /\ [Next]_vars => NothingReleased'
  BY NothingReleasedStays
<1>3. IInv /\ NothingReleased => OrderKeepsStock
  <2> SUFFICES ASSUME IInv, NothingReleased, NEW o \in Requests, orders[o] # NULL
               PROVE  Inv!IsHeld(ledger[o])
    BY DEF OrderKeepsStock
  <2>1. ledger[o] # NULL /\ ledger[o].outcome = "DECREMENTED"
    BY DEF IInv, OrderBacked
  <2>2. ledger[o].state \in {"RECORDED", "RELEASED"}
    BY <2>1 DEF IInv, TypeOK, Inv!TypeOK, Inv!LedgerRow
  <2> QED
    BY <2>1, <2>2 DEF NothingReleased, Inv!IsReleased, Inv!IsHeld
<1> QED
  BY <1>1, <1>2, <1>3, Invariant, PTL DEF Spec

-----------------------------------------------------------------------------
(* The saga as the monolith.                                                 *)

(* What is recorded is what was asked for, at the price of the catalogue.     *)
RecordedAsAsked ==
    \A o \in Requests :
        ledger[o] # NULL =>
            /\ ledger[o].product = ProductOf[o] /\ ledger[o].quantity = QuantityOf[o]
            /\ ledger[o].outcome = "DECREMENTED" =>
                  ProductOf[o] \in Products /\ ledger[o].unitPrice = Price[ProductOf[o]]

LEMMA RecordedAsAskedStays ==
    ASSUME IInv, RecordedAsAsked, [Next]_vars PROVE RecordedAsAsked'
<1> USE DEF RecordedAsAsked
<1>0. Inv!TypeOK
  BY DEF IInv, TypeOK
<1>1. ASSUME NEW o \in Requests, ServeDecrement(o) PROVE RecordedAsAsked'
  <2>1. CASE ledger' = ledger
    BY <2>1
  <2>2. ASSUME NEW row, row.product = ProductOf[o], row.quantity = QuantityOf[o],
               row.outcome = "DECREMENTED" =>
                  ProductOf[o] \in Products /\ row.unitPrice = Price[ProductOf[o]],
               ledger' = [ledger EXCEPT ![o] = row]
        PROVE  RecordedAsAsked'
    BY <1>0, <2>2 DEF Inv!TypeOK
  <2> QED
    BY <1>1, <2>1, <2>2
       DEF ServeDecrement, inventoryVars, Inv!DecrementStock, Inv!RecordDecrement,
           Inv!RecordInsufficient, Inv!RecordNotFound, Inv!Decrement, Inv!Rejection
<1>2. ASSUME NEW o \in Requests, ServeRelease(o) PROVE RecordedAsAsked'
  <2>1. CASE ledger' = ledger
    BY <2>1
  <2>2. CASE Inv!ReleaseStock(o)
    <3>1. ledger[o] \in Inv!LedgerRow /\ ledger[o] # NULL
      BY <1>0, <2>2 DEF Inv!ReleaseStock, Inv!IsHeld, Inv!TypeOK
    <3>2. ledger' = [ledger EXCEPT ![o] = [ledger[o] EXCEPT !.state = "RELEASED"]]
      BY <1>0, <2>2 DEF Inv!ReleaseStock, Inv!TypeOK
    <3> QED
      BY <1>0, <3>1, <3>2 DEF Inv!TypeOK, Inv!LedgerRow
  <2> QED
    BY <1>2, <2>1, <2>2 DEF ServeRelease, inventoryVars
<1>3. CASE UNCHANGED ledger
  BY <1>3
<1>4. ASSUME NEW a \in Actors, DecrementAnswered(a) PROVE RecordedAsAsked'
  <2>1. snap[a].order \in Requests
    BY <1>4, InHand DEF IInv, DecrementAnswered, Working
  <2> QED
    BY <1>1, <1>4, <2>1 DEF DecrementAnswered
<1>5. ASSUME NEW a \in Actors, ReleaseAnswered(a) PROVE RecordedAsAsked'
  <2>1. snap[a].order \in Requests
    BY <1>5, InHand DEF IInv, ReleaseAnswered, Working
  <2> QED
    BY <1>2, <1>5, <2>1 DEF ReleaseAnswered
<1>6. CASE LateArrival
  BY <1>1, <1>2, <1>6 DEF LateArrival
<1> QED
  BY <1>3, <1>4, <1>5, <1>6
     DEF Next, ActorStep, RequestStep, WorkerStep, Quiet, vars, Crash, ordersVars,
         DecrementUnanswered, RecordDecremented, RecordRejected, RecordAlreadyReleased,
         RecordUncertain, FindOrder, Commit, CommitThrows, ReleaseUnanswered, RecordRelease,
         Dispatch, FetchCompleted, LookUp, Insert, LookUpAgain, ReadBack, ListCandidates,
         TakeCandidate, EndPass, Ship

(* What an order takes of the shelf, unit by unit.                           *)
UnitsOf(o) == {o} \X (1..QuantityOf[o])

LEMMA SoldUnitsMember ==
    ASSUME NEW p, NEW u
    PROVE  /\ u \in SoldUnits(p) <=>
                 \E o \in Requests : orders[o] # NULL /\ ProductOf[o] = p /\ u \in UnitsOf(o)
           /\ u \in SoldUnits(p)' <=>
                 \E o \in Requests : orders'[o] # NULL /\ ProductOf[o] = p /\ u \in UnitsOf(o)
BY DEF SoldUnits, UnitsOf

LEMMA UnitsOfCardinality ==
    ASSUME NEW o \in Requests
    PROVE  IsFiniteSet(UnitsOf(o)) /\ Cardinality(UnitsOf(o)) = QuantityOf[o]
<1>1. QuantityOf[o] \in Nat
  BY Constants
<1>2. IsFiniteSet({o}) /\ Cardinality({o}) = 1
  BY FS_Singleton
<1>3. IsFiniteSet(1..QuantityOf[o]) /\ Cardinality(1..QuantityOf[o]) = QuantityOf[o]
  BY <1>1, FS_Interval
<1>4. /\ IsFiniteSet({o} \X (1..QuantityOf[o]))
      /\ Cardinality({o} \X (1..QuantityOf[o])) = 1 * QuantityOf[o]
  BY <1>2, <1>3, FS_Product
<1> QED
  BY <1>1, <1>4 DEF UnitsOf

(* The units of the orders are among those that inventory holds, and so are   *)
(* those of a decrement that has no order yet.                               *)
LEMMA SoldUnitsFit ==
    ASSUME IInv, NothingReleased, RecordedAsAsked, NEW p \in Products
    PROVE  /\ IsFiniteSet(SoldUnits(p)) /\ Cardinality(SoldUnits(p)) \in Nat
           /\ \A o \in Requests :
                 (/\ orders[o] = NULL /\ ProductOf[o] = p
                  /\ ledger[o] # NULL /\ ledger[o].outcome = "DECREMENTED")
                 => /\ SoldUnits(p) \cap UnitsOf(o) = {}
                    /\ Cardinality(SoldUnits(p) \cup UnitsOf(o))
                          = Cardinality(SoldUnits(p)) + QuantityOf[o]
                    /\ Cardinality(SoldUnits(p)) + QuantityOf[o] <= InitialStock[p]
<1>1. /\ IsFiniteSet(Inv!HeldUnits(p)) /\ Cardinality(Inv!HeldUnits(p)) <= InitialStock[p]
  <2>1. /\ Inv!IsFiniteSet(Inv!HeldUnits(p))
        /\ stock[p] + Inv!Cardinality(Inv!HeldUnits(p)) = InitialStock[p]
        /\ stock[p] \in Nat /\ InitialStock[p] \in Nat
    BY SagaAssumption DEF IInv, Inv!StockConserved, TypeOK, Inv!TypeOK, Inv!InventoryAssumption
  <2>2. \A S : Inv!IsFiniteSet(S) = IsFiniteSet(S) /\ Inv!Cardinality(S) = Cardinality(S)
    BY DEF Inv!IsFiniteSet, IsFiniteSet, Inv!Cardinality, Cardinality
  <2>3. Cardinality(Inv!HeldUnits(p)) \in Nat
    BY <2>1, <2>2, FS_CardinalityType
  <2> QED
    BY <2>1, <2>2, <2>3
<1>2. ASSUME NEW o \in Requests, ProductOf[o] = p, ledger[o] # NULL,
             ledger[o].outcome = "DECREMENTED"
      PROVE  UnitsOf(o) \subseteq Inv!HeldUnits(p)
  <2>1. ledger[o].state \in {"RECORDED", "RELEASED"}
    BY <1>2 DEF IInv, TypeOK, Inv!TypeOK, Inv!LedgerRow
  <2>2. Inv!IsHeld(ledger[o]) /\ ledger[o].product = p /\ ledger[o].quantity = QuantityOf[o]
    BY <1>2, <2>1 DEF NothingReleased, Inv!IsReleased, Inv!IsHeld, RecordedAsAsked
  <2> QED
    BY <2>2 DEF UnitsOf, Inv!HeldUnits
<1>3. SoldUnits(p) \subseteq Inv!HeldUnits(p)
  <2>1. ASSUME NEW u \in SoldUnits(p) PROVE u \in Inv!HeldUnits(p)
    <3>1. PICK o \in Requests : orders[o] # NULL /\ ProductOf[o] = p /\ u \in UnitsOf(o)
      BY <2>1, SoldUnitsMember
    <3>2. ledger[o] # NULL /\ ledger[o].outcome = "DECREMENTED"
      BY <3>1 DEF IInv, OrderBacked
    <3> QED
      BY <1>2, <3>1, <3>2
  <2> QED
    BY <2>1
<1>4. IsFiniteSet(SoldUnits(p)) /\ Cardinality(SoldUnits(p)) \in Nat
  BY <1>1, <1>3, FS_Subset, FS_CardinalityType
<1>5. ASSUME NEW o \in Requests, orders[o] = NULL, ProductOf[o] = p, ledger[o] # NULL,
             ledger[o].outcome = "DECREMENTED"
      PROVE  /\ SoldUnits(p) \cap UnitsOf(o) = {}
             /\ Cardinality(SoldUnits(p) \cup UnitsOf(o))
                   = Cardinality(SoldUnits(p)) + QuantityOf[o]
             /\ Cardinality(SoldUnits(p)) + QuantityOf[o] <= InitialStock[p]
  <2>1. SoldUnits(p) \cap UnitsOf(o) = {}
    BY <1>5, SoldUnitsMember DEF UnitsOf
  <2>2. /\ Cardinality(SoldUnits(p) \cup UnitsOf(o)) =
              Cardinality(SoldUnits(p)) + Cardinality(UnitsOf(o))
                - Cardinality(SoldUnits(p) \cap UnitsOf(o))
        /\ Cardinality(UnitsOf(o)) = QuantityOf[o]
    BY <1>4, UnitsOfCardinality, FS_Union
  <2>3. Cardinality(SoldUnits(p) \cup UnitsOf(o)) = Cardinality(SoldUnits(p)) + QuantityOf[o]
    <3>1. Cardinality(SoldUnits(p) \cap UnitsOf(o)) = 0
      BY <2>1, FS_EmptySet
    <3>2. QuantityOf[o] \in Nat
      BY Constants
    <3> QED
      BY <1>4, <2>2, <3>1, <3>2
  <2>4. SoldUnits(p) \cup UnitsOf(o) \in SUBSET Inv!HeldUnits(p)
    BY <1>2, <1>3, <1>5
  <2>5. Cardinality(SoldUnits(p) \cup UnitsOf(o)) <= Cardinality(Inv!HeldUnits(p))
    BY <1>1, <2>4, FS_Subset
  <2>6. InitialStock[p] \in Nat /\ Cardinality(Inv!HeldUnits(p)) \in Nat
    BY <1>1, SagaAssumption, FS_CardinalityType DEF Inv!InventoryAssumption
  <2> QED
    BY <1>1, <1>4, <2>1, <2>3, <2>5, <2>6, Constants
<1> QED
  BY <1>4, <1>5

(* An order that appears sells its units; nothing else does.                  *)
LEMMA SellUnits ==
    ASSUME NEW o \in Requests, orders[o] = NULL, orders'[o] # NULL,
           \A x \in Requests : x # o => orders'[x] = orders[x]
    PROVE  /\ SoldUnits(ProductOf[o])' = SoldUnits(ProductOf[o]) \cup UnitsOf(o)
           /\ \A p : p # ProductOf[o] => SoldUnits(p)' = SoldUnits(p)
<1>1. ASSUME NEW u
      PROVE  u \in SoldUnits(ProductOf[o])' <=> u \in SoldUnits(ProductOf[o]) \cup UnitsOf(o)
  BY SoldUnitsMember
<1>2. ASSUME NEW p, p # ProductOf[o] PROVE SoldUnits(p)' = SoldUnits(p)
  <2>1. ASSUME NEW u PROVE u \in SoldUnits(p)' <=> u \in SoldUnits(p)
    BY <1>2, SoldUnitsMember
  <2> QED
    BY <2>1
<1>3. SoldUnits(ProductOf[o])' = SoldUnits(ProductOf[o]) \cup UnitsOf(o)
  BY <1>1
<1> QED
  BY <1>2, <1>3

LEMMA KeepUnits ==
    ASSUME \A x \in Requests : orders'[x] # NULL <=> orders[x] # NULL, NEW p
    PROVE  SoldUnits(p)' = SoldUnits(p)
<1>1. ASSUME NEW u PROVE u \in SoldUnits(p)' <=> u \in SoldUnits(p)
  BY SoldUnitsMember
<1> QED
  BY <1>1

(* The stock of the monolith.                                                *)
Shelf == [p \in Products |-> InitialStock[p] - Cardinality(SoldUnits(p))]

LEMMA SameShelf ==
    ASSUME \A x \in Requests : orders'[x] # NULL <=> orders[x] # NULL
    PROVE  Shelf' = Shelf
BY KeepUnits DEF Shelf

(* The transaction that inserts an order is the monolith's whole createOrder: *)
(* the units that it takes were reserved, so that the shelf has them.         *)
LEMMA CommitIsCreateOrder ==
    ASSUME IInv, NothingReleased, RecordedAsAsked, NEW a \in Actors, pc[a] = "commit",
           Committed(snap[a])
    PROVE  [Shop!Next]_(Shop!shopVars)
<1>1. PICK o \in Requests : o = snap[a].order
  BY CommitEffect
<1>2. /\ Trusted(snap[a]) /\ snap[a].price # NULL
  BY InHand DEF IInv, Working, ActorTrue
<1>3. CASE orders[o] # NULL
  <2>1. orders' = orders
    BY <1>1, <1>3 DEF Committed
  <2> QED
    BY <2>1, SameShelf DEF Shop!shopVars, Shelf
<1>4. CASE orders[o] = NULL
  <2> DEFINE p == ProductOf[o]
             q == QuantityOf[o]
             new == [status |-> "CONFIRMED", total |-> Price[p] * q]
  <2>1. /\ ledger[o] # NULL /\ ledger[o].outcome = "DECREMENTED"
        /\ p \in Products /\ snap[a].price = Price[p]
    BY <1>1, <1>2 DEF Trusted, RowTrue, RecordedAsAsked
  <2>2. orders' = [orders EXCEPT ![o] = new]
    BY <1>1, <1>4, <2>1 DEF Committed
  <2>3. orders'[o] # NULL
    BY <1>1, CommitEffect
  <2>4. \A x \in Requests : x # o => orders'[x] = orders[x]
    BY <2>2 DEF IInv, TypeOK
  <2>5. /\ SoldUnits(p)' = SoldUnits(p) \cup UnitsOf(o)
        /\ \A r : r # p => SoldUnits(r)' = SoldUnits(r)
    BY <1>4, <2>3, <2>4, SellUnits
  <2>6. /\ Cardinality(SoldUnits(p)) \in Nat /\ q \in Quantities /\ q \in Nat
        /\ InitialStock[p] \in Nat
        /\ Cardinality(SoldUnits(p) \cup UnitsOf(o)) = Cardinality(SoldUnits(p)) + q
        /\ Cardinality(SoldUnits(p)) + q <= InitialStock[p]
    BY <1>4, <2>1, SoldUnitsFit, Constants, SagaAssumption DEF Inv!InventoryAssumption
  <2>7. Shelf[p] >= q
    BY <2>1, <2>6 DEF Shelf
  <2>8. Shelf' = [Shelf EXCEPT ![p] = @ - q]
    <3>1. \A r \in Products : Shelf'[r] = IF r = p THEN Shelf[p] - q ELSE Shelf[r]
      <4>1. /\ Shelf[p] = InitialStock[p] - Cardinality(SoldUnits(p))
            /\ Shelf'[p] = InitialStock[p] - Cardinality(SoldUnits(p) \cup UnitsOf(o))
        BY <2>1, <2>5 DEF Shelf
      <4>2. Shelf'[p] = Shelf[p] - q
        BY <2>6, <4>1
      <4>3. ASSUME NEW r \in Products, r # p PROVE Shelf'[r] = Shelf[r]
        BY <2>5, <4>3 DEF Shelf
      <4> QED
        BY <4>2, <4>3
    <3> QED
      BY <2>1, <3>1 DEF Shelf
  <2>9. Shop!CreateOrder(o, p, q)
    BY <1>4, <2>2, <2>7, <2>8 DEF Shop!CreateOrder, Shelf
  <2> QED
    BY <2>1, <2>6, <2>9 DEF Shop!Next
<1> QED
  BY <1>3, <1>4

(* "The migration must preserve the existing externally observable behavior": *)
(* as long as every local transaction that is tried commits and says so, each  *)
(* step of requests, worker, late calls and crashes is, seen through the       *)
(* orders and the stock that they leave, a step of the monolith or none.      *)
THEOREM IsTheMonolith ==
    ASSUME ~CommitMayFail, ~CommitAckMayBeLost
    PROVE  Spec => PreservesShop
<1>1. Init => NothingReleased /\ RecordedAsAsked
  BY DEF Init, NothingReleased, RecordedAsAsked, Inv!Init, Inv!IsReleased
<1>2. IInv /\ NothingReleased /\ RecordedAsAsked /\ [Next]_vars
        => NothingReleased' /\ RecordedAsAsked'
  BY NothingReleasedStays, RecordedAsAskedStays
<1>3. Init => Shop!Init
  <2> SUFFICES ASSUME Init PROVE Shop!Init
    OBVIOUS
  <2>1. orders = [o \in Requests |-> NULL]
    BY DEF Init
  <2>2. ASSUME NEW p \in Products PROVE Shelf[p] = InitialStock[p]
    <3>1. SoldUnits(p) = {}
      BY <2>1, SoldUnitsMember
    <3> QED
      <4>1. Cardinality(SoldUnits(p)) = 0
        BY <3>1, FS_EmptySet
      <4>2. InitialStock[p] \in Nat
        BY <2>2, SagaAssumption DEF Inv!InventoryAssumption
      <4> QED
        BY <2>2, <4>1, <4>2 DEF Shelf
  <2>3. Shelf = InitialStock
    BY <2>2, SagaAssumption DEF Shelf, Inv!InventoryAssumption
  <2> QED
    BY <2>1, <2>3 DEF Shop!Init, Shelf
<1>4. ASSUME IInv, NothingReleased, RecordedAsAsked, [Next]_vars
      PROVE  [Shop!Next]_(Shop!shopVars)
  <2>1. ASSUME NEW a \in Actors, Commit(a) PROVE [Shop!Next]_(Shop!shopVars)
    BY <1>4, <2>1, CommitIsCreateOrder DEF Commit
  <2>2. ASSUME NEW o \in Requests, Ship(o) PROVE [Shop!Next]_(Shop!shopVars)
    <3>1. /\ orders[o] # NULL /\ orders[o].status = "CONFIRMED"
          /\ orders' = [orders EXCEPT ![o].status = "SHIPPED"]
      BY <2>2 DEF Ship
    <3>2. orders[o] \in OrderRow /\ orders'[o] \in OrderRow
      BY <1>4, <3>1 DEF IInv, TypeOK, OrderRow
    <3>3. \A x \in Requests : orders'[x] # NULL <=> orders[x] # NULL
      BY <1>4, <3>1, <3>2, Constants DEF IInv, TypeOK
    <3>4. Shelf' = Shelf
      BY <3>3, SameShelf
    <3> QED
      BY <3>1, <3>4 DEF Shop!Next, Shop!ShipOrder, Shelf
  <2>3. CASE UNCHANGED orders
    <3>1. Shelf' = Shelf
      BY <2>3, SameShelf
    <3> QED
      BY <2>3, <3>1 DEF Shop!shopVars, Shelf
  <2>4. \A a \in Actors : ~CommitThrows(a)
    <3> SUFFICES ASSUME NEW a \in Actors PROVE ~CommitThrows(a)
      OBVIOUS
    <3> QED
      BY DEF CommitThrows
  <2> QED
    BY <1>4, <2>1, <2>2, <2>3, <2>4
       DEF Next, ActorStep, RequestStep, WorkerStep, Quiet, vars, Crash,
           DecrementAnswered, DecrementUnanswered, RecordDecremented, RecordRejected,
           RecordAlreadyReleased, RecordUncertain, FindOrder, ReleaseAnswered,
           ReleaseUnanswered, RecordRelease, Dispatch, FetchCompleted, LookUp, Insert,
           LookUpAgain, ReadBack, ListCandidates, TakeCandidate, EndPass, LateArrival
<1>5. IInv /\ NothingReleased /\ RecordedAsAsked /\ [Next]_vars => [Shop!Next]_(Shop!shopVars)
  BY <1>4
<1> QED
  BY <1>1, <1>2, <1>3, <1>5, Invariant, PTL DEF Spec, PreservesShop, Shop!Spec
=============================================================================
