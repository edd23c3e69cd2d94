---------------------------- MODULE OrdersProcess ----------------------------
(***************************************************************************)
(* One process of shopflow-orders: its requests, the loop that resumes       *)
(* sagas, the loop that dispatches confirmations, and the shutdown of        *)
(* main.ts. Which rows a pass takes up is decided by a LIMIT: the table of   *)
(* sagas is served in the order of updated_at, the outbox in the order of    *)
(* its ids. What the steps do to stock and messages is the subject of        *)
(* OrderSaga and Outbox; here a call and the write of its answer are one.    *)
(***************************************************************************)
EXTENDS Integers, FiniteSets, SequencesExt

CONSTANTS
    Orders,
    Requests,     \* the orders whose POST this process receives
    Refused,      \* the orders whose confirmation shopflow-notifications never accepts
    Recovery,     \* the two loops
    Dispatcher,
    BatchSize,    \* of both loops
    Backlog       \* the rows an earlier process may have left behind

Loops == {Recovery, Dispatcher}

(* A request is named by the order it creates.                              *)
Procs == Requests \cup Loops

Unfinished == {"STARTED", "UNCERTAIN", "DECREMENTED"}

(* The rows that a process can leave behind: the saga and the outbox row.     *)
LeftBehind ==
    [saga : Unfinished, outbox : {"none"}]
    \cup [saga : {"DECREMENTED", "COMPLETED"}, outbox : {"PENDING", "DELIVERED"}]

ASSUME OrdersProcessAssumption ==
    /\ Requests \subseteq Orders /\ Refused \subseteq Orders
    /\ Recovery # Dispatcher /\ Loops \cap Orders = {}
    /\ BatchSize \in Nat /\ Cardinality(Refused) < BatchSize
    /\ Backlog \subseteq LeftBehind

VARIABLES
    saga,      \* state of the row in order_operations; RELEASED: outcome of the decrement
    fresh,     \* the STARTED rows that are younger than the grace period
    queue,     \* the unfinished rows in the order of updated_at
    outbox,    \* the notification_outbox row, written together with the order
    pending,   \* the PENDING ones of them in the order of their ids
    pc,        \* the step of each of Procs
    batch,     \* per loop: the rows of its pass that are still to do, as they were listed
    phase      \* of the process

vars == <<saga, fresh, queue, outbox, pending, pc, batch, phase>>

Init ==
    \E left \in [Orders \ Requests -> Backlog] :
        LET rows == {o \in Orders \ Requests : left[o].saga \in Unfinished}
            sent == {o \in Orders \ Requests : left[o].outbox = "PENDING"}
            of(o, field, none) == IF o \in Requests THEN none ELSE left[o][field]
        IN  /\ saga = [o \in Orders |-> of(o, "saga", "none")]
            /\ outbox = [o \in Orders |-> of(o, "outbox", "none")]
            /\ queue \in SetToSeqs(rows)
            /\ pending \in SetToSeqs(sent)
            /\ fresh = {}
            /\ pc = [p \in Procs |-> "idle"]
            /\ batch = [l \in Loops |-> <<>>]
            /\ phase = "serving"

-----------------------------------------------------------------------------
(* Helpers: the tables, and who works on what.                               *)

GoTo(p, step) == pc' = [pc EXCEPT ![p] = step]

(* updateOrderOperation has no condition on the state that it overwrites, and *)
(* always sets updated_at. An outcome RELEASED stays when UNCERTAIN is        *)
(* written, and keeps the row from being listed.                             *)
Write(o, state) ==
    LET new == IF saga[o] = "RELEASED" /\ state = "UNCERTAIN" THEN "RELEASED" ELSE state
    IN  /\ saga' = [saga EXCEPT ![o] = new]
        /\ queue' = IF new \in Unfinished THEN Append(Remove(queue, o), o) ELSE Remove(queue, o)
        /\ fresh' = fresh \ {o}

(* An update of last_error alone: a STARTED row is young again.              *)
Touch(o) ==
    /\ queue' = IF saga[o] \in Unfinished THEN Append(Remove(queue, o), o) ELSE queue
    /\ fresh' = IF saga[o] = "STARTED" THEN fresh \cup {o} ELSE fresh
    /\ UNCHANGED saga

(* The order that p works on.                                                *)
Item(p) == IF p \in Loops THEN Head(batch[p]).order ELSE p

(* A saga as it was listed, with the step that its state then calls for,      *)
(* however old that state is when its turn comes; and an outbox entry.       *)
OrderOperation(o) ==
    [order |-> o, step |-> IF saga[o] = "DECREMENTED" THEN "complete" ELSE "call"]

OutboxEntry(o) == [order |-> o, step |-> "dispatch"]

(* Fault: a pass goes on as long as it finds unfinished sagas.               *)
PassDrains(l, rows) ==
    LET all == IF rows = <<>> /\ l = Recovery THEN [i \in DOMAIN queue |-> OrderOperation(queue[i])]
               ELSE rows
    IN  /\ batch' = [batch EXCEPT ![l] = all]
        /\ GoTo(l, IF all = <<>> THEN "idle" ELSE Head(all).step)

(* The pass of l goes on with rows.                                          *)
Pass(l, rows) ==
    /\ batch' = [batch EXCEPT ![l] = rows]
    /\ GoTo(l, IF rows = <<>> THEN "idle" ELSE Head(rows).step)

(* The handler, or this row of the pass, is over.                            *)
Finish(p) ==
    \/ p \in Loops /\ Pass(p, Tail(batch[p]))
    \/ p \in Requests /\ GoTo(p, "done") /\ UNCHANGED batch

-----------------------------------------------------------------------------
(* The loops.                                                                *)

Recoverable(o) == saga[o] \in Unfinished /\ o \notin fresh

Limit(s) == SubSeq(s, 1, IF Len(s) < BatchSize THEN Len(s) ELSE BatchSize)

(* Fault: ORDER BY order_id.                                                 *)
ListRecoverableById == Limit(SetToSeq({o \in Orders : Recoverable(o)}))

(* listRecoverableOrderOperations.                                           *)
ListRecoverable == Limit(SelectSeq(queue, Recoverable))

(* listDueOutboxEntries. At worst every row is due again when its turn comes. *)
ListDue == Limit(pending)

Listed(l) ==
    IF l = Recovery THEN [i \in DOMAIN ListRecoverable |-> OrderOperation(ListRecoverable[i])]
                    ELSE [i \in DOMAIN ListDue |-> OutboxEntry(ListDue[i])]

(* setInterval: a tick does nothing while the pass before it is running. A    *)
(* list that fails is a pass without rows.                                   *)
Tick(l) ==
    /\ phase \in {"serving", "closing"} /\ pc[l] = "idle"
    /\ Pass(l, Listed(l))
    /\ UNCHANGED <<saga, fresh, queue, outbox, pending, phase>>

-----------------------------------------------------------------------------
(* The requests, and the steps they share with the recovery.                 *)

(* createOrder: the row is inserted. A kept connection still brings requests  *)
(* while the server is closing.                                              *)
Receive(o) ==
    /\ phase \in {"serving", "closing"}
    /\ pc[o] = "idle" /\ GoTo(o, "call")
    /\ saga' = [saga EXCEPT ![o] = "STARTED"]
    /\ queue' = Append(queue, o)
    /\ fresh' = fresh \cup {o}
    /\ UNCHANGED <<outbox, pending, batch, phase>>

(* The grace period passes.                                                  *)
Ages(o) ==
    /\ o \in fresh /\ fresh' = fresh \ {o}
    /\ UNCHANGED <<saga, queue, outbox, pending, pc, batch, phase>>

(* What inventory may answer for o: it repeats what it has recorded, and a    *)
(* release may have been recorded without an answer.                         *)
Answers(o) ==
    IF saga[o] \in {"ABORTED", "RELEASED"} THEN {saga[o]}
    ELSE {"DECREMENTED", "RELEASED"}
         \cup {x \in {"ABORTED"} : saga[o] # "DECREMENTED" /\ outbox[o] = "none"}

(* The decrement is answered and the answer is recorded.                     *)
Called(p) ==
    /\ pc[p] = "call"
    /\ \E answer \in Answers(Item(p)) :
          /\ Write(Item(p), answer)
          /\ IF answer = "DECREMENTED" THEN GoTo(p, "complete") /\ UNCHANGED batch
                                       ELSE Finish(p)
    /\ UNCHANGED <<outbox, pending, phase>>

Unanswered(p) ==
    /\ pc[p] = "call"
    /\ Write(Item(p), "UNCERTAIN")
    /\ Finish(p)
    /\ UNCHANGED <<outbox, pending, phase>>

(* updateOutboxEntry: the row keeps its id, and a new row has the highest.   *)
WriteEntry(o, state) ==
    LET with == IF outbox[o] = "none" THEN Append(pending, o) ELSE pending
    IN  /\ outbox' = [outbox EXCEPT ![o] = state]
        /\ pending' = IF state = "PENDING" THEN with ELSE Remove(with, o)

(* dispatchOrderConfirmation: a row that is still PENDING is DELIVERED or     *)
(* written back for its next attempt.                                        *)
Confirm(o) ==
    \/ o \notin Refused /\ WriteEntry(o, "DELIVERED")
    \/ outbox[o] # "DELIVERED" /\ WriteEntry(o, "PENDING")
    \/ outbox[o] = "DELIVERED" /\ UNCHANGED <<outbox, pending>>

(* completeLocalTransaction: an order that exists only has its confirmation   *)
(* dispatched, its saga is not written.                                      *)
Completed(p) ==
    /\ pc[p] = "complete"
    /\ LET o == Item(p) IN
          /\ IF outbox[o] # "none" THEN UNCHANGED <<saga, fresh, queue>>
             ELSE Write(o, "COMPLETED")
          /\ Confirm(o)
    /\ Finish(p)
    /\ UNCHANGED phase

(* The transaction fails, and the release is answered or not.                *)
CommitFails(p) ==
    /\ pc[p] = "complete" /\ outbox[Item(p)] = "none"
    /\ \E state \in {"RELEASED", "DECREMENTED"} : Write(Item(p), state)
    /\ Finish(p)
    /\ UNCHANGED <<outbox, pending, phase>>

(* Fault: the pass ends with the first row that is not delivered.            *)
DispatchedWhileDelivered ==
    /\ pc[Dispatcher] = "dispatch"
    /\ Confirm(Item(Dispatcher))
    /\ IF outbox'[Item(Dispatcher)] = "DELIVERED" THEN Finish(Dispatcher) ELSE Pass(Dispatcher, <<>>)
    /\ UNCHANGED <<saga, fresh, queue, phase>>

(* The dispatcher takes the next row of its pass.                            *)
Dispatched ==
    /\ pc[Dispatcher] = "dispatch"
    /\ Confirm(Item(Dispatcher))
    /\ Finish(Dispatcher)
    /\ UNCHANGED <<saga, fresh, queue, phase>>

(* A query throws: a request answers 500, a pass goes on with its next row.   *)
(* The recovery records last_error: a database that refuses even that fails   *)
(* the next list as well.                                                    *)
Throws(p) ==
    /\ pc[p] \in {"call", "complete", "dispatch"}
    /\ IF p = Recovery THEN Touch(Item(p)) ELSE UNCHANGED <<saga, fresh, queue>>
    /\ Finish(p)
    /\ UNCHANGED <<outbox, pending, phase>>

-----------------------------------------------------------------------------
(* The shutdown.                                                             *)

Signal ==
    /\ phase = "serving" /\ phase' = "closing"
    /\ UNCHANGED <<saga, fresh, queue, outbox, pending, pc, batch>>

(* server.close() calls back when no request is open; both loops are stopped.*)
ServerClosed ==
    /\ phase = "closing" /\ \A o \in Requests : pc[o] \in {"idle", "done"}
    /\ phase' = "stopping"
    /\ UNCHANGED <<saga, fresh, queue, outbox, pending, pc, batch>>

(* Fault: only the first of the two loops is waited for.                     *)
ExitEarly ==
    /\ phase = "stopping" /\ pc[Recovery] = "idle"
    /\ phase' = "exited"
    /\ UNCHANGED <<saga, fresh, queue, outbox, pending, pc, batch>>

(* stop() of both loops has seen the end of its pass: pool.end() and exit.    *)
Exit ==
    /\ phase = "stopping" /\ \A l \in Loops : pc[l] = "idle"
    /\ phase' = "exited"
    /\ UNCHANGED <<saga, fresh, queue, outbox, pending, pc, batch>>

Step(p) ==
    \/ Called(p) \/ Unanswered(p) \/ Completed(p) \/ CommitFails(p)
    \/ p = Dispatcher /\ Dispatched

Next ==
    \/ /\ phase # "exited"
       /\ \/ \E l \in Loops : Tick(l)
          \/ \E o \in Requests : Receive(o)
          \/ \E p \in Procs : Step(p) \/ Throws(p)
          \/ \E o \in Orders : Ages(o)
          \/ Signal \/ ServerClosed \/ Exit
    \/ phase = "exited" /\ UNCHANGED vars

Spec == Init /\ [][Next]_vars

(* The confirmation of o is accepted.                                        *)
Delivers(o) ==
    /\ outbox[o] # "DELIVERED"
    /\ \E p \in Procs :
          pc[p] \in {"complete", "dispatch"} /\ Item(p) = o /\ (Completed(p) \/ Dispatched)
    /\ outbox'[o] = "DELIVERED"

(* Timers fire, queries and calls end, requests grow older than the grace     *)
(* period, and a confirmation that is accepted at all is accepted in the end. *)
Fairness ==
    /\ \A l \in Loops : WF_vars(Tick(l))
    /\ \A p \in Procs : WF_vars(phase # "exited" /\ Step(p))
    /\ \A o \in Orders \ Refused : SF_vars(phase # "exited" /\ Delivers(o))
    /\ \A o \in Requests : WF_vars(phase # "exited" /\ Ages(o))
    /\ WF_vars(ServerClosed \/ Exit)

FairSpec == Spec /\ Fairness

-----------------------------------------------------------------------------
TypeOK ==
    /\ saga \in [Orders -> Unfinished \cup {"none", "COMPLETED", "ABORTED", "RELEASED"}]
    /\ fresh \subseteq {o \in Orders : saga[o] = "STARTED"}
    /\ queue \in Seq(Orders) /\ IsInjective(queue)
    /\ ToSet(queue) = {o \in Orders : saga[o] \in Unfinished}
    /\ outbox \in [Orders -> {"none", "PENDING", "DELIVERED"}]
    /\ IsInjective(pending) /\ ToSet(pending) = {o \in Orders : outbox[o] = "PENDING"}
    /\ pc \in [Procs -> {"idle", "call", "complete", "dispatch", "done"}]
    /\ phase \in {"serving", "closing", "stopping", "exited"}

(* The pool is not ended while a handler or a pass still needs it, although   *)
(* the loops go on ticking until the last request is answered.               *)
PoolOutlivesUse ==
    phase = "exited" => \A p \in Procs : pc[p] \in {"idle", "done"}

(* A shutdown ends, whatever the sagas and the confirmations do.             *)
ShutdownEnds == phase = "closing" ~> phase = "exited"

(* A row that the recovery never moves to the back: its order exists, so all   *)
(* it does is dispatch a confirmation.                                       *)
Parked(o) == saga[o] = "DECREMENTED" /\ outbox[o] # "none"

(* A saga that its request leaves unfinished gets its turn, however many       *)
(* older ones fail for ever, unless parked rows fill the batch.               *)
SagasTakenUp ==
    \A o \in Requests :
        Recoverable(o) ~>
            \/ ~Recoverable(o) \/ phase # "serving"
            \/ pc[Recovery] \in {"call", "complete"} /\ Item(Recovery) = o
            \/ Cardinality({x \in Orders : Parked(x)}) >= BatchSize

(* Every confirmation that can be delivered is, although the rows before it   *)
(* in the outbox fail for ever.                                              *)
ConfirmationsDelivered ==
    \A o \in Orders \ Refused :
        outbox[o] # "none" ~> (outbox[o] = "DELIVERED" \/ phase # "serving")
=============================================================================
