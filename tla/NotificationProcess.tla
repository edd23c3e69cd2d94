------------------------- MODULE NotificationProcess -------------------------
(***************************************************************************)
(* One process of shopflow-notifications: requests and the delivery worker   *)
(* share a pool of database connections, of which each of them needs up to   *)
(* two at a time, and the advisory locks of the orders; main.ts shuts the     *)
(* process down. What the requests do to the records is the subject of       *)
(* module NotificationDelivery; here a step is a query that takes a client.   *)
(***************************************************************************)
EXTENDS Integers, FiniteSets, SequencesExt

CONSTANTS
    Dispatches,   \* requests of POST /notifications/order-confirmations
    Worker,       \* the delivery worker
    Orders,
    MaxClients,   \* size of the pool
    Nobody,
    Stray         \* a session of the pool that kept a lock beyond its use

Procs == Dispatches \cup {Worker}

(* What a client is needed for: the advisory lock is held by its session.    *)
TxSteps == {"select", "begin", "find", "reconciled", "accepted", "failure"}
Role(step) == IF step = "lock" THEN "lock" ELSE "tx"

ASSUME ProcessAssumption ==
    /\ Worker \notin Dispatches
    /\ Nobody \notin Procs \cup Orders
    /\ Stray \notin Procs \cup Orders /\ Stray # Nobody
    /\ MaxClients \in Nat \ {0}

VARIABLES
    pc,          \* the step of each of Procs
    order,       \* the order it works on
    batch,       \* orders of the worker's pass that are still to do
    queue,       \* those that wait for a client, in order
    clients,     \* the clients that are out, by holder and role
    lock,        \* per order: the holder of its advisory lock
    unlocking,   \* dispatches whose finally block runs beside their attempt
    phase        \* of the process

vars == <<pc, order, batch, queue, clients, lock, unlocking, phase>>

Init ==
    /\ pc = [p \in Procs |-> "idle"]
    /\ order = [p \in Procs |-> Nobody]
    /\ batch = {}
    /\ queue = <<>>
    /\ clients = {}
    /\ lock = [o \in Orders |-> Nobody]
    /\ unlocking = {}
    /\ phase = "serving"

-----------------------------------------------------------------------------
(* The pool: pool.connect() joins a queue that is served in order.           *)

GoTo(p, step) == pc' = [pc EXCEPT ![p] = step]

Connect(p, step) == GoTo(p, step) /\ queue' = Append(queue, p)

Holds(p) == p \notin ToSet(queue) /\ <<p, Role(pc[p])>> \in clients

GiveBack(p) == clients' = clients \ {<<p, Role(pc[p])>>}

(* An order that has been worked on does not matter any more.                *)
Forget(p) == order' = [order EXCEPT ![p] = Nobody]

Full == Cardinality(clients) >= MaxClients

(* A pool that is ending serves nobody any more.                             *)
Grant ==
    /\ phase \in {"serving", "stopping"}
    /\ queue # <<>> /\ ~Full
    /\ clients' = clients \cup {<<Head(queue), Role(pc[Head(queue)])>>}
    /\ queue' = Tail(queue)
    /\ UNCHANGED <<pc, order, batch, lock, unlocking, phase>>

(* A query or a connect of p throws. A failed recordDelivered is recorded as  *)
(* a failure of the provider if the message was just sent. What leaves the    *)
(* attempt of a dispatch while its finally block still awaits the unlock is   *)
(* a rejection that nothing handles: Node ends the process.                  *)
Throws(p, waiting) ==
    \/ /\ pc[p] = "accepted"
       /\ GoTo(p, "failure") /\ queue' = Append(waiting, p)
       /\ UNCHANGED <<batch, phase>>
    \/ /\ pc[p] \in {"select", "lock"}
       /\ GoTo(p, IF p = Worker THEN "idle" ELSE "done") /\ queue' = waiting
       /\ batch' = IF p = Worker THEN {} ELSE batch
       /\ UNCHANGED phase
    \/ /\ pc[p] \in {"begin", "find"} \/ (p = Worker /\ pc[p] \in {"reconciled", "failure"})
       /\ GoTo(p, "unlock") /\ queue' = waiting
       /\ batch' = IF p = Worker THEN {} ELSE batch
       /\ UNCHANGED phase
    \/ /\ p # Worker /\ pc[p] \in {"reconciled", "failure"}
       /\ GoTo(p, "done") /\ queue' = waiting
       /\ phase' = IF p \in unlocking THEN "exited" ELSE phase
       /\ UNCHANGED batch

(* Fault: only the worker gives up, requests wait for ever for a client.       *)
ConnectFailsWorker(p) ==
    /\ p = Worker \/ phase = "closing"
    /\ \E i \in DOMAIN queue : queue[i] = p /\ Throws(p, RemoveAt(queue, i))
    /\ IF pc[p] = "lock" THEN Forget(p) ELSE UNCHANGED order
    /\ UNCHANGED <<clients, lock, unlocking>>

(* connectionTimeoutMillis has passed, or the pool is ending.                *)
ConnectFails(p) ==
    /\ \E i \in DOMAIN queue : queue[i] = p /\ Throws(p, RemoveAt(queue, i))
    /\ IF pc[p] = "lock" THEN Forget(p) ELSE UNCHANGED order
    /\ UNCHANGED <<clients, lock, unlocking>>

(* Fault: acquireDeliveryLock keeps its client when its query throws.         *)
QueryFailsKept(p) ==
    /\ pc[p] \in TxSteps \cup {"lock"} /\ Holds(p)
    /\ IF pc[p] = "lock" THEN Forget(p) /\ UNCHANGED clients
                         ELSE GiveBack(p) /\ UNCHANGED order
    /\ Throws(p, queue)
    /\ UNCHANGED <<lock, unlocking>>

QueryFails(p) ==
    /\ pc[p] \in TxSteps \cup {"lock"} /\ Holds(p)
    /\ GiveBack(p)
    /\ Throws(p, queue)
    /\ IF pc[p] = "lock" THEN Forget(p) ELSE UNCHANGED order
    /\ UNCHANGED <<lock, unlocking>>

-----------------------------------------------------------------------------
(* acquireDeliveryLock and its release.                                      *)

TakeLock(p) ==
    /\ Holds(p)
    /\ lock' = [lock EXCEPT ![order[p]] = p]
    /\ Connect(p, IF p = Worker THEN "find" ELSE "begin")
    /\ UNCHANGED <<order, batch, clients, unlocking, phase>>

(* pg_advisory_lock waits as long as it takes, with its client.              *)
Locked(p) == pc[p] = "lock" /\ lock[order[p]] = Nobody /\ TakeLock(p)

(* The session that kept the lock is the one that the pool lent to p: a        *)
(* session does not wait for itself.                                         *)
LockedAgain(p) == pc[p] = "lock" /\ lock[order[p]] = Stray /\ TakeLock(p)

(* An unlock that throws is logged, and the client goes back to the pool all   *)
(* the same. Its session may have kept the lock; it does if it had it before.  *)
Unlocked(p) ==
    /\ pc[p] = "unlock" \/ p \in unlocking
    /\ \E kept \in {Nobody, Stray} : lock' = [lock EXCEPT ![order[p]] = kept]
    /\ clients' = clients \ {<<p, "lock">>}
    /\ unlocking' = unlocking \ {p}
    /\ pc' = IF pc[p] # "unlock" THEN pc
             ELSE [pc EXCEPT ![p] = IF p = Worker THEN "next" ELSE "done"]
    /\ Forget(p)
    /\ UNCHANGED <<batch, queue, phase>>

(* The connection breaks, or the pool closes it when it has been idle or when  *)
(* the pool ends: PostgreSQL frees what its session held.                    *)
SessionEnds(o) ==
    /\ lock[o] = Stray
    /\ lock' = [lock EXCEPT ![o] = Nobody]
    /\ UNCHANGED <<pc, order, batch, queue, clients, unlocking, phase>>

-----------------------------------------------------------------------------
(* dispatchOrderConfirmation and processDueDeliveries.                       *)

Receive(d) ==
    /\ phase = "serving" /\ pc[d] = "idle"
    /\ \E o \in Orders : order' = [order EXCEPT ![d] = o]
    /\ Connect(d, "lock")
    /\ UNCHANGED <<batch, clients, lock, unlocking, phase>>

(* DELIVERED is answered under the lock; the attempt is returned, not awaited.*)
Begun(d) ==
    /\ pc[d] = "begin" /\ Holds(d)
    /\ GiveBack(d)
    /\ \/ GoTo(d, "unlock") /\ UNCHANGED unlocking
       \/ GoTo(d, "attempt") /\ unlocking' = unlocking \cup {d}
    /\ UNCHANGED <<order, batch, queue, lock, phase>>

(* The calls to the provider need no client; the record of their result does. *)
Attempted(p) ==
    /\ pc[p] = "attempt"
    /\ \E step \in {"reconciled", "accepted", "failure"} : Connect(p, step)
    /\ UNCHANGED <<order, batch, clients, lock, unlocking, phase>>

Recorded(p) ==
    /\ pc[p] \in {"reconciled", "accepted", "failure"} /\ Holds(p)
    /\ GiveBack(p)
    /\ GoTo(p, IF p = Worker THEN "unlock" ELSE "return")
    /\ UNCHANGED <<order, batch, queue, lock, unlocking, phase>>

(* The response is sent when the finally block and the attempt are over.     *)
Return(d) ==
    /\ pc[d] = "return" /\ d \notin unlocking
    /\ GoTo(d, "done")
    /\ UNCHANGED <<order, batch, queue, clients, lock, unlocking, phase>>

(* Fault: a tick that has already been scheduled ignores the stop.           *)
TickUnstopped ==
    /\ pc[Worker] = "idle" /\ phase \in {"serving", "stopping"}
    /\ Connect(Worker, "select")
    /\ UNCHANGED <<order, batch, clients, lock, unlocking, phase>>

(* tick: nothing happens while a pass runs or when the worker is stopped.     *)
Tick ==
    /\ pc[Worker] = "idle" /\ phase = "serving"
    /\ Connect(Worker, "select")
    /\ UNCHANGED <<order, batch, clients, lock, unlocking, phase>>

Selected ==
    /\ pc[Worker] = "select" /\ Holds(Worker)
    /\ GiveBack(Worker)
    /\ batch' \in SUBSET Orders
    /\ GoTo(Worker, "next")
    /\ UNCHANGED <<order, queue, lock, unlocking, phase>>

NextCandidate ==
    /\ pc[Worker] = "next"
    /\ \/ /\ batch = {}
          /\ GoTo(Worker, "idle")
          /\ UNCHANGED <<order, batch, queue>>
       \/ \E o \in batch :
            /\ batch' = batch \ {o}
            /\ order' = [order EXCEPT ![Worker] = o]
            /\ Connect(Worker, "lock")
    /\ UNCHANGED <<clients, lock, unlocking, phase>>

(* What is no longer due is skipped.                                         *)
Found ==
    /\ pc[Worker] = "find" /\ Holds(Worker)
    /\ GiveBack(Worker)
    /\ GoTo(Worker, "attempt") \/ GoTo(Worker, "unlock")
    /\ UNCHANGED <<order, batch, queue, lock, unlocking, phase>>

-----------------------------------------------------------------------------
(* SIGTERM: the server and the worker are stopped, connections of requests    *)
(* are dropped, but their handlers run on.                                   *)
Stop ==
    /\ phase = "serving"
    /\ phase' = "stopping"
    /\ UNCHANGED <<pc, order, batch, queue, clients, lock, unlocking>>

(* Fault: the pool is closed without waiting for the worker.                 *)
CloseAtOnce ==
    /\ phase = "stopping"
    /\ phase' = "closing"
    /\ UNCHANGED <<pc, order, batch, queue, clients, lock, unlocking>>

(* worker.stop() has seen the end of the pass: pool.end() is called.          *)
Close ==
    /\ phase = "stopping" /\ pc[Worker] = "idle"
    /\ phase' = "closing"
    /\ UNCHANGED <<pc, order, batch, queue, clients, lock, unlocking>>

(* pool.end() resolves when the last client is back; process.exit.           *)
Exit ==
    /\ phase = "closing" /\ clients = {}
    /\ phase' = "exited"
    /\ UNCHANGED <<pc, order, batch, queue, clients, lock, unlocking>>

Next ==
    \/ /\ phase # "exited"
       /\ \/ Grant \/ Tick \/ Selected \/ NextCandidate \/ Found \/ Stop \/ Close \/ Exit
          \/ \E p \in Procs : \/ ConnectFails(p) \/ QueryFails(p) \/ Locked(p)
                              \/ LockedAgain(p) \/ Unlocked(p) \/ Attempted(p) \/ Recorded(p)
          \/ \E o \in Orders : SessionEnds(o)
          \/ \E d \in Dispatches : Receive(d) \/ Begun(d) \/ Return(d)
    \/ phase = "exited" /\ UNCHANGED vars

Spec == Init /\ [][Next]_vars

(* Queries, provider calls and timers end. PostgreSQL serves those that wait  *)
(* for a lock in their order, so nobody waits for a lock that is freed again  *)
(* and again. A session that kept a lock may be lent again and again while     *)
(* there are requests and passes; when nothing new begins the pool closes it.  *)
Fairness ==
    /\ \A p \in Procs :
        /\ WF_vars(phase # "exited" /\ ConnectFails(p))
        /\ SF_vars(phase # "exited" /\ Locked(p))
        /\ WF_vars(phase # "exited" /\ (Unlocked(p) \/ Attempted(p) \/ Recorded(p)))
    /\ \A d \in Dispatches : WF_vars(phase # "exited" /\ (Begun(d) \/ Return(d)))
    /\ \A o \in Orders : WF_vars(phase \in {"stopping", "closing"} /\ SessionEnds(o))
    /\ WF_vars(phase # "exited" /\ (Selected \/ NextCandidate \/ Found))
    /\ WF_vars(Close \/ Exit)

FairSpec == Spec /\ Fairness

-----------------------------------------------------------------------------
TypeOK ==
    /\ pc \in [Procs -> TxSteps \cup {"idle", "lock", "attempt", "return", "next",
                                      "unlock", "done"}]
    /\ order \in [Procs -> Orders \cup {Nobody}]
    /\ batch \subseteq Orders
    /\ queue \in Seq(Procs) /\ IsInjective(queue)
    /\ clients \subseteq Procs \X {"lock", "tx"} /\ Cardinality(clients) <= MaxClients
    /\ lock \in [Orders -> Procs \cup {Nobody, Stray}]
    /\ unlocking \subseteq Dispatches
    /\ phase \in {"serving", "stopping", "closing", "exited"}

(* Whatever throws on the way, a request that was answered and a worker that  *)
(* rests keep no client of the pool and are not in the way of anybody else's  *)
(* lock: a lock that is held is held by who works on that order with the      *)
(* client of its session, unless an unlock failed and its session lives on.   *)
NothingKept ==
    /\ \A p \in Procs :
          pc[p] \in {"idle", "next"} \/ (pc[p] = "done" /\ phase # "exited") =>
          <<p, "lock">> \notin clients /\ <<p, "tx">> \notin clients
    /\ \A o \in Orders : lock[o] \notin {Nobody, Stray} =>
          <<lock[o], "lock">> \in clients /\ order[lock[o]] = o

(* A shutdown never takes the pool from under a pass of the worker: all that  *)
(* the provider accepted in a pass is recorded.                              *)
PassFinished == phase = "closing" => pc[Worker] = "idle"

(* With all clients held by requests that need a second one nobody can go on: *)
(* the timeout of the pool resolves this, and every request is answered       *)
(* unless the process ends, or an unlock for its order fails: a lock that an   *)
(* idle session has kept is waited for without a timeout.                    *)
DispatchAnswered ==
    \A d \in Dispatches : pc[d] = "lock" ~>
        \/ pc[d] = "done" \/ phase = "exited"
        \/ \E o \in Orders : order[d] = o /\ lock[o] = Stray

(* A shutdown ends, however many requests and locks are in the way, those of   *)
(* failed unlocks too.                                                       *)
ShutdownEnds == phase = "stopping" ~> phase = "exited"
=============================================================================
