------------------------ MODULE NotificationDelivery ------------------------
(***************************************************************************)
(* shopflow-notifications: inbound dispatches and the delivery worker work   *)
(* on the same notifications, serialised (or so it is meant) by a lock per   *)
(* notification, next to an external provider without idempotency keys.     *)
(* One action is one await: a lock, a transaction or a provider call.       *)
(***************************************************************************)
EXTENDS Integers, Sequences

CONSTANTS
    Orders,         \* orders whose confirmation is dispatched
    Dispatches,     \* POST /notifications/order-confirmations requests
    OrderOf,        \* the order a dispatch is about
    Worker,         \* the delivery worker
    MaxAttempts,    \* DELIVERY_MAX_ATTEMPTS, 0 for unlimited
    SlowProvider,   \* TRUE: a POST that was given up may still be accepted
    MaxFaults,      \* bound of the model: calls, statements and processes that fail
    NULL

Actors == Dispatches \cup {Worker}

Outcomes == {"DELIVERED", "RECONCILED", "PROVIDER_FAILURE"}

(* A row of notifications: next_attempt_at is NULL, in the future or past.   *)
Record ==
    [status : {"PENDING"}, attempts : Nat, nextAttempt : {NULL, "later", "past"},
     providerId : {NULL}]
    \cup
    [status : {"DELIVERED"}, attempts : Nat, nextAttempt : {NULL},
     providerId : Nat \ {0}]

ASSUME DeliveryAssumption ==
    /\ Worker \notin Dispatches
    /\ OrderOf \in [Dispatches -> Orders]
    /\ MaxAttempts \in Nat /\ MaxFaults \in Nat
    /\ SlowProvider \in BOOLEAN
    /\ NULL \notin Record \cup Orders \cup Actors \cup Nat \cup {"later", "past"}

VARIABLES
    record,      \* notifications, by order
    history,     \* notification_attempts, by order: the rows in the order of insertion
    accepted,    \* messages about an order that the provider holds
    inFlight,    \* POSTs about an order that were given up and may still be accepted
    lock,        \* the delivery lock of an order's notification
    unlocking,   \* dispatches whose unlock statement is on its way
    pc, task,    \* per actor: what it does next, the order it works on
    found,       \* per actor: the provider's record id it is about to store
    batch,       \* orders of the due records the worker has listed
    answer,      \* the response to a dispatch
    faultsLeft

vars == <<record, history, accepted, inFlight, lock, unlocking, pc, task, found, batch,
          answer, faultsLeft>>

database == <<record, history>>
provider == <<accepted, inFlight>>
locks == <<lock, unlocking>>

Init ==
    /\ record = [o \in Orders |-> NULL]
    /\ history = [o \in Orders |-> <<>>]
    /\ accepted = [o \in Orders |-> 0]
    /\ inFlight = [o \in Orders |-> 0]
    /\ lock = [o \in Orders |-> NULL]
    /\ unlocking = {}
    /\ pc = [a \in Actors |-> IF a = Worker THEN "idle" ELSE "lock"]
    /\ task = [a \in Actors |-> IF a = Worker THEN NULL ELSE OrderOf[a]]
    /\ found = [a \in Actors |-> NULL]
    /\ batch = {}
    /\ answer = [d \in Dispatches |-> NULL]
    /\ faultsLeft = MaxFaults

Fault == faultsLeft > 0 /\ faultsLeft' = faultsLeft - 1

GoTo(a, label) == pc' = [pc EXCEPT ![a] = label]

(* The attempt of actor a is over: the worker now releases its lock, a       *)
(* dispatch waits for the release it issued before.                         *)
EndAttempt(a, status) ==
    /\ GoTo(a, IF a = Worker THEN "release" ELSE "reply")
    /\ answer' = IF a = Worker THEN answer ELSE [answer EXCEPT ![a] = status]

-----------------------------------------------------------------------------
(* The transactions of the repository.                                      *)

(* Fault: WHERE id = $1, without AND status = 'PENDING'.                     *)
MarkDeliveredAgain(o, id, outcome) ==
    /\ record' = [record EXCEPT ![o] =
           [status |-> "DELIVERED", attempts |-> @.attempts + 1, nextAttempt |-> NULL,
            providerId |-> id]]
    /\ history' = [history EXCEPT ![o] =
           Append(@, [attempt |-> record[o].attempts + 1, outcome |-> outcome])]

(* recordDelivered: a record that is DELIVERED already is left alone.        *)
MarkDelivered(o, id, outcome) ==
    IF record[o].status = "PENDING"
    THEN /\ record' = [record EXCEPT ![o] =
                [status |-> "DELIVERED", attempts |-> @.attempts + 1, nextAttempt |-> NULL,
                 providerId |-> id]]
         /\ history' = [history EXCEPT ![o] =
                Append(@, [attempt |-> record[o].attempts + 1, outcome |-> outcome])]
    ELSE UNCHANGED database

(* Fault: the failed attempt puts the record back to PENDING.                *)
CountFailureReopens(o) ==
    /\ record' = [record EXCEPT ![o] =
           [status |-> "PENDING", attempts |-> @.attempts + 1, nextAttempt |-> "later",
            providerId |-> NULL]]
    /\ history' = [history EXCEPT ![o] =
           Append(@, [attempt |-> record[o].attempts + 1, outcome |-> "PROVIDER_FAILURE"])]

(* recordProviderFailure: likewise only while the record is PENDING.         *)
CountFailure(o) ==
    IF record[o].status = "PENDING"
    THEN /\ record' = [record EXCEPT ![o].attempts = @ + 1, ![o].nextAttempt = "later"]
         /\ history' = [history EXCEPT ![o] =
                Append(@, [attempt |-> record[o].attempts + 1,
                           outcome |-> "PROVIDER_FAILURE"])]
    ELSE UNCHANGED database

(* beginDeliveryForIntent: an existing row stays as it is.                   *)
Persist(o) ==
    /\ record' = IF record[o] # NULL THEN record
                 ELSE [record EXCEPT ![o] =
                         [status |-> "PENDING", attempts |-> 0, nextAttempt |-> NULL,
                          providerId |-> NULL]]
    /\ UNCHANGED history

-----------------------------------------------------------------------------
(* dispatchOrderConfirmation and processDueDeliveries.                      *)

AcquireLock(a) ==
    /\ pc[a] = "lock"
    /\ lock[task[a]] = NULL
    /\ lock' = [lock EXCEPT ![task[a]] = a]
    /\ GoTo(a, IF a = Worker THEN "check" ELSE "begin")
    /\ UNCHANGED <<database, provider, unlocking, task, found, batch, answer, faultsLeft>>

(* Fault: every known record is answered as a replay.                       *)
BeginReplaysPending(d) ==
    /\ pc[d] = "begin"
    /\ Persist(task[d])
    /\ \/ record[task[d]] # NULL /\ EndAttempt(d, 200)
       \/ record[task[d]] = NULL /\ GoTo(d, "post") /\ UNCHANGED answer
    /\ unlocking' = unlocking \cup {d}
    /\ UNCHANGED <<provider, lock, task, found, batch, faultsLeft>>

(* Persist, then start the attempt: a new record is posted, a known PENDING  *)
(* one is reconciled first, a DELIVERED one is only answered. The promise of *)
(* attemptDelivery is returned without being awaited, so the finally block   *)
(* issues the unlock while the attempt is still running.                     *)
Begin(d) ==
    /\ pc[d] = "begin"
    /\ Persist(task[d])
    /\ \/ /\ record[task[d]] = NULL
          /\ GoTo(d, "post")
          /\ UNCHANGED answer
       \/ /\ record[task[d]] # NULL /\ record[task[d]].status = "PENDING"
          /\ GoTo(d, "inspect")
          /\ UNCHANGED answer
       \/ /\ record[task[d]] # NULL /\ record[task[d]].status = "DELIVERED"
          /\ EndAttempt(d, 200)
    /\ unlocking' = unlocking \cup {d}
    /\ UNCHANGED <<provider, lock, task, found, batch, faultsLeft>>

(* The unlock of a dispatch takes effect. (One that fails and leaves the lock *)
(* in a pooled session is the subject of NotificationProcess.)               *)
Unlock(d) ==
    /\ d \in unlocking
    /\ unlocking' = unlocking \ {d}
    /\ lock' = [lock EXCEPT ![task[d]] = NULL]
    /\ UNCHANGED <<database, provider, pc, task, found, batch, answer, faultsLeft>>

Respond(d) ==
    /\ pc[d] = "reply" /\ d \notin unlocking
    /\ GoTo(d, "done")
    /\ UNCHANGED <<database, provider, locks, task, found, batch, answer, faultsLeft>>

WithinCap(o) == MaxAttempts = 0 \/ record[o].attempts < MaxAttempts

(* Fault: WHERE next_attempt_at <= now, without next_attempt_at IS NULL.     *)
IsDueScheduled(o) ==
    /\ record[o] # NULL
    /\ record[o].status = "PENDING" /\ record[o].nextAttempt = "past"
    /\ WithinCap(o)

IsDue(o) ==
    /\ record[o] # NULL
    /\ record[o].status = "PENDING" /\ record[o].nextAttempt # "later"
    /\ WithinCap(o)

(* selectDuePending; the batch of the model holds every due record.          *)
ListDue ==
    /\ pc[Worker] = "idle"
    /\ batch' = {o \in Orders : IsDue(o)}
    /\ batch' # {}
    /\ GoTo(Worker, "next")
    /\ UNCHANGED <<database, provider, locks, task, found, answer, faultsLeft>>

TakeNext ==
    /\ pc[Worker] = "next"
    /\ \/ \E o \in batch :
             /\ task' = [task EXCEPT ![Worker] = o]
             /\ batch' = batch \ {o}
             /\ GoTo(Worker, "lock")
       \/ /\ batch = {}
          /\ GoTo(Worker, "idle")
          /\ UNCHANGED <<task, batch>>
    /\ UNCHANGED <<database, provider, locks, found, answer, faultsLeft>>

(* The record is read again under the lock.                                 *)
Check ==
    /\ pc[Worker] = "check"
    /\ GoTo(Worker, IF IsDue(task[Worker]) THEN "inspect" ELSE "release")
    /\ UNCHANGED <<database, provider, locks, task, found, batch, answer, faultsLeft>>

Release ==
    /\ pc[Worker] = "release"
    /\ lock' = [lock EXCEPT ![task[Worker]] = NULL]
    /\ task' = [task EXCEPT ![Worker] = NULL]
    /\ GoTo(Worker, "next")
    /\ UNCHANGED <<database, provider, unlocking, found, batch, answer, faultsLeft>>

-----------------------------------------------------------------------------
(* attemptDelivery.                                                         *)

(* Fault: a retry whose inspection fails posts nevertheless.                *)
InspectFailsOpen(a) ==
    /\ pc[a] = "inspect"
    /\ Fault
    /\ GoTo(a, "post")
    /\ UNCHANGED <<database, provider, locks, task, found, batch, answer>>

(* GET /notifications of the provider: a matching record is stored, none     *)
(* means the message has to be posted.                                      *)
Inspect(a) ==
    /\ pc[a] = "inspect"
    /\ \/ /\ accepted[task[a]] > 0
          /\ found' = [found EXCEPT ![a] = 1]
          /\ GoTo(a, "reconcile")
       \/ /\ accepted[task[a]] = 0
          /\ GoTo(a, "post")
          /\ UNCHANGED found
    /\ UNCHANGED <<database, provider, locks, task, batch, answer, faultsLeft>>

(* An inspection that fails is never followed by a blind POST.              *)
InspectFails(a) ==
    /\ pc[a] = "inspect"
    /\ Fault
    /\ GoTo(a, "recordFailure")
    /\ UNCHANGED <<database, provider, locks, task, found, batch, answer>>

PostAccepted(a) ==
    /\ pc[a] = "post"
    /\ accepted' = [accepted EXCEPT ![task[a]] = @ + 1]
    /\ found' = [found EXCEPT ![a] = accepted[task[a]] + 1]
    /\ GoTo(a, "recordDelivered")
    /\ UNCHANGED <<database, inFlight, locks, task, batch, answer, faultsLeft>>

(* Refused, timed out or cut: accepted or not, now or (SlowProvider) later.   *)
Abandoned(o) ==
    \/ UNCHANGED provider
    \/ accepted' = [accepted EXCEPT ![o] = @ + 1] /\ UNCHANGED inFlight
    \/ SlowProvider /\ inFlight' = [inFlight EXCEPT ![o] = @ + 1] /\ UNCHANGED accepted

PostUnanswered(a) ==
    /\ pc[a] = "post"
    /\ Fault
    /\ Abandoned(task[a])
    /\ GoTo(a, "recordFailure")
    /\ UNCHANGED <<database, locks, task, found, batch, answer>>

LateAccept(o) ==
    /\ inFlight[o] > 0
    /\ inFlight' = [inFlight EXCEPT ![o] = @ - 1]
    /\ accepted' = [accepted EXCEPT ![o] = @ + 1]
    /\ UNCHANGED <<database, locks, pc, task, found, batch, answer, faultsLeft>>

RecordReconciled(a) ==
    /\ pc[a] = "reconcile"
    /\ MarkDelivered(task[a], found[a], "RECONCILED")
    /\ EndAttempt(a, 200)
    /\ found' = [found EXCEPT ![a] = NULL]
    /\ UNCHANGED <<provider, locks, task, batch, faultsLeft>>

RecordDelivered(a) ==
    /\ pc[a] = "recordDelivered"
    /\ MarkDelivered(task[a], found[a], "DELIVERED")
    /\ EndAttempt(a, 200)
    /\ found' = [found EXCEPT ![a] = NULL]
    /\ UNCHANGED <<provider, locks, task, batch, faultsLeft>>

(* recordDelivered throws inside the try block (rolled back, or committed     *)
(* with its acknowledgement lost): the attempt is recorded as a failure.     *)
RecordDeliveredThrows(a) ==
    /\ pc[a] = "recordDelivered"
    /\ Fault
    /\ \/ UNCHANGED database
       \/ MarkDelivered(task[a], found[a], "DELIVERED")
    /\ found' = [found EXCEPT ![a] = NULL]
    /\ GoTo(a, "recordFailure")
    /\ UNCHANGED <<provider, locks, task, batch, answer>>

RecordFailure(a) ==
    /\ pc[a] = "recordFailure"
    /\ CountFailure(task[a])
    /\ EndAttempt(a, 502)
    /\ UNCHANGED <<provider, locks, task, found, batch, faultsLeft>>

-----------------------------------------------------------------------------
(* A statement throws where nothing catches it before the finally block:     *)
(* the dispatch answers 500, the worker gives up its pass.                  *)
Throws(a) ==
    /\ pc[a] \in {"begin", "check", "reconcile", "recordFailure"}
    /\ Fault
    /\ \/ UNCHANGED database
       \/ pc[a] = "begin" /\ Persist(task[a])
       \/ pc[a] = "reconcile" /\ MarkDelivered(task[a], found[a], "RECONCILED")
       \/ pc[a] = "recordFailure" /\ CountFailure(task[a])
    /\ EndAttempt(a, 500)
    /\ unlocking' = IF pc[a] = "begin" THEN unlocking \cup {a} ELSE unlocking
    /\ found' = [found EXCEPT ![a] = NULL]
    /\ batch' = IF a = Worker THEN {} ELSE batch
    /\ UNCHANGED <<provider, lock, task>>

(* The process of actor a dies: its session and the locks of it are gone.    *)
Crash(a) ==
    /\ pc[a] \notin {"idle", "done"}
    /\ Fault
    /\ \/ pc[a] = "post" /\ Abandoned(task[a])
       \/ UNCHANGED provider
    /\ lock' = [o \in Orders |-> IF lock[o] = a THEN NULL ELSE lock[o]]
    /\ unlocking' = unlocking \ {a}
    /\ GoTo(a, IF a = Worker THEN "idle" ELSE "done")
    /\ task' = IF a = Worker THEN [task EXCEPT ![a] = NULL] ELSE task
    /\ batch' = IF a = Worker THEN {} ELSE batch
    /\ found' = [found EXCEPT ![a] = NULL]
    /\ answer' = IF a = Worker THEN answer ELSE [answer EXCEPT ![a] = NULL]
    /\ UNCHANGED database

BackoffElapses(o) ==
    /\ record[o] # NULL /\ record[o].nextAttempt = "later"
    /\ record' = [record EXCEPT ![o].nextAttempt = "past"]
    /\ UNCHANGED <<history, provider, locks, pc, task, found, batch, answer, faultsLeft>>

Quiet ==
    /\ pc[Worker] = "idle"
    /\ \A d \in Dispatches : pc[d] = "done"
    /\ \A o \in Orders : /\ inFlight[o] = 0
                         /\ ~IsDue(o)
                         /\ record[o] # NULL => record[o].nextAttempt # "later"
    /\ UNCHANGED vars

AttemptStep(a) ==
    \/ Inspect(a) \/ InspectFails(a) \/ PostAccepted(a) \/ PostUnanswered(a)
    \/ RecordReconciled(a) \/ RecordDelivered(a) \/ RecordDeliveredThrows(a)
    \/ RecordFailure(a)

DispatchStep(d) == AcquireLock(d) \/ Begin(d) \/ Respond(d)

WorkerStep == ListDue \/ TakeNext \/ AcquireLock(Worker) \/ Check \/ Release

Next ==
    \/ \E a \in Actors : AttemptStep(a) \/ Throws(a) \/ Crash(a)
    \/ \E d \in Dispatches : DispatchStep(d) \/ Unlock(d)
    \/ WorkerStep
    \/ \E o \in Orders : LateAccept(o) \/ BackoffElapses(o)
    \/ Quiet

Spec == Init /\ [][Next]_vars

(* Handlers and the worker's loop go on, statements end, time passes. A      *)
(* lock that is wanted again and again is given in the end (PostgreSQL       *)
(* queues the waiters). Faults are finitely many: MaxFaults.                *)
Fairness ==
    /\ \A d \in Dispatches : /\ WF_vars(AttemptStep(d)) /\ WF_vars(Begin(d))
                             /\ WF_vars(Unlock(d))
    /\ WF_vars(AttemptStep(Worker))
    /\ WF_vars(ListDue \/ TakeNext \/ Check \/ Release)
    /\ SF_vars(AcquireLock(Worker))
    /\ \A o \in Orders : WF_vars(BackoffElapses(o))

FairSpec == Spec /\ Fairness

-----------------------------------------------------------------------------
TypeOK ==
    /\ record \in [Orders -> Record \cup {NULL}]
    /\ \A o \in Orders : \A i \in DOMAIN history[o] :
          history[o][i] \in [attempt : Nat, outcome : Outcomes]
    /\ accepted \in [Orders -> Nat]
    /\ inFlight \in [Orders -> Nat]
    /\ lock \in [Orders -> Actors \cup {NULL}]
    /\ unlocking \subseteq Dispatches
    /\ pc \in [Actors -> {"idle", "next", "lock", "begin", "check", "inspect", "post",
                         "reconcile", "recordDelivered", "recordFailure", "release",
                         "reply", "done"}]
    /\ task \in [Actors -> Orders \cup {NULL}]
    /\ found \in [Actors -> Nat \cup {NULL}]
    /\ batch \subseteq Orders
    /\ answer \in [Dispatches -> {NULL, 200, 500, 502}]
    /\ faultsLeft \in 0..MaxFaults

(* "attempts always equals the number of attempt rows", whatever overlaps:   *)
(* the rows are numbered 1, 2, ... and only the last one can be a success,   *)
(* which it is exactly when the notification is DELIVERED.                  *)
HistoryCounts ==
    \A o \in Orders :
        /\ history[o] # <<>> => record[o] # NULL
        /\ record[o] # NULL =>
              /\ Len(history[o]) = record[o].attempts
              /\ \A i \in DOMAIN history[o] :
                    /\ history[o][i].attempt = i
                    /\ history[o][i].outcome # "PROVIDER_FAILURE"
                          <=> (record[o].status = "DELIVERED" /\ i = Len(history[o]))

(* A 2xx answer, which turns the caller's outbox entry to DELIVERED, is only  *)
(* given for a notification that is and stays delivered.                    *)
AnswersTrue ==
    \A d \in Dispatches :
        answer[d] = 200 =>
            record[OrderOf[d]] # NULL /\ record[OrderOf[d]].status = "DELIVERED"

(* The service keeps the promise of module Confirmation: no delivery without  *)
(* a message at the provider, and no way back, although attempts overlap.    *)
Promise ==
    INSTANCE Confirmation WITH
        NoReceipt <- NULL,
        status <- [o \in Orders |-> IF record[o] = NULL THEN "NONE" ELSE record[o].status],
        messages <- accepted,
        receipt <- [o \in Orders |-> IF record[o] = NULL THEN NULL
                                     ELSE record[o].providerId]

KeepsPromise == Promise!Spec

(* Executions in which the attempts of one notification never overlap.       *)
Working(a) == pc[a] \notin {"idle", "next", "lock", "done"}
NoOverlap == \A a, b \in Actors : (Working(a) /\ Working(b) /\ task[a] = task[b]) => a = b

(* The provider is told about an order once, over lost answers, failed       *)
(* transactions and crashes: the reconcile-first rule of attemptDelivery.     *)
SingleMessage == \A o \in Orders : accepted[o] <= 1

(* "at most one provider call for a given notification can ever be in flight" *)
OneCallInFlight ==
    \A a, b \in Actors :
        (pc[a] = "post" /\ pc[b] = "post" /\ task[a] = task[b]) => a = b

(* "a crash cannot lose the notification": once recorded, it is delivered.   *)
EventuallyDelivered ==
    \A o \in Orders :
        record[o] # NULL ~> (record[o] # NULL /\ record[o].status = "DELIVERED")
=============================================================================
