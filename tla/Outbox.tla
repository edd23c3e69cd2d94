------------------------------- MODULE Outbox -------------------------------
(***************************************************************************)
(* The durable confirmation intent of shopflow-orders: handlers that have    *)
(* just confirmed an order and the background loop dispatch the same outbox  *)
(* entries to shopflow-notifications, of which module Confirmation says what  *)
(* it promises. One action is one await.                                    *)
(***************************************************************************)
EXTENDS Integers

CONSTANTS
    Orders,
    Handlers,     \* requests that dispatch inline, at the end of their saga
    OrderOf,      \* the order a handler dispatches
    Loop,         \* the outbox-dispatch loop
    MaxFaults,    \* bound of the model: calls that fail, handlers and loops that stop
    NULL

Actors == Handlers \cup {Loop}

(* A row of notification_outbox; nextAttempt tells whether it is due.        *)
Entry == [state : {"PENDING", "DELIVERED"}, attempts : Nat, nextAttempt : {"past", "later"}]

ASSUME OutboxAssumption ==
    /\ Loop \notin Handlers
    /\ OrderOf \in [Handlers -> Orders]
    /\ MaxFaults \in Nat
    /\ NULL \notin Entry \cup Orders \cup Nat \cup BOOLEAN

VARIABLES
    status, messages, receipt,   \* shopflow-notifications, see Confirmation
    entry,       \* notification_outbox, by order
    pc, task,    \* per actor: what it does next, the order it dispatches
    seen,        \* per actor: attempts of the entry as the actor read it
    batch,       \* orders of the due entries the loop has listed
    told,        \* per handler: what it reports about the confirmation
    late,        \* orders with a call that its caller gave up and that may still arrive
    faultsLeft

serviceVars == <<status, messages, receipt>>
vars == <<serviceVars, entry, pc, task, seen, batch, told, late, faultsLeft>>

Service == INSTANCE Confirmation WITH NoReceipt <- NULL

Init ==
    /\ Service!Init
    /\ entry = [o \in Orders |-> NULL]
    /\ pc = [a \in Actors |-> IF a = Loop THEN "idle" ELSE "start"]
    /\ task = [a \in Actors |-> IF a = Loop THEN NULL ELSE OrderOf[a]]
    /\ seen = [a \in Actors |-> 0]
    /\ batch = {}
    /\ told = [h \in Handlers |-> NULL]
    /\ late = {}
    /\ faultsLeft = MaxFaults

Fault == faultsLeft > 0 /\ faultsLeft' = faultsLeft - 1

GoTo(a, label) == pc' = [pc EXCEPT ![a] = label]

(* dispatchOrderConfirmation returns: the loop goes on to its next entry.    *)
Return(a, delivered) ==
    /\ GoTo(a, IF a = Loop THEN "next" ELSE "done")
    /\ told' = IF a = Loop THEN told ELSE [told EXCEPT ![a] = delivered]

-----------------------------------------------------------------------------
(* The order transaction of the saga writes the entry (insertOutboxEntry);   *)
(* a handler that repeats the saga finds it there.                          *)
CommitOrder(h) ==
    /\ pc[h] = "start"
    /\ entry' = IF entry[task[h]] # NULL THEN entry
                ELSE [entry EXCEPT ![task[h]] =
                        [state |-> "PENDING", attempts |-> 0, nextAttempt |-> "past"]]
    /\ GoTo(h, "find")
    /\ UNCHANGED <<serviceVars, task, seen, batch, told, late, faultsLeft>>

Find(a) ==
    /\ pc[a] = "find"
    /\ \/ /\ entry[task[a]] # NULL /\ entry[task[a]].state = "PENDING"
          /\ seen' = [seen EXCEPT ![a] = entry[task[a]].attempts]
          /\ GoTo(a, "call")
          /\ UNCHANGED told
       \/ /\ entry[task[a]] = NULL \/ entry[task[a]].state = "DELIVERED"
          /\ Return(a, TRUE)
          /\ UNCHANGED seen
    /\ UNCHANGED <<serviceVars, entry, task, batch, late, faultsLeft>>

(* The call reaches the service; what the service does with it afterwards it *)
(* does whether or not the caller still waits.                              *)
Receive(a) ==
    /\ pc[a] = "call"
    /\ Service!Register(task[a])
    /\ UNCHANGED <<entry, pc, task, seen, batch, told, late, faultsLeft>>

(* A call that its caller gave up reaches the service.                       *)
ArriveLate(o) ==
    /\ o \in late
    /\ late' = late \ {o}
    /\ Service!Register(o) \/ (status[o] # "NONE" /\ UNCHANGED serviceVars)
    /\ UNCHANGED <<entry, pc, task, seen, batch, told, faultsLeft>>

(* The service delivers what it has registered: one message to the provider  *)
(* that it names, in this instance.                                         *)
Serve(o) ==
    /\ \/ messages[o] = 0 /\ Service!Accept(o)
       \/ Service!Deliver(o)
    /\ UNCHANGED <<entry, pc, task, seen, batch, told, late, faultsLeft>>

(* Fault: every answer counts, a 502 as well.                               *)
AnsweredAnyStatus(a) ==
    /\ pc[a] = "call"
    /\ status[task[a]] # "NONE"
    /\ GoTo(a, "recordDelivered")
    /\ UNCHANGED <<serviceVars, entry, task, seen, batch, told, late, faultsLeft>>

(* A 2xx answer: the service has delivered the confirmation.                 *)
Answered(a) ==
    /\ pc[a] = "call"
    /\ status[task[a]] = "DELIVERED"
    /\ GoTo(a, "recordDelivered")
    /\ UNCHANGED <<serviceVars, entry, task, seen, batch, told, late, faultsLeft>>

(* Any other answer, a timeout or a broken connection.                       *)
NotAnswered(a) ==
    /\ pc[a] = "call"
    /\ Fault
    /\ late' \in {late, late \cup {task[a]}}
    /\ GoTo(a, "recordFailure")
    /\ UNCHANGED <<serviceVars, entry, task, seen, batch, told>>

RecordDelivered(a) ==
    /\ pc[a] = "recordDelivered"
    /\ entry' = [entry EXCEPT ![task[a]].state = "DELIVERED",
                              ![task[a]].attempts = seen[a] + 1]
    /\ Return(a, TRUE)
    /\ UNCHANGED <<serviceVars, task, seen, batch, late, faultsLeft>>

(* PENDING is written, whatever another dispatch wrote in the meantime.      *)
RecordFailure(a) ==
    /\ pc[a] = "recordFailure"
    /\ entry' = [entry EXCEPT ![task[a]] =
                    [state |-> "PENDING", attempts |-> seen[a] + 1, nextAttempt |-> "later"]]
    /\ Return(a, FALSE)
    /\ UNCHANGED <<serviceVars, task, seen, batch, late, faultsLeft>>

-----------------------------------------------------------------------------
(* Fault: only entries that were never tried are due.                        *)
IsDueUntried(o) ==
    /\ entry[o] # NULL
    /\ entry[o].state = "PENDING" /\ entry[o].attempts = 0

(* listDueOutboxEntries; the batch of the model holds every due entry.       *)
IsDue(o) ==
    /\ entry[o] # NULL
    /\ entry[o].state = "PENDING" /\ entry[o].nextAttempt = "past"

ListDue ==
    /\ pc[Loop] = "idle"
    /\ batch' = {o \in Orders : IsDue(o)}
    /\ batch' # {}
    /\ GoTo(Loop, "next")
    /\ UNCHANGED <<serviceVars, entry, task, seen, told, late, faultsLeft>>

TakeNext ==
    /\ pc[Loop] = "next"
    /\ \/ \E o \in batch :
             /\ task' = [task EXCEPT ![Loop] = o]
             /\ batch' = batch \ {o}
             /\ GoTo(Loop, "find")
       \/ /\ batch = {}
          /\ GoTo(Loop, "idle")
          /\ UNCHANGED <<task, batch>>
    /\ UNCHANGED <<serviceVars, entry, seen, told, late, faultsLeft>>

(* A statement throws or the process dies. A handler ends; the loop catches   *)
(* the exception and goes on with its batch, or starts anew without one.     *)
Stops(a) ==
    /\ pc[a] \in {"find", "call", "recordDelivered", "recordFailure"}
    /\ Fault
    /\ \/ GoTo(a, IF a = Loop THEN "next" ELSE "done") /\ UNCHANGED batch
       \/ a = Loop /\ GoTo(Loop, "idle") /\ batch' = {}
    /\ late' \in IF pc[a] = "call" THEN {late, late \cup {task[a]}} ELSE {late}
    /\ UNCHANGED <<serviceVars, entry, task, seen, told>>

BackoffElapses(o) ==
    /\ entry[o] # NULL /\ entry[o].state = "PENDING" /\ entry[o].nextAttempt = "later"
    /\ entry' = [entry EXCEPT ![o].nextAttempt = "past"]
    /\ UNCHANGED <<serviceVars, pc, task, seen, batch, told, late, faultsLeft>>

Quiet ==
    /\ pc[Loop] = "idle"
    /\ \A h \in Handlers : pc[h] = "done"
    /\ \A o \in Orders : entry[o] # NULL => entry[o].state = "DELIVERED"
    /\ UNCHANGED vars

ActorStep(a) ==
    \/ Find(a) \/ Receive(a) \/ Answered(a) \/ NotAnswered(a)
    \/ RecordDelivered(a) \/ RecordFailure(a)

Next ==
    \/ \E a \in Actors : ActorStep(a) \/ Stops(a)
    \/ \E h \in Handlers : CommitOrder(h)
    \/ \E o \in Orders : Serve(o) \/ ArriveLate(o) \/ BackoffElapses(o)
    \/ ListDue \/ TakeNext
    \/ Quiet

Spec == Init /\ [][Next]_vars

(* The loop goes on, time passes and the service keeps working on what it     *)
(* registered (NotificationDelivery!EventuallyDelivered). Faults are         *)
(* finitely many: MaxFaults. A handler may stop anywhere without a trace,    *)
(* but a call that it waits for ends, by its timeout at the latest.          *)
Fairness ==
    /\ WF_vars(ListDue \/ TakeNext)
    /\ WF_vars(ActorStep(Loop))
    /\ \A o \in Orders : WF_vars(Serve(o)) /\ WF_vars(BackoffElapses(o))

FairSpec == Spec /\ Fairness

-----------------------------------------------------------------------------
TypeOK ==
    /\ entry \in [Orders -> Entry \cup {NULL}]
    /\ pc \in [Actors -> {"start", "find", "call", "recordDelivered", "recordFailure",
                         "idle", "next", "done"}]
    /\ task \in [Actors -> Orders \cup {NULL}]
    /\ seen \in [Actors -> Nat]
    /\ batch \subseteq Orders
    /\ late \subseteq Orders
    /\ told \in [Handlers -> BOOLEAN \cup {NULL}]
    /\ faultsLeft \in 0..MaxFaults

(* An entry is closed, and a client hears that its confirmation went out,     *)
(* only if shopflow-notifications has delivered it: "marked DELIVERED only   *)
(* after a 2xx answer", however handlers and loop overwrite one another.     *)
ClosedIsConfirmed ==
    /\ \A o \in Orders :
          (entry[o] # NULL /\ entry[o].state = "DELIVERED") => status[o] = "DELIVERED"
    /\ \A h \in Handlers : told[h] = TRUE => status[OrderOf[h]] = "DELIVERED"

(* "a committed order can never lose its confirmation": it is delivered.      *)
NeverLost == \A o \in Orders : entry[o] # NULL ~> status[o] = "DELIVERED"

(* Every entry is closed for good in the end, even one that an overtaken     *)
(* dispatch has reopened.                                                   *)
Settles ==
    \A o \in Orders :
        entry[o] # NULL ~> [](entry[o] # NULL /\ entry[o].state = "DELIVERED")
=============================================================================
