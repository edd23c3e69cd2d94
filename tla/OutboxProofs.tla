---------------------------- MODULE OutboxProofs ----------------------------
(* An outbox entry is closed only by an answer that confirms it, for every     *)
(* number of orders, of handlers that share one, and of faults.              *)
EXTENDS Outbox, TLAPS

Dispatching == {"find", "call", "recordDelivered", "recordFailure"}

StatusOK == status \in [Orders -> {"NONE", "PENDING", "DELIVERED"}]

(* Who dispatches has an order in hand.                                      *)
TasksSet ==
    /\ \A h \in Handlers : task[h] = OrderOf[h]
    /\ \A a \in Actors : pc[a] \in Dispatching \cup {"start"} => task[a] \in Orders

(* The entry of that order exists: its transaction precedes the inline         *)
(* dispatch, the loop takes its orders from the table, and rows stay. So the  *)
(* TRUE that a dispatch without an entry would return is never returned.      *)
EntriesFound ==
    /\ \A a \in Actors : pc[a] \in Dispatching => entry[task[a]] # NULL
    /\ \A o \in batch : entry[o] # NULL

(* The answer that an actor is about to record is still true: the service     *)
(* never takes a delivery back, however long the actor waits.                *)
AnswersEarned == \A a \in Actors : pc[a] = "recordDelivered" => status[task[a]] = "DELIVERED"

IInv == TypeOK /\ StatusOK /\ TasksSet /\ EntriesFound /\ AnswersEarned /\ ClosedIsConfirmed

LEMMA EntryIsNotNull == \A e \in Entry : e # NULL
BY OutboxAssumption

(* The service may do anything it does.                                      *)
ServiceSteps ==
    /\ status' \in [Orders -> {"NONE", "PENDING", "DELIVERED"}]
    /\ \A o \in Orders : status[o] = "DELIVERED" => status'[o] = "DELIVERED"

LEMMA RegisterSteps ==
    ASSUME StatusOK, NEW o \in Orders, Service!Register(o) PROVE ServiceSteps
BY DEF StatusOK, ServiceSteps, Service!Register

LEMMA ServeSteps ==
    ASSUME StatusOK, NEW o \in Orders, Service!Accept(o) \/ Service!Deliver(o) PROVE ServiceSteps
BY DEF StatusOK, ServiceSteps, Service!Accept, Service!Deliver

(* Nothing but the service, or the record of calls and faults, changes.      *)
LEMMA ServiceKeepsIInv ==
    ASSUME IInv, ServiceSteps, UNCHANGED <<entry, pc, task, seen, batch, told>>,
           late' \subseteq Orders, faultsLeft' \in 0..MaxFaults
    PROVE IInv'
<1>1. TypeOK' /\ StatusOK' /\ TasksSet' /\ EntriesFound'
  BY DEF IInv, TypeOK, StatusOK, ServiceSteps, TasksSet, EntriesFound
<1>2. AnswersEarned' /\ ClosedIsConfirmed'
  BY OutboxAssumption
     DEF IInv, AnswersEarned, ClosedIsConfirmed, ServiceSteps, TasksSet, Dispatching
<1> QED
  BY <1>1, <1>2 DEF IInv

LEMMA InitIInv == Init => IInv
<1> SUFFICES ASSUME Init PROVE IInv
  OBVIOUS
<1> USE OutboxAssumption
<1>1. TypeOK
  BY DEF Init, TypeOK, Actors
<1>2. StatusOK /\ TasksSet /\ EntriesFound /\ AnswersEarned
  BY DEF Init, Service!Init, StatusOK, TasksSet, EntriesFound, AnswersEarned, Dispatching, Actors
<1>3. ClosedIsConfirmed
  BY DEF Init, ClosedIsConfirmed
<1> QED
  BY <1>1, <1>2, <1>3 DEF IInv

(* CommitOrder and the loop's own steps.                                     *)
LEMMA CommitOrderIInv == ASSUME IInv, NEW h \in Handlers, CommitOrder(h) PROVE IInv'
<1> USE OutboxAssumption, EntryIsNotNull
<1> DEFINE new == [state |-> "PENDING", attempts |-> 0, nextAttempt |-> "past"]
<1>1. task[h] \in Orders /\ h \in Actors /\ new \in Entry
  BY DEF IInv, TasksSet, CommitOrder, Actors, Entry, Dispatching
<1>2. TypeOK'
  BY <1>1 DEF IInv, TypeOK, CommitOrder, GoTo
<1>3. /\ \A o \in Orders : entry'[o] = entry[o] \/ entry'[o] = new
      /\ \A a \in Actors : pc'[a] = IF a = h THEN "find" ELSE pc[a]
  BY <1>1 DEF IInv, TypeOK, CommitOrder, GoTo
<1>4. entry'[task[h]] # NULL
  BY <1>1 DEF IInv, TypeOK, CommitOrder
<1>5. StatusOK' /\ TasksSet' /\ EntriesFound' /\ AnswersEarned'
  BY <1>1, <1>3, <1>4
     DEF IInv, TypeOK, StatusOK, TasksSet, EntriesFound, AnswersEarned, Dispatching, CommitOrder,
         serviceVars
<1>6. ClosedIsConfirmed'
  BY <1>3 DEF IInv, ClosedIsConfirmed, CommitOrder, serviceVars
<1> QED
  BY <1>2, <1>5, <1>6 DEF IInv

LEMMA LoopIInv == ASSUME IInv, ListDue \/ TakeNext PROVE IInv'
<1> USE OutboxAssumption DEF Actors, IInv, ListDue, TakeNext, GoTo, serviceVars
<1>1. TypeOK'
  BY DEF TypeOK
<1>2. \A a \in Actors : a # Loop => pc'[a] = pc[a] /\ task'[a] = task[a]
  BY DEF TypeOK
<1>3. pc'[Loop] \in {"next", "idle"} \/ (pc'[Loop] = "find" /\ task'[Loop] \in batch)
  BY DEF TypeOK
<1>4. batch \subseteq Orders /\ \A o \in batch' : entry[o] # NULL
  BY DEF TypeOK, EntriesFound, IsDue
<1>5. StatusOK' /\ TasksSet' /\ EntriesFound' /\ AnswersEarned'
  BY <1>2, <1>3, <1>4 DEF StatusOK, TasksSet, EntriesFound, AnswersEarned, Dispatching
<1>6. ClosedIsConfirmed'
  BY DEF ClosedIsConfirmed
<1> QED
  BY <1>1, <1>5, <1>6

(* What a dispatch does by itself. Return gives its verdict to a handler only. *)
LEMMA FindIInv == ASSUME IInv, NEW a \in Actors, Find(a) PROVE IInv'
<1> USE OutboxAssumption, EntryIsNotNull DEF Find
<1>1. task[a] \in Orders
  BY DEF IInv, TasksSet, Dispatching
<1>2. entry[task[a]] # NULL
  BY DEF IInv, EntriesFound, Dispatching
<1>3. CASE entry[task[a]] # NULL /\ entry[task[a]].state = "PENDING"
           /\ seen' = [seen EXCEPT ![a] = entry[task[a]].attempts]
           /\ GoTo(a, "call") /\ UNCHANGED told
  <2>1. entry[task[a]].attempts \in Nat
    BY <1>1, <1>3 DEF IInv, TypeOK, Entry
  <2>2. TypeOK'
    BY <1>1, <1>3, <2>1 DEF IInv, TypeOK, GoTo
  <2>3. \A b \in Actors : pc'[b] = IF b = a THEN "call" ELSE pc[b]
    BY <1>3 DEF IInv, TypeOK, GoTo
  <2>4. StatusOK' /\ TasksSet' /\ EntriesFound' /\ AnswersEarned'
    BY <1>1, <1>3, <2>3
       DEF IInv, StatusOK, TasksSet, EntriesFound, AnswersEarned, Dispatching, serviceVars
  <2>5. ClosedIsConfirmed'
    BY <1>3 DEF IInv, ClosedIsConfirmed, serviceVars
  <2> QED
    BY <2>2, <2>4, <2>5 DEF IInv
<1>4. CASE (entry[task[a]] = NULL \/ entry[task[a]].state = "DELIVERED")
           /\ Return(a, TRUE) /\ UNCHANGED seen
  <2>1. TypeOK'
    BY <1>1, <1>4 DEF IInv, TypeOK, Return, GoTo, Actors
  <2>2. \A b \in Actors : pc'[b] \in IF b = a THEN {"next", "done"} ELSE {pc[b]}
    BY <1>4 DEF IInv, TypeOK, Return, GoTo
  <2>3. StatusOK' /\ TasksSet' /\ EntriesFound' /\ AnswersEarned'
    BY <1>1, <1>4, <2>2
       DEF IInv, StatusOK, TasksSet, EntriesFound, AnswersEarned, Dispatching, serviceVars
  <2>4. status[task[a]] = "DELIVERED"
    BY <1>1, <1>4, <1>2 DEF IInv, ClosedIsConfirmed
  <2>5. ClosedIsConfirmed'
    BY <1>4, <2>4 DEF IInv, TypeOK, TasksSet, ClosedIsConfirmed, Return, serviceVars, Actors
  <2> QED
    BY <2>1, <2>3, <2>5 DEF IInv
<1> QED
  BY <1>3, <1>4

(* The answer of a call, or that there is none.                              *)
LEMMA CallIInv == ASSUME IInv, NEW a \in Actors, Answered(a) \/ NotAnswered(a) PROVE IInv'
<1> USE OutboxAssumption DEF Answered, NotAnswered, Fault, serviceVars
<1>1. task[a] \in Orders /\ entry[task[a]] # NULL
  BY DEF IInv, TasksSet, EntriesFound, Dispatching
<1>2. TypeOK'
  BY <1>1 DEF IInv, TypeOK, GoTo
<1>3. \A b \in Actors :
          \/ pc'[b] = pc[b]
          \/ b = a /\ pc'[b] = "recordFailure"
          \/ b = a /\ pc'[b] = "recordDelivered" /\ status[task[b]] = "DELIVERED"
  <2>1. pc \in [Actors -> {"start", "find", "call", "recordDelivered", "recordFailure",
                           "idle", "next", "done"}]
    BY DEF IInv, TypeOK
  <2>2. CASE Answered(a)
    BY <2>1, <2>2 DEF GoTo
  <2>3. CASE NotAnswered(a)
    BY <2>1, <2>3 DEF GoTo
  <2> QED
    BY <2>2, <2>3
<1>4. StatusOK' /\ TasksSet' /\ EntriesFound' /\ AnswersEarned'
  BY <1>1, <1>3 DEF IInv, StatusOK, TasksSet, EntriesFound, AnswersEarned, Dispatching
<1>5. ClosedIsConfirmed'
  BY DEF IInv, ClosedIsConfirmed
<1> QED
  BY <1>2, <1>4, <1>5 DEF IInv

(* The two writes of an entry. One that another dispatch has closed may be     *)
(* opened again, one that is closed was answered.                            *)
LEMMA RecordIInv ==
    ASSUME IInv, NEW a \in Actors, RecordDelivered(a) \/ RecordFailure(a) PROVE IInv'
<1> USE OutboxAssumption, EntryIsNotNull DEF RecordDelivered, RecordFailure, serviceVars
<1>1. task[a] \in Orders /\ entry[task[a]] \in Entry /\ seen[a] + 1 \in Nat
  <2>1. pc[a] \in Dispatching
    BY DEF Dispatching
  <2>2. task[a] \in Orders /\ entry[task[a]] # NULL
    BY <2>1 DEF IInv, TasksSet, EntriesFound
  <2> QED
    BY <2>2 DEF IInv, TypeOK
<1>2. /\ entry' \in [Orders -> Entry \cup {NULL}]
      /\ \A o \in Orders : o # task[a] => entry'[o] = entry[o]
      /\ entry'[task[a]] \in Entry
      /\ entry'[task[a]].state = "DELIVERED" => pc[a] = "recordDelivered"
  <2>1. entry \in [Orders -> Entry \cup {NULL}]
    BY DEF IInv, TypeOK
  <2>2. CASE RecordDelivered(a)
    <3> DEFINE new == [entry[task[a]] EXCEPT !.state = "DELIVERED", !.attempts = seen[a] + 1]
    <3>1. new \in Entry /\ pc[a] = "recordDelivered"
      BY <1>1, <2>2 DEF Entry
    <3>2. entry' = [entry EXCEPT ![task[a]] = new]
      BY <1>1, <2>1, <2>2 DEF Entry
    <3> HIDE DEF new, RecordDelivered, RecordFailure
    <3> QED
      BY <1>1, <2>1, <3>1, <3>2
  <2>3. CASE RecordFailure(a)
    <3> DEFINE new == [state |-> "PENDING", attempts |-> seen[a] + 1, nextAttempt |-> "later"]
    <3>1. new \in Entry /\ new.state # "DELIVERED"
      BY <1>1 DEF Entry
    <3>2. entry' = [entry EXCEPT ![task[a]] = new]
      BY <2>3
    <3> HIDE DEF new, RecordDelivered, RecordFailure
    <3> QED
      BY <1>1, <2>1, <3>1, <3>2
  <2> QED
    BY <2>2, <2>3
<1>3. TypeOK'
  <2>1. pc' \in [Actors -> {"start", "find", "call", "recordDelivered", "recordFailure",
                            "idle", "next", "done"}]
    BY DEF IInv, TypeOK, Return, GoTo
  <2>2. told' \in [Handlers -> BOOLEAN \cup {NULL}]
    <3>1. told \in [Handlers -> BOOLEAN \cup {NULL}]
      BY DEF IInv, TypeOK
    <3>2. told' = told \/ (a \in Handlers /\ \E b \in BOOLEAN : told' = [told EXCEPT ![a] = b])
      BY DEF Return, Actors
    <3> HIDE DEF RecordDelivered, RecordFailure
    <3> QED
      BY <3>1, <3>2
  <2>3. UNCHANGED <<task, seen, batch, late, faultsLeft>>
    OBVIOUS
  <2> HIDE DEF RecordDelivered, RecordFailure
  <2> QED
    BY <1>2, <2>1, <2>2, <2>3 DEF IInv, TypeOK
<1>4. \A b \in Actors : pc'[b] \in IF b = a THEN {"next", "done"} ELSE {pc[b]}
  BY DEF IInv, TypeOK, Return, GoTo
<1>5. StatusOK' /\ TasksSet' /\ EntriesFound' /\ AnswersEarned'
  BY <1>1, <1>2, <1>4
     DEF IInv, TypeOK, StatusOK, TasksSet, EntriesFound, AnswersEarned, Dispatching
<1>6. pc[a] = "recordDelivered" => status[task[a]] = "DELIVERED"
  BY DEF IInv, AnswersEarned
<1>7. ClosedIsConfirmed'
  <2>1. \A o \in Orders : (entry'[o] # NULL /\ entry'[o].state = "DELIVERED")
                              => status'[o] = "DELIVERED"
    BY <1>1, <1>2, <1>6 DEF IInv, TypeOK, ClosedIsConfirmed
  <2>2. \A h \in Handlers : told'[h] = TRUE => status'[OrderOf[h]] = "DELIVERED"
    BY <1>6 DEF IInv, TypeOK, TasksSet, ClosedIsConfirmed, Return
  <2> QED
    BY <2>1, <2>2 DEF ClosedIsConfirmed
<1> QED
  BY <1>3, <1>5, <1>7 DEF IInv

(* An exception or a crash takes the actor out, without a verdict.            *)
LEMMA StopsIInv == ASSUME IInv, NEW a \in Actors, Stops(a) PROVE IInv'
<1> USE OutboxAssumption DEF Stops, Fault, serviceVars
<1>1. task[a] \in Orders
  BY DEF IInv, TasksSet, Dispatching
<1>2. TypeOK'
  BY <1>1 DEF IInv, TypeOK, GoTo
<1>3. \A b \in Actors : pc'[b] \in IF b = a THEN {"next", "done", "idle"} ELSE {pc[b]}
  BY DEF IInv, TypeOK, GoTo
<1>4. StatusOK' /\ TasksSet' /\ EntriesFound' /\ AnswersEarned'
  BY <1>3 DEF IInv, StatusOK, TasksSet, EntriesFound, AnswersEarned, Dispatching
<1>5. ClosedIsConfirmed'
  BY DEF IInv, ClosedIsConfirmed
<1> QED
  BY <1>2, <1>4, <1>5 DEF IInv

LEMMA BackoffIInv == ASSUME IInv, NEW o \in Orders, BackoffElapses(o) PROVE IInv'
<1> USE OutboxAssumption, EntryIsNotNull DEF BackoffElapses, serviceVars
<1>1. /\ entry' \in [Orders -> Entry \cup {NULL}]
      /\ \A p \in Orders : p # o => entry'[p] = entry[p]
      /\ entry'[o] \in Entry /\ entry'[o].state = "PENDING"
  <2> DEFINE new == [entry[o] EXCEPT !.nextAttempt = "past"]
  <2>1. entry \in [Orders -> Entry \cup {NULL}] /\ entry[o] \in Entry
    BY DEF IInv, TypeOK
  <2>2. new \in Entry /\ new.state = "PENDING"
    BY <2>1 DEF Entry
  <2>3. entry' = [entry EXCEPT ![o] = new]
    BY <2>1
  <2> HIDE DEF new
  <2> QED
    BY <2>1, <2>2, <2>3
<1>2. TypeOK'
  BY <1>1 DEF IInv, TypeOK
<1>3. StatusOK' /\ TasksSet' /\ EntriesFound' /\ AnswersEarned'
  BY <1>1
     DEF IInv, TypeOK, StatusOK, TasksSet, EntriesFound, AnswersEarned, Dispatching
<1>4. ClosedIsConfirmed'
  BY <1>1 DEF IInv, TypeOK, ClosedIsConfirmed
<1> QED
  BY <1>2, <1>3, <1>4 DEF IInv

(* What reaches the service, in time or late, and what it does then.          *)
LEMMA ServiceIInv ==
    ASSUME IInv, (\E a \in Actors : Receive(a)) \/ (\E o \in Orders : Serve(o) \/ ArriveLate(o))
    PROVE IInv'
<1> USE DEF serviceVars
<1>1. late \subseteq Orders /\ faultsLeft \in 0..MaxFaults /\ StatusOK
  BY DEF IInv, TypeOK
<1>2. CASE \E a \in Actors : Receive(a)
  <2>1. PICK a \in Actors : Receive(a)
    BY <1>2
  <2>2. task[a] \in Orders
    BY <2>1 DEF Receive, IInv, TasksSet, Dispatching
  <2> QED
    BY <1>1, <2>1, <2>2, RegisterSteps, ServiceKeepsIInv DEF Receive
<1>3. CASE \E o \in Orders : Serve(o)
  BY <1>1, <1>3, ServeSteps, ServiceKeepsIInv DEF Serve
<1>4. CASE \E o \in Orders : ArriveLate(o)
  <2>1. PICK o \in Orders : ArriveLate(o)
    BY <1>4
  <2>2. ServiceSteps
    BY <1>1, <2>1, RegisterSteps DEF ArriveLate, ServiceSteps, StatusOK
  <2> QED
    BY <1>1, <2>1, <2>2, ServiceKeepsIInv DEF ArriveLate
<1> QED
  BY <1>2, <1>3, <1>4

LEMMA StepIInv == IInv /\ [Next]_vars => IInv'
<1> SUFFICES ASSUME IInv, [Next]_vars PROVE IInv'
  OBVIOUS
<1>1. CASE \E a \in Actors : Find(a)
  BY <1>1, FindIInv
<1>2. CASE \E a \in Actors : Answered(a) \/ NotAnswered(a)
  BY <1>2, CallIInv
<1>3. CASE \E a \in Actors : RecordDelivered(a) \/ RecordFailure(a)
  BY <1>3, RecordIInv
<1>4. CASE \E a \in Actors : Stops(a)
  BY <1>4, StopsIInv
<1>5. CASE \E h \in Handlers : CommitOrder(h)
  BY <1>5, CommitOrderIInv
<1>6. CASE \E o \in Orders : BackoffElapses(o)
  BY <1>6, BackoffIInv
<1>7. CASE (\E a \in Actors : Receive(a)) \/ (\E o \in Orders : Serve(o) \/ ArriveLate(o))
  BY <1>7, ServiceIInv
<1>8. CASE ListDue \/ TakeNext
  BY <1>8, LoopIInv
<1>9. CASE UNCHANGED vars
  BY <1>9 DEF vars, serviceVars, IInv, TypeOK, StatusOK, TasksSet, EntriesFound, AnswersEarned,
              ClosedIsConfirmed
<1> QED
  BY <1>1, <1>2, <1>3, <1>4, <1>5, <1>6, <1>7, <1>8, <1>9 DEF Next, ActorStep, Quiet

(* OutboxDispatcher: an entry is closed, and a client told so, only after the  *)
(* service has delivered, however many dispatches overwrite one another.     *)
THEOREM ClosedOnlyWhenConfirmed == Spec => []ClosedIsConfirmed
<1>1. IInv => ClosedIsConfirmed
  BY DEF IInv
<1> QED
  BY <1>1, InitIInv, StepIInv, PTL DEF Spec

(* Entries, dispatches and the loop's list keep their types for every number of *)
(* orders, handlers and faults.                                              *)
THEOREM TypeCorrect == Spec => []TypeOK
<1>1. IInv => TypeOK
  BY DEF IInv
<1> QED
  BY <1>1, InitIInv, StepIInv, PTL DEF Spec

(* No dispatch ever comes to an entry that is not there, which it would report  *)
(* as delivered: the order's transaction comes first, and rows are kept.      *)
THEOREM DispatchesFindTheirEntry == Spec => []EntriesFound
<1>1. IInv => EntriesFound
  BY DEF IInv
<1> QED
  BY <1>1, InitIInv, StepIInv, PTL DEF Spec

-----------------------------------------------------------------------------
(* Entries that are opened again.                                            *)

Closed(o) == entry[o] # NULL /\ entry[o].state = "DELIVERED"

(* The dispatches that have read the entry of o as PENDING and not written it. *)
Underway(o) == {a \in Actors : pc[a] \in {"call", "recordFailure"} /\ task[a] = o}

(* An entry that was closed is opened by a dispatch that it has overtaken, one *)
(* time for each of them: none joins them while it is closed.                 *)
ReopeningsRunOut ==
    [][\A o \in Orders : Closed(o) =>
          /\ Underway(o)' \subseteq Underway(o)
          /\ Closed(o)' \/ Underway(o)' # Underway(o)]_vars

(* The steps that change nothing but the place of the one actor a.            *)
LEMMA MovesUnderway ==
    ASSUME IInv, NEW a \in Actors, \A b \in Actors : b # a => pc'[b] = pc[b] /\ task'[b] = task[b],
           NEW o \in Orders, a \in Underway(o)' => a \in Underway(o)
    PROVE  Underway(o)' \subseteq Underway(o)
BY DEF Underway

(* Why Settles can hold although RecordFailure overwrites whatever it finds:   *)
(* the supply of dispatches that can open a closed entry only shrinks.        *)
THEOREM ReopeningsAreUsedUp == Spec => ReopeningsRunOut
<1> DEFINE RunsOut(o) ==
        /\ Underway(o)' \subseteq Underway(o)
        /\ Closed(o)' \/ Underway(o)' # Underway(o)
<1>1. ASSUME IInv, [Next]_vars, NEW o \in Orders, Closed(o) PROVE RunsOut(o)
  <2>1. /\ pc \in [Actors -> {"start", "find", "call", "recordDelivered", "recordFailure",
                              "idle", "next", "done"}]
        /\ task \in [Actors -> Orders \cup {NULL}] /\ Loop \in Actors
        /\ entry \in [Orders -> Entry \cup {NULL}] /\ entry[o] \in Entry
        /\ Handlers \subseteq Actors
    BY <1>1 DEF IInv, TypeOK, Closed, Actors
  <2>2. ASSUME NEW a \in Actors, RecordFailure(a) PROVE RunsOut(o)
    <3>1. \A b \in Actors : b # a => pc'[b] = pc[b] /\ task'[b] = task[b]
      BY <2>1, <2>2 DEF RecordFailure, Return, GoTo
    <3>2. a \notin Underway(o)'
      BY <2>1, <2>2 DEF RecordFailure, Return, GoTo, Underway
    <3>3. CASE task[a] = o
      BY <1>1, <2>2, <3>1, <3>2, <3>3, MovesUnderway DEF RecordFailure, Underway
    <3>4. CASE task[a] # o
      <4>1. entry'[o] = entry[o]
        BY <2>1, <2>2, <3>4 DEF RecordFailure
      <4> QED
        BY <1>1, <3>1, <3>2, <4>1, MovesUnderway DEF Closed
    <3> QED
      BY <3>3, <3>4
  <2>3. ASSUME NEW a \in Actors, Find(a) PROVE RunsOut(o)
    <3>1. \A b \in Actors : b # a => pc'[b] = pc[b] /\ task'[b] = task[b]
      BY <2>1, <2>3 DEF Find, Return, GoTo
    <3>2. a \notin Underway(o)'
      <4>1. CASE task[a] = o
        BY <1>1, <2>1, <2>3, <4>1 DEF Find, Return, GoTo, Underway, Closed, Entry
      <4>2. CASE task[a] # o
        BY <2>3, <4>2 DEF Find, Underway
      <4> QED
        BY <4>1, <4>2
    <3> QED
      BY <1>1, <2>3, <3>1, <3>2, MovesUnderway DEF Find, Closed
  <2>4. ASSUME NEW a \in Actors, RecordDelivered(a) PROVE RunsOut(o)
    <3>1. \A b \in Actors : b # a => pc'[b] = pc[b] /\ task'[b] = task[b]
      BY <2>1, <2>4 DEF RecordDelivered, Return, GoTo
    <3>2. a \notin Underway(o)'
      BY <2>1, <2>4 DEF RecordDelivered, Return, GoTo, Underway
    <3>3. Closed(o)'
      <4>1. CASE task[a] # o
        <5>1. entry'[o] = entry[o]
          BY <2>1, <2>4, <4>1 DEF RecordDelivered
        <5> QED
          BY <1>1, <5>1 DEF Closed
      <4>2. CASE task[a] = o
        <5> DEFINE new == [entry[o] EXCEPT !.state = "DELIVERED", !.attempts = seen[a] + 1]
        <5>1. seen[a] + 1 \in Nat
          BY <1>1 DEF IInv, TypeOK
        <5>2. new \in Entry /\ new.state = "DELIVERED"
          BY <2>1, <5>1 DEF Entry
        <5>3. entry' = [entry EXCEPT ![o] = new]
          BY <2>1, <2>4, <4>2 DEF RecordDelivered
        <5> HIDE DEF new
        <5> QED
          BY <2>1, <5>2, <5>3, EntryIsNotNull DEF Closed
      <4> QED
        BY <4>1, <4>2
    <3> QED
      BY <1>1, <3>1, <3>2, <3>3, MovesUnderway
  <2>5. ASSUME NEW a \in Actors, Answered(a) \/ NotAnswered(a) \/ Stops(a) PROVE RunsOut(o)
    <3>1. /\ \A b \in Actors : b # a => pc'[b] = pc[b]
          /\ UNCHANGED <<task, entry>> /\ pc[a] # "start"
      BY <2>1, <2>5 DEF Answered, NotAnswered, Stops, GoTo
    <3>2. a \in Underway(o)' => a \in Underway(o)
      BY <2>1, <2>5 DEF Answered, NotAnswered, Stops, GoTo, Underway
    <3> QED
      BY <1>1, <3>1, <3>2, MovesUnderway DEF Closed
  <2>6. ASSUME NEW h \in Handlers, CommitOrder(h) PROVE RunsOut(o)
    <3>1. \A b \in Actors : b # h => pc'[b] = pc[b] /\ task'[b] = task[b]
      BY <2>1, <2>6 DEF CommitOrder, GoTo
    <3>2. h \notin Underway(o)' /\ entry'[o] = entry[o]
      BY <1>1, <2>1, <2>6 DEF CommitOrder, GoTo, Underway, Closed
    <3> QED
      BY <1>1, <2>1, <3>1, <3>2, MovesUnderway DEF Closed
  <2>7. CASE ListDue \/ TakeNext
    <3>1. \A b \in Actors : b # Loop => pc'[b] = pc[b] /\ task'[b] = task[b]
      BY <2>1, <2>7 DEF ListDue, TakeNext, GoTo
    <3>2. Loop \notin Underway(o)' /\ UNCHANGED entry
      BY <2>1, <2>7 DEF ListDue, TakeNext, GoTo, Underway
    <3> QED
      BY <1>1, <2>1, <3>1, <3>2, MovesUnderway DEF Closed
  <2>8. ASSUME NEW p \in Orders, BackoffElapses(p) PROVE RunsOut(o)
    <3>1. p # o /\ UNCHANGED <<pc, task>>
      BY <1>1, <2>8 DEF BackoffElapses, Closed
    <3>2. entry'[o] = entry[o]
      BY <2>1, <2>8, <3>1 DEF BackoffElapses
    <3> QED
      BY <1>1, <3>1, <3>2 DEF Closed, Underway
  <2>9. CASE UNCHANGED <<entry, pc, task>>
    BY <1>1, <2>9 DEF Closed, Underway
  <2> QED
    BY <1>1, <2>2, <2>3, <2>4, <2>5, <2>6, <2>7, <2>8, <2>9
       DEF Next, ActorStep, Receive, Serve, ArriveLate, Quiet, vars
<1>2. IInv /\ [Next]_vars =>
        [\A o \in Orders : Closed(o) =>
          /\ Underway(o)' \subseteq Underway(o)
          /\ Closed(o)' \/ Underway(o)' # Underway(o)]_vars
  BY <1>1
<1> QED
  BY <1>2, InitIInv, StepIInv, PTL DEF Spec, ReopeningsRunOut

-----------------------------------------------------------------------------
(* The service.                                                              *)

(* Handlers, loop, late calls and crashes use shopflow-notifications as its    *)
(* promise allows, repeated and reordered calls included: what the entries     *)
(* are proved to show is of a Confirmation, which NotificationDelivery is      *)
(* proved to implement.                                                      *)
THEOREM UsesConfirmation == Spec => Service!Spec
<1>1. Init => Service!Init
  BY DEF Init
<1>2. IInv /\ [Next]_vars => [Service!Next]_(Service!confirmationVars)
  <2> SUFFICES ASSUME IInv, [Next]_vars PROVE [Service!Next]_(Service!confirmationVars)
    OBVIOUS
  <2>1. ASSUME NEW a \in Actors, Receive(a) PROVE Service!Next
    <3>1. task[a] \in Orders
      BY <2>1 DEF Receive, IInv, TasksSet, Dispatching
    <3> QED
      BY <2>1, <3>1 DEF Receive, Service!Next
  <2>2. ASSUME NEW o \in Orders, Serve(o) PROVE Service!Next
    BY <2>2 DEF Serve, Service!Next
  <2>3. ASSUME NEW o \in Orders, ArriveLate(o)
        PROVE  Service!Next \/ UNCHANGED Service!confirmationVars
    BY <2>3 DEF ArriveLate, serviceVars, Service!Next, Service!confirmationVars
  <2>4. CASE UNCHANGED serviceVars
    BY <2>4 DEF serviceVars, Service!confirmationVars
  <2> QED
    BY <2>1, <2>2, <2>3, <2>4
       DEF Next, ActorStep, Find, Answered, NotAnswered, RecordDelivered, RecordFailure, Stops,
           CommitOrder, BackoffElapses, ListDue, TakeNext, Quiet, vars
<1> QED
  BY <1>1, <1>2, InitIInv, StepIInv, PTL DEF Spec, Service!Spec
=============================================================================
