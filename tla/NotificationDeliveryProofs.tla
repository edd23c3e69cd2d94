--------------------- MODULE NotificationDeliveryProofs ---------------------
(* What the records, the answers and the promise of shopflow-notifications     *)
(* are worth although the attempts of one notification overlap.              *)
EXTENDS NotificationDelivery, TLAPS

Attempting == {"inspect", "post", "reconcile", "recordDelivered", "recordFailure"}

Delivered(o) == record[o] # NULL /\ record[o].status = "DELIVERED"

(* What an actor may rely on. Its notification is not locked: everything here  *)
(* has to survive the steps of others.                                       *)
ActorTrue(a) ==
    /\ a \in Dispatches => task[a] = OrderOf[a]
    /\ pc[a] \notin {"idle", "next"} => task[a] \in Orders
    /\ a = Worker => pc[a] # "begin"
    /\ pc[a] \in Attempting => record[task[a]] # NULL
    /\ pc[a] \in {"reconcile", "recordDelivered"} => found[a] \in 1..accepted[task[a]]

(* The provider hears of an order after its intent is recorded.              *)
IntentFirst == \A o \in Orders : record[o] = NULL => accepted[o] = 0 /\ inFlight[o] = 0

Row == [attempt : Nat, outcome : Outcomes]

HistoryTyped == history \in [Orders -> Seq(Row)]

(* HistoryCounts and AnswersTrue are not inductive: an attempt that finds its  *)
(* record would have to write without one, or for an order of another.       *)
IInv ==
    /\ TypeOK /\ HistoryTyped
    /\ IntentFirst /\ HistoryCounts /\ AnswersTrue
    /\ \A a \in Actors : ActorTrue(a)

-----------------------------------------------------------------------------
(* The rows of the database.                                                 *)

LEMMA NoRecordIsNull ==
    /\ \A r \in Record : r # NULL
    /\ NULL \notin Nat /\ NULL # "later" /\ NULL # "past"
    /\ NULL \notin Orders \cup Actors
BY DeliveryAssumption

LEMMA RecordFields ==
    ASSUME NEW r \in Record
    PROVE  /\ r.attempts \in Nat
           /\ r.status \in {"PENDING", "DELIVERED"}
           /\ r.status = "PENDING" => /\ r.nextAttempt \in {NULL, "later", "past"}
                                      /\ r.providerId = NULL
           /\ r.status = "DELIVERED" => r.nextAttempt = NULL /\ r.providerId \in Nat \ {0}
BY DEF Record

LEMMA PendingRecord ==
    ASSUME NEW n \in Nat, NEW at \in {NULL, "later", "past"}
    PROVE  [status |-> "PENDING", attempts |-> n, nextAttempt |-> at, providerId |-> NULL]
              \in Record
BY DEF Record

LEMMA RecordAfterFailure ==
    ASSUME NEW r, NEW n, NEW at,
           r = [status |-> "PENDING", attempts |-> n, nextAttempt |-> at, providerId |-> NULL]
    PROVE  [r EXCEPT !.attempts = @ + 1, !.nextAttempt = "later"]
              = [status |-> "PENDING", attempts |-> n + 1, nextAttempt |-> "later",
                 providerId |-> NULL]
<1> DEFINE r1 == [r EXCEPT !.attempts = @ + 1]
<1>1. r1 = [status |-> "PENDING", attempts |-> n + 1, nextAttempt |-> at, providerId |-> NULL]
  OBVIOUS
<1>2. [r EXCEPT !.attempts = @ + 1, !.nextAttempt = "later"] = [r1 EXCEPT !.nextAttempt = "later"]
  OBVIOUS
<1> HIDE DEF r1
<1>3. [r1 EXCEPT !.nextAttempt = "later"]
         = [status |-> "PENDING", attempts |-> n + 1, nextAttempt |-> "later",
            providerId |-> NULL]
  BY <1>1
<1> QED
  BY <1>2, <1>3

LEMMA DeliveredRecord ==
    ASSUME NEW n \in Nat, NEW id \in Nat \ {0}
    PROVE  [status |-> "DELIVERED", attempts |-> n, nextAttempt |-> NULL, providerId |-> id]
              \in Record
BY DEF Record

(* HistoryCounts of one notification.                                        *)
Counts(r, h) ==
    /\ h # <<>> => r # NULL
    /\ r # NULL =>
          /\ Len(h) = r.attempts
          /\ \A i \in DOMAIN h :
                /\ h[i].attempt = i
                /\ h[i].outcome # "PROVIDER_FAILURE" <=> (r.status = "DELIVERED" /\ i = Len(h))

(* One more attempt of a PENDING notification: a success ends the row of them.*)
LEMMA CountsOneMore ==
    ASSUME NEW r \in Record, r.status = "PENDING", NEW h \in Seq(Row), Counts(r, h),
           NEW new \in Record, new.attempts = r.attempts + 1,
           NEW outcome \in Outcomes,
           new.status = "DELIVERED" <=> outcome # "PROVIDER_FAILURE"
    PROVE  /\ Append(h, [attempt |-> r.attempts + 1, outcome |-> outcome]) \in Seq(Row)
           /\ Counts(new, Append(h, [attempt |-> r.attempts + 1, outcome |-> outcome]))
<1> DEFINE row == [attempt |-> r.attempts + 1, outcome |-> outcome]
           all == Append(h, row)
<1>1. r.attempts \in Nat /\ r # NULL /\ new # NULL
  BY RecordFields, NoRecordIsNull
<1>2. row \in Row /\ row.attempt = r.attempts + 1 /\ row.outcome = outcome
  BY <1>1 DEF Row
<1>3. Len(h) = r.attempts /\ Len(h) \in Nat /\ DOMAIN h = 1..Len(h)
  BY <1>1 DEF Counts
<1> HIDE DEF row
<1>4. /\ all \in Seq(Row) /\ Len(all) = Len(h) + 1 /\ DOMAIN all = 1..(Len(h) + 1)
      /\ \A i \in 1..Len(h) : all[i] = h[i]
      /\ all[Len(h) + 1] = row
  BY <1>2, <1>3
<1> HIDE DEF all
<1>5. ASSUME NEW i \in 1..Len(h)
      PROVE  /\ all[i].attempt = i
             /\ all[i].outcome = "PROVIDER_FAILURE" /\ i # Len(all)
  <2>1. h[i].attempt = i /\ h[i].outcome = "PROVIDER_FAILURE"
    BY <1>1, <1>3 DEF Counts
  <2> QED
    BY <1>3, <1>4, <2>1
<1>6. \A i \in DOMAIN all : i = Len(h) + 1 \/ i \in 1..Len(h)
  BY <1>3, <1>4
<1>7. Counts(new, all)
  <2>1. Len(all) = new.attempts
    BY <1>3, <1>4
  <2>2. ASSUME NEW i \in DOMAIN all
        PROVE /\ all[i].attempt = i
              /\ all[i].outcome # "PROVIDER_FAILURE"
                    <=> (new.status = "DELIVERED" /\ i = Len(all))
    <3>1. CASE i = Len(h) + 1
      <4>1. all[i] = row /\ i = Len(all) /\ i = r.attempts + 1
        BY <1>3, <1>4, <3>1
      <4> QED
        BY <1>2, <4>1
    <3>2. CASE i \in 1..Len(h)
      BY <1>5, <3>2
    <3> QED
      BY <1>6, <3>1, <3>2
  <2> QED
    BY <1>1, <2>1, <2>2 DEF Counts
<1> QED
  BY <1>4, <1>7 DEF all, row

(* What a step may do to the database.                                       *)
DbStep ==
    /\ record' \in [Orders -> Record \cup {NULL}]
    /\ HistoryTyped' /\ HistoryCounts'
    /\ \A o \in Orders : /\ record[o] # NULL => record'[o] # NULL
                         /\ Delivered(o) => Delivered(o)'

DbOK == record \in [Orders -> Record \cup {NULL}] /\ HistoryTyped /\ HistoryCounts

LEMMA HistoryCountsAll == HistoryCounts <=> \A o \in Orders : Counts(record[o], history[o])
BY DEF HistoryCounts, Counts

LEMMA NoDbStep == ASSUME DbOK, UNCHANGED database PROVE DbStep
BY DEF DbOK, DbStep, database, HistoryTyped, HistoryCounts, Delivered

(* A step writes the rows of one notification.                               *)
LEMMA RowStep ==
    ASSUME DbOK, NEW o \in Orders, NEW new \in Record, NEW h \in Seq(Row), Counts(new, h),
           record' = [record EXCEPT ![o] = new], history' = [history EXCEPT ![o] = h],
           Delivered(o) => new.status = "DELIVERED"
    PROVE  DbStep /\ record'[o] = new /\ \A x \in Orders : x # o => record'[x] = record[x]
<1>1. /\ record'[o] = new /\ history'[o] = h /\ new # NULL
      /\ \A x \in Orders : x # o => record'[x] = record[x] /\ history'[x] = history[x]
  BY NoRecordIsNull DEF DbOK, HistoryTyped
<1>2. record' \in [Orders -> Record \cup {NULL}] /\ HistoryTyped'
  BY DEF DbOK, HistoryTyped
<1>3. \A x \in Orders : Counts(record[x], history[x])
  BY HistoryCountsAll DEF DbOK
<1>4. \A x \in Orders : Counts(record'[x], history'[x])
  <2> SUFFICES ASSUME NEW x \in Orders PROVE Counts(record'[x], history'[x])
    OBVIOUS
  <2>1. CASE x = o
    BY <1>1, <2>1
  <2>2. CASE x # o
    BY <1>1, <1>3, <2>2
  <2> QED
    BY <2>1, <2>2
<1>5. HistoryCounts'
  BY <1>4 DEF HistoryCounts, Counts
<1>6. \A x \in Orders : /\ record[x] # NULL => record'[x] # NULL
                        /\ Delivered(x) => Delivered(x)'
  BY <1>1 DEF Delivered
<1> QED
  BY <1>1, <1>2, <1>5, <1>6 DEF DbStep

LEMMA MarkDeliveredStep ==
    ASSUME DbOK, NEW o \in Orders, record[o] # NULL, NEW id \in Nat \ {0},
           NEW outcome \in {"DELIVERED", "RECONCILED"}, MarkDelivered(o, id, outcome)
    PROVE  /\ DbStep /\ Delivered(o)'
           /\ \A x \in Orders : x # o => record'[x] = record[x]
           /\ record[o].status = "PENDING" => record'[o].providerId = id
           /\ record[o].status # "PENDING" => record' = record
<1>1. record[o] \in Record /\ record[o].attempts \in Nat
  BY RecordFields DEF DbOK
<1>2. CASE record[o].status = "PENDING"
  <2> DEFINE new == [status |-> "DELIVERED", attempts |-> record[o].attempts + 1,
                     nextAttempt |-> NULL, providerId |-> id]
             h == Append(history[o], [attempt |-> record[o].attempts + 1, outcome |-> outcome])
  <2>1. new \in Record /\ new.attempts = record[o].attempts + 1 /\ new.status = "DELIVERED"
        /\ new.providerId = id
    BY <1>1, DeliveredRecord
  <2>2. record' = [record EXCEPT ![o] = new] /\ history' = [history EXCEPT ![o] = h]
    BY <1>2 DEF MarkDelivered
  <2>3. history[o] \in Seq(Row) /\ Counts(record[o], history[o]) /\ outcome \in Outcomes
    BY HistoryCountsAll DEF DbOK, HistoryTyped, Outcomes
  <2>4. h \in Seq(Row) /\ Counts(new, h)
    <3> HIDE DEF new
    <3> QED
      BY <1>1, <1>2, <2>1, <2>3, CountsOneMore
  <2> HIDE DEF new, h
  <2>5. DbStep /\ record'[o] = new /\ \A x \in Orders : x # o => record'[x] = record[x]
    BY <2>1, <2>2, <2>4, RowStep
  <2> QED
    BY <1>2, <2>1, <2>5, NoRecordIsNull DEF Delivered
<1>3. CASE record[o].status # "PENDING"
  <2>1. UNCHANGED database
    BY <1>3 DEF MarkDelivered
  <2>2. record[o].status = "DELIVERED"
    BY <1>1, <1>3, RecordFields
  <2> QED
    BY <1>3, <2>1, <2>2, NoDbStep DEF Delivered, database
<1> QED
  BY <1>2, <1>3

LEMMA CountFailureStep ==
    ASSUME DbOK, NEW o \in Orders, record[o] # NULL, CountFailure(o)
    PROVE  /\ DbStep
           /\ \A x \in Orders : record[x] # NULL => /\ record'[x] # NULL
                                                    /\ record'[x].status = record[x].status
                                                    /\ record'[x].providerId = record[x].providerId
           /\ \A x \in Orders : record[x] = NULL => record'[x] = NULL
<1>1. record[o] \in Record /\ record[o].attempts \in Nat
  BY RecordFields DEF DbOK
<1>2. CASE record[o].status = "PENDING"
  <2> DEFINE new == [record[o] EXCEPT !.attempts = @ + 1, !.nextAttempt = "later"]
             h == Append(history[o], [attempt |-> record[o].attempts + 1,
                                      outcome |-> "PROVIDER_FAILURE"])
  <2> DEFINE n == record[o].attempts + 1
             failed == [status |-> "PENDING", attempts |-> n, nextAttempt |-> "later",
                        providerId |-> NULL]
  <2>1. new = failed /\ record[o].providerId = NULL
    <3> DEFINE r == record[o]
    <3>1. r = [status |-> "PENDING", attempts |-> r.attempts, nextAttempt |-> r.nextAttempt,
               providerId |-> NULL]
      BY <1>1, <1>2 DEF Record
    <3>2. r.providerId = NULL
      BY <3>1
    <3> HIDE DEF r
    <3>3. new = failed
      BY <3>1, RecordAfterFailure DEF r
    <3> QED
      BY <3>2, <3>3 DEF r
  <2>2. /\ new \in Record /\ new.attempts = n /\ new.status = "PENDING"
        /\ new.providerId = NULL
    <3>1. n \in Nat
      BY <1>1
    <3> HIDE DEF new, n
    <3>2. failed \in Record
      BY <3>1, PendingRecord
    <3> QED
      BY <2>1, <3>2
  <2>3. record' = [record EXCEPT ![o] = new] /\ history' = [history EXCEPT ![o] = h]
    BY <1>2 DEF CountFailure, DbOK
  <2>4. history[o] \in Seq(Row) /\ Counts(record[o], history[o])
        /\ "PROVIDER_FAILURE" \in Outcomes
    BY HistoryCountsAll DEF DbOK, HistoryTyped, Outcomes
  <2>5. h \in Seq(Row) /\ Counts(new, h)
    <3> HIDE DEF new
    <3> QED
      BY <1>1, <1>2, <2>2, <2>4, CountsOneMore
  <2> HIDE DEF new, h
  <2>6. DbStep /\ record'[o] = new /\ \A x \in Orders : x # o => record'[x] = record[x]
    BY <1>2, <2>2, <2>3, <2>5, RowStep DEF Delivered
  <2> QED
    BY <1>2, <2>1, <2>2, <2>6, NoRecordIsNull
<1>3. CASE record[o].status # "PENDING"
  BY <1>3, NoDbStep DEF CountFailure, database
<1> QED
  BY <1>2, <1>3

LEMMA PersistStep ==
    ASSUME DbOK, NEW o \in Orders, Persist(o)
    PROVE  /\ DbStep /\ record'[o] # NULL
           /\ \A x \in Orders : x # o => record'[x] = record[x]
           /\ record[o] # NULL => record' = record
           /\ record[o] = NULL => record'[o].status = "PENDING" /\ record'[o].providerId = NULL
<1>1. CASE record[o] # NULL
  BY <1>1, NoDbStep DEF Persist, database
<1>2. CASE record[o] = NULL
  <2> DEFINE new == [status |-> "PENDING", attempts |-> 0, nextAttempt |-> NULL,
                     providerId |-> NULL]
  <2>1. new \in Record /\ new.attempts = 0 /\ new.status = "PENDING" /\ new.providerId = NULL
    BY PendingRecord
  <2>2. record' = [record EXCEPT ![o] = new] /\ history' = history
    BY <1>2 DEF Persist
  <2> HIDE DEF new
  <2>3. history[o] = <<>> /\ history' = [history EXCEPT ![o] = <<>>] /\ <<>> \in Seq(Row)
    BY <1>2, <2>2, HistoryCountsAll DEF DbOK, HistoryTyped, Counts
  <2>4. Counts(new, <<>>)
    BY <2>1 DEF Counts
  <2>5. DbStep /\ record'[o] = new /\ \A x \in Orders : x # o => record'[x] = record[x]
    BY <1>2, <2>1, <2>2, <2>3, <2>4, RowStep DEF Delivered
  <2> QED
    BY <1>2, <2>1, <2>5, NoRecordIsNull
<1> QED
  BY <1>1, <1>2

LEMMA BackoffStep ==
    ASSUME DbOK, NEW o \in Orders, BackoffElapses(o)
    PROVE  /\ DbStep
           /\ \A x \in Orders : record[x] # NULL => /\ record'[x] # NULL
                                                    /\ record'[x].status = record[x].status
                                                    /\ record'[x].providerId = record[x].providerId
           /\ \A x \in Orders : record[x] = NULL => record'[x] = NULL
<1> DEFINE new == [record[o] EXCEPT !.nextAttempt = "past"]
<1>1. /\ record[o] \in Record /\ record[o].attempts \in Nat /\ record[o].nextAttempt = "later"
      /\ record[o] # NULL
  BY RecordFields DEF DbOK, BackoffElapses
<1>2. record[o].status = "PENDING" /\ record[o].providerId = NULL
  BY <1>1, RecordFields, NoRecordIsNull
<1>3. new = [status |-> "PENDING", attempts |-> record[o].attempts, nextAttempt |-> "past",
             providerId |-> NULL]
  BY <1>1, <1>2 DEF Record
<1>4. /\ new \in Record /\ new.attempts = record[o].attempts /\ new.status = "PENDING"
      /\ new.providerId = NULL
  BY <1>1, <1>3, PendingRecord
<1>5. record' = [record EXCEPT ![o] = new] /\ history' = [history EXCEPT ![o] = history[o]]
  BY DEF BackoffElapses, DbOK, HistoryTyped
<1> HIDE DEF new
<1>6. history[o] \in Seq(Row) /\ Counts(record[o], history[o])
  BY HistoryCountsAll DEF DbOK, HistoryTyped
<1>7. Counts(new, history[o])
  BY <1>1, <1>2, <1>4, <1>6, NoRecordIsNull DEF Counts
<1>8. DbStep /\ record'[o] = new /\ \A x \in Orders : x # o => record'[x] = record[x]
  BY <1>2, <1>4, <1>5, <1>6, <1>7, RowStep DEF Delivered
<1> QED
  BY <1>1, <1>2, <1>4, <1>8, NoRecordIsNull

-----------------------------------------------------------------------------
(* The parts of a step.                                                      *)

Labels == {"idle", "next", "lock", "begin", "check", "inspect", "post", "reconcile",
           "recordDelivered", "recordFailure", "release", "reply", "done"}

(* The provider never forgets, and hears only of recorded intents.           *)
ProviderStep ==
    /\ accepted' \in [Orders -> Nat] /\ inFlight' \in [Orders -> Nat]
    /\ \A o \in Orders : /\ accepted'[o] >= accepted[o]
                         /\ record[o] = NULL => accepted'[o] = 0 /\ inFlight'[o] = 0

(* A step of actor a is not one of another.                                  *)
StepOfActor(a) ==
    /\ pc' \in [Actors -> Labels]
    /\ task' \in [Actors -> Orders \cup {NULL}]
    /\ found' \in [Actors -> Nat \cup {NULL}]
    /\ \A b \in Actors : b # a => pc'[b] = pc[b] /\ task'[b] = task[b] /\ found'[b] = found[b]

AnswerStep(a) ==
    /\ answer' \in [Dispatches -> {NULL, 200, 500, 502}]
    /\ \A d \in Dispatches : d # a => answer'[d] = answer[d]
    /\ a \in Dispatches /\ answer'[a] = 200 => Delivered(OrderOf[a])'

RestTyped ==
    /\ lock \in [Orders -> Actors \cup {NULL}]
    /\ unlocking \subseteq Dispatches
    /\ batch \subseteq Orders
    /\ faultsLeft \in 0..MaxFaults

LEMMA Parts ==
    ASSUME IInv
    PROVE  /\ DbOK /\ IntentFirst /\ RestTyped
           /\ accepted \in [Orders -> Nat] /\ inFlight \in [Orders -> Nat]
           /\ pc \in [Actors -> Labels]
           /\ task \in [Actors -> Orders \cup {NULL}]
           /\ found \in [Actors -> Nat \cup {NULL}]
           /\ answer \in [Dispatches -> {NULL, 200, 500, 502}]
           /\ \A a \in Actors : ActorTrue(a)
BY DEF IInv, TypeOK, DbOK, RestTyped, Labels

LEMMA DispatchOrders ==
    \A d \in Dispatches : OrderOf[d] \in Orders /\ d # Worker /\ d \in Actors
BY DeliveryAssumption DEF Actors

(* Nothing that others do disturbs an actor.                                 *)
LEMMA StaysTrue ==
    ASSUME IInv, DbStep, ProviderStep, NEW b \in Actors,
           pc'[b] = pc[b], task'[b] = task[b], found'[b] = found[b]
    PROVE  ActorTrue(b)'
<1>1. ActorTrue(b)
  BY DEF IInv
<1>2. pc[b] \notin {"idle", "next"} => task[b] \in Orders
  BY <1>1 DEF ActorTrue
<1>3. pc[b] \in Attempting => record'[task[b]] # NULL
  BY <1>1, <1>2 DEF ActorTrue, DbStep, Attempting
<1>4. ASSUME pc[b] \in {"reconcile", "recordDelivered"}
      PROVE  found[b] \in 1..accepted'[task[b]]
  <2>1. task[b] \in Orders /\ found[b] \in 1..accepted[task[b]]
    BY <1>1, <1>2, <1>4 DEF ActorTrue
  <2>2. /\ accepted[task[b]] \in Nat /\ accepted'[task[b]] \in Nat
        /\ accepted'[task[b]] >= accepted[task[b]]
    BY <2>1, Parts DEF ProviderStep
  <2> QED
    BY <2>1, <2>2
<1> QED
  BY <1>1, <1>2, <1>3, <1>4 DEF ActorTrue

LEMMA Together ==
    ASSUME IInv, NEW a \in Actors, DbStep, ProviderStep, StepOfActor(a), ActorTrue(a)',
           AnswerStep(a), RestTyped'
    PROVE  IInv'
<1>1. \A o \in Orders : record'[o] = NULL => record[o] = NULL
  BY DEF DbStep
<1>2. IntentFirst'
  BY <1>1 DEF IntentFirst, ProviderStep
<1>3. TypeOK'
  <2>1. \A o \in Orders : \A i \in DOMAIN history'[o] :
            history'[o][i] \in [attempt : Nat, outcome : Outcomes]
    <3>1. \A h \in Seq(Row) : \A i \in DOMAIN h : h[i] \in Row
      OBVIOUS
    <3>2. \A o \in Orders : history'[o] \in Seq(Row)
      BY DEF DbStep, HistoryTyped
    <3> QED
      BY <3>1, <3>2 DEF Row
  <2> QED
    BY <2>1 DEF TypeOK, DbStep, ProviderStep, StepOfActor, AnswerStep, RestTyped, Labels
<1>4. \A b \in Actors : b # a => ActorTrue(b)'
  BY StaysTrue DEF StepOfActor
<1>5. AnswersTrue'
  <2>1. ASSUME NEW d \in Dispatches, answer'[d] = 200 PROVE Delivered(OrderOf[d])'
    <3>1. CASE d = a
      BY <2>1, <3>1 DEF AnswerStep
    <3>2. CASE d # a
      <4>1. answer[d] = 200
        BY <2>1, <3>2 DEF AnswerStep
      <4>2. Delivered(OrderOf[d])
        BY <4>1 DEF IInv, AnswersTrue, Delivered
      <4> QED
        BY <4>2, DispatchOrders DEF DbStep
    <3> QED
      BY <3>1, <3>2
  <2> QED
    BY <2>1 DEF AnswersTrue, Delivered
<1> QED
  BY <1>2, <1>3, <1>4, <1>5 DEF IInv, DbStep

LEMMA GoToStep ==
    ASSUME IInv, NEW a \in Actors, NEW label \in Labels, GoTo(a, label), UNCHANGED <<task, found>>
    PROVE  StepOfActor(a) /\ pc'[a] = label
BY Parts DEF GoTo, StepOfActor

LEMMA SameProvider == ASSUME IInv, UNCHANGED provider PROVE ProviderStep
<1>1. /\ accepted \in [Orders -> Nat] /\ inFlight \in [Orders -> Nat] /\ IntentFirst
      /\ accepted' = accepted /\ inFlight' = inFlight
  BY Parts DEF provider
<1>2. \A o \in Orders : accepted[o] \in Nat
  BY <1>1
<1> QED
  BY <1>1, <1>2 DEF ProviderStep, IntentFirst

LEMMA SameAnswer == ASSUME IInv, NEW a \in Actors, UNCHANGED answer, DbStep PROVE AnswerStep(a)
<1>1. ASSUME a \in Dispatches, answer[a] = 200 PROVE Delivered(OrderOf[a])'
  <2>1. Delivered(OrderOf[a])
    BY <1>1 DEF IInv, AnswersTrue, Delivered
  <2> QED
    BY <1>1, <2>1, DispatchOrders DEF DbStep
<1> QED
  BY <1>1, Parts DEF AnswerStep

(* The answer of a dispatch whose attempt is over; 200 only if it succeeded.  *)
LEMMA EndAttemptStep ==
    ASSUME IInv, NEW a \in Actors, NEW status \in {200, 500, 502}, EndAttempt(a, status),
           a \in Dispatches /\ status = 200 => Delivered(OrderOf[a])', DbStep
    PROVE  AnswerStep(a) /\ pc' \in [Actors -> Labels] /\ pc'[a] \in {"release", "reply"}
           /\ \A b \in Actors : b # a => pc'[b] = pc[b]
<1>1. pc' \in [Actors -> Labels] /\ pc'[a] \in {"release", "reply"}
      /\ \A b \in Actors : b # a => pc'[b] = pc[b]
  BY Parts DEF EndAttempt, GoTo, Labels
<1>2. CASE a = Worker
  BY <1>1, <1>2, SameAnswer DEF EndAttempt
<1>3. CASE a # Worker
  <2>1. a \in Dispatches /\ answer' = [answer EXCEPT ![a] = status]
    BY <1>3 DEF EndAttempt, Actors
  <2> QED
    BY <1>1, <2>1, Parts DEF AnswerStep
<1> QED
  BY <1>1, <1>2, <1>3

(* A POST that was given up.                                                 *)
LEMMA AbandonedStep ==
    ASSUME IInv, NEW o \in Orders, record[o] # NULL, Abandoned(o)
    PROVE  ProviderStep
<1>1. accepted \in [Orders -> Nat] /\ inFlight \in [Orders -> Nat] /\ IntentFirst
  BY Parts
<1>2. accepted[o] \in Nat /\ inFlight[o] \in Nat
  BY <1>1
<1>3. CASE UNCHANGED provider
  BY <1>3, SameProvider
<1>4. CASE accepted' = [accepted EXCEPT ![o] = @ + 1] /\ UNCHANGED inFlight
  BY <1>1, <1>2, <1>4 DEF ProviderStep, IntentFirst
<1>5. CASE inFlight' = [inFlight EXCEPT ![o] = @ + 1] /\ UNCHANGED accepted
  BY <1>1, <1>2, <1>5 DEF ProviderStep, IntentFirst
<1> QED
  BY <1>3, <1>4, <1>5 DEF Abandoned

LEMMA SameRest ==
    ASSUME IInv, UNCHANGED <<lock, unlocking, batch>>,
           faultsLeft' = faultsLeft \/ Fault
    PROVE  RestTyped'
<1>1. RestTyped /\ faultsLeft \in Nat
  BY Parts, DeliveryAssumption DEF RestTyped
<1>2. faultsLeft' \in 0..MaxFaults
  BY <1>1, DeliveryAssumption DEF RestTyped, Fault
<1> QED
  BY <1>1, <1>2 DEF RestTyped

-----------------------------------------------------------------------------
(* The actions.                                                              *)

LEMMA NoDatabaseStep == ASSUME IInv, UNCHANGED database PROVE DbStep
BY Parts, NoDbStep

(* A step that leaves the database and the provider alone.                   *)
LEMMA QuietStep ==
    ASSUME IInv, NEW a \in Actors, NEW label \in Labels, UNCHANGED <<database, provider, found, answer>>,
           GoTo(a, label), task' \in [Actors -> Orders \cup {NULL}],
           \A b \in Actors : b # a => task'[b] = task[b],
           a \in Dispatches => task'[a] = task[a],
           label \notin {"idle", "next"} => task'[a] \in Orders,
           a = Worker => label # "begin",
           label \in Attempting => record[task'[a]] # NULL,
           label \notin {"reconcile", "recordDelivered"},
           RestTyped'
    PROVE  IInv'
<1>1. /\ DbStep /\ ProviderStep /\ AnswerStep(a)
      /\ UNCHANGED <<record, history, accepted, inFlight, found, answer>>
  BY NoDatabaseStep, SameProvider, SameAnswer DEF database, provider
<1>2. StepOfActor(a) /\ pc'[a] = label
  BY Parts, <1>1 DEF GoTo, StepOfActor
<1>3. ActorTrue(a)
  BY DEF IInv
<1>4. ActorTrue(a)'
  BY <1>1, <1>2, <1>3 DEF ActorTrue
<1> QED
  BY <1>1, <1>2, <1>4, Together

LEMMA LockStep ==
    ASSUME IInv, NEW a \in Actors, AcquireLock(a)
    PROVE  IInv'
<1> DEFINE label == IF a = Worker THEN "check" ELSE "begin"
<1>1. /\ pc[a] = "lock" /\ GoTo(a, label) /\ lock' = [lock EXCEPT ![task[a]] = a]
      /\ UNCHANGED <<database, provider, unlocking, task, found, batch, answer, faultsLeft>>
  BY DEF AcquireLock
<1>2. label \in Labels \ (Attempting \cup {"idle", "next"}) /\ (a = Worker => label # "begin")
  BY DEF Labels, Attempting
<1> HIDE DEF label
<1>3. task[a] \in Orders
  BY <1>1 DEF IInv, ActorTrue
<1>4. RestTyped'
  BY <1>1, Parts DEF RestTyped
<1>5. label \notin {"reconcile", "recordDelivered"}
  BY <1>2 DEF Attempting
<1> QED
  BY <1>1, <1>2, <1>3, <1>4, <1>5, Parts, QuietStep

LEMMA WorkerStepKeeps == ASSUME IInv, ListDue \/ TakeNext \/ Check \/ Release PROVE IInv'
<1>1. /\ Worker \in Actors /\ Worker \notin Dispatches /\ ActorTrue(Worker) /\ RestTyped
      /\ task \in [Actors -> Orders \cup {NULL}]
  BY Parts, DeliveryAssumption DEF Actors
<1>2. CASE ListDue
  <2>1. /\ GoTo(Worker, "next") /\ UNCHANGED <<database, provider, task, found, answer>>
        /\ UNCHANGED <<lock, unlocking, faultsLeft>> /\ batch' \subseteq Orders
    BY <1>2 DEF ListDue, locks
  <2>2. RestTyped' /\ "next" \in Labels /\ "next" \notin Attempting
    BY <1>1, <2>1 DEF RestTyped, Labels, Attempting
  <2> QED
    BY <1>1, <2>1, <2>2, QuietStep
<1>3. CASE TakeNext
  <2>1. UNCHANGED <<database, provider, found, answer>> /\ UNCHANGED <<lock, unlocking, faultsLeft>>
    BY <1>3 DEF TakeNext, locks
  <2>2. ASSUME NEW o \in batch, task' = [task EXCEPT ![Worker] = o], batch' = batch \ {o},
               GoTo(Worker, "lock")
        PROVE  IInv'
    <3>1. /\ task' \in [Actors -> Orders \cup {NULL}] /\ task'[Worker] \in Orders
          /\ \A b \in Actors : b # Worker => task'[b] = task[b]
      BY <1>1, <2>2 DEF RestTyped
    <3>2. RestTyped' /\ "lock" \in Labels /\ "lock" \notin Attempting
      BY <1>1, <2>1, <2>2 DEF RestTyped, Labels, Attempting
    <3> QED
      BY <1>1, <2>1, <2>2, <3>1, <3>2, QuietStep
  <2>3. CASE GoTo(Worker, "idle") /\ UNCHANGED <<task, batch>>
    <3>1. RestTyped' /\ "idle" \in Labels /\ "idle" \notin Attempting
      BY <1>1, <2>1, <2>3 DEF RestTyped, Labels, Attempting
    <3> QED
      BY <1>1, <2>1, <2>3, <3>1, QuietStep
  <2> QED
    BY <1>3, <2>2, <2>3 DEF TakeNext
<1>4. CASE Check
  <2> DEFINE label == IF IsDue(task[Worker]) THEN "inspect" ELSE "release"
  <2>1. /\ pc[Worker] = "check" /\ GoTo(Worker, label)
        /\ UNCHANGED <<database, provider, task, found, answer>>
        /\ UNCHANGED <<lock, unlocking, batch, faultsLeft>>
    BY <1>4 DEF Check, locks
  <2>2. task[Worker] \in Orders
    BY <1>1, <2>1 DEF ActorTrue
  <2>3. /\ label \in {"inspect", "release"}
        /\ label = "inspect" => record[task[Worker]] # NULL
    BY DEF IsDue
  <2> HIDE DEF label
  <2>4. /\ RestTyped' /\ label \in Labels
        /\ label \in Attempting => record[task[Worker]] # NULL
        /\ label \notin {"idle", "next", "begin", "reconcile", "recordDelivered"}
    BY <1>1, <2>1, <2>3 DEF RestTyped, Labels, Attempting
  <2> QED
    BY <1>1, <2>1, <2>2, <2>4, QuietStep
<1>5. CASE Release
  <2>1. /\ pc[Worker] = "release" /\ GoTo(Worker, "next")
        /\ lock' = [lock EXCEPT ![task[Worker]] = NULL]
        /\ task' = [task EXCEPT ![Worker] = NULL]
        /\ UNCHANGED <<database, provider, found, answer>>
        /\ UNCHANGED <<unlocking, batch, faultsLeft>>
    BY <1>5 DEF Release
  <2>2. /\ task' \in [Actors -> Orders \cup {NULL}]
        /\ \A b \in Actors : b # Worker => task'[b] = task[b]
    BY <1>1, <2>1
  <2>3. RestTyped' /\ "next" \in Labels /\ "next" \notin Attempting
    BY <1>1, <2>1 DEF RestTyped, Labels, Attempting
  <2> QED
    BY <1>1, <2>1, <2>2, <2>3, QuietStep
<1> QED
  BY <1>2, <1>3, <1>4, <1>5

LEMMA InspectStep == ASSUME IInv, NEW a \in Actors, Inspect(a) \/ InspectFails(a) PROVE IInv'
<1>1. /\ pc[a] = "inspect" /\ task[a] \in Orders /\ record[task[a]] # NULL /\ ActorTrue(a)
      /\ UNCHANGED <<database, provider, task, answer>> /\ UNCHANGED <<lock, unlocking, batch>>
  BY DEF IInv, ActorTrue, Inspect, InspectFails, Attempting, locks
<1>2. RestTyped' /\ task' \in [Actors -> Orders \cup {NULL}]
  <2>1. faultsLeft' = faultsLeft \/ Fault
    BY DEF Inspect, InspectFails
  <2> QED
    BY <1>1, <2>1, SameRest, Parts
<1>3. CASE UNCHANGED found /\ \E label \in {"post", "recordFailure"} : GoTo(a, label)
  <2>1. PICK label \in {"post", "recordFailure"} : GoTo(a, label)
    BY <1>3
  <2>2. label \in Labels /\ label \notin {"idle", "next", "begin", "reconcile", "recordDelivered"}
    BY DEF Labels
  <2> QED
    BY <1>1, <1>2, <1>3, <2>1, <2>2, QuietStep
<1>4. CASE accepted[task[a]] > 0 /\ found' = [found EXCEPT ![a] = 1] /\ GoTo(a, "reconcile")
  <2>1. accepted[task[a]] \in Nat /\ 1 \in 1..accepted[task[a]]
    BY <1>1, <1>4, Parts
  <2>2. StepOfActor(a) /\ pc'[a] = "reconcile" /\ found'[a] = 1
    BY <1>1, <1>4, Parts DEF GoTo, StepOfActor, Labels
  <2>3. ActorTrue(a)'
    BY <1>1, <2>1, <2>2 DEF ActorTrue, database, provider
  <2> QED
    BY <1>1, <1>2, <2>2, <2>3, NoDatabaseStep, SameProvider, SameAnswer, Together
<1> QED
  BY <1>3, <1>4 DEF Inspect, InspectFails

LEMMA PostStep == ASSUME IInv, NEW a \in Actors, PostAccepted(a) \/ PostUnanswered(a) PROVE IInv'
<1> DEFINE o == task[a]
<1>1. /\ pc[a] = "post" /\ o \in Orders /\ record[o] # NULL /\ ActorTrue(a)
      /\ UNCHANGED <<database, task, answer>> /\ UNCHANGED <<lock, unlocking, batch>>
  BY DEF IInv, ActorTrue, PostAccepted, PostUnanswered, Attempting, locks
<1>2. RestTyped'
  <2>1. faultsLeft' = faultsLeft \/ Fault
    BY DEF PostAccepted, PostUnanswered
  <2> QED
    BY <1>1, <2>1, SameRest
<1>3. DbStep /\ AnswerStep(a)
  BY <1>1, NoDatabaseStep, SameAnswer
<1>4. CASE PostAccepted(a)
  <2>1. /\ accepted' = [accepted EXCEPT ![o] = @ + 1] /\ UNCHANGED inFlight
        /\ found' = [found EXCEPT ![a] = accepted[o] + 1] /\ GoTo(a, "recordDelivered")
    BY <1>4 DEF PostAccepted
  <2>2. accepted \in [Orders -> Nat] /\ accepted[o] \in Nat
    BY <1>1, Parts
  <2>3. ProviderStep
    <3>1. Abandoned(o)
      BY <2>1 DEF Abandoned
    <3> QED
      BY <1>1, <3>1, AbandonedStep
  <2>4. /\ StepOfActor(a) /\ pc'[a] = "recordDelivered" /\ found'[a] = accepted[o] + 1
        /\ task' = task
    BY <1>1, <2>1, <2>2, Parts DEF GoTo, StepOfActor, Labels
  <2>5. accepted'[o] = accepted[o] + 1
    BY <1>1, <2>1, <2>2
  <2>6. accepted[o] + 1 \in 1..(accepted[o] + 1)
    BY <2>2
  <2>7. record' = record
    BY <1>1 DEF database
  <2>8. ActorTrue(a)'
    BY <1>1, <2>4, <2>5, <2>6, <2>7 DEF ActorTrue
  <2> QED
    BY <1>2, <1>3, <2>3, <2>4, <2>8, Together
<1>5. CASE PostUnanswered(a)
  <2>1. Abandoned(o) /\ GoTo(a, "recordFailure") /\ UNCHANGED found
    BY <1>5 DEF PostUnanswered, locks
  <2>2. ProviderStep
    BY <1>1, <2>1, AbandonedStep
  <2>3. "recordFailure" \in Labels
    BY DEF Labels
  <2>4. StepOfActor(a) /\ pc'[a] = "recordFailure"
    BY <1>1, <2>1, <2>3, GoToStep
  <2>5. ActorTrue(a)'
    BY <1>1, <2>4 DEF ActorTrue, database
  <2> QED
    BY <1>2, <1>3, <2>2, <2>4, <2>5, Together
<1> QED
  BY <1>4, <1>5

(* The end of an attempt, whatever it has written.                           *)
LEMMA AttemptEnds ==
    ASSUME IInv, NEW a \in Actors, NEW status \in {200, 500, 502}, EndAttempt(a, status),
           DbStep, UNCHANGED <<accepted, inFlight, task>>,
           found' \in [Actors -> Nat \cup {NULL}], \A b \in Actors : b # a => found'[b] = found[b],
           task[a] \in Orders, status = 200 => Delivered(task[a])', RestTyped'
    PROVE  IInv'
<1>1. ActorTrue(a) /\ ProviderStep
  BY SameProvider DEF IInv, provider
<1>2. a \in Dispatches => task[a] = OrderOf[a]
  BY <1>1 DEF ActorTrue
<1>3. a \in Dispatches /\ status = 200 => Delivered(OrderOf[a])'
  BY <1>2 DEF Delivered
<1>4. AnswerStep(a) /\ pc' \in [Actors -> Labels] /\ pc'[a] \in {"release", "reply"}
      /\ \A b \in Actors : b # a => pc'[b] = pc[b]
  BY <1>3, EndAttemptStep
<1>5. StepOfActor(a)
  BY <1>4, Parts DEF StepOfActor
<1>6. ActorTrue(a)'
  BY <1>1, <1>4 DEF ActorTrue, Attempting
<1> QED
  BY <1>1, <1>4, <1>5, <1>6, Together

(* The record id of an attempt is one of the provider's.                     *)
LEMMA FoundId ==
    ASSUME IInv, NEW a \in Actors, pc[a] \in {"reconcile", "recordDelivered"}
    PROVE  /\ task[a] \in Orders /\ record[task[a]] # NULL
           /\ found[a] \in 1..accepted[task[a]] /\ found[a] \in Nat \ {0}
<1>1. /\ task[a] \in Orders /\ record[task[a]] # NULL
      /\ found[a] \in 1..accepted[task[a]]
  BY DEF IInv, ActorTrue, Attempting
<1>2. accepted[task[a]] \in Nat
  BY <1>1, Parts
<1> QED
  BY <1>1, <1>2

LEMMA Forgets ==
    ASSUME IInv, NEW a \in Actors, found' = [found EXCEPT ![a] = NULL]
    PROVE  found' \in [Actors -> Nat \cup {NULL}] /\ \A b \in Actors : b # a => found'[b] = found[b]
BY Parts

LEMMA RecordStep ==
    ASSUME IInv, NEW a \in Actors,
           RecordReconciled(a) \/ RecordDelivered(a) \/ RecordFailure(a)
    PROVE  IInv'
<1>1. /\ UNCHANGED <<accepted, inFlight, task>> /\ RestTyped'
  <2>1. UNCHANGED <<provider, locks, task, batch, faultsLeft>>
    BY DEF RecordReconciled, RecordDelivered, RecordFailure
  <2>2. UNCHANGED <<lock, unlocking, batch>> /\ faultsLeft' = faultsLeft
    BY <2>1 DEF locks
  <2> QED
    BY <2>1, <2>2, SameRest DEF provider
<1>2. CASE RecordReconciled(a) \/ RecordDelivered(a)
  <2>1. PICK outcome \in {"DELIVERED", "RECONCILED"} : MarkDelivered(task[a], found[a], outcome)
    BY <1>2 DEF RecordReconciled, RecordDelivered
  <2>2. /\ pc[a] \in {"reconcile", "recordDelivered"} /\ EndAttempt(a, 200)
        /\ found' = [found EXCEPT ![a] = NULL]
    BY <1>2 DEF RecordReconciled, RecordDelivered
  <2>3. DbStep /\ Delivered(task[a])'
    <3>1. PICK o \in Orders : o = task[a] /\ record[o] # NULL
      BY <2>2, FoundId
    <3>2. DbStep /\ Delivered(o)'
      BY <2>1, <2>2, <3>1, FoundId, MarkDeliveredStep, Parts
    <3> QED
      BY <1>1, <3>1, <3>2
  <2> QED
    BY <1>1, <2>2, <2>3, FoundId, Forgets, AttemptEnds
<1>3. CASE RecordFailure(a)
  <2>1. pc[a] = "recordFailure" /\ CountFailure(task[a]) /\ EndAttempt(a, 502) /\ UNCHANGED found
    BY <1>3 DEF RecordFailure
  <2>2. task[a] \in Orders /\ record[task[a]] # NULL
    BY <2>1 DEF IInv, ActorTrue, Attempting
  <2>3. DbStep
    BY <2>1, <2>2, CountFailureStep, Parts
  <2> QED
    BY <1>1, <2>1, <2>2, <2>3, Parts, AttemptEnds
<1> QED
  BY <1>2, <1>3

(* recordDelivered may have been committed when it throws.                   *)
LEMMA RecordDeliveredThrowsStep ==
    ASSUME IInv, NEW a \in Actors, RecordDeliveredThrows(a) PROVE IInv'
<1>1. /\ pc[a] = "recordDelivered" /\ GoTo(a, "recordFailure")
      /\ found' = [found EXCEPT ![a] = NULL]
      /\ UNCHANGED <<provider, lock, unlocking, task, batch, answer>>
  BY DEF RecordDeliveredThrows, locks
<1>2. RestTyped'
  BY <1>1, SameRest DEF RecordDeliveredThrows
<1>3. task[a] \in Orders /\ record[task[a]] # NULL
  BY <1>1, FoundId
<1>4. DbStep
  <2>1. CASE UNCHANGED database
    BY <2>1, NoDatabaseStep
  <2>2. CASE MarkDelivered(task[a], found[a], "DELIVERED")
    BY <1>1, <1>3, <2>2, FoundId, MarkDeliveredStep, Parts
  <2> QED
    BY <2>1, <2>2 DEF RecordDeliveredThrows
<1>5. StepOfActor(a) /\ pc'[a] = "recordFailure"
  BY <1>1, Forgets, Parts DEF GoTo, StepOfActor, Labels
<1>6. ActorTrue(a)'
  <2>1. ActorTrue(a) /\ task' = task
    BY <1>1 DEF IInv
  <2>2. record'[task[a]] # NULL
    BY <1>3, <1>4 DEF DbStep
  <2> QED
    BY <1>3, <1>5, <2>1, <2>2 DEF ActorTrue
<1> QED
  BY <1>1, <1>2, <1>4, <1>5, <1>6, SameProvider, SameAnswer, Together

LEMMA ThrowsStep == ASSUME IInv, NEW a \in Actors, Throws(a) PROVE IInv'
<1>1. /\ pc[a] \in {"begin", "check", "reconcile", "recordFailure"} /\ EndAttempt(a, 500)
      /\ found' = [found EXCEPT ![a] = NULL]
      /\ UNCHANGED <<accepted, inFlight, task>>
  BY DEF Throws, provider
<1>2. ActorTrue(a) /\ task[a] \in Orders /\ RestTyped
  <2>1. ActorTrue(a) /\ RestTyped
    BY Parts
  <2> QED
    BY <1>1, <2>1 DEF ActorTrue
<1>3. RestTyped'
  <2>1. unlocking' \subseteq Dispatches
    <3>1. pc[a] = "begin" => a \in Dispatches
      BY <1>2 DEF ActorTrue, Actors
    <3> QED
      BY <1>2, <3>1 DEF Throws, RestTyped
  <2>2. batch' \subseteq Orders /\ lock' = lock
    BY <1>2 DEF Throws, RestTyped
  <2>3. faultsLeft' \in 0..MaxFaults
    BY <1>2, DeliveryAssumption DEF Throws, Fault, RestTyped
  <2> QED
    BY <1>2, <2>1, <2>2, <2>3 DEF RestTyped
<1>4. DbStep
  <2>1. CASE UNCHANGED database
    BY <2>1, NoDatabaseStep
  <2>2. CASE Persist(task[a])
    BY <1>2, <2>2, PersistStep, Parts
  <2>3. CASE pc[a] = "reconcile" /\ MarkDelivered(task[a], found[a], "RECONCILED")
    BY <2>3, FoundId, MarkDeliveredStep, Parts
  <2>4. CASE pc[a] = "recordFailure" /\ CountFailure(task[a])
    <3>1. record[task[a]] # NULL
      BY <1>2, <2>4 DEF ActorTrue, Attempting
    <3> QED
      BY <1>2, <2>4, <3>1, CountFailureStep, Parts
  <2> QED
    BY <2>1, <2>2, <2>3, <2>4 DEF Throws
<1>5. found' \in [Actors -> Nat \cup {NULL}] /\ \A b \in Actors : b # a => found'[b] = found[b]
  BY <1>1, Forgets
<1> QED
  BY <1>1, <1>2, <1>3, <1>4, <1>5, AttemptEnds

LEMMA BeginStep == ASSUME IInv, NEW d \in Dispatches, Begin(d) PROVE IInv'
<1>1. /\ d \in Actors /\ d # Worker /\ ActorTrue(d) /\ pc[d] = "begin" /\ RestTyped
      /\ task[d] \in Orders
  <2>1. d \in Actors /\ d # Worker /\ ActorTrue(d) /\ pc[d] = "begin" /\ RestTyped
    BY DispatchOrders, Parts DEF Begin
  <2> QED
    BY <2>1 DEF ActorTrue
<1>2. /\ UNCHANGED <<provider, lock, task, found, batch, faultsLeft>>
      /\ unlocking' = unlocking \cup {d} /\ Persist(task[d])
  BY DEF Begin
<1>3. RestTyped'
  BY <1>1, <1>2 DEF RestTyped
<1>4. DbStep /\ record'[task[d]] # NULL
  BY <1>1, <1>2, PersistStep, Parts
<1>5. CASE record[task[d]] # NULL /\ record[task[d]].status = "DELIVERED" /\ EndAttempt(d, 200)
  <2>1. PICK o \in Orders : o = task[d] /\ Delivered(o)
    BY <1>1, <1>5 DEF Delivered
  <2>2. Delivered(o)'
    BY <1>4, <2>1 DEF DbStep
  <2>3. Delivered(task[d])'
    BY <1>2, <2>1, <2>2
  <2> QED
    BY <1>1, <1>2, <1>3, <1>4, <1>5, <2>3, Parts, AttemptEnds DEF provider
<1>6. CASE UNCHANGED answer /\ \E label \in {"post", "inspect"} : GoTo(d, label)
  <2>1. PICK label \in {"post", "inspect"} : GoTo(d, label)
    BY <1>6
  <2>2. StepOfActor(d) /\ pc'[d] = label
    BY <1>1, <1>2, <2>1, GoToStep DEF Labels
  <2>3. ActorTrue(d)'
    BY <1>1, <1>2, <1>4, <2>2 DEF ActorTrue
  <2> QED
    BY <1>1, <1>2, <1>3, <1>4, <1>6, <2>2, <2>3, SameProvider, SameAnswer, Together
<1> QED
  BY <1>5, <1>6 DEF Begin

LEMMA UnlockStep == ASSUME IInv, NEW d \in Dispatches, Unlock(d) \/ Respond(d) PROVE IInv'
<1>1. d \in Actors /\ d # Worker /\ ActorTrue(d) /\ RestTyped
  BY DispatchOrders, Parts
<1>2. CASE Unlock(d)
  <2>1. /\ unlocking' = unlocking \ {d} /\ lock' = [lock EXCEPT ![task[d]] = NULL]
        /\ UNCHANGED <<database, provider, pc, task, found, batch, answer, faultsLeft>>
    BY <1>2 DEF Unlock
  <2>2. RestTyped'
    BY <1>1, <2>1 DEF RestTyped
  <2>3. DbStep /\ ProviderStep /\ AnswerStep(d)
    BY <1>1, <2>1, NoDatabaseStep, SameProvider, SameAnswer
  <2>4. StepOfActor(d)
    BY <2>1, Parts DEF StepOfActor
  <2>5. ActorTrue(d)'
    BY <1>1, <2>1, <2>3, StaysTrue
  <2> QED
    BY <1>1, <2>2, <2>3, <2>4, <2>5, Together
<1>3. CASE Respond(d)
  <2>1. /\ GoTo(d, "done") /\ pc[d] = "reply"
        /\ UNCHANGED <<database, provider, task, found, answer>>
        /\ UNCHANGED <<lock, unlocking, batch, faultsLeft>>
    BY <1>3 DEF Respond, locks
  <2>2. "done" \in Labels /\ "done" \notin Attempting /\ task[d] \in Orders
    BY <1>1, <2>1 DEF Labels, Attempting, ActorTrue
  <2>3. RestTyped'
    BY <1>1, <2>1 DEF RestTyped
  <2> QED
    BY <1>1, <2>1, <2>2, <2>3, Parts, QuietStep
<1> QED
  BY <1>2, <1>3

LEMMA CrashStep == ASSUME IInv, NEW a \in Actors, Crash(a) PROVE IInv'
<1>1. ActorTrue(a) /\ RestTyped /\ DbStep /\ UNCHANGED <<database, history, record>>
  BY Parts, NoDatabaseStep DEF Crash, database
<1>2. ProviderStep
  <2>1. CASE UNCHANGED provider
    BY <2>1, SameProvider
  <2>2. CASE pc[a] = "post" /\ Abandoned(task[a])
    <3>1. task[a] \in Orders /\ record[task[a]] # NULL
      BY <1>1, <2>2 DEF ActorTrue, Attempting
    <3> QED
      BY <2>2, <3>1, AbandonedStep
  <2> QED
    BY <2>1, <2>2 DEF Crash
<1> DEFINE label == IF a = Worker THEN "idle" ELSE "done"
<1>3. /\ GoTo(a, label) /\ found' = [found EXCEPT ![a] = NULL]
      /\ task' = IF a = Worker THEN [task EXCEPT ![a] = NULL] ELSE task
  BY DEF Crash
<1>4. StepOfActor(a) /\ pc'[a] = label
  BY <1>3, Parts, Forgets DEF GoTo, StepOfActor, Labels
<1>5. pc[a] # "idle" /\ (a \in Dispatches => a # Worker /\ task[a] = OrderOf[a] /\ OrderOf[a] \in Orders)
  BY <1>1, DispatchOrders DEF Crash, ActorTrue
<1>6. ActorTrue(a)'
  <2>1. CASE a = Worker
    BY <1>4, <1>5, <2>1 DEF ActorTrue, Attempting
  <2>2. CASE a # Worker
    BY <1>3, <1>4, <1>5, <2>2 DEF ActorTrue, Attempting, Actors
  <2> QED
    BY <2>1, <2>2
<1>7. RestTyped'
  <2>1. lock' = [o \in Orders |-> IF lock[o] = a THEN NULL ELSE lock[o]]
        /\ unlocking' = unlocking \ {a} /\ batch' = IF a = Worker THEN {} ELSE batch
    BY DEF Crash
  <2>2. faultsLeft' \in 0..MaxFaults
    BY <1>1, DeliveryAssumption DEF Crash, Fault, RestTyped
  <2> QED
    BY <1>1, <2>1, <2>2 DEF RestTyped
<1>8. AnswerStep(a)
  <2>1. CASE a = Worker
    BY <1>1, <2>1, SameAnswer DEF Crash
  <2>2. CASE a # Worker
    <3>1. a \in Dispatches /\ answer' = [answer EXCEPT ![a] = NULL] /\ NULL # 200
      BY <2>2, NoRecordIsNull DEF Crash, Actors
    <3> QED
      BY <3>1, Parts DEF AnswerStep
  <2> QED
    BY <2>1, <2>2
<1> QED
  BY <1>1, <1>2, <1>4, <1>6, <1>7, <1>8, Together

(* Time, and a provider that was slow.                                       *)
LEMMA EnvironmentStep ==
    ASSUME IInv, NEW o \in Orders, LateAccept(o) \/ BackoffElapses(o) PROVE IInv'
<1>1. Worker \in Actors /\ RestTyped /\ UNCHANGED <<pc, task, found, answer>>
  BY Parts DEF Actors, LateAccept, BackoffElapses
<1>2. RestTyped'
  BY <1>1, SameRest DEF LateAccept, BackoffElapses, locks
<1>3. DbStep /\ ProviderStep
  <2>1. CASE LateAccept(o)
    <3>1. /\ accepted \in [Orders -> Nat] /\ inFlight \in [Orders -> Nat] /\ IntentFirst
          /\ UNCHANGED database
      BY <2>1, Parts DEF LateAccept
    <3>2. /\ accepted[o] \in Nat /\ inFlight[o] \in Nat /\ inFlight[o] > 0
          /\ inFlight' = [inFlight EXCEPT ![o] = @ - 1]
          /\ accepted' = [accepted EXCEPT ![o] = @ + 1]
      BY <2>1, <3>1 DEF LateAccept
    <3>3. record[o] # NULL
      BY <3>1, <3>2 DEF IntentFirst
    <3>4. inFlight[o] - 1 \in Nat /\ accepted[o] + 1 \in Nat
      BY <3>2
    <3>5. ProviderStep
      BY <3>1, <3>2, <3>3, <3>4 DEF ProviderStep, IntentFirst
    <3> QED
      BY <3>1, <3>5, NoDatabaseStep
  <2>2. CASE BackoffElapses(o)
    BY <2>2, BackoffStep, Parts, SameProvider DEF BackoffElapses
  <2> QED
    BY <2>1, <2>2
<1>4. StepOfActor(Worker)
  BY <1>1, Parts DEF StepOfActor
<1>5. ActorTrue(Worker)'
  BY <1>1, <1>3, StaysTrue
<1>6. AnswerStep(Worker)
  BY <1>1, <1>3, SameAnswer
<1> QED
  BY <1>1, <1>2, <1>3, <1>4, <1>5, <1>6, Together

LEMMA Initially == Init => IInv
<1> SUFFICES ASSUME Init PROVE IInv
  OBVIOUS
<1>1. \A d \in Dispatches : d # Worker /\ OrderOf[d] \in Orders
  BY DispatchOrders
<1>2. TypeOK
  <2>1. \A o \in Orders : DOMAIN history[o] = {}
    <3>1. DOMAIN <<>> = {}
      OBVIOUS
    <3>2. \A o \in Orders : history[o] = <<>>
      BY DEF Init
    <3> QED
      BY <3>1, <3>2
  <2>2. pc \in [Actors -> Labels] /\ task \in [Actors -> Orders \cup {NULL}]
    BY <1>1 DEF Init, Labels, Actors
  <2>3. faultsLeft \in 0..MaxFaults
    BY DeliveryAssumption DEF Init
  <2> QED
    BY <2>1, <2>2, <2>3 DEF Init, TypeOK, Labels
<1>3. HistoryTyped /\ HistoryCounts
  BY NoRecordIsNull DEF Init, HistoryTyped, HistoryCounts
<1>4. IntentFirst /\ AnswersTrue
  BY NoRecordIsNull DEF Init, IntentFirst, AnswersTrue
<1>5. \A a \in Actors : ActorTrue(a)
  BY <1>1 DEF Init, ActorTrue, Actors, Attempting
<1> QED
  BY <1>2, <1>3, <1>4, <1>5 DEF IInv

LEMMA StepKeepsIInv == IInv /\ [Next]_vars => IInv'
<1> SUFFICES ASSUME IInv, [Next]_vars PROVE IInv'
  OBVIOUS
<1>1. \A d \in Dispatches : d \in Actors
  BY DEF Actors
<1>2. Worker \in Actors
  BY DEF Actors
<1>3. CASE Quiet \/ UNCHANGED vars
  <2>1. UNCHANGED <<record, history, accepted, inFlight, lock, unlocking, pc, task, found, batch,
                    answer, faultsLeft>>
    BY <1>3 DEF Quiet, vars
  <2> QED
    BY <2>1 DEF IInv, TypeOK, HistoryTyped, IntentFirst, HistoryCounts, AnswersTrue, ActorTrue
<1>4. ASSUME NEW a \in Actors, AttemptStep(a) PROVE IInv'
  BY <1>4, InspectStep, PostStep, RecordStep, RecordDeliveredThrowsStep DEF AttemptStep
<1>5. ASSUME NEW d \in Dispatches, DispatchStep(d) PROVE IInv'
  BY <1>1, <1>5, LockStep, BeginStep, UnlockStep DEF DispatchStep
<1>6. CASE WorkerStep
  BY <1>2, <1>6, LockStep, WorkerStepKeeps DEF WorkerStep
<1> QED
  BY <1>3, <1>4, <1>5, <1>6, ThrowsStep, CrashStep, UnlockStep, EnvironmentStep DEF Next

LEMMA AlwaysIInv == Spec => []IInv
BY Initially, StepKeepsIInv, PTL DEF Spec

(* Every variable keeps its type, the rows of the database their form.       *)
THEOREM TypeCorrect == Spec => []TypeOK
<1>1. IInv => TypeOK
  BY DEF IInv
<1> QED
  BY <1>1, AlwaysIInv, PTL

(* attempts is the number of attempt rows, and a success is the last of them,  *)
(* for any number of overlapping attempts, failed transactions and crashes.   *)
THEOREM HistoriesCount == Spec => []HistoryCounts
<1>1. IInv => HistoryCounts
  BY DEF IInv
<1> QED
  BY <1>1, AlwaysIInv, PTL

(* A dispatch that was answered 200 is about a notification that is DELIVERED. *)
THEOREM AnswersAlwaysTrue == Spec => []AnswersTrue
<1>1. IInv => AnswersTrue
  BY DEF IInv
<1> QED
  BY <1>1, AlwaysIInv, PTL

-----------------------------------------------------------------------------
(* One message per order, where attempts do not overlap.                     *)

(* Who posts knows that the provider holds no message.                       *)
Single ==
    /\ \A o \in Orders : accepted[o] <= 1 /\ inFlight[o] = 0
    /\ \A a \in Actors : pc[a] = "post" => accepted[task[a]] = 0

LEMMA SingleStep ==
    ASSUME SlowProvider = FALSE, IInv, OneCallInFlight, Single, [Next]_vars
    PROVE  Single'
<1>1. /\ accepted \in [Orders -> Nat] /\ inFlight \in [Orders -> Nat] /\ IntentFirst
      /\ pc \in [Actors -> Labels] /\ task \in [Actors -> Orders \cup {NULL}]
      /\ \A a \in Actors : ActorTrue(a)
  BY Parts
<1>2. \A d \in Dispatches : d \in Actors /\ d # Worker
  BY DispatchOrders
<1>3. Worker \in Actors
  BY DEF Actors
<1>4. ASSUME UNCHANGED provider, NEW a \in Actors,
             \A b \in Actors : b # a => pc'[b] = pc[b] /\ task'[b] = task[b],
             pc'[a] = "post" => accepted[task'[a]] = 0
      PROVE  Single'
  BY <1>4 DEF Single, provider
<1>5. ASSUME NEW a \in Actors, pc[a] = "post", Abandoned(task[a]), UNCHANGED task,
             pc'[a] # "post", \A b \in Actors : b # a => pc'[b] = pc[b]
      PROVE  Single'
  <2> DEFINE o == task[a]
  <2>1. o \in Orders /\ accepted[o] = 0
    BY <1>1, <1>5 DEF ActorTrue, Single
  <2>2. CASE UNCHANGED provider
    BY <1>4, <1>5, <2>2
  <2>3. CASE accepted' = [accepted EXCEPT ![o] = @ + 1] /\ UNCHANGED inFlight
    <3>1. /\ accepted'[o] = 1
          /\ \A x \in Orders : x # o => accepted'[x] = accepted[x]
      BY <1>1, <2>1, <2>3
    <3>2. ASSUME NEW b \in Actors, pc'[b] = "post" PROVE accepted'[task'[b]] = 0
      <4>1. b # a /\ pc[b] = "post" /\ task'[b] = task[b]
        BY <1>5, <3>2
      <4>2. task[b] # o
        BY <1>5, <4>1 DEF OneCallInFlight
      <4>3. task[b] \in Orders /\ accepted[task[b]] = 0
        BY <1>1, <4>1 DEF ActorTrue, Single
      <4> QED
        BY <3>1, <4>1, <4>2, <4>3
    <3> QED
      BY <2>3, <3>1, <3>2 DEF Single
  <2> QED
    BY <1>5, <2>2, <2>3 DEF Abandoned
<1>6. ASSUME NEW a \in Actors, AttemptStep(a) PROVE Single'
  <2>1. CASE PostAccepted(a)
    <3>1. Abandoned(task[a]) /\ pc[a] = "post" /\ UNCHANGED task /\ GoTo(a, "recordDelivered")
      BY <2>1 DEF PostAccepted, Abandoned
    <3> QED
      BY <1>1, <1>5, <3>1 DEF GoTo
  <2>2. CASE PostUnanswered(a)
    <3>1. Abandoned(task[a]) /\ pc[a] = "post" /\ UNCHANGED task /\ GoTo(a, "recordFailure")
      BY <2>2 DEF PostUnanswered
    <3> QED
      BY <1>1, <1>5, <3>1 DEF GoTo
  <2>3. CASE Inspect(a)
    <3>1. CASE accepted[task[a]] = 0 /\ GoTo(a, "post")
      BY <1>1, <1>4, <2>3, <3>1 DEF Inspect, GoTo
    <3>2. CASE GoTo(a, "reconcile")
      BY <1>1, <1>4, <2>3, <3>2 DEF Inspect, GoTo
    <3> QED
      BY <2>3, <3>1, <3>2 DEF Inspect
  <2>4. CASE InspectFails(a) \/ RecordDeliveredThrows(a)
    <3>1. UNCHANGED <<provider, task>> /\ GoTo(a, "recordFailure")
      BY <2>4 DEF InspectFails, RecordDeliveredThrows
    <3> QED
      BY <1>1, <1>4, <3>1 DEF GoTo
  <2>5. CASE RecordReconciled(a) \/ RecordDelivered(a) \/ RecordFailure(a)
    <3>1. UNCHANGED <<provider, task>> /\ \E status : EndAttempt(a, status)
      BY <2>5 DEF RecordReconciled, RecordDelivered, RecordFailure
    <3> QED
      BY <1>1, <1>4, <3>1 DEF EndAttempt, GoTo
  <2> QED
    BY <1>6, <2>1, <2>2, <2>3, <2>4, <2>5 DEF AttemptStep
<1>7. ASSUME NEW a \in Actors, Throws(a) PROVE Single'
  <2>1. UNCHANGED <<provider, task>> /\ EndAttempt(a, 500)
    BY <1>7 DEF Throws
  <2> QED
    BY <1>1, <1>4, <2>1 DEF EndAttempt, GoTo
<1>8. ASSUME NEW a \in Actors, Crash(a) PROVE Single'
  <2>1. GoTo(a, IF a = Worker THEN "idle" ELSE "done")
        /\ task' = IF a = Worker THEN [task EXCEPT ![a] = NULL] ELSE task
    BY <1>8 DEF Crash
  <2>2. pc'[a] # "post" /\ \A b \in Actors : b # a => pc'[b] = pc[b] /\ task'[b] = task[b]
    BY <1>1, <2>1 DEF GoTo
  <2>3. CASE UNCHANGED provider
    BY <1>4, <2>2, <2>3
  <2>4. CASE pc[a] = "post" /\ accepted' = [accepted EXCEPT ![task[a]] = @ + 1] /\ UNCHANGED inFlight
    <3> DEFINE o == task[a]
    <3>1. o \in Orders /\ accepted[o] = 0
      BY <1>1, <2>4 DEF ActorTrue, Single
    <3>2. /\ accepted'[o] = 1
          /\ \A x \in Orders : x # o => accepted'[x] = accepted[x]
      BY <1>1, <2>4, <3>1
    <3>3. ASSUME NEW b \in Actors, pc'[b] = "post" PROVE accepted'[task'[b]] = 0
      <4>1. b # a /\ pc[b] = "post" /\ task'[b] = task[b]
        BY <2>2, <3>3
      <4>2. task[b] # o
        BY <2>4, <4>1 DEF OneCallInFlight
      <4>3. task[b] \in Orders /\ accepted[task[b]] = 0
        BY <1>1, <4>1 DEF ActorTrue, Single
      <4> QED
        BY <3>2, <4>1, <4>2, <4>3
    <3> QED
      BY <2>4, <3>2, <3>3 DEF Single
  <2> QED
    BY <1>8, <2>3, <2>4 DEF Crash, Abandoned
<1>9. ASSUME NEW d \in Dispatches, DispatchStep(d) \/ Unlock(d) PROVE Single'
  <2>1. d \in Actors /\ UNCHANGED <<provider, task>>
    BY <1>2, <1>9 DEF DispatchStep, AcquireLock, Begin, Respond, Unlock
  <2>2. CASE Begin(d)
    <3>1. \/ record[task[d]] = NULL /\ GoTo(d, "post")
          \/ GoTo(d, "inspect")
          \/ EndAttempt(d, 200)
      BY <2>2 DEF Begin
    <3>2. task[d] \in Orders
      BY <1>1, <2>1, <2>2 DEF ActorTrue, Begin
    <3>3. record[task[d]] = NULL => accepted[task[d]] = 0
      BY <1>1, <3>2 DEF IntentFirst
    <3>4. /\ \A b \in Actors : b # d => pc'[b] = pc[b]
          /\ pc'[d] = "post" => record[task[d]] = NULL
      BY <1>1, <2>1, <3>1 DEF EndAttempt, GoTo
    <3> QED
      BY <1>4, <2>1, <3>3, <3>4
  <2>3. CASE AcquireLock(d) \/ Respond(d)
    <3>1. \E label \in {"check", "begin", "done"} : GoTo(d, label)
      BY <2>3 DEF AcquireLock, Respond
    <3> QED
      BY <1>1, <1>4, <2>1, <3>1 DEF GoTo
  <2>4. CASE Unlock(d)
    BY <2>1, <2>4 DEF Unlock, Single, provider
  <2> QED
    BY <1>9, <2>2, <2>3, <2>4 DEF DispatchStep
<1>10. CASE WorkerStep
  <2>1. /\ UNCHANGED provider
        /\ \E label \in {"next", "lock", "idle", "check", "begin", "inspect", "release"} :
              GoTo(Worker, label)
        /\ \E o : task' = [task EXCEPT ![Worker] = o] \/ task' = task
    BY <1>10 DEF WorkerStep, ListDue, TakeNext, AcquireLock, Check, Release
  <2>2. \A b \in Actors : b # Worker => pc'[b] = pc[b]
    BY <1>1, <2>1 DEF GoTo
  <2>3. \A b \in Actors : b # Worker => task'[b] = task[b]
    BY <1>1, <2>1
  <2>4. pc'[Worker] # "post"
    BY <1>1, <1>3, <2>1 DEF GoTo
  <2> QED
    BY <1>3, <1>4, <2>1, <2>2, <2>3, <2>4
<1>11. ASSUME NEW o \in Orders, LateAccept(o) \/ BackoffElapses(o) PROVE Single'
  <2>1. CASE LateAccept(o)
    BY <2>1 DEF LateAccept, Single
  <2>2. CASE BackoffElapses(o)
    BY <2>2 DEF BackoffElapses, Single, provider
  <2> QED
    BY <1>11, <2>1, <2>2
<1>12. CASE Quiet \/ UNCHANGED vars
  BY <1>12 DEF Quiet, vars, Single
<1> QED
  BY <1>6, <1>7, <1>8, <1>9, <1>10, <1>11, <1>12 DEF Next

(* What "at most one provider call in flight" is worth: where it holds and the *)
(* provider does not accept what was given up long before, it is told once,    *)
(* over lost answers, transactions that fail and crashes between any steps.   *)
THEOREM OneCallMakesMessagesSingle ==
    ASSUME SlowProvider = FALSE
    PROVE  Spec /\ []OneCallInFlight => []SingleMessage
<1>1. Init => Single
  BY DEF Init, Single, Actors
<1>2. Single => SingleMessage
  BY DEF Single, SingleMessage
<1>3. IInv /\ OneCallInFlight /\ Single /\ [Next]_vars => Single'
  BY SingleStep
<1> QED
  BY <1>1, <1>2, <1>3, AlwaysIInv, PTL DEF Spec

(* In particular where attempts do not overlap.                              *)
THEOREM MessagesAreSingle ==
    ASSUME SlowProvider = FALSE
    PROVE  Spec /\ []NoOverlap => []SingleMessage
<1>1. NoOverlap => OneCallInFlight
  BY DEF NoOverlap, OneCallInFlight, Working
<1> QED
  BY <1>1, OneCallMakesMessagesSingle, PTL

-----------------------------------------------------------------------------
(* The promise of module Confirmation.                                       *)

Status == [o \in Orders |-> IF record[o] = NULL THEN "NONE" ELSE record[o].status]
Receipt == [o \in Orders |-> IF record[o] = NULL THEN NULL ELSE record[o].providerId]

(* The same statuses and receipts, and messages only about recorded intents.  *)
SamePromise == Status' = Status /\ Receipt' = Receipt

PromiseStep == [Promise!Next]_(Promise!confirmationVars)

LEMMA PromiseKeeps == SamePromise /\ accepted' = accepted => PromiseStep
BY DEF SamePromise, Status, Receipt, PromiseStep, Promise!confirmationVars

LEMMA PromiseRegister ==
    ASSUME NEW o \in Orders, Status[o] = "NONE", Status' = [Status EXCEPT ![o] = "PENDING"],
           Receipt' = Receipt, accepted' = accepted
    PROVE  PromiseStep
<1>1. Promise!Register(o)
  BY DEF Status, Receipt, Promise!Register
<1> QED
  BY <1>1 DEF PromiseStep, Promise!Next

LEMMA PromiseAccept ==
    ASSUME NEW o \in Orders, record[o] # NULL, accepted' = [accepted EXCEPT ![o] = @ + 1],
           record' = record, \A r \in Record : r.status # "NONE",
           record \in [Orders -> Record \cup {NULL}]
    PROVE  PromiseStep
<1>1. Promise!Accept(o)
  BY DEF Promise!Accept
<1> QED
  BY <1>1 DEF PromiseStep, Promise!Next

LEMMA PromiseDeliver ==
    ASSUME NEW o \in Orders, Status[o] = "PENDING", Status' = [Status EXCEPT ![o] = "DELIVERED"],
           NEW id \in 1..accepted[o], Receipt' = [Receipt EXCEPT ![o] = id],
           accepted' = accepted
    PROVE  PromiseStep
<1>1. Promise!Deliver(o)
  BY DEF Status, Receipt, Promise!Deliver
<1> QED
  BY <1>1 DEF PromiseStep, Promise!Next

LEMMA SameRecords == record' = record => SamePromise
BY DEF SamePromise, Status, Receipt

(* Rows that change in their counters only.                                  *)
LEMMA CountersOnly ==
    ASSUME \A x \in Orders : record[x] # NULL => /\ record'[x] # NULL
                                                 /\ record'[x].status = record[x].status
                                                 /\ record'[x].providerId = record[x].providerId,
           \A x \in Orders : record[x] = NULL => record'[x] = NULL
    PROVE  SamePromise
BY DEF SamePromise, Status, Receipt

LEMMA MarkDeliveredPromise ==
    ASSUME IInv, NEW o \in Orders, record[o] # NULL, NEW id \in 1..accepted[o],
           NEW outcome \in {"DELIVERED", "RECONCILED"}, MarkDelivered(o, id, outcome),
           accepted' = accepted
    PROVE  PromiseStep
<1>1. id \in Nat \ {0}
  BY Parts
<1>2. /\ Delivered(o)' /\ \A x \in Orders : x # o => record'[x] = record[x]
      /\ record[o].status = "PENDING" => record'[o].providerId = id
      /\ record[o].status # "PENDING" => record' = record
  BY <1>1, Parts, MarkDeliveredStep
<1>3. CASE record[o].status # "PENDING"
  BY <1>2, <1>3, SameRecords, PromiseKeeps
<1>4. CASE record[o].status = "PENDING"
  <2>1. Status[o] = "PENDING"
    BY <1>4 DEF Status
  <2>2. Status' = [Status EXCEPT ![o] = "DELIVERED"] /\ Receipt' = [Receipt EXCEPT ![o] = id]
    BY <1>2, <1>4 DEF Status, Receipt, Delivered
  <2> QED
    BY <2>1, <2>2, PromiseDeliver
<1> QED
  BY <1>3, <1>4

LEMMA PersistPromise ==
    ASSUME IInv, NEW o \in Orders, Persist(o), accepted' = accepted PROVE PromiseStep
<1>1. /\ record'[o] # NULL /\ \A x \in Orders : x # o => record'[x] = record[x]
      /\ record[o] # NULL => record' = record
      /\ record[o] = NULL => record'[o].status = "PENDING" /\ record'[o].providerId = NULL
  BY Parts, PersistStep
<1>2. CASE record[o] # NULL
  BY <1>1, <1>2, SameRecords, PromiseKeeps
<1>3. CASE record[o] = NULL
  <2>1. Status[o] = "NONE" /\ Status' = [Status EXCEPT ![o] = "PENDING"] /\ Receipt' = Receipt
    BY <1>1, <1>3 DEF Status, Receipt
  <2> QED
    BY <2>1, PromiseRegister
<1> QED
  BY <1>2, <1>3

LEMMA CountFailurePromise ==
    ASSUME IInv, NEW o \in Orders, record[o] # NULL, CountFailure(o), accepted' = accepted
    PROVE  PromiseStep
BY Parts, CountFailureStep, CountersOnly, PromiseKeeps

LEMMA AcceptPromise ==
    ASSUME IInv, NEW o \in Orders, record[o] # NULL, record' = record,
           accepted' = accepted \/ accepted' = [accepted EXCEPT ![o] = @ + 1]
    PROVE  PromiseStep
<1>1. record \in [Orders -> Record \cup {NULL}] /\ \A r \in Record : r.status # "NONE"
  BY Parts, RecordFields DEF DbOK
<1> QED
  BY <1>1, PromiseAccept, PromiseKeeps, SameRecords

LEMMA StepKeepsPromise == IInv /\ [Next]_vars => PromiseStep
<1> SUFFICES ASSUME IInv, [Next]_vars PROVE PromiseStep
  OBVIOUS
<1>1. ASSUME record' = record, accepted' = accepted PROVE PromiseStep
  BY <1>1, SameRecords, PromiseKeeps
<1>2. \A d \in Dispatches : d \in Actors
  BY DEF Actors
<1>3. ASSUME NEW a \in Actors, pc[a] \in Attempting
      PROVE  task[a] \in Orders /\ record[task[a]] # NULL
  BY <1>3 DEF IInv, ActorTrue, Attempting
<1>4. ASSUME NEW a \in Actors, AttemptStep(a) PROVE PromiseStep
  <2>1. CASE Inspect(a) \/ InspectFails(a)
    BY <1>1, <2>1 DEF Inspect, InspectFails, database, provider
  <2>2. CASE PostAccepted(a) \/ PostUnanswered(a)
    <3>1. /\ pc[a] = "post" /\ record' = record
          /\ accepted' = accepted \/ accepted' = [accepted EXCEPT ![task[a]] = @ + 1]
      BY <2>2 DEF PostAccepted, PostUnanswered, Abandoned, database, provider
    <3> QED
      BY <1>3, <3>1, AcceptPromise DEF Attempting
  <2>3. CASE RecordReconciled(a) \/ RecordDelivered(a) \/ RecordDeliveredThrows(a)
    <3>1. /\ pc[a] \in {"reconcile", "recordDelivered"} /\ accepted' = accepted
          /\ \/ UNCHANGED database
             \/ \E outcome \in {"DELIVERED", "RECONCILED"} :
                    MarkDelivered(task[a], found[a], outcome)
      BY <2>3 DEF RecordReconciled, RecordDelivered, RecordDeliveredThrows, provider
    <3>2. CASE UNCHANGED database
      BY <1>1, <3>1, <3>2 DEF database
    <3>3. ASSUME NEW outcome \in {"DELIVERED", "RECONCILED"},
                 MarkDelivered(task[a], found[a], outcome)
          PROVE  PromiseStep
      BY <3>1, <3>3, FoundId, MarkDeliveredPromise
    <3> QED
      BY <3>1, <3>2, <3>3
  <2>4. CASE RecordFailure(a)
    <3>1. pc[a] \in Attempting /\ CountFailure(task[a]) /\ accepted' = accepted
      BY <2>4 DEF RecordFailure, Attempting, provider
    <3> QED
      BY <1>3, <3>1, CountFailurePromise
  <2> QED
    BY <1>4, <2>1, <2>2, <2>3, <2>4 DEF AttemptStep
<1>5. ASSUME NEW a \in Actors, Throws(a) PROVE PromiseStep
  <2>1. accepted' = accepted /\ pc[a] \in {"begin", "check", "reconcile", "recordFailure"}
    BY <1>5 DEF Throws, provider
  <2>2. task[a] \in Orders
    BY <2>1 DEF IInv, ActorTrue
  <2>3. CASE UNCHANGED database
    BY <1>1, <2>1, <2>3 DEF database
  <2>4. CASE Persist(task[a])
    BY <2>1, <2>2, <2>4, PersistPromise
  <2>5. CASE pc[a] = "reconcile" /\ MarkDelivered(task[a], found[a], "RECONCILED")
    BY <2>1, <2>5, FoundId, MarkDeliveredPromise
  <2>6. CASE pc[a] = "recordFailure" /\ CountFailure(task[a])
    BY <1>3, <2>1, <2>6, CountFailurePromise DEF Attempting
  <2> QED
    BY <1>5, <2>3, <2>4, <2>5, <2>6 DEF Throws
<1>6. ASSUME NEW a \in Actors, Crash(a) PROVE PromiseStep
  <2>1. record' = record
    BY <1>6 DEF Crash, database
  <2>2. CASE accepted' = accepted
    BY <1>1, <2>1, <2>2
  <2>3. CASE pc[a] = "post" /\ accepted' = [accepted EXCEPT ![task[a]] = @ + 1]
    BY <1>3, <2>1, <2>3, AcceptPromise DEF Attempting
  <2> QED
    BY <1>6, <2>2, <2>3 DEF Crash, Abandoned, provider
<1>7. ASSUME NEW d \in Dispatches, DispatchStep(d) \/ Unlock(d) PROVE PromiseStep
  <2>1. CASE Begin(d)
    <3>1. /\ task[d] \in Orders /\ Persist(task[d]) /\ accepted' = accepted
      BY <1>2, <2>1 DEF Begin, IInv, ActorTrue, provider
    <3> QED
      BY <3>1, PersistPromise
  <2>2. CASE AcquireLock(d) \/ Respond(d) \/ Unlock(d)
    BY <1>1, <2>2 DEF AcquireLock, Respond, Unlock, database, provider
  <2> QED
    BY <1>7, <2>1, <2>2 DEF DispatchStep
<1>8. CASE WorkerStep
  BY <1>1, <1>8
     DEF WorkerStep, ListDue, TakeNext, AcquireLock, Check, Release, database, provider
<1>9. ASSUME NEW o \in Orders, LateAccept(o) \/ BackoffElapses(o) PROVE PromiseStep
  <2>1. CASE LateAccept(o)
    <3>1. /\ inFlight[o] > 0 /\ record' = record
          /\ accepted' = [accepted EXCEPT ![o] = @ + 1]
      BY <2>1 DEF LateAccept, database
    <3>2. record[o] # NULL
      BY <3>1, Parts DEF IntentFirst
    <3> QED
      BY <3>1, <3>2, AcceptPromise
  <2>2. CASE BackoffElapses(o)
    BY <2>2, Parts, BackoffStep, CountersOnly, PromiseKeeps DEF BackoffElapses, provider
  <2> QED
    BY <1>9, <2>1, <2>2
<1>10. CASE Quiet \/ UNCHANGED vars
  BY <1>1, <1>10 DEF Quiet, vars
<1> QED
  BY <1>4, <1>5, <1>6, <1>7, <1>8, <1>9, <1>10 DEF Next

(* The service keeps its promise: the intent first, no delivery without a      *)
(* message at the provider, and no way back.                                 *)
THEOREM PromiseIsKept == Spec => KeepsPromise
<1>1. Init => Promise!Init
  BY DEF Init, Promise!Init
<1>2. IInv /\ [Next]_vars => [Promise!Next]_(Promise!confirmationVars)
  BY StepKeepsPromise DEF PromiseStep
<1> QED
  BY <1>1, <1>2, AlwaysIInv, PTL DEF Spec, KeepsPromise, Promise!Spec
-----------------------------------------------------------------------------
(* The lock of a notification, and what becomes of it when the unlock is not   *)
(* awaited.                                                                  *)

(* The worker works under the lock from the check to the release; a dispatch   *)
(* only until the unlock that its finally block has issued takes effect.      *)
Protected(a) ==
    IF a = Worker THEN pc[a] \in Attempting \cup {"check", "release"}
    ELSE pc[a] = "begin" \/ a \in unlocking

(* The lock of a notification is held by whom it protects, and by nobody else: *)
(* no exception and no crash leaves it behind, nor gives away another's.      *)
LockKept == \A o \in Orders, a \in Actors : lock[o] = a <=> task[a] = o /\ Protected(a)

LockInv == LockKept /\ \A d \in unlocking : pc[d] # "begin"

LEMMA LockParts ==
    ASSUME IInv
    PROVE  /\ lock \in [Orders -> Actors \cup {NULL}] /\ unlocking \subseteq Dispatches
           /\ pc \in [Actors -> Labels] /\ task \in [Actors -> Orders \cup {NULL}]
           /\ \A a \in Actors : a # NULL /\ (pc[a] \notin {"idle", "next"} => task[a] \in Orders)
           /\ \A d \in Dispatches : d \in Actors /\ d # Worker /\ task[d] = OrderOf[d]
                                    /\ OrderOf[d] \in Orders
           /\ Worker \in Actors
<1>1. RestTyped /\ \A a \in Actors : ActorTrue(a)
  BY Parts
<1> QED
  BY <1>1, Parts, DispatchOrders, NoRecordIsNull DEF RestTyped, ActorTrue, Actors

(* A step that moves one actor on and changes no lock: it stays as protected.  *)
LEMMA SameLocks ==
    ASSUME IInv, LockInv, NEW a \in Actors, lock' = lock, unlocking' \subseteq Actors,
           \A b \in Actors : b # a => /\ pc'[b] = pc[b] /\ task'[b] = task[b]
                                      /\ b \in unlocking' <=> b \in unlocking,
           Protected(a)' <=> Protected(a), Protected(a) => task'[a] = task[a],
           a \in unlocking' => pc'[a] # "begin"
    PROVE  LockInv'
<1>1. ASSUME NEW o \in Orders, NEW b \in Actors
      PROVE  lock'[o] = b <=> task'[b] = o /\ Protected(b)'
  <2>1. lock[o] = b <=> task[b] = o /\ Protected(b)
    BY DEF LockInv, LockKept
  <2>2. CASE b = a
    BY <2>1, <2>2
  <2>3. CASE b # a
    <3>1. /\ pc'[b] = pc[b] /\ task'[b] = task[b] /\ lock'[o] = lock[o]
          /\ b \in unlocking' <=> b \in unlocking
      BY <2>3
    <3>2. Protected(b)' <=> Protected(b)
      BY <3>1 DEF Protected
    <3> QED
      BY <2>1, <3>1, <3>2
  <2> QED
    BY <2>2, <2>3
<1>2. ASSUME NEW d \in unlocking' PROVE pc'[d] # "begin"
  <2>1. CASE d = a
    BY <1>2, <2>1
  <2>2. CASE d # a
    <3>1. pc'[d] = pc[d] /\ d \in unlocking
      BY <1>2, <2>2
    <3> QED
      BY <3>1 DEF LockInv
  <2> QED
    BY <2>1, <2>2
<1> QED
  BY <1>1, <1>2 DEF LockInv, LockKept

(* A lock that a takes while it is free, and one that a gives back.           *)
LEMMA TakesLock ==
    ASSUME IInv, LockInv, NEW a \in Actors, AcquireLock(a) PROVE LockInv'
<1> DEFINE label == IF a = Worker THEN "check" ELSE "begin"
           o == task[a]
<1>1. /\ pc[a] = "lock" /\ o \in Orders /\ lock[o] = NULL /\ a # NULL
      /\ lock' = [lock EXCEPT ![o] = a] /\ pc' = [pc EXCEPT ![a] = label]
      /\ UNCHANGED <<unlocking, task>>
  BY LockParts DEF AcquireLock, GoTo
<1>2. lock'[o] = a /\ \A x \in Orders : x # o => lock'[x] = lock[x]
  BY <1>1, LockParts
<1>3. pc'[a] = label /\ \A b \in Actors : b # a => pc'[b] = pc[b]
  BY <1>1, LockParts
<1>4. a \notin unlocking
  BY <1>1, LockParts DEF LockInv, LockKept, Protected
<1>5. Protected(a)'
  BY <1>1, <1>3 DEF Protected
<1>6. ASSUME NEW x \in Orders, NEW b \in Actors
      PROVE  lock'[x] = b <=> task'[b] = x /\ Protected(b)'
  <2>1. CASE b = a
    <3>1. lock[x] # a
      BY <1>1, LockParts DEF LockInv, LockKept, Protected
    <3> QED
      BY <1>1, <1>2, <1>5, <2>1, <3>1
  <2>2. CASE b # a
    <3>1. Protected(b)' <=> Protected(b)
      BY <1>1, <1>3, <2>2 DEF Protected
    <3>2. lock[x] = b <=> task[b] = x /\ Protected(b)
      BY DEF LockInv, LockKept
    <3>3. CASE x = o
      BY <1>1, <1>2, <2>2, <3>1, <3>2, <3>3, LockParts
    <3>4. CASE x # o
      BY <1>1, <1>2, <3>1, <3>2, <3>4
    <3> QED
      BY <3>3, <3>4
  <2> QED
    BY <2>1, <2>2
<1>7. \A d \in unlocking' : pc'[d] # "begin"
  BY <1>1, <1>3, <1>4, LockParts DEF LockInv
<1> QED
  BY <1>6, <1>7 DEF LockInv, LockKept

LEMMA GivesLock ==
    ASSUME IInv, LockInv, NEW a \in Actors,
           \A x \in Orders : lock'[x] = IF lock[x] = a THEN NULL ELSE lock[x],
           unlocking' = unlocking \ {a}, ~Protected(a)',
           \A b \in Actors : b # a => pc'[b] = pc[b] /\ task'[b] = task[b]
    PROVE  LockInv'
<1>1. ASSUME NEW x \in Orders, NEW b \in Actors
      PROVE  lock'[x] = b <=> task'[b] = x /\ Protected(b)'
  <2>1. CASE b = a
    BY <2>1, LockParts
  <2>2. CASE b # a
    <3>1. Protected(b)' <=> Protected(b)
      BY <2>2 DEF Protected
    <3>2. lock[x] = b <=> task[b] = x /\ Protected(b)
      BY DEF LockInv, LockKept
    <3> QED
      BY <2>2, <3>1, <3>2, LockParts
  <2> QED
    BY <2>1, <2>2
<1>2. \A d \in unlocking' : pc'[d] # "begin"
  BY LockParts DEF LockInv
<1> QED
  BY <1>1, <1>2 DEF LockInv, LockKept

(* The lock of its notification is the only one an actor can hold.            *)
LEMMA OneLock ==
    ASSUME IInv, LockInv, NEW a \in Actors, Protected(a), task[a] \in Orders,
           lock' = [lock EXCEPT ![task[a]] = NULL]
    PROVE  \A x \in Orders : lock'[x] = IF lock[x] = a THEN NULL ELSE lock[x]
BY LockParts DEF LockInv, LockKept

LEMMA LockStepKeeps == IInv /\ LockInv /\ [Next]_vars => LockInv'
<1> SUFFICES ASSUME IInv, LockInv, [Next]_vars PROVE LockInv'
  OBVIOUS
<1>1. ASSUME NEW a \in Actors, NEW label, GoTo(a, label)
      PROVE  \A b \in Actors : pc'[b] = IF b = a THEN label ELSE pc[b]
  BY <1>1, LockParts DEF GoTo
<1>2. /\ Worker \in Actors /\ Worker \notin Dispatches /\ unlocking \subseteq Actors
      /\ \A d \in Dispatches : d \in Actors /\ d # Worker
      /\ \A a \in Actors \ {Worker} : a \in Dispatches
  BY LockParts, DeliveryAssumption DEF Actors
(* Inside the attempt, or from the check to it.                              *)
<1>3. ASSUME NEW a \in Actors, UNCHANGED <<lock, unlocking, task>>,
             pc[a] \in Attempting \cup {"check"},
             NEW label \in Attempting \cup {"release", "reply"}, GoTo(a, label),
             a = Worker => label # "reply"
      PROVE  LockInv'
  <2>1. label # "begin" /\ pc[a] # "begin"
    BY <1>3 DEF Attempting
  <2>2. Protected(a)' <=> Protected(a)
    BY <1>1, <1>3, <2>1 DEF Protected
  <2> QED
    BY <1>1, <1>2, <1>3, <2>1, <2>2, SameLocks
<1>4. ASSUME NEW a \in Actors, AttemptStep(a) PROVE LockInv'
  <2>1. /\ pc[a] \in Attempting /\ UNCHANGED <<lock, unlocking, task>>
        /\ \/ \E label \in Attempting : GoTo(a, label)
           \/ \E status : EndAttempt(a, status)
    BY <1>4 DEF AttemptStep, Inspect, InspectFails, PostAccepted, PostUnanswered, RecordReconciled,
                RecordDelivered, RecordDeliveredThrows, RecordFailure, Attempting, locks
  <2>2. CASE \E label \in Attempting : GoTo(a, label)
    BY <1>3, <2>1, <2>2 DEF Attempting
  <2>3. CASE \E status : EndAttempt(a, status)
    BY <1>3, <2>1, <2>3 DEF EndAttempt
  <2> QED
    BY <2>1, <2>2, <2>3
(* The finally block of a dispatch issues the unlock.                        *)
<1>5. ASSUME NEW d \in Dispatches, pc[d] = "begin", UNCHANGED <<lock, task>>,
             unlocking' = unlocking \cup {d}, NEW label, GoTo(d, label), label # "begin"
      PROVE  LockInv'
  <2>1. Protected(d) /\ Protected(d)'
    BY <1>2, <1>5 DEF Protected
  <2> QED
    BY <1>1, <1>2, <1>5, <2>1, SameLocks
<1>6. ASSUME NEW a \in Actors, Throws(a) PROVE LockInv'
  <2> DEFINE label == IF a = Worker THEN "release" ELSE "reply"
  <2>1. /\ pc[a] \in {"begin", "check", "reconcile", "recordFailure"}
        /\ GoTo(a, label) /\ UNCHANGED <<lock, task>>
        /\ unlocking' = IF pc[a] = "begin" THEN unlocking \cup {a} ELSE unlocking
    BY <1>6 DEF Throws, EndAttempt
  <2>2. CASE pc[a] = "begin"
    <3>1. a \in Dispatches
      BY <1>2, <2>2, Parts DEF ActorTrue
    <3> QED
      BY <1>5, <2>1, <2>2, <3>1
  <2>3. CASE pc[a] # "begin"
    BY <1>3, <2>1, <2>3 DEF Attempting
  <2> QED
    BY <2>2, <2>3
<1>7. ASSUME NEW a \in Actors, Crash(a) PROVE LockInv'
  <2>1. /\ \A x \in Orders : lock'[x] = IF lock[x] = a THEN NULL ELSE lock[x]
        /\ unlocking' = unlocking \ {a}
        /\ GoTo(a, IF a = Worker THEN "idle" ELSE "done")
        /\ \A b \in Actors : b # a => task'[b] = task[b]
    BY <1>7, LockParts DEF Crash
  <2>2. ~Protected(a)'
    BY <1>1, <2>1 DEF Protected, Attempting
  <2> QED
    BY <1>1, <2>1, <2>2, GivesLock
<1>8. ASSUME NEW d \in Dispatches, DispatchStep(d) \/ Unlock(d) PROVE LockInv'
  <2>1. CASE AcquireLock(d)
    BY <1>2, <2>1, TakesLock
  <2>2. CASE Begin(d)
    <3>1. /\ pc[d] = "begin" /\ UNCHANGED <<lock, task>> /\ unlocking' = unlocking \cup {d}
          /\ \E label \in {"post", "inspect", "reply"} : GoTo(d, label)
      BY <1>2, <2>2 DEF Begin, EndAttempt
    <3> QED
      BY <1>5, <3>1
  <2>3. CASE Respond(d)
    <3>1. /\ pc[d] = "reply" /\ d \notin unlocking /\ GoTo(d, "done")
          /\ UNCHANGED <<lock, unlocking, task>>
      BY <2>3 DEF Respond, locks
    <3>2. ~Protected(d) /\ ~Protected(d)'
      BY <1>1, <1>2, <3>1 DEF Protected
    <3> QED
      BY <1>1, <1>2, <3>1, <3>2, SameLocks
  <2>4. CASE Unlock(d)
    <3>1. /\ d \in unlocking /\ unlocking' = unlocking \ {d}
          /\ lock' = [lock EXCEPT ![task[d]] = NULL] /\ UNCHANGED <<pc, task>>
      BY <2>4 DEF Unlock
    <3>2. Protected(d) /\ task[d] \in Orders /\ ~Protected(d)'
      BY <1>2, <3>1, LockParts DEF Protected, LockInv
    <3> QED
      BY <1>2, <3>1, <3>2, OneLock, GivesLock
  <2> QED
    BY <1>8, <2>1, <2>2, <2>3, <2>4 DEF DispatchStep
<1>9. CASE WorkerStep
  <2>1. CASE AcquireLock(Worker)
    BY <1>2, <2>1, TakesLock
  <2>2. CASE ListDue \/ TakeNext
    <3>1. /\ pc[Worker] \in {"idle", "next"} /\ UNCHANGED <<lock, unlocking>>
          /\ \E label \in {"next", "lock", "idle"} : GoTo(Worker, label)
          /\ task' = task \/ \E o : task' = [task EXCEPT ![Worker] = o]
      BY <2>2 DEF ListDue, TakeNext, locks
    <3>2. /\ ~Protected(Worker) /\ ~Protected(Worker)' /\ pc'[Worker] # "begin"
          /\ \A b \in Actors : b # Worker => pc'[b] = pc[b]
      BY <1>1, <1>2, <3>1 DEF Protected, Attempting
    <3>3. \A b \in Actors : b # Worker => task'[b] = task[b]
      BY <3>1, LockParts
    <3> QED
      BY <1>2, <3>1, <3>2, <3>3, SameLocks
  <2>3. CASE Check
    <3>1. /\ pc[Worker] = "check" /\ UNCHANGED <<lock, unlocking, task>>
          /\ \E label \in {"inspect", "release"} : GoTo(Worker, label)
      BY <2>3 DEF Check, locks
    <3> QED
      BY <1>2, <1>3, <3>1 DEF Attempting
  <2>4. CASE Release
    <3>1. /\ pc[Worker] = "release" /\ unlocking' = unlocking \ {Worker}
          /\ lock' = [lock EXCEPT ![task[Worker]] = NULL]
          /\ task' = [task EXCEPT ![Worker] = NULL] /\ GoTo(Worker, "next")
      BY <1>2, <2>4, LockParts DEF Release
    <3>2. Protected(Worker) /\ task[Worker] \in Orders /\ ~Protected(Worker)'
      BY <1>1, <1>2, <3>1, LockParts DEF Protected, Attempting
    <3>3. \A b \in Actors : b # Worker => pc'[b] = pc[b] /\ task'[b] = task[b]
      BY <1>1, <1>2, <3>1, LockParts
    <3> QED
      BY <1>2, <3>1, <3>2, <3>3, OneLock, GivesLock
  <2> QED
    BY <1>9, <2>1, <2>2, <2>3, <2>4 DEF WorkerStep
<1>10. CASE (\E o \in Orders : LateAccept(o) \/ BackoffElapses(o)) \/ Quiet \/ UNCHANGED vars
  <2>1. UNCHANGED <<lock, unlocking, pc, task>>
    BY <1>10 DEF LateAccept, BackoffElapses, Quiet, vars, locks
  <2> QED
    BY <2>1 DEF LockInv, LockKept, Protected
<1> QED
  BY <1>4, <1>6, <1>7, <1>8, <1>9, <1>10 DEF Next

LEMMA AlwaysLockInv == Spec => []LockInv
<1>1. Init => LockInv
  BY DispatchOrders, NoRecordIsNull DEF Init, LockInv, LockKept, Protected, Attempting, Actors
<1> QED
  BY <1>1, LockStepKeeps, AlwaysIInv, PTL DEF Spec

(* No lock is left behind: however an attempt ends, its actor gives back its    *)
(* own lock and no other, and the next one finds the notification free.       *)
THEOREM LocksAreKept == Spec => []LockKept
<1>1. LockInv => LockKept
  BY DEF LockInv
<1> QED
  BY <1>1, AlwaysLockInv, PTL

Attempts(a) == pc[a] \in Attempting

(* Two attempts of one notification overlap only behind the unlock of a        *)
(* dispatch that was issued, and took effect, while its attempt was running:   *)
(* the promise that the try block returns without awaiting it.               *)
OverlapIsEarlyUnlock ==
    \A a, b \in Actors :
        (a # b /\ task[a] = task[b] /\ Attempts(a) /\ Attempts(b)) =>
            \E d \in {a, b} \cap Dispatches : d \notin unlocking

LEMMA OverlapIn == IInv /\ LockInv => OverlapIsEarlyUnlock
<1> SUFFICES ASSUME IInv, LockInv, NEW a \in Actors, NEW b \in Actors, a # b, task[a] = task[b],
                    Attempts(a), Attempts(b), \A d \in {a, b} \cap Dispatches : d \in unlocking
             PROVE  FALSE
  BY DEF OverlapIsEarlyUnlock
<1>1. Protected(a) /\ Protected(b)
  BY LockParts DEF Actors, Attempts, Protected
<1>2. task[a] \in Orders
  BY LockParts DEF Attempts, Attempting
<1> QED
  BY <1>1, <1>2 DEF LockInv, LockKept

(* Sending, retrying and the worker cannot overlap in any other way.          *)
THEOREM OverlapsAreEarlyUnlocks == Spec => []OverlapIsEarlyUnlock
BY OverlapIn, AlwaysIInv, AlwaysLockInv, PTL

(* The executions in which the finally block waits for the attempt, as they    *)
(* would be with return await: there the provider call is the only one about   *)
(* its notification, and the provider is told once.                          *)
UnlockAwaited == \A d \in Dispatches : Attempts(d) => d \in unlocking

(* Then what the comment in the service says is so: one call in flight.       *)
THEOREM AwaitingMakesCallsSingle == Spec /\ []UnlockAwaited => []OneCallInFlight
<1>1. OverlapIsEarlyUnlock /\ UnlockAwaited => OneCallInFlight
  BY DEF OverlapIsEarlyUnlock, UnlockAwaited, OneCallInFlight, Attempts, Attempting
<1> QED
  BY <1>1, OverlapsAreEarlyUnlocks, PTL

(* And so is what the lock is there for: the recipient gets one message.      *)
THEOREM AwaitingMakesMessagesSingle ==
    ASSUME SlowProvider = FALSE
    PROVE  Spec /\ []UnlockAwaited => []SingleMessage
BY AwaitingMakesCallsSingle, OneCallMakesMessagesSingle, PTL
=============================================================================
